-------------------------- MODULE ConversationProofs --------------------------
(***************************************************************************)
(* Proofs about Conversation, for every set of messages, every clock skew  *)
(* and every cap on the stored messages.                                   *)
(***************************************************************************)
EXTENDS Conversation, FiniteSetTheorems, TLAPS

USE MessagesAssumption, LimitsAssumption

--------------------------------------------------------------------------------
(* What the sequence operators of UpsertMessage return, position by position *)

LEMMA ConcatPositions ==
    ASSUME NEW S, NEW s \in Seq(S), NEW t \in Seq(S)
    PROVE /\ s \o t \in Seq(S)
          /\ Len(s \o t) = Len(s) + Len(t)
          /\ \A i \in 1..Len(s) + Len(t) :
                (s \o t)[i] = IF i <= Len(s) THEN s[i] ELSE t[i - Len(s)]
OBVIOUS

\* t is s with e put in at position k.
Shifted(t, s, k, e) ==
    \A i \in 1..Len(s) + 1 :
        /\ i < k => t[i] = s[i]
        /\ i = k => t[i] = e
        /\ i > k => t[i] = s[i - 1]

\* InsertAt moves the elements from position k on one place up.
LEMMA InsertAtPositions ==
    ASSUME NEW S, NEW s \in Seq(S), NEW e \in S, NEW k \in 1..Len(s) + 1
    PROVE /\ InsertAt(s, k, e) \in Seq(S)
          /\ Len(InsertAt(s, k, e)) = Len(s) + 1
          /\ Shifted(InsertAt(s, k, e), s, k, e)
<1> DEFINE front == SubSeq(s, 1, k - 1)
           back == SubSeq(s, k, Len(s))
           head == front \o <<e>>
<1>1. front \in Seq(S) /\ Len(front) = k - 1 /\ \A i \in 1..k - 1 : front[i] = s[i]
  OBVIOUS
<1>2. /\ back \in Seq(S)
      /\ Len(back) = Len(s) + 1 - k
      /\ \A i \in 1..Len(s) + 1 - k : back[i] = s[k + i - 1]
  OBVIOUS
<1>3. InsertAt(s, k, e) = head \o back
  BY DEF InsertAt
<1> HIDE DEF front, back
<1>4. /\ head \in Seq(S)
      /\ Len(head) = k
      /\ \A i \in 1..k : head[i] = IF i < k THEN s[i] ELSE e
  BY <1>1
<1>5. \A i \in 1..Len(s) + 1 : i > k => back[i - k] = s[i - 1]
  BY <1>2
<1> HIDE DEF head
<1>6. /\ head \o back \in Seq(S)
      /\ Len(head \o back) = Len(head) + Len(back)
      /\ \A i \in 1..Len(head) + Len(back) :
            (head \o back)[i] =
                IF i <= Len(head) THEN head[i] ELSE back[i - Len(head)]
  BY <1>2, <1>4, ConcatPositions
<1>7. Len(head) + Len(back) = Len(s) + 1
  BY <1>2, <1>4
<1>8. ASSUME NEW i \in 1..Len(s) + 1
      PROVE /\ i < k => (head \o back)[i] = s[i]
            /\ i = k => (head \o back)[i] = e
            /\ i > k => (head \o back)[i] = s[i - 1]
  <2>1. CASE i <= k
    <3>1. (head \o back)[i] = head[i]
      BY <2>1, <1>4, <1>6, <1>7
    <3>2. i \in 1..k
      BY <2>1
    <3> QED BY <3>1, <3>2, <1>4
  <2>2. CASE i > k
    <3>1. (head \o back)[i] = back[i - k]
      BY <2>2, <1>4, <1>6, <1>7
    <3> QED BY <3>1, <2>2, <1>5
  <2>3. i <= k \/ i > k
    OBVIOUS
  <2> QED BY <2>1, <2>2, <2>3, Zenon
<1> QED BY <1>3, <1>6, <1>7, <1>8 DEF Shifted

\* Newest drops from the front what exceeds the cap, and nothing else.
Excess(s) == IF Len(s) > MaxMessages THEN Len(s) - MaxMessages ELSE 0

LEMMA NewestPositions ==
    ASSUME NEW S, NEW s \in Seq(S)
    PROVE /\ Excess(s) \in 0..Len(s)
          /\ Newest(s) \in Seq(S)
          /\ Len(Newest(s)) = Len(s) - Excess(s)
          /\ Len(Newest(s)) <= MaxMessages
          /\ \A i \in 1..Len(s) - Excess(s) : Newest(s)[i] = s[i + Excess(s)]
<1>1. CASE Len(s) > MaxMessages
  BY <1>1 DEF Excess, Newest
<1>2. CASE ~(Len(s) > MaxMessages)
  BY <1>2 DEF Excess, Newest
<1> QED BY <1>1, <1>2

\* What an insertion makes of the thread: the new message comes in at position
\* k, and the first d positions of the result are cut off.
Inserted(m, k, d) ==
    /\ k \in 1..Len(msgs) + 1
    /\ SortsTo(msgs, m, k)
    /\ d \in 0..Len(msgs) + 1
    /\ d > 0 => Len(msgs) + 1 - d = MaxMessages
    /\ msgs' \in Seq(Message)
    /\ Len(msgs') = Len(msgs) + 1 - d
    /\ Len(msgs') <= MaxMessages
    /\ \A i \in 1..Len(msgs) + 1 - d :
          /\ i + d < k => msgs'[i] = msgs[i + d]
          /\ i + d = k => msgs'[i] = m
          /\ i + d > k => msgs'[i] = msgs[i + d - 1]

LEMMA InsertPositions ==
    ASSUME msgs \in Seq(Message), NEW m \in Message, Insert(m)
    PROVE \E k, d \in Nat : Inserted(m, k, d)
<1>1. PICK k \in 1..Len(msgs) + 1 :
        SortsTo(msgs, m, k) /\ msgs' = Newest(InsertAt(msgs, k, m))
  BY DEF Insert
<1> DEFINE t == InsertAt(msgs, k, m)
           d == Excess(t)
<1>2. /\ t \in Seq(Message)
      /\ Len(t) = Len(msgs) + 1
      /\ \A i \in 1..Len(msgs) + 1 :
            /\ i < k => t[i] = msgs[i]
            /\ i = k => t[i] = m
            /\ i > k => t[i] = msgs[i - 1]
  <2>1. t \in Seq(Message)
    BY InsertAtPositions
  <2>2. Len(t) = Len(msgs) + 1
    BY InsertAtPositions
  <2>3. Shifted(t, msgs, k, m)
    BY InsertAtPositions
  <2> QED BY <2>1, <2>2, <2>3, Zenon DEF Shifted
<1>3. d > 0 => Len(t) - d = MaxMessages
  BY <1>2 DEF Excess
<1> HIDE DEF t
<1>4. /\ d \in 0..Len(t)
      /\ Newest(t) \in Seq(Message)
      /\ Len(Newest(t)) = Len(t) - d
      /\ Len(Newest(t)) <= MaxMessages
      /\ \A i \in 1..Len(t) - d : Newest(t)[i] = t[i + d]
  <2>1. t \in Seq(Message)
    BY <1>2
  <2> QED BY <2>1, NewestPositions
<1> HIDE DEF d
<1>5. msgs' = Newest(t)
  BY <1>1 DEF t
<1>6. k \in Nat /\ d \in Nat
  BY <1>2, <1>4
<1>7. ASSUME NEW i \in 1..Len(msgs) + 1 - d
      PROVE /\ i + d < k => msgs'[i] = msgs[i + d]
            /\ i + d = k => msgs'[i] = m
            /\ i + d > k => msgs'[i] = msgs[i + d - 1]
  <2>1. i + d \in 1..Len(msgs) + 1 /\ i \in 1..Len(t) - d
    BY <1>2, <1>4
  <2>2. msgs'[i] = t[i + d]
    BY <2>1, <1>4, <1>5
  <2> QED BY <2>1, <2>2, <1>2, <1>6
<1>8. Inserted(m, k, d)
  <2>1. d \in 0..Len(msgs) + 1 /\ (d > 0 => Len(msgs) + 1 - d = MaxMessages)
    BY <1>2, <1>3, <1>4
  <2>2. /\ msgs' \in Seq(Message)
        /\ Len(msgs') = Len(msgs) + 1 - d
        /\ Len(msgs') <= MaxMessages
    BY <1>2, <1>4, <1>5
  <2> QED BY <2>1, <2>2, <1>1, <1>7, Zenon DEF Inserted
<1> QED BY <1>6, <1>8

--------------------------------------------------------------------------------
(* What a step does to the thread *)

\* The same messages in the same places; only statuses may differ.
SameThread ==
    /\ msgs' \in Seq(Message)
    /\ Len(msgs') = Len(msgs)
    /\ \A i \in 1..Len(msgs) :
          msgs'[i].id = msgs[i].id /\ msgs'[i].time = msgs[i].time

LEMMA UpdateEffect ==
    ASSUME msgs \in Seq(Message), NEW m \in Message, Update(m)
    PROVE /\ SameThread
          /\ \A i \in 1..Len(msgs) : msgs'[i].status \in {msgs[i].status, m.status}
<1>1. PICK i \in DOMAIN msgs : msgs' = [msgs EXCEPT ![i] = Merge(@, m)]
  BY DEF Update
<1>2. i \in 1..Len(msgs) /\ msgs[i] \in Message
  OBVIOUS
<1>3. /\ Merge(msgs[i], m) \in Message
      /\ Merge(msgs[i], m).id = msgs[i].id
      /\ Merge(msgs[i], m).time = msgs[i].time
      /\ Merge(msgs[i], m).status \in {msgs[i].status, m.status}
  BY <1>2 DEF Merge, Message
<1>4. msgs' = [msgs EXCEPT ![i] = Merge(msgs[i], m)]
  BY <1>1
<1> HIDE DEF Merge
<1> QED BY <1>2, <1>3, <1>4 DEF SameThread

LEMMA SetStatusEffect ==
    ASSUME msgs \in Seq(Message), NEW id \in Ids, NEW status \in Statuses,
           SetStatus(id, status)
    PROVE /\ SameThread
          /\ \A i \in 1..Len(msgs) :
                \/ msgs'[i].status = msgs[i].status
                \/ msgs[i].id = id /\ msgs'[i].status = status
<1>1. CASE Stored(id)
  <2>1. PICK i \in DOMAIN msgs :
          msgs[i].id = id /\ msgs' = [msgs EXCEPT ![i].status = status]
    BY <1>1 DEF SetStatus
  <2>2. i \in 1..Len(msgs) /\ msgs[i] \in Message
    OBVIOUS
  <2> DEFINE new == [msgs[i] EXCEPT !.status = status]
  <2>3. /\ new \in Message
        /\ new.id = msgs[i].id
        /\ new.time = msgs[i].time
        /\ new.status = status
    BY <2>2 DEF Message
  <2>4. msgs' = [msgs EXCEPT ![i] = new]
    BY <2>1
  <2> HIDE DEF new
  <2>5. /\ msgs' \in Seq(Message)
        /\ Len(msgs') = Len(msgs)
        /\ \A j \in 1..Len(msgs) : msgs'[j] = IF j = i THEN new ELSE msgs[j]
    BY <2>2, <2>3, <2>4
  <2> QED BY <2>1, <2>3, <2>5 DEF SameThread
<1>2. CASE ~Stored(id)
  BY <1>2 DEF SetStatus, SameThread
<1> QED BY <1>1, <1>2

\* Every step upserts a message that is not marked read, as sent if it is one's
\* own, sets a status because of a receipt, or leaves the thread alone.
Upsert ==
    /\ \E m \in Message :
        /\ UpsertMessage(m)
        /\ m.status # "read"
        /\ m.id \in Own => m.status = "sent"
    /\ heard' = heard

StatusSet ==
    /\ \E id \in Ids, type \in ReceiptTypes :
        /\ SetStatus(id, ReceiptStatus(type))
        /\ heard' = [heard EXCEPT ![id] = @ \cup {type}]
    /\ inserted' = inserted

LEMMA ThreadStep ==
    ASSUME TypeOK, [Next]_vars
    PROVE Upsert \/ StatusSet \/ UNCHANGED <<msgs, heard, inserted>>
<1>1. ASSUME NEW id \in Ids, LiveMessage(id) PROVE Upsert
  <2> DEFINE m == [id |-> id, time |-> SentAt[id],
                   status |-> IF id \in Own THEN "sent" ELSE "received"]
  <2>1. m \in Message /\ m.status # "read" /\ (m.id \in Own => m.status = "sent")
    BY DEF Message, Statuses
  <2>2. UpsertMessage(m) /\ heard' = heard
    BY <1>1 DEF LiveMessage
  <2> HIDE DEF m
  <2> QED BY <2>1, <2>2 DEF Upsert
<1>2. ASSUME NEW id \in Sent, NEW skew \in Skews, RecordSent(id, skew) PROVE Upsert
  <2> DEFINE m == [id |-> id, time |-> SentAt[id] + skew, status |-> "sent"]
  <2>1. m \in Message /\ m.status # "read" /\ (m.id \in Own => m.status = "sent")
    BY DEF Message, Statuses
  <2>2. UpsertMessage(m) /\ heard' = heard
    BY <1>2 DEF RecordSent
  <2> HIDE DEF m
  <2> QED BY <2>1, <2>2 DEF Upsert
<1>3. ASSUME NEW id \in Ids, SyncMessage(id) PROVE Upsert
  <2> DEFINE m == [id |-> id, time |-> SentAt[id],
                   status |-> IF id \in Own THEN "sent" ELSE ""]
  <2>1. m \in Message /\ m.status # "read" /\ (m.id \in Own => m.status = "sent")
    BY DEF Message, Statuses
  <2>2. UpsertMessage(m) /\ heard' = heard
    BY <1>3 DEF SyncMessage
  <2> HIDE DEF m
  <2> QED BY <2>1, <2>2 DEF Upsert
<1>4. ASSUME NEW id \in Ids, NEW type \in ReceiptTypes, Receipt(id, type)
      PROVE StatusSet
  BY <1>4 DEF Receipt, StatusSet
<1>5. ASSUME NEW id \in Sent, SendText(id) \/ SendAbandoned(id)
      PROVE UNCHANGED <<msgs, heard, inserted>>
  BY <1>5 DEF SendText, SendAbandoned
<1>6. ASSUME NEW ids \in SUBSET Ids, HistorySync(ids)
      PROVE UNCHANGED <<msgs, heard, inserted>>
  BY <1>6 DEF HistorySync
<1>7. RequestHistoryBackfill \/ BackfillAnswer => UNCHANGED <<msgs, heard, inserted>>
  BY DEF RequestHistoryBackfill, BackfillAnswer
<1>8. UNCHANGED vars => UNCHANGED <<msgs, heard, inserted>>
  BY DEF vars
<1> QED BY <1>1, <1>2, <1>3, <1>4, <1>5, <1>6, <1>7, <1>8 DEF Next

LEMMA ThreadTyped ==
    ASSUME TypeOK, [Next]_vars
    PROVE msgs' \in Seq(Message) /\ Len(msgs') <= MaxMessages
<1>1. CASE Upsert
  <2>1. PICK m \in Message : UpsertMessage(m)
    BY <1>1 DEF Upsert
  <2>2. CASE Update(m)
    BY <2>2, UpdateEffect DEF TypeOK, SameThread
  <2>3. CASE Insert(m)
    BY <2>3, InsertPositions DEF TypeOK, Inserted
  <2> QED BY <2>1, <2>2, <2>3 DEF UpsertMessage
<1>2. CASE StatusSet
  <2>1. PICK id \in Ids, type \in ReceiptTypes : SetStatus(id, ReceiptStatus(type))
    BY <1>2 DEF StatusSet
  <2>2. ReceiptStatus(type) \in Statuses
    BY DEF ReceiptStatus, Statuses
  <2> QED BY <2>1, <2>2, SetStatusEffect DEF TypeOK, SameThread
<1>3. CASE UNCHANGED <<msgs, heard, inserted>>
  BY <1>3 DEF TypeOK
<1> QED BY <1>1, <1>2, <1>3, ThreadStep

LEMMA HistoryTyped ==
    ASSUME TypeOK, [Next]_vars
    PROVE heard' \in [Ids -> SUBSET ReceiptTypes]
          /\ inserted' \in SUBSET [id : Ids, time : Int]
<1>1. CASE Upsert
  <2>1. PICK m \in Message : UpsertMessage(m)
    BY <1>1 DEF Upsert
  <2>2. inserted' = inserted \/ inserted' = inserted \cup {[id |-> m.id, time |-> m.time]}
    BY <2>1 DEF UpsertMessage, Update, Insert
  <2> QED BY <1>1, <2>2 DEF Upsert, TypeOK, Message
<1>2. CASE StatusSet
  BY <1>2 DEF StatusSet, TypeOK
<1>3. CASE UNCHANGED <<msgs, heard, inserted>>
  BY <1>3 DEF TypeOK
<1> QED BY <1>1, <1>2, <1>3, ThreadStep

RequestsOK ==
    /\ sends \in [Sent -> {"idle", "out", "recorded", "abandoned"}]
    /\ asked \in SUBSET Ids
    /\ blob \in SUBSET Ids

LEMMA RequestsTyped ==
    ASSUME TypeOK, [Next]_vars
    PROVE RequestsOK'
<1> USE DEF TypeOK, RequestsOK
<1>1. ASSUME NEW id \in Ids, LiveMessage(id)
      PROVE UNCHANGED <<sends, asked, blob>>
  BY <1>1 DEF LiveMessage
<1>2. ASSUME NEW id \in Ids, NEW type \in ReceiptTypes, Receipt(id, type)
      PROVE UNCHANGED <<sends, asked, blob>>
  BY <1>2 DEF Receipt
<1>3. ASSUME NEW id \in Sent, SendText(id) \/ SendAbandoned(id)
      PROVE RequestsOK'
  BY <1>3 DEF SendText, SendAbandoned
<1>4. ASSUME NEW id \in Sent, NEW skew \in Skews, RecordSent(id, skew)
      PROVE RequestsOK'
  BY <1>4 DEF RecordSent
<1>5. ASSUME NEW ids \in SUBSET Ids, HistorySync(ids) PROVE RequestsOK'
  BY <1>5 DEF HistorySync
<1>6. ASSUME NEW id \in Ids, SyncMessage(id) PROVE RequestsOK'
  BY <1>6 DEF SyncMessage
<1>7. CASE RequestHistoryBackfill
  <2>1. msgs[1] \in Message
    BY <1>7 DEF RequestHistoryBackfill
  <2>2. OldestMessage.id \in Ids
    BY <2>1 DEF OldestMessage, Message
  <2> QED BY <1>7, <2>2 DEF RequestHistoryBackfill
<1>8. CASE BackfillAnswer
  <2>1. PICK anchor \in asked : /\ blob' \in SUBSET Before(anchor)
                                /\ asked' = asked \ {anchor}
    BY <1>8 DEF BackfillAnswer
  <2> QED BY <1>8, <2>1 DEF BackfillAnswer, Before
<1>9. CASE UNCHANGED vars
  BY <1>9 DEF vars
<1> QED BY <1>1, <1>2, <1>3, <1>4, <1>5, <1>6, <1>7, <1>8, <1>9 DEF Next

\* Whatever the interleaving, every variable keeps its type and the thread never
\* grows beyond maxMessages.
THEOREM TypeCorrect == Spec => []TypeOK
<1>1. Init => TypeOK
  BY DEF Init, TypeOK, Message
<1>2. TypeOK /\ [Next]_vars => TypeOK'
  BY ThreadTyped, HistoryTyped, RequestsTyped DEF TypeOK, RequestsOK
<1> QED BY <1>1, <1>2, PTL DEF Spec

--------------------------------------------------------------------------------
(* Order *)

\* SortsTo keeps the order, trimming cannot disturb it, and an id that is
\* inserted was not stored before.
LEMMA InsertedOrder ==
    ASSUME TypeOK, Chronological, NEW m \in Message, ~Stored(m.id),
           NEW k \in Nat, NEW d \in Nat, Inserted(m, k, d)
    PROVE Chronological'
<1>1. /\ msgs \in Seq(Message)
      /\ msgs' \in Seq(Message)
      /\ Len(msgs') = Len(msgs) + 1 - d
      /\ m.time \in Int
      /\ \A i \in 1..Len(msgs) : msgs[i].time \in Int /\ msgs[i].id # m.id
  <2>1. /\ msgs \in Seq(Message)
        /\ msgs' \in Seq(Message)
        /\ Len(msgs') = Len(msgs) + 1 - d
    BY DEF TypeOK, Inserted
  <2>2. DOMAIN msgs = 1..Len(msgs)
    BY <2>1
  <2>3. ASSUME NEW i \in 1..Len(msgs)
        PROVE msgs[i].time \in Int /\ msgs[i].id # m.id
    <3>1. msgs[i] \in Message
      BY <2>1
    <3> QED BY <3>1, <2>2 DEF Message, Stored
  <2> QED BY <2>1, <2>3 DEF Message
<1>2. SUFFICES ASSUME NEW i \in 1..Len(msgs'), NEW j \in 1..Len(msgs'), i < j
               PROVE msgs'[i].time <= msgs'[j].time /\ msgs'[i].id # msgs'[j].id
  <2>1. DOMAIN (msgs') = 1..Len(msgs')
    BY <1>1
  <2> QED BY <2>1, Zenon DEF Chronological
<1> DEFINE a == i + d
           b == j + d
<1>3. a \in 1..Len(msgs) + 1 /\ b \in 1..Len(msgs) + 1 /\ a < b
  BY <1>1, <1>2
<1>4. /\ a < k => msgs'[i] = msgs[a]
      /\ a = k => msgs'[i] = m
      /\ a > k => msgs'[i] = msgs[a - 1]
      /\ b < k => msgs'[j] = msgs[b]
      /\ b = k => msgs'[j] = m
      /\ b > k => msgs'[j] = msgs[b - 1]
  BY <1>1 DEF Inserted
<1> HIDE DEF a, b
<1>5. /\ k \in 1..Len(msgs) + 1
      /\ \A n \in 1..k - 1 : msgs[n].time <= m.time
      /\ \A n \in k..Len(msgs) : m.time < msgs[n].time
  BY DEF Inserted, SortsTo
<1>6. \A n, o \in 1..Len(msgs) :
        n < o => msgs[n].time <= msgs[o].time /\ msgs[n].id # msgs[o].id
  BY <1>1 DEF Chronological
<1>7. CASE b < k
  BY <1>3, <1>4, <1>5, <1>6, <1>7
<1>8. CASE b = k
  <2>1. a \in 1..k - 1 /\ a \in 1..Len(msgs) /\ a < k
    BY <1>3, <1>5, <1>8
  <2> QED BY <2>1, <1>1, <1>4, <1>5, <1>8
<1>9. CASE b > k
  <2>1. CASE a < k
    <3>1. a \in 1..Len(msgs) /\ b - 1 \in 1..Len(msgs) /\ a < b - 1
      BY <1>3, <1>5, <1>9, <2>1
    <3> QED BY <3>1, <1>4, <1>6, <1>9, <2>1
  <2>2. CASE a = k
    <3>1. b - 1 \in k..Len(msgs) /\ b - 1 \in 1..Len(msgs)
      BY <1>3, <1>5, <1>9
    <3> QED BY <3>1, <1>1, <1>4, <1>5, <1>9, <2>2
  <2>3. CASE a > k
    <3>1. a - 1 \in 1..Len(msgs) /\ b - 1 \in 1..Len(msgs) /\ a - 1 < b - 1
      BY <1>3, <1>5, <1>9, <2>3
    <3> QED BY <3>1, <1>4, <1>6, <1>9, <2>3
  <2> QED BY <1>3, <1>5, <2>1, <2>2, <2>3
<1> QED BY <1>3, <1>5, <1>7, <1>8, <1>9

LEMMA SameThreadOrder ==
    ASSUME TypeOK, Chronological, SameThread
    PROVE Chronological'
<1>1. /\ DOMAIN msgs = 1..Len(msgs)
      /\ DOMAIN (msgs') = 1..Len(msgs)
  BY DEF TypeOK, SameThread
<1> QED BY <1>1, Zenon DEF Chronological, SameThread

LEMMA OrderStep ==
    ASSUME TypeOK, Chronological, [Next]_vars
    PROVE Chronological'
<1>1. CASE Upsert
  <2>1. PICK m \in Message : UpsertMessage(m)
    BY <1>1 DEF Upsert
  <2>2. CASE Update(m)
    BY <2>2, UpdateEffect, SameThreadOrder DEF TypeOK
  <2>3. CASE Insert(m)
    <3>1. ~Stored(m.id)
      BY <2>3 DEF Insert
    <3>2. PICK k, d \in Nat : Inserted(m, k, d)
      BY <2>3, InsertPositions DEF TypeOK
    <3> QED BY <3>1, <3>2, InsertedOrder
  <2> QED BY <2>1, <2>2, <2>3 DEF UpsertMessage
<1>2. CASE StatusSet
  <2>1. PICK id \in Ids, type \in ReceiptTypes : SetStatus(id, ReceiptStatus(type))
    BY <1>2 DEF StatusSet
  <2>2. ReceiptStatus(type) \in Statuses
    BY DEF ReceiptStatus, Statuses
  <2>3. SameThread
    BY <2>1, <2>2, SetStatusEffect DEF TypeOK
  <2> QED BY <2>3, SameThreadOrder
<1>3. CASE UNCHANGED <<msgs, heard, inserted>>
  BY <1>3 DEF Chronological
<1> QED BY <1>1, <1>2, <1>3, ThreadStep

\* The thread is in time order and without duplicates in every reachable state:
\* sorting on insertion is enough, because a merge never moves a message.
THEOREM ThreadChronological == Spec => []Chronological
<1>1. Init => Chronological
  BY DEF Init, Chronological
<1>2. TypeOK /\ Chronological /\ [Next]_vars => Chronological'
  BY OrderStep
<1> QED BY <1>1, <1>2, TypeCorrect, PTL DEF Spec

--------------------------------------------------------------------------------
(* Trimming *)

\* e is in the thread, or it fell off a full one as no newer than what is left.
Kept(e) ==
    \/ \E i \in 1..Len(msgs) : msgs[i].id = e.id /\ e.time <= msgs[i].time
    \/ /\ Len(msgs) = MaxMessages
       /\ \A i \in 1..Len(msgs) : e.time <= msgs[i].time

LEMMA NewestKeptIsKept ==
    ASSUME msgs \in Seq(Message)
    PROVE NewestKept <=> \A e \in inserted : Kept(e)
<1>1. DOMAIN msgs = 1..Len(msgs)
  OBVIOUS
<1> QED BY <1>1 DEF NewestKept, Kept

LEMMA InsertedKeeps ==
    ASSUME TypeOK, Chronological, NEW m \in Message,
           NEW k \in Nat, NEW d \in Nat, Inserted(m, k, d),
           NEW e, e.time \in Int,
           Kept(e) \/ (e.id = m.id /\ e.time = m.time)
    PROVE Kept(e)'
<1>1. /\ msgs \in Seq(Message)
      /\ msgs' \in Seq(Message)
      /\ Len(msgs) \in Nat
      /\ Len(msgs') = Len(msgs) + 1 - d
      /\ Len(msgs) <= MaxMessages
      /\ Len(msgs') <= MaxMessages
      /\ d \in 0..Len(msgs) + 1
      /\ d > 0 => Len(msgs') = MaxMessages
      /\ k \in 1..Len(msgs) + 1
  BY DEF TypeOK, Inserted
<1>2. /\ m.time \in Int
      /\ \A i \in 1..Len(msgs) : msgs[i].time \in Int
      /\ DOMAIN msgs = 1..Len(msgs)
  <2>1. DOMAIN msgs = 1..Len(msgs) /\ \A i \in 1..Len(msgs) : msgs[i] \in Message
    BY <1>1
  <2>2. \A x \in Message : x.time \in Int
    BY DEF Message
  <2> QED BY <2>1, <2>2
<1>3. /\ \A n \in 1..k - 1 : msgs[n].time <= m.time
      /\ \A n \in k..Len(msgs) : m.time < msgs[n].time
  BY DEF Inserted, SortsTo
<1>4. \A n, o \in 1..Len(msgs) : n <= o => msgs[n].time <= msgs[o].time
  <2> SUFFICES ASSUME NEW n \in 1..Len(msgs), NEW o \in 1..Len(msgs), n <= o
               PROVE msgs[n].time <= msgs[o].time
    OBVIOUS
  <2>1. CASE n < o
    BY <2>1, <1>2 DEF Chronological
  <2>2. CASE n = o
    BY <2>2, <1>2
  <2> QED BY <2>1, <2>2, <1>1
<1>5. \A j \in 1..Len(msgs') :
        /\ j + d < k => msgs'[j] = msgs[j + d]
        /\ j + d = k => msgs'[j] = m
        /\ j + d > k => msgs'[j] = msgs[j + d - 1]
  BY <1>1 DEF Inserted
<1>6. CASE \E i \in 1..Len(msgs) : msgs[i].id = e.id /\ e.time <= msgs[i].time
  <2>1. PICK i \in 1..Len(msgs) : msgs[i].id = e.id /\ e.time <= msgs[i].time
    BY <1>6
  <2>2. CASE i < k /\ i > d
    <3>1. i - d \in 1..Len(msgs') /\ msgs'[i - d] = msgs[i]
      BY <1>1, <1>5, <2>2
    <3> QED BY <2>1, <3>1 DEF Kept
  <2>3. CASE i >= k /\ i + 1 > d
    <3>1. i + 1 - d \in 1..Len(msgs') /\ msgs'[i + 1 - d] = msgs[i]
      BY <1>1, <1>5, <2>3
    <3> QED BY <2>1, <3>1 DEF Kept
  <2>4. CASE i < k /\ i <= d
    <3>1. ASSUME NEW j \in 1..Len(msgs') PROVE e.time <= msgs'[j].time
      <4>1. CASE j + d < k
        <5>1. j + d \in 1..Len(msgs) /\ i <= j + d
          BY <1>1, <2>4, <4>1
        <5>2. msgs[i].time <= msgs[j + d].time /\ msgs'[j] = msgs[j + d]
          BY <5>1, <1>4, <1>5, <4>1
        <5> QED BY <5>1, <5>2, <2>1, <1>2
      <4>2. CASE j + d = k
        <5>1. msgs[i].time <= m.time
          BY <1>1, <1>3, <2>4
        <5>2. msgs'[j] = m
          BY <1>5, <4>2
        <5> QED BY <5>1, <5>2, <1>2, <2>1
      <4>3. CASE j + d > k
        <5>1. j + d - 1 \in 1..Len(msgs) /\ i <= j + d - 1
          BY <1>1, <2>4, <4>3
        <5>2. msgs[i].time <= msgs[j + d - 1].time /\ msgs'[j] = msgs[j + d - 1]
          BY <5>1, <1>4, <1>5, <4>3
        <5> QED BY <5>1, <5>2, <2>1, <1>2
      <4> QED BY <4>1, <4>2, <4>3, <1>1
    <3>2. d > 0
      BY <2>4
    <3> QED BY <3>1, <3>2, <1>1 DEF Kept
  <2>5. CASE i >= k /\ i + 1 <= d
    <3>1. ASSUME NEW j \in 1..Len(msgs') PROVE e.time <= msgs'[j].time
      <4>1. j + d > k /\ j + d - 1 \in 1..Len(msgs) /\ i <= j + d - 1
        BY <1>1, <2>5
      <4>2. msgs[i].time <= msgs[j + d - 1].time /\ msgs'[j] = msgs[j + d - 1]
        BY <4>1, <1>4, <1>5
      <4> QED BY <4>1, <4>2, <2>1, <1>2
    <3>2. d > 0
      BY <2>5
    <3> QED BY <3>1, <3>2, <1>1 DEF Kept
  <2> QED BY <2>2, <2>3, <2>4, <2>5, <1>1
<1>7. CASE Len(msgs) = MaxMessages /\ \A i \in 1..Len(msgs) : e.time <= msgs[i].time
  <2>1. d > 0
    BY <1>1, <1>7
  <2>2. ASSUME NEW j \in 1..Len(msgs') PROVE e.time <= msgs'[j].time
    <3>1. CASE j + d < k
      <4>1. j + d \in 1..Len(msgs) /\ msgs'[j] = msgs[j + d]
        BY <1>1, <1>5, <3>1
      <4> QED BY <4>1, <1>7
    <3>2. CASE j + d = k
      <4>1. k - 1 \in 1..Len(msgs) /\ k - 1 \in 1..k - 1 /\ msgs'[j] = m
        BY <1>1, <1>5, <2>1, <3>2
      <4>2. e.time <= msgs[k - 1].time /\ msgs[k - 1].time <= m.time
        BY <4>1, <1>3, <1>7
      <4> QED BY <4>1, <4>2, <1>2
    <3>3. CASE j + d > k
      <4>1. j + d - 1 \in 1..Len(msgs) /\ msgs'[j] = msgs[j + d - 1]
        BY <1>1, <1>5, <3>3
      <4> QED BY <4>1, <1>7
    <3> QED BY <3>1, <3>2, <3>3, <1>1
  <2> QED BY <2>1, <2>2, <1>1 DEF Kept
<1>8. CASE e.id = m.id /\ e.time = m.time
  <2>1. CASE k > d
    <3>1. k - d \in 1..Len(msgs') /\ msgs'[k - d] = m
      BY <1>1, <1>5, <2>1
    <3> QED BY <3>1, <1>2, <1>8 DEF Kept
  <2>2. CASE k <= d
    <3>1. ASSUME NEW j \in 1..Len(msgs') PROVE e.time <= msgs'[j].time
      <4>1. /\ j + d - 1 \in k..Len(msgs)
            /\ j + d - 1 \in 1..Len(msgs)
            /\ msgs'[j] = msgs[j + d - 1]
        BY <1>1, <1>5, <2>2
      <4>2. m.time < msgs[j + d - 1].time
        BY <4>1, <1>3
      <4> QED BY <4>1, <4>2, <1>2, <1>8
    <3>2. d > 0
      BY <1>1, <2>2
    <3> QED BY <3>1, <3>2, <1>1 DEF Kept
  <2> QED BY <2>1, <2>2, <1>1
<1> QED BY <1>6, <1>7, <1>8 DEF Kept

LEMMA SameThreadKeeps ==
    ASSUME SameThread, msgs \in Seq(Message), NEW e, Kept(e)
    PROVE Kept(e)'
BY DEF Kept, SameThread

LEMMA KeptStep ==
    ASSUME TypeOK, Chronological, NewestKept, [Next]_vars
    PROVE NewestKept'
<1>1. msgs \in Seq(Message) /\ msgs' \in Seq(Message)
  BY ThreadTyped DEF TypeOK
<1>2. \A e \in inserted : e.time \in Int /\ Kept(e)
  BY <1>1, NewestKeptIsKept DEF TypeOK
<1>3. SUFFICES ASSUME NEW e \in inserted' PROVE Kept(e)'
  <2>1. NewestKept' <=> \A e \in inserted' : Kept(e)'
    <3>1. DOMAIN (msgs') = 1..Len(msgs')
      BY <1>1
    <3> QED BY <3>1 DEF NewestKept, Kept
  <2> QED BY <2>1
<1>4. CASE Upsert
  <2>1. PICK m \in Message : UpsertMessage(m)
    BY <1>4 DEF Upsert
  <2>2. CASE Update(m)
    <3>1. SameThread
      BY <1>1, <2>2, UpdateEffect
    <3>2. Kept(e)
      BY <1>2, <2>2 DEF Update
    <3> QED BY <1>1, <3>1, <3>2, SameThreadKeeps
  <2>3. CASE Insert(m)
    <3>1. PICK k, d \in Nat : Inserted(m, k, d)
      BY <1>1, <2>3, InsertPositions
    <3>2. e \in inserted \/ e = [id |-> m.id, time |-> m.time]
      BY <2>3 DEF Insert
    <3>3. e.time \in Int /\ (Kept(e) \/ (e.id = m.id /\ e.time = m.time))
      BY <1>2, <3>2 DEF Message
    <3> QED BY <3>1, <3>3, InsertedKeeps
  <2> QED BY <2>1, <2>2, <2>3 DEF UpsertMessage
<1>5. CASE StatusSet
  <2>1. PICK id \in Ids, type \in ReceiptTypes : SetStatus(id, ReceiptStatus(type))
    BY <1>5 DEF StatusSet
  <2>2. ReceiptStatus(type) \in Statuses
    BY DEF ReceiptStatus, Statuses
  <2>3. SameThread
    BY <1>1, <2>1, <2>2, SetStatusEffect
  <2>4. Kept(e)
    BY <1>2, <1>5 DEF StatusSet
  <2> QED BY <1>1, <2>3, <2>4, SameThreadKeeps
<1>6. CASE UNCHANGED <<msgs, heard, inserted>>
  BY <1>2, <1>6 DEF Kept
<1> QED BY <1>4, <1>5, <1>6, ThreadStep

\* A message that was inserted leaves the thread only when the thread is full
\* of messages that are no older: the cap drops the oldest, also when backfill
\* and live traffic insert at both ends at once.
THEOREM OldestGoFirst == Spec => []NewestKept
<1>1. Init => NewestKept
  BY DEF Init, NewestKept
<1>2. TypeOK /\ Chronological /\ NewestKept /\ [Next]_vars => NewestKept'
  BY KeptStep
<1> QED BY <1>1, <1>2, TypeCorrect, ThreadChronological, PTL DEF Spec

--------------------------------------------------------------------------------
(* Ticks *)

\* h holds a read receipt for the message.
ReadIn(h, id) == h[id] \cap {"read", "read-self"} # {}

LEMMA ReadStep ==
    ASSUME TypeOK, ReadMeansRead, [Next]_vars
    PROVE ReadMeansRead'
<1>1. /\ msgs \in Seq(Message)
      /\ DOMAIN msgs = 1..Len(msgs)
      /\ \A i \in 1..Len(msgs) : msgs[i].status = "read" => ReadIn(heard, msgs[i].id)
  <2>1. msgs \in Seq(Message)
    BY DEF TypeOK
  <2>2. DOMAIN msgs = 1..Len(msgs)
    BY <2>1
  <2> QED BY <2>1, <2>2 DEF ReadMeansRead, ReadIn
<1>2. SUFFICES ASSUME NEW i \in DOMAIN (msgs'), msgs'[i].status = "read"
               PROVE ReadIn(heard', msgs'[i].id)
  BY DEF ReadMeansRead, ReadIn
<1>3. CASE Upsert
  <2>1. PICK m \in Message : UpsertMessage(m) /\ m.status # "read"
    BY <1>3 DEF Upsert
  <2>2. \E j \in 1..Len(msgs) : msgs[j].id = msgs'[i].id /\ msgs[j].status = "read"
    <3>1. CASE Update(m)
      <4>1. /\ SameThread
            /\ \A j \in 1..Len(msgs) : msgs'[j].status \in {msgs[j].status, m.status}
        BY <1>1, <3>1, UpdateEffect
      <4>2. i \in 1..Len(msgs)
        BY <1>2, <4>1 DEF SameThread
      <4> QED BY <1>2, <2>1, <4>1, <4>2 DEF SameThread
    <3>2. CASE Insert(m)
      <4>1. PICK k, d \in Nat : Inserted(m, k, d)
        BY <1>1, <3>2, InsertPositions
      <4>2. i \in 1..Len(msgs) + 1 - d
        BY <1>2, <4>1 DEF Inserted
      <4>3. /\ i + d < k => msgs'[i] = msgs[i + d]
            /\ i + d = k => msgs'[i] = m
            /\ i + d > k => msgs'[i] = msgs[i + d - 1]
            /\ k \in 1..Len(msgs) + 1
        BY <4>1, <4>2 DEF Inserted
      <4>4. CASE i + d < k
        <5>1. i + d \in 1..Len(msgs)
          BY <1>1, <4>2, <4>3, <4>4
        <5> QED BY <5>1, <1>2, <4>3, <4>4
      <4>5. CASE i + d > k
        <5>1. i + d - 1 \in 1..Len(msgs)
          BY <1>1, <4>2, <4>3, <4>5
        <5> QED BY <5>1, <1>2, <4>3, <4>5
      <4>6. i + d # k
        BY <1>2, <2>1, <4>3
      <4> QED BY <4>2, <4>3, <4>4, <4>5, <4>6
    <3> QED BY <2>1, <3>1, <3>2 DEF UpsertMessage
  <2> QED BY <1>1, <1>3, <2>2 DEF Upsert
<1>4. CASE StatusSet
  <2>1. PICK id \in Ids, type \in ReceiptTypes :
          /\ SetStatus(id, ReceiptStatus(type))
          /\ heard' = [heard EXCEPT ![id] = @ \cup {type}]
    BY <1>4 DEF StatusSet
  <2>2. ReceiptStatus(type) \in Statuses
    BY DEF ReceiptStatus, Statuses
  <2>3. /\ SameThread
        /\ \A j \in 1..Len(msgs) :
              \/ msgs'[j].status = msgs[j].status
              \/ msgs[j].id = id /\ msgs'[j].status = ReceiptStatus(type)
    BY <1>1, <2>1, <2>2, SetStatusEffect
  <2>4. i \in 1..Len(msgs) /\ msgs'[i].id = msgs[i].id
    BY <1>2, <2>3 DEF SameThread
  <2>5. \A x \in Ids : heard[x] \subseteq heard'[x]
    BY <2>1 DEF TypeOK
  <2>6. CASE msgs'[i].status = msgs[i].status
    <3>1. msgs[i].id \in Ids
      <4>1. msgs[i] \in Message
        BY <1>1, <2>4
      <4> QED BY <4>1 DEF Message
    <3>2. ReadIn(heard, msgs[i].id)
      BY <1>1, <1>2, <2>4, <2>6
    <3> QED BY <2>4, <2>5, <3>1, <3>2 DEF ReadIn
  <2>7. CASE msgs[i].id = id /\ msgs'[i].status = ReceiptStatus(type)
    <3>1. type \in {"read", "read-self"}
      BY <1>2, <2>7 DEF ReceiptStatus
    <3>2. type \in heard'[id]
      BY <2>1 DEF TypeOK
    <3> QED BY <2>4, <2>7, <3>1, <3>2 DEF ReadIn
  <2> QED BY <2>3, <2>4, <2>6, <2>7
<1>5. CASE UNCHANGED <<msgs, heard, inserted>>
  BY <1>1, <1>2, <1>5
<1> QED BY <1>3, <1>4, <1>5, ThreadStep

\* No message is shown as read before a read receipt for it was processed, in
\* whatever order receipts, sends, redeliveries and history syncs arrive.
THEOREM ReadTicksHonest == Spec => []ReadMeansRead
<1>1. Init => ReadMeansRead
  BY DEF Init, ReadMeansRead
<1>2. TypeOK /\ ReadMeansRead /\ [Next]_vars => ReadMeansRead'
  BY ReadStep
<1> QED BY <1>1, <1>2, TypeCorrect, PTL DEF Spec

--------------------------------------------------------------------------------
(* Ticks that fall behind the receipts *)

\* The message is stored, and its tick is below what one of its receipts says.
Understated(id) ==
    \E i \in DOMAIN msgs :
        /\ msgs[i].id = id
        /\ \E type \in heard[id] : Tick(ReceiptStatus(type)) > Tick(msgs[i].status)

\* The message is inserted when its receipts have come already: they found
\* nothing to update.
ReceiptsWereLost(id) == ~Stored(id) /\ Stored(id)' /\ heard[id] # {} /\ heard' = heard

\* The step takes the tick of a stored message back: a delivery receipt after a
\* read receipt, or a merge that brings the "sent" it was inserted with.
TickTakenBack(id) ==
    \E i \in DOMAIN msgs, j \in DOMAIN msgs' :
        /\ msgs[i].id = id /\ msgs'[j].id = id
        /\ \/ msgs[i].status = "read" /\ msgs'[j].status = "delivered" /\ inserted' = inserted
           \/ msgs[i].status \in {"delivered", "read"} /\ msgs'[j].status = "sent" /\ heard' = heard

TicksKept ==
    \A id \in Own :
        Understated(id)' => Understated(id) \/ ReceiptsWereLost(id) \/ TickTakenBack(id)

\* With distinct ids, a receipt sets the status of every position that holds its
\* message.
LEMMA ReceiptSets ==
    ASSUME msgs \in Seq(Message), Chronological, NEW id \in Ids, NEW status \in Statuses,
           SetStatus(id, status), NEW j \in 1..Len(msgs), msgs[j].id = id
    PROVE msgs'[j].status = status
<1>1. Stored(id)
  BY DEF Stored
<1>2. PICK i \in DOMAIN msgs :
        msgs[i].id = id /\ msgs' = [msgs EXCEPT ![i].status = status]
  BY <1>1 DEF SetStatus
<1>3. i \in 1..Len(msgs) /\ msgs[i] \in Message
  OBVIOUS
<1>4. i = j
  <2>1. ~(i < j) /\ ~(j < i)
    BY <1>2, <1>3 DEF Chronological
  <2> QED BY <1>3, <2>1
<1> QED BY <1>2, <1>3, <1>4 DEF Message

LEMMA TickStep ==
    ASSUME TypeOK, Chronological, [Next]_vars, NEW id \in Own, Understated(id)'
    PROVE Understated(id) \/ ReceiptsWereLost(id) \/ TickTakenBack(id)
<1>1. /\ msgs \in Seq(Message)
      /\ DOMAIN msgs = 1..Len(msgs)
      /\ id \in Ids
  <2>1. msgs \in Seq(Message)
    BY DEF TypeOK
  <2> QED BY <2>1, MessagesAssumption
<1>2. PICK i \in DOMAIN (msgs'), type \in heard'[id] :
        /\ msgs'[i].id = id
        /\ Tick(ReceiptStatus(type)) > Tick(msgs'[i].status)
  BY DEF Understated
<1>3. CASE Upsert
  <2>1. PICK m \in Message : UpsertMessage(m) /\ (m.id \in Own => m.status = "sent")
    BY <1>3 DEF Upsert
  <2>2. heard' = heard
    BY <1>3 DEF Upsert
  <2>3. CASE Update(m)
    <3>1. PICK k \in DOMAIN msgs :
            msgs[k].id = m.id /\ msgs' = [msgs EXCEPT ![k] = Merge(@, m)]
      BY <2>3 DEF Update
    <3>2. k \in 1..Len(msgs) /\ msgs[k] \in Message
      BY <1>1
    <3>3. /\ SameThread
          /\ i \in 1..Len(msgs)
      <4>1. SameThread
        BY <1>1, <2>3, UpdateEffect
      <4> QED BY <1>2, <4>1 DEF SameThread
    <3>4. msgs[i].id = id
      BY <1>2, <3>3 DEF SameThread
    <3>5. CASE i # k
      <4>1. msgs'[i] = msgs[i]
        BY <1>1, <3>1, <3>3, <3>5
      <4> QED BY <1>1, <1>2, <2>2, <3>3, <4>1 DEF Understated
    <3>6. CASE i = k
      <4>1. m.status = "sent"
        BY <2>1, <3>1, <3>4, <3>6
      <4>2. msgs'[i].status = "sent"
        BY <1>1, <3>1, <3>2, <3>6, <4>1 DEF Merge, Message
      <4>3. CASE msgs[i].status \in {"delivered", "read"}
        BY <1>1, <1>2, <2>2, <3>3, <3>4, <4>2, <4>3 DEF TickTakenBack
      <4>4. CASE msgs[i].status \notin {"delivered", "read"}
        <5>1. Tick(msgs[i].status) = Tick(msgs'[i].status)
          BY <4>2, <4>4 DEF Tick
        <5> QED BY <1>1, <1>2, <2>2, <3>3, <3>4, <5>1 DEF Understated
      <4> QED BY <4>3, <4>4
    <3> QED BY <3>5, <3>6
  <2>4. CASE Insert(m)
    <3>1. PICK k, d \in Nat : Inserted(m, k, d)
      BY <1>1, <2>4, InsertPositions
    <3>2. i \in 1..Len(msgs) + 1 - d
      BY <1>2, <3>1 DEF Inserted
    <3>3. /\ i + d < k => msgs'[i] = msgs[i + d]
          /\ i + d = k => msgs'[i] = m
          /\ i + d > k => msgs'[i] = msgs[i + d - 1]
          /\ k \in 1..Len(msgs) + 1
      BY <3>1, <3>2 DEF Inserted
    <3>4. CASE i + d < k
      <4>1. i + d \in 1..Len(msgs)
        BY <1>1, <3>2, <3>3, <3>4
      <4> QED BY <1>1, <1>2, <2>2, <3>3, <3>4, <4>1 DEF Understated
    <3>5. CASE i + d > k
      <4>1. i + d - 1 \in 1..Len(msgs)
        BY <1>1, <3>2, <3>3, <3>5
      <4> QED BY <1>1, <1>2, <2>2, <3>3, <3>5, <4>1 DEF Understated
    <3>6. CASE i + d = k
      <4>1. ~Stored(id)
        BY <1>2, <2>4, <3>3, <3>6 DEF Insert
      <4>2. Stored(id)'
        BY <1>2 DEF Stored
      <4> QED BY <1>2, <2>2, <4>1, <4>2 DEF ReceiptsWereLost
    <3> QED BY <3>2, <3>3, <3>4, <3>5, <3>6
  <2> QED BY <2>1, <2>3, <2>4 DEF UpsertMessage
<1>4. CASE StatusSet
  <2>1. PICK x \in Ids, t \in ReceiptTypes :
          /\ SetStatus(x, ReceiptStatus(t))
          /\ heard' = [heard EXCEPT ![x] = @ \cup {t}]
    BY <1>4 DEF StatusSet
  <2>2. ReceiptStatus(t) \in Statuses
    BY DEF ReceiptStatus, Statuses
  <2>3. /\ SameThread
        /\ \A j \in 1..Len(msgs) :
              \/ msgs'[j].status = msgs[j].status
              \/ msgs[j].id = x /\ msgs'[j].status = ReceiptStatus(t)
    BY <1>1, <2>1, <2>2, SetStatusEffect
  <2>4. i \in 1..Len(msgs) /\ msgs[i].id = id
    BY <1>2, <2>3 DEF SameThread
  <2>5. CASE x # id
    <3>1. heard'[id] = heard[id] /\ msgs'[i].status = msgs[i].status
      BY <1>1, <2>1, <2>3, <2>4, <2>5 DEF TypeOK
    <3> QED BY <1>1, <1>2, <2>4, <3>1 DEF Understated
  <2>6. CASE x = id
    <3>1. msgs'[i].status = ReceiptStatus(t)
      BY <1>1, <2>1, <2>2, <2>4, <2>6, ReceiptSets
    <3>2. ReceiptStatus(t) = "delivered" /\ ReceiptStatus(type) = "read"
      BY <1>2, <3>1 DEF Tick, ReceiptStatus
    <3>3. type \in heard[id]
      BY <1>1, <1>2, <2>1, <2>6, <3>2 DEF TypeOK
    <3>4. CASE msgs[i].status = "read"
      <4>1. inserted' = inserted
        BY <1>4 DEF StatusSet
      <4> QED BY <1>1, <1>2, <2>4, <3>1, <3>2, <3>4, <4>1 DEF TickTakenBack
    <3>5. CASE msgs[i].status # "read"
      <4>1. Tick(ReceiptStatus(type)) > Tick(msgs[i].status)
        BY <3>2, <3>5 DEF Tick
      <4> QED BY <1>1, <2>4, <3>3, <4>1 DEF Understated
    <3> QED BY <3>4, <3>5
  <2> QED BY <2>5, <2>6
<1>5. CASE UNCHANGED <<msgs, heard, inserted>>
  BY <1>5 DEF Understated
<1> QED BY <1>3, <1>4, <1>5, ThreadStep

\* TicksShown holds exactly where no own message is understated.
LEMMA ShownIsNotUnderstated ==
    ASSUME TypeOK
    PROVE TicksShown <=> \A id \in Own : ~Understated(id)
<1>1. /\ \A i \in DOMAIN msgs : Tick(msgs[i].status) \in Nat
      /\ \A type : Tick(ReceiptStatus(type)) \in Nat
  BY DEF Tick
<1> QED BY <1>1 DEF TicksShown, Understated

TicksStayShown ==
    TicksShown => TicksShown' \/ \E id \in Own : ReceiptsWereLost(id) \/ TickTakenBack(id)

\* A tick falls behind the receipts of its message in three ways and no other:
\* they came before the message was stored, a delivery receipt came after a read
\* receipt, or a merge brought "sent" again. TicksShown fails by these alone.
THEOREM OnlyThreeWaysLoseTicks == Spec => [][TicksKept]_vars /\ [][TicksStayShown]_vars
<1>1. TypeOK /\ Chronological /\ [Next]_vars => [TicksKept]_vars
  BY TickStep DEF TicksKept, vars
<1>2. TypeOK /\ TypeOK' /\ [TicksKept]_vars => [TicksStayShown]_vars
  <2> SUFFICES ASSUME TypeOK, TypeOK', TicksKept, TicksShown
               PROVE TicksStayShown
    BY DEF TicksStayShown
  <2>1. TicksShown' <=> \A id \in Own : ~Understated(id)'
    <3>1. /\ \A i \in DOMAIN msgs' : Tick(msgs'[i].status) \in Nat
          /\ \A type : Tick(ReceiptStatus(type)) \in Nat
      BY DEF Tick
    <3> QED BY <3>1 DEF TicksShown, Understated
  <2> QED BY <2>1, ShownIsNotUnderstated DEF TicksKept, TicksStayShown
<1> QED BY <1>1, <1>2, TypeCorrect, ThreadChronological, PTL DEF Spec

--------------------------------------------------------------------------------
(* The refinement of Thread *)

\* The messages of the slice; Thread's `held`.
Held == {msgs[i] : i \in DOMAIN msgs}

\* As many as the slice is long, since no id occurs twice.
LEMMA HeldSize ==
    ASSUME msgs \in Seq(Message), Chronological
    PROVE IsFiniteSet(Held) /\ Cardinality(Held) = Len(msgs)
<1>1. DOMAIN msgs = 1..Len(msgs) /\ Len(msgs) \in Nat
  OBVIOUS
<1>2. ASSUME NEW i \in 1..Len(msgs), NEW j \in 1..Len(msgs), msgs[i] = msgs[j]
      PROVE i = j
  <2>1. ~(i < j) /\ ~(j < i)
    BY <1>1, <1>2 DEF Chronological
  <2> QED BY <2>1
<1> DEFINE f == [i \in 1..Len(msgs) |-> msgs[i]]
<1>3. f \in Bijection(1..Len(msgs), Held)
  <2>1. f \in [1..Len(msgs) -> Held]
    BY <1>1 DEF Held
  <2>2. f \in Injection(1..Len(msgs), Held)
    BY <1>2, <2>1 DEF Injection, IsInjective
  <2>3. f \in Surjection(1..Len(msgs), Held)
    BY <1>1, <2>1 DEF Surjection, Held
  <2> QED BY <2>2, <2>3 DEF Bijection
<1>4. ExistsBijection(1..Len(msgs), Held)
  BY <1>3 DEF ExistsBijection
<1> HIDE DEF f
<1> QED BY <1>1, <1>4, FS_CountingElements, FS_NatBijection

\* Thread's copy of Cardinality is Cardinality.
LEMMA SameCardinality == ASSUME NEW S PROVE Chat!Cardinality(S) = Cardinality(S)
BY DEF Chat!Cardinality, Cardinality

LEMMA Positions ==
    ASSUME NEW S, NEW s \in Seq(S)
    PROVE DOMAIN s = 1..Len(s) /\ \A i \in 1..Len(s) : s[i] \in S
OBVIOUS

\* A step that changes the messages of a thread changes the status of at most
\* one of them, and not to the empty one.
Marked ==
    \E i \in 1..Len(msgs) : \E new \in Message :
        /\ new.id = msgs[i].id
        /\ new.time = msgs[i].time
        /\ new.status # ""
        /\ msgs' = [msgs EXCEPT ![i] = new]

LEMMA UpdateMarks ==
    ASSUME msgs \in Seq(Message), NEW m \in Message, Update(m)
    PROVE Marked \/ msgs' = msgs
<1>1. PICK i \in DOMAIN msgs : msgs' = [msgs EXCEPT ![i] = Merge(msgs[i], m)]
  BY DEF Update
<1>2. i \in 1..Len(msgs) /\ msgs[i] \in Message
  OBVIOUS
<1>3. CASE m.status = ""
  <2>1. Merge(msgs[i], m) = msgs[i]
    BY <1>2, <1>3 DEF Merge, Message
  <2> QED BY <1>1, <2>1
<1>4. CASE m.status # ""
  <2>1. /\ Merge(msgs[i], m) \in Message
        /\ Merge(msgs[i], m).id = msgs[i].id
        /\ Merge(msgs[i], m).time = msgs[i].time
        /\ Merge(msgs[i], m).status # ""
    BY <1>2, <1>4 DEF Merge, Message
  <2> HIDE DEF Merge
  <2> QED BY <1>1, <1>2, <2>1, Zenon DEF Marked
<1> QED BY <1>3, <1>4

LEMMA SetStatusMarks ==
    ASSUME msgs \in Seq(Message), NEW id \in Ids, NEW status \in Statuses, status # "",
           SetStatus(id, status)
    PROVE Marked \/ msgs' = msgs
<1>0. DOMAIN msgs = 1..Len(msgs) /\ \A i \in 1..Len(msgs) : msgs[i] \in Message
  BY Positions
<1>1. CASE Stored(id)
  <2>1. PICK i \in DOMAIN msgs : msgs' = [msgs EXCEPT ![i].status = status]
    BY <1>1 DEF SetStatus
  <2>2. i \in 1..Len(msgs) /\ msgs[i] \in Message
    BY <1>0, Zenon
  <2> DEFINE new == [msgs[i] EXCEPT !.status = status]
  <2>3. /\ new \in Message
        /\ new.id = msgs[i].id
        /\ new.time = msgs[i].time
        /\ new.status # ""
    BY <2>2 DEF Message
  <2>4. msgs' = [msgs EXCEPT ![i] = new]
    BY <2>1
  <2> HIDE DEF new
  <2> QED BY <2>2, <2>3, <2>4, Zenon DEF Marked
<1>2. CASE ~Stored(id)
  BY <1>2 DEF SetStatus
<1> QED BY <1>1, <1>2

LEMMA MarkedMarks ==
    ASSUME msgs \in Seq(Message), Chronological, Marked
    PROVE \E old \in Held, new \in Held' : Chat!Mark(old, new)
<1>1. PICK i \in 1..Len(msgs), new \in Message :
        /\ new.id = msgs[i].id
        /\ new.time = msgs[i].time
        /\ new.status # ""
        /\ msgs' = [msgs EXCEPT ![i] = new]
  BY DEF Marked
<1>2. /\ DOMAIN msgs = 1..Len(msgs)
      /\ DOMAIN (msgs') = 1..Len(msgs)
      /\ msgs'[i] = new
      /\ \A j \in 1..Len(msgs) : j # i => msgs'[j] = msgs[j]
  <2>1. DOMAIN msgs = 1..Len(msgs)
    OBVIOUS
  <2>2. msgs' = [msgs EXCEPT ![i] = new]
    BY <1>1
  <2> QED BY <2>1, <2>2
<1>3. \A j \in 1..Len(msgs) : j # i => msgs[j] # msgs[i]
  <2> SUFFICES ASSUME NEW j \in 1..Len(msgs), j # i PROVE msgs[j] # msgs[i]
    OBVIOUS
  <2>1. j < i \/ i < j
    OBVIOUS
  <2> QED BY <1>2, <2>1 DEF Chronological
<1>4. Held' = (Held \ {msgs[i]}) \cup {new}
  BY <1>2, <1>3 DEF Held
<1>5. msgs[i] \in Held /\ new \in Held'
  BY <1>2, <1>4 DEF Held
<1> QED BY <1>1, <1>4, <1>5 DEF Chat!Mark, Held

\* An insertion into a full thread pushes out the first message, unless the new
\* one would be the first; into any other it pushes out none.
LEMMA InsertTakes ==
    ASSUME TypeOK, Chronological, NEW m \in Message, Insert(m)
    PROVE \/ m \in Held' /\ Chat!Take(m)
          \/ m \in Held' /\ \E old \in Held : Chat!Replace(old, m)
          \/ Held' = Held
<1>1. PICK k, d \in Nat : Inserted(m, k, d)
  BY InsertPositions DEF TypeOK
<1> DEFINE n == Len(msgs)
<1>2. /\ msgs \in Seq(Message)
      /\ n \in Nat
      /\ n <= MaxMessages
      /\ DOMAIN msgs = 1..n
  BY DEF TypeOK
<1>3. /\ k \in 1..n + 1
      /\ SortsTo(msgs, m, k)
      /\ d > 0 => n + 1 - d = MaxMessages
      /\ msgs' \in Seq(Message)
      /\ Len(msgs') = n + 1 - d
      /\ Len(msgs') <= MaxMessages
      /\ \A i \in 1..n + 1 - d :
            /\ i + d < k => msgs'[i] = msgs[i + d]
            /\ i + d = k => msgs'[i] = m
            /\ i + d > k => msgs'[i] = msgs[i + d - 1]
  BY <1>1, Zenon DEF Inserted
<1>4. DOMAIN (msgs') = 1..n + 1 - d
  BY <1>3
<1>5. Held = {msgs[i] : i \in 1..n} /\ Held' = {msgs'[i] : i \in 1..n + 1 - d}
  BY <1>2, <1>4 DEF Held
<1>6. Cardinality(Held) = n
  BY <1>2, HeldSize
<1>7. \A h \in Held : h.id # m.id
  <2>1. ~Stored(m.id)
    BY DEF Insert
  <2> QED BY <2>1 DEF Stored, Held
<1> HIDE DEF n
<1>8. CASE d = 0
  <2>1. \A i \in 1..n + 1 :
            /\ i < k => msgs'[i] = msgs[i]
            /\ i = k => msgs'[i] = m
            /\ i > k => msgs'[i] = msgs[i - 1]
    <3> SUFFICES ASSUME NEW i \in 1..n + 1
                 PROVE  /\ i < k => msgs'[i] = msgs[i]
                        /\ i = k => msgs'[i] = m
                        /\ i > k => msgs'[i] = msgs[i - 1]
      OBVIOUS
    <3>1. i + d = i /\ n + 1 - d = n + 1
      BY <1>2, <1>8
    <3> QED BY <1>3, <3>1
  <2>2. Held' = Held \cup {m}
    <3>1. ASSUME NEW i \in 1..n + 1 PROVE msgs'[i] \in Held \cup {m}
      <4>1. CASE i < k
        <5>1. i \in 1..n
          BY <1>2, <1>3, <4>1
        <5> QED BY <1>5, <2>1, <4>1, <5>1
      <4>2. CASE i = k
        BY <2>1, <4>2
      <4>3. CASE i > k
        <5>1. i - 1 \in 1..n
          BY <1>2, <1>3, <4>3
        <5> QED BY <1>5, <2>1, <4>3, <5>1
      <4> QED BY <1>2, <1>3, <4>1, <4>2, <4>3
    <3>2. m \in Held'
      <4>1. k \in 1..n + 1 - d /\ msgs'[k] = m
        BY <1>2, <1>3, <1>8, <2>1
      <4> QED BY <1>5, <4>1
    <3>3. ASSUME NEW i \in 1..n PROVE msgs[i] \in Held'
      <4>1. CASE i < k
        <5>1. i \in 1..n + 1 - d /\ i \in 1..n + 1
          BY <1>2, <1>8
        <5> QED BY <1>5, <2>1, <4>1, <5>1
      <4>2. CASE i >= k
        <5>1. i + 1 \in 1..n + 1 - d /\ i + 1 \in 1..n + 1 /\ i + 1 > k /\ (i + 1) - 1 = i
          BY <1>2, <1>3, <1>8, <4>2
        <5>2. msgs'[i + 1] = msgs[i]
          BY <2>1, <5>1
        <5> QED BY <1>5, <5>1, <5>2
      <4> QED BY <1>2, <1>3, <4>1, <4>2
    <3>4. n + 1 - d = n + 1
      BY <1>2, <1>8
    <3> QED BY <1>5, <3>1, <3>2, <3>3, <3>4
  <2>3. Chat!Cardinality(Held) < MaxMessages
    BY <1>2, <1>3, <1>6, <1>8, SameCardinality
  <2>4. Chat!Fresh(m)
    BY <1>7, Zenon DEF Chat!Fresh, Held
  <2>5. m \in Held'
    BY <2>2
  <2> QED BY <2>2, <2>3, <2>4, <2>5, Zenon DEF Chat!Take, Held
<1>9. CASE d > 0
  <2>1. d = 1 /\ n = MaxMessages /\ n + 1 - d = n
    BY <1>2, <1>3, <1>9
  <2>2. \A i \in 1..n :
            /\ i + 1 < k => msgs'[i] = msgs[i + 1]
            /\ i + 1 = k => msgs'[i] = m
            /\ i + 1 > k => msgs'[i] = msgs[i]
    <3> SUFFICES ASSUME NEW i \in 1..n
                 PROVE  /\ i + 1 < k => msgs'[i] = msgs[i + 1]
                        /\ i + 1 = k => msgs'[i] = m
                        /\ i + 1 > k => msgs'[i] = msgs[i]
      OBVIOUS
    <3>1. (i + 1) - 1 = i
      BY <1>2
    <3> QED BY <1>3, <2>1, <3>1
  <2>3. CASE k = 1
    <3>1. \A i \in 1..n : msgs'[i] = msgs[i]
      BY <1>2, <2>2, <2>3
    <3> QED BY <1>5, <2>1, <3>1
  <2>4. CASE k > 1
    <3>1. 1 \in 1..n /\ k - 1 \in 1..n /\ k \in Nat
      BY <1>2, <1>3, <2>4
    <3>2. m \in Held'
      <4>1. (k - 1) + 1 = k
        BY <3>1
      <4> QED BY <1>5, <2>1, <2>2, <3>1, <4>1
    <3>3. \A i \in 1..n : i # 1 => msgs[i] # msgs[1]
      BY <1>2, <3>1 DEF Chronological
    <3>4. ASSUME NEW i \in 1..n PROVE msgs'[i] \in (Held \ {msgs[1]}) \cup {m}
      <4>1. CASE i + 1 < k
        <5>1. i + 1 \in 1..n /\ i + 1 # 1
          BY <1>2, <1>3, <4>1
        <5> QED BY <1>5, <2>2, <3>3, <4>1, <5>1
      <4>2. CASE i + 1 = k
        BY <2>2, <4>2
      <4>3. CASE i + 1 > k
        <5>1. i # 1
          BY <2>4, <3>1, <4>3
        <5> QED BY <1>5, <2>2, <3>3, <4>3, <5>1
      <4> QED BY <3>1, <4>1, <4>2, <4>3
    <3>5. ASSUME NEW i \in 1..n, i # 1 PROVE msgs[i] \in Held'
      <4>1. CASE i < k
        <5>1. i - 1 \in 1..n /\ (i - 1) + 1 = i
          BY <1>2, <3>5
        <5>2. msgs'[i - 1] = msgs[i]
          BY <2>2, <4>1, <5>1
        <5> QED BY <1>5, <2>1, <5>1, <5>2
      <4>2. CASE i >= k
        <5>1. i + 1 > k
          BY <3>1, <4>2
        <5> QED BY <1>5, <2>1, <2>2, <5>1
      <4> QED BY <3>1, <4>1, <4>2
    <3>6. Held' = (Held \ {msgs[1]}) \cup {m}
      <4>1. Held' \subseteq (Held \ {msgs[1]}) \cup {m}
        BY <1>5, <2>1, <3>4
      <4>2. (Held \ {msgs[1]}) \cup {m} \subseteq Held'
        BY <1>5, <3>2, <3>5
      <4> QED BY <4>1, <4>2
    <3>7. msgs[1].time <= m.time
      BY <1>3, <2>4, <3>1 DEF SortsTo
    <3>8. ASSUME NEW i \in 1..n PROVE msgs[1].time <= msgs[i].time
      <4>1. msgs[1].time \in Int
        <5>1. msgs[1] \in Message
          BY <1>2, <3>1
        <5> QED BY <5>1 DEF Message
      <4>2. CASE i = 1
        BY <4>1, <4>2
      <4>3. CASE 1 < i
        BY <1>2, <3>1, <4>3 DEF Chronological
      <4> QED BY <4>2, <4>3
    <3>9. \A other \in Held \cup {m} : msgs[1].time <= other.time
      BY <1>5, <3>7, <3>8
    <3>10. msgs[1] \in Held
      BY <1>5, <3>1
    <3>11. Chat!Fresh(m)
      BY <1>7, Zenon DEF Chat!Fresh, Held
    <3>12. Chat!Cardinality(Held) = MaxMessages
      BY <1>6, <2>1, SameCardinality
    <3>13. Chat!Replace(msgs[1], m)
      BY <3>6, <3>9, <3>11, <3>12, Zenon DEF Chat!Replace, Held
    <3> QED BY <3>2, <3>10, <3>13
  <2> QED BY <1>3, <2>3, <2>4
<1> QED BY <1>8, <1>9

LEMMA ThreadRefined ==
    ASSUME TypeOK, Chronological, [Next]_vars
    PROVE [Chat!Next]_Held
<1>0. msgs \in Seq(Message)
  BY DEF TypeOK
<1>1. CASE Marked \/ msgs' = msgs
  <2>1. CASE Marked
    BY <1>0, <2>1, MarkedMarks DEF Chat!Next, Held
  <2>2. CASE msgs' = msgs
    BY <2>2 DEF Held
  <2> QED BY <1>1, <2>1, <2>2
<1>2. CASE Upsert
  <2>1. PICK m \in Message : UpsertMessage(m)
    BY <1>2 DEF Upsert
  <2>2. CASE Update(m)
    BY <1>0, <1>1, <2>2, UpdateMarks
  <2>3. CASE Insert(m)
    BY <2>3, InsertTakes DEF Chat!Next, Held
  <2> QED BY <2>1, <2>2, <2>3 DEF UpsertMessage
<1>3. CASE StatusSet
  <2>1. PICK id \in Ids, type \in ReceiptTypes : SetStatus(id, ReceiptStatus(type))
    BY <1>3 DEF StatusSet
  <2>2. ReceiptStatus(type) \in Statuses /\ ReceiptStatus(type) # ""
    BY DEF ReceiptStatus, Statuses
  <2> QED BY <1>0, <1>1, <2>1, <2>2, SetStatusMarks
<1>4. CASE UNCHANGED <<msgs, heard, inserted>>
  BY <1>1, <1>4
<1> QED BY <1>2, <1>3, <1>4, ThreadStep

\* Whatever the order of live messages, sends, receipts, history syncs and
\* backfill answers, the slice implements the abstract thread.
THEOREM ImplementsThread == Spec => KeepsThread
<1>1. Init => Chat!Init
  BY DEF Init, Chat!Init
<1>2. TypeOK /\ Chronological /\ [Next]_vars => [Chat!Next]_Held
  BY ThreadRefined
<1> QED BY <1>1, <1>2, TypeCorrect, ThreadChronological, PTL
        DEF Spec, KeepsThread, Chat!Spec, Held

--------------------------------------------------------------------------------
(* The beginning of the thread, which anchors the backfill requests *)

\* As long as there is room, the beginning of the thread only moves back; from the
\* moment the thread is full it stays full, and its beginning only moves forward.
BeginningMoves ==
    msgs # <<>> =>
        /\ msgs' # <<>>
        /\ Len(msgs) < MaxMessages => msgs'[1].time <= msgs[1].time
        /\ Len(msgs) = MaxMessages =>
              Len(msgs') = MaxMessages /\ msgs[1].time <= msgs'[1].time

LEMMA SameThreadBeginning ==
    ASSUME msgs \in Seq(Message), SameThread
    PROVE BeginningMoves
<1> SUFFICES ASSUME msgs # <<>> PROVE BeginningMoves
  BY DEF BeginningMoves
<1>1. 1 \in 1..Len(msgs) /\ msgs[1] \in Message
  OBVIOUS
<1>2. msgs[1].time \in Int /\ msgs'[1].time = msgs[1].time
  BY <1>1 DEF SameThread, Message
<1>3. Len(msgs') = Len(msgs) /\ msgs' # <<>>
  BY <1>1 DEF SameThread
<1> QED BY <1>2, <1>3 DEF BeginningMoves

LEMMA InsertedBeginning ==
    ASSUME TypeOK, Chronological, NEW m \in Message,
           NEW k \in Nat, NEW d \in Nat, Inserted(m, k, d)
    PROVE BeginningMoves
<1> SUFFICES ASSUME msgs # <<>> PROVE BeginningMoves
  BY DEF BeginningMoves
<1> DEFINE n == Len(msgs)
<1>1. n \in Nat \ {0} /\ n <= MaxMessages /\ DOMAIN msgs = 1..n
  BY DEF TypeOK
<1>2. /\ m.time \in Int
      /\ \A i \in 1..n : msgs[i].time \in Int
  <2>1. \A i \in 1..n : msgs[i] \in Message
    BY DEF TypeOK
  <2> QED BY <2>1 DEF Message
<1>3. /\ k \in 1..n + 1
      /\ \A i \in 1..k - 1 : msgs[i].time <= m.time
      /\ \A i \in k..n : m.time < msgs[i].time
      /\ d > 0 => n + 1 - d = MaxMessages
      /\ msgs' \in Seq(Message)
      /\ Len(msgs') = n + 1 - d
      /\ Len(msgs') <= MaxMessages
      /\ \A i \in 1..n + 1 - d :
            /\ i + d < k => msgs'[i] = msgs[i + d]
            /\ i + d = k => msgs'[i] = m
            /\ i + d > k => msgs'[i] = msgs[i + d - 1]
  BY Zenon DEF Inserted, SortsTo
<1>4. \A i \in 1..n : msgs[1].time <= msgs[i].time
  <2> SUFFICES ASSUME NEW i \in 1..n PROVE msgs[1].time <= msgs[i].time
    OBVIOUS
  <2>1. 1 \in 1..n
    BY <1>1
  <2>2. CASE i = 1
    BY <1>2, <2>1, <2>2
  <2>3. CASE 1 < i
    BY <1>1, <2>1, <2>3 DEF Chronological
  <2> QED BY <2>2, <2>3
<1> HIDE DEF n
<1>5. CASE d = 0
  <2>1. 1 \in 1..n + 1 - d /\ 1 \in 1..n /\ n < MaxMessages
    BY <1>1, <1>3, <1>5
  <2>2. /\ 1 < k => msgs'[1] = msgs[1]
        /\ 1 = k => msgs'[1] = m
    BY <1>3, <1>5, <2>1
  <2>3. msgs'[1].time <= msgs[1].time
    BY <1>1, <1>2, <1>3, <2>1, <2>2
  <2>4. msgs' # <<>>
    BY <1>1, <1>3, <1>5
  <2> QED BY <2>1, <2>3, <2>4 DEF BeginningMoves, n
<1>6. CASE d > 0
  <2>1. d = 1 /\ n = MaxMessages /\ n + 1 - d = n /\ 1 \in 1..n
    BY <1>1, <1>3, <1>6
  <2>2. /\ 2 < k => msgs'[1] = msgs[2]
        /\ 2 = k => msgs'[1] = m
        /\ 2 > k => msgs'[1] = msgs[1]
    BY <1>3, <2>1
  <2>3. msgs[1].time <= msgs'[1].time
    <3>1. CASE 2 < k
      <4>1. 2 \in 1..n
        BY <1>1, <1>3, <3>1
      <4> QED BY <1>4, <2>2, <3>1, <4>1
    <3>2. CASE 2 = k
      <4>1. 1 \in 1..k - 1
        BY <3>2
      <4> QED BY <1>3, <2>2, <3>2, <4>1
    <3>3. CASE 2 > k
      BY <1>4, <2>1, <2>2, <3>3
    <3> QED BY <1>3, <3>1, <3>2, <3>3
  <2>4. Len(msgs') = MaxMessages /\ msgs' # <<>>
    BY <1>1, <1>3, <2>1
  <2> QED BY <2>1, <2>3, <2>4 DEF BeginningMoves, n
<1> QED BY <1>3, <1>5, <1>6

\* Backfill walks back as long as there is room, and at the cap it never can: its
\* anchor is the beginning of the thread, which no step moves back any more.
THEOREM RoomDecidesBackfill == Spec => [][BeginningMoves]_vars
<1>1. TypeOK /\ Chronological /\ [Next]_vars => [BeginningMoves]_vars
  <2> SUFFICES ASSUME TypeOK, Chronological, [Next]_vars PROVE BeginningMoves
    OBVIOUS
  <2>0. msgs \in Seq(Message)
    BY DEF TypeOK
  <2>1. CASE Upsert
    <3>1. PICK m \in Message : UpsertMessage(m)
      BY <2>1 DEF Upsert
    <3>2. CASE Update(m)
      BY <2>0, <3>2, UpdateEffect, SameThreadBeginning
    <3>3. CASE Insert(m)
      <4>1. PICK k, d \in Nat : Inserted(m, k, d)
        BY <2>0, <3>3, InsertPositions
      <4> QED BY <4>1, InsertedBeginning
    <3> QED BY <3>1, <3>2, <3>3 DEF UpsertMessage
  <2>2. CASE StatusSet
    <3>1. PICK id \in Ids, type \in ReceiptTypes : SetStatus(id, ReceiptStatus(type))
      BY <2>2 DEF StatusSet
    <3>2. ReceiptStatus(type) \in Statuses
      BY DEF ReceiptStatus, Statuses
    <3> QED BY <2>0, <3>1, <3>2, SetStatusEffect, SameThreadBeginning
  <2>3. CASE UNCHANGED <<msgs, heard, inserted>>
    <3>1. SameThread
      BY <2>0, <2>3 DEF SameThread
    <3> QED BY <2>0, <3>1, SameThreadBeginning
  <2> QED BY <2>1, <2>2, <2>3, ThreadStep
<1> QED BY <1>1, TypeCorrect, ThreadChronological, PTL DEF Spec

================================================================================
