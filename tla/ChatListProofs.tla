----------------------------- MODULE ChatListProofs -----------------------------
(***************************************************************************)
(* Proofs about ChatList, for any contacts, any number of requests and any *)
(* bounds on messages, reactions and posts.                                *)
(***************************************************************************)
EXTENDS Lists, FiniteSetTheorems, TLAPS

USE ListsAssumption

\* The part of Lists that ChatList describes.
LEMMA ListsHasChatList == Spec => ListSpec
<1>1. Init => ListInit
  BY DEF Init
<1>2. [Next]_vars => [ListNext]_listVars
  BY DEF Next, ListStep, ChannelStep, FileStep, vars
<1> QED BY <1>1, <1>2, PTL DEF Spec, ListSpec

--------------------------------------------------------------------------------
(* Types, and what POST /read knows *)

BadgeOK ==
    /\ msgs \in [Contacts -> SUBSET Nat] /\ due \in [Contacts -> SUBSET Nat]
    /\ told \in [Contacts -> SUBSET Nat] /\ slipped \in [Contacts -> SUBSET Nat]
    /\ unread \in [Contacts -> Nat]
SyncOK == sync \in [chat : Contacts \cup {"none"}, left : SUBSET Nat]
RequestOK == request \in [Requests -> RequestStates]
ReactingOK ==
    /\ reaction \in [Contacts -> Emojis \cup {NoEmoji}]
    /\ sent \in [Contacts -> Emojis \cup {NoEmoji}]
    /\ reacted \in Nat /\ crossed \in BOOLEAN
TabOK ==
    /\ status \in [Contacts -> Nat] /\ posted \in [Contacts -> Nat]
    /\ lastLive \in [Contacts -> Nat] /\ seen \in [Contacts -> SUBSET Nat]
LoadOK == listLoad \in ListLoads

Types == BadgeOK /\ SyncOK /\ RequestOK /\ ReactingOK /\ TabOK /\ LoadOK

\* The messages are finitely many: those of the load.
Bounded == (\A c \in Contacts : msgs[c] \subseteq Messages) /\ sync.left \subseteq Messages

\* What POST /read has in hand: the newest of messages that are still stored,
\* and WhatsApp knows of them before the badge is cleared.
InHand(r) ==
    LET q == request[r]
    IN  /\ q.had \subseteq msgs[q.chat]
        /\ q.ids = NewestOf(q.had, ReadSize)
        /\ q.at = "clear" => q.ids \subseteq told[q.chat]

Reading == \A r \in Requests : request[r].at \in {"tell", "clear"} => InHand(r)

ToldStored == \A c \in Contacts : told[c] \subseteq msgs[c]

ListInv == Types /\ Bounded /\ Reading /\ ToldStored

ReadStates ==
    [at : {"tell", "clear"}, chat : Contacts, ids : SUBSET Nat, had : SUBSET Nat]
ReactStates == [at : {"react", "record"}, chat : Contacts, emoji : Emojis \cup {NoEmoji}]

LEMMA RequestKinds ==
    /\ \A q \in ReadStates \cup ReactStates : q \in RequestStates
    /\ IdleRequest \in RequestStates
    /\ \A q \in RequestStates :
        /\ q.at \in {"tell", "clear"} => q \in ReadStates
        /\ q.at \in {"react", "record"} => q \in ReactStates
BY DEF RequestStates, ReadStates, ReactStates, IdleRequest

LEMMA MessagesFinite ==
    ASSUME LoadOK
    PROVE /\ Messages \subseteq Nat
          /\ \A S \in SUBSET Messages : IsFiniteSet(S)
<1>1. listLoad.messages \in Nat
  BY DEF LoadOK
<1>2. IsFiniteSet(Messages)
  BY <1>1, FS_Interval DEF Messages
<1>3. \A S \in SUBSET Messages : IsFiniteSet(S)
  BY <1>2, FS_Subset
<1>4. Messages \subseteq Nat
  BY <1>1 DEF Messages
<1> QED BY <1>3, <1>4

LEMMA NewestSubset ==
    ASSUME NEW S, NEW n
    PROVE NewestOf(S, n) \subseteq S
BY DEF NewestOf

\* A step that leaves the requests, the load and the sync alone, and takes
\* nothing from a chat or from what WhatsApp was told.
LEMMA ReadingKept ==
    ASSUME RequestOK, Reading, UNCHANGED request,
           \A c \in Contacts : msgs[c] \subseteq msgs'[c] /\ told[c] \subseteq told'[c]
    PROVE Reading'
<1> SUFFICES ASSUME NEW r \in Requests, request[r].at \in {"tell", "clear"}
             PROVE InHand(r)'
  BY DEF Reading
<1>1. InHand(r)
  BY DEF Reading
<1>2. request[r].chat \in Contacts
  BY RequestKinds DEF RequestOK, ReadStates
<1> QED BY <1>1, <1>2 DEF InHand, NewestOf

\* One request goes on, and the chats and what WhatsApp was told stay.
LEMMA ReadingMoves ==
    ASSUME RequestOK, Reading, NEW r \in Requests, NEW q \in RequestStates,
           request' = [request EXCEPT ![r] = q], UNCHANGED <<msgs, told>>,
           q.at \in {"tell", "clear"} => InHand(r)'
    PROVE RequestOK' /\ Reading'
<1>1. \A o \in Requests : request'[o] = IF o = r THEN q ELSE request[o]
  BY DEF RequestOK
<1>2. ASSUME NEW o \in Requests, request'[o].at \in {"tell", "clear"}
      PROVE InHand(o)'
  <2>1. CASE o = r
    BY <1>1, <1>2, <2>1
  <2>2. CASE o # r
    <3>1. InHand(o)
      BY <1>1, <1>2, <2>2 DEF Reading
    <3> QED BY <1>1, <2>2, <3>1 DEF InHand
  <2> QED BY <2>1, <2>2
<1>3. RequestOK'
  BY DEF RequestOK
<1> QED BY <1>2, <1>3 DEF Reading

\* A step that only posts, or only shows a post.
LEMMA TabStep ==
    ASSUME ListInv, UNCHANGED <<badge, sync, request, reacting, listLoad>>, TabOK'
    PROVE ListInv'
<1>1. BadgeOK' /\ SyncOK' /\ RequestOK' /\ ReactingOK' /\ LoadOK'
  BY DEF ListInv, Types, BadgeOK, SyncOK, RequestOK, ReactingOK, LoadOK, badge, reacting
<1>2. Bounded' /\ ToldStored'
  BY DEF ListInv, Bounded, ToldStored, badge, Messages
<1>3. Reading'
  BY DEF ListInv, Reading, InHand, badge, NewestOf
<1> QED BY <1>1, <1>2, <1>3 DEF ListInv, Types

\* A step of one request, which leaves the chats and the Status tab alone.
LEMMA RequestStep ==
    ASSUME ListInv, NEW r \in Requests, NEW q \in RequestStates,
           request' = [request EXCEPT ![r] = q], UNCHANGED <<badge, sync, tab, listLoad>>,
           ReactingOK', q.at \in {"tell", "clear"} => InHand(r)'
    PROVE ListInv'
<1>1. BadgeOK' /\ SyncOK' /\ TabOK' /\ LoadOK'
  BY DEF ListInv, Types, BadgeOK, SyncOK, TabOK, LoadOK, badge, tab
<1>2. Bounded' /\ ToldStored'
  BY DEF ListInv, Bounded, ToldStored, badge, Messages
<1>3. RequestOK' /\ Reading'
  BY ReadingMoves DEF ListInv, Types, badge
<1> QED BY <1>1, <1>2, <1>3 DEF ListInv, Types

LEMMA ListStepInv == ListInv /\ [ListNext]_listVars => ListInv'
<1> SUFFICES ASSUME ListInv, [ListNext]_listVars PROVE ListInv'
  OBVIOUS
<1> USE DEF ListInv, Types
<1>1. ASSUME NEW c \in Contacts, Post(c) PROVE ListInv'
  <2>1. TabOK'
    BY <1>1 DEF Post, TabOK
  <2> QED BY <1>1, <2>1, TabStep DEF Post
<1>2. ASSUME NEW c \in Contacts, NEW p \in 1..listLoad.posts, LiveStatus(c, p)
      PROVE ListInv'
  <2>1. listLoad.posts \in Nat
    BY DEF LoadOK
  <2>2. TabOK'
    BY <1>2, <2>1 DEF LiveStatus, Tell, TabOK
  <2> QED BY <1>2, <2>2, TabStep DEF LiveStatus
<1>3. ASSUME NEW c \in Contacts, NEW p \in 1..listLoad.posts, SyncStatus(c, p)
      PROVE ListInv'
  <2>1. listLoad.posts \in Nat
    BY DEF LoadOK
  <2>2. TabOK'
    BY <1>3, <2>1 DEF SyncStatus, Tell, Newer, TabOK
  <2> QED BY <1>3, <2>2, TabStep DEF SyncStatus
<1>4. ASSUME NEW c \in Contacts, NEW m \in Messages, ListMessage(c, m) PROVE ListInv'
  <2>1. m \in Nat /\ UNCHANGED Messages
    BY <1>4, MessagesFinite DEF ListMessage, Messages
  <2>2. BadgeOK' /\ SyncOK' /\ RequestOK' /\ ReactingOK' /\ TabOK' /\ LoadOK'
    BY <1>4, <2>1 DEF ListMessage, BadgeOK, SyncOK, RequestOK, ReactingOK, TabOK, LoadOK,
                      reacting, tab
  <2>3. \A d \in Contacts : msgs[d] \subseteq msgs'[d] /\ told'[d] = told[d]
    BY <1>4 DEF ListMessage, BadgeOK
  <2>4. Reading'
    BY <1>4, <2>3, ReadingKept DEF ListMessage
  <2>5. Bounded' /\ ToldStored'
    BY <1>4, <2>1, <2>3 DEF ListMessage, Bounded, ToldStored, BadgeOK
  <2> QED BY <2>2, <2>4, <2>5
<1>5. ASSUME NEW c \in Contacts, NEW ids \in SUBSET Messages,
             NEW n \in 0..listLoad.messages, SyncChat(c, ids, n)
      PROVE ListInv'
  <2>1. Messages \subseteq Nat /\ UNCHANGED Messages /\ n \in Nat
    BY <1>5, MessagesFinite DEF SyncChat, Messages
  <2>2. NewestOf(ids, n) \in SUBSET Nat
    BY <2>1, NewestSubset
  <2>3. BadgeOK' /\ SyncOK' /\ RequestOK' /\ ReactingOK' /\ TabOK' /\ LoadOK'
    BY <1>5, <2>1, <2>2 DEF SyncChat, BadgeOK, SyncOK, RequestOK, ReactingOK, TabOK,
                            LoadOK, reacting, tab
  <2>4. Reading'
    BY <1>5, ReadingKept DEF SyncChat
  <2>5. Bounded' /\ ToldStored'
    BY <1>5, <2>1 DEF SyncChat, Bounded, ToldStored
  <2> QED BY <2>3, <2>4, <2>5
<1>6. ASSUME NEW m \in Messages, SyncListed(m) PROVE ListInv'
  <2>1. m \in Nat /\ UNCHANGED Messages
    BY <1>6, MessagesFinite DEF SyncListed, Messages
  <2>2. BadgeOK' /\ SyncOK' /\ RequestOK' /\ TabOK' /\ LoadOK'
    BY <1>6, <2>1 DEF SyncListed, BadgeOK, SyncOK, RequestOK, TabOK, LoadOK, tab
  <2>3. ReactingOK'
    BY <1>6 DEF SyncListed, Reacted, ReactingOK
  <2>4. \A d \in Contacts : msgs[d] \subseteq msgs'[d] /\ told'[d] = told[d]
    BY <1>6 DEF SyncListed, BadgeOK
  <2>5. Reading'
    BY <1>6, <2>4, ReadingKept DEF SyncListed
  <2>6. Bounded' /\ ToldStored'
    BY <1>6, <2>1, <2>4 DEF SyncListed, Bounded, ToldStored, BadgeOK, SyncOK
  <2> QED BY <2>2, <2>3, <2>5, <2>6
<1>7. CASE SyncDone
  <2>1. BadgeOK' /\ SyncOK' /\ RequestOK' /\ ReactingOK' /\ TabOK' /\ LoadOK'
    BY <1>7 DEF SyncDone, NoSync, BadgeOK, SyncOK, RequestOK, ReactingOK, TabOK, LoadOK,
                badge, reacting, tab
  <2>2. Bounded' /\ ToldStored'
    BY <1>7 DEF SyncDone, NoSync, Bounded, ToldStored, badge, Messages
  <2>3. Reading'
    BY <1>7, ReadingKept DEF SyncDone, badge
  <2> QED BY <2>1, <2>2, <2>3
<1>8. ASSUME NEW r \in Requests, NEW c \in Contacts, ReadLists(r, c) PROVE ListInv'
  <2> DEFINE ids == NewestOf(msgs[c], ReadSize)
             q == [at |-> IF ids = {} THEN "clear" ELSE "tell", chat |-> c, ids |-> ids,
                   had |-> msgs[c]]
  <2>1. msgs[c] \in SUBSET Nat /\ ids \in SUBSET Nat
    BY NewestSubset DEF BadgeOK
  <2>2. q \in RequestStates
    BY <2>1, RequestKinds DEF ReadStates
  <2>3. request' = [request EXCEPT ![r] = q]
    BY <1>8 DEF ReadLists
  <2>4. request'[r] = q
    BY <2>3 DEF RequestOK
  <2>5. UNCHANGED <<badge, sync, reacting, tab, listLoad>>
    BY <1>8 DEF ReadLists
  <2>6. InHand(r)'
    BY <2>4, <2>5 DEF InHand, badge, NewestOf
  <2>7. ReactingOK'
    BY <2>5 DEF ReactingOK, reacting
  <2> HIDE DEF q, ListInv, Types
  <2> QED BY <2>2, <2>3, <2>5, <2>6, <2>7, RequestStep
<1>9. ASSUME NEW r \in Requests, ReadTells(r) PROVE ListInv'
  <2> DEFINE q == [request[r] EXCEPT !.at = "clear"]
             c == request[r].chat
  <2>1. request[r] \in ReadStates
    BY <1>9, RequestKinds DEF ReadTells, RequestOK
  <2>2. q \in ReadStates /\ c \in Contacts /\ request[r].ids \in SUBSET Nat
    BY <2>1 DEF ReadStates
  <2>3. InHand(r) /\ request[r].ids \subseteq msgs[c]
    BY <1>9, NewestSubset DEF ReadTells, Reading, InHand
  <2>4. /\ request' = [request EXCEPT ![r] = q]
        /\ told' = [told EXCEPT ![c] = @ \cup request[r].ids]
        /\ UNCHANGED <<msgs, unread, due, slipped, sync, reacting, tab, listLoad>>
    BY <1>9 DEF ReadTells
  <2>5. \A o \in Requests : request'[o] = IF o = r THEN q ELSE request[o]
    BY <2>4 DEF RequestOK
  <2>6. \A d \in Contacts : told[d] \subseteq told'[d]
    BY <2>4 DEF BadgeOK
  <2>7. told'[c] = told[c] \cup request[r].ids
    BY <2>2, <2>4 DEF BadgeOK
  <2>8. RequestOK'
    BY <2>2, <2>4, RequestKinds DEF RequestOK
  <2>9. BadgeOK' /\ SyncOK' /\ ReactingOK' /\ TabOK' /\ LoadOK'
    BY <2>2, <2>4 DEF BadgeOK, SyncOK, ReactingOK, TabOK, LoadOK, reacting, tab
  <2>10. Bounded' /\ ToldStored'
    BY <2>2, <2>3, <2>4 DEF BadgeOK, Bounded, ToldStored, Messages
  <2>11. ASSUME NEW o \in Requests, request'[o].at \in {"tell", "clear"}
         PROVE InHand(o)'
    <3>1. CASE o = r
      <4>1. /\ request'[o].chat = c /\ request'[o].had = request[r].had
            /\ request'[o].ids = request[r].ids
        BY <2>1, <2>5, <3>1 DEF ReadStates
      <4> QED BY <2>3, <2>4, <2>7, <4>1 DEF InHand, NewestOf
    <3>2. CASE o # r
      <4>1. request'[o] = request[o] /\ InHand(o)
        BY <2>5, <2>11, <3>2 DEF Reading
      <4>2. request[o].chat \in Contacts
        BY <2>5, <2>11, <3>2, RequestKinds DEF RequestOK, ReadStates
      <4> QED BY <2>4, <2>6, <4>1, <4>2 DEF InHand, NewestOf
    <3> QED BY <3>1, <3>2
  <2> QED BY <2>8, <2>9, <2>10, <2>11 DEF Reading
<1>10. ASSUME NEW r \in Requests, ReadFails(r) PROVE ListInv'
  <2>1. /\ request' = [request EXCEPT ![r] = IdleRequest]
        /\ UNCHANGED <<badge, sync, reacting, tab, listLoad>>
    BY <1>10 DEF ReadFails, AfterFailure
  <2>2. ReactingOK'
    BY <2>1 DEF ReactingOK, reacting
  <2>3. IdleRequest.at \notin {"tell", "clear"}
    BY DEF IdleRequest
  <2> HIDE DEF ListInv, Types
  <2> QED BY <2>1, <2>2, <2>3, RequestStep, RequestKinds
<1>11. ASSUME NEW r \in Requests, ReadClears(r) PROVE ListInv'
  <2>1. request[r].chat \in Contacts /\ due[request[r].chat] \in SUBSET Nat
    BY <1>11, RequestKinds DEF ReadClears, RequestOK, ReadStates, BadgeOK
  <2>2. /\ request' = [request EXCEPT ![r] = IdleRequest]
        /\ UNCHANGED <<msgs, told, due, sync, reacting, tab, listLoad>>
    BY <1>11 DEF ReadClears
  <2>3. BadgeOK' /\ SyncOK' /\ ReactingOK' /\ TabOK' /\ LoadOK'
    BY <1>11, <2>1, <2>2 DEF ReadClears, BadgeOK, SyncOK, ReactingOK, TabOK, LoadOK,
                             reacting, tab
  <2>4. RequestOK' /\ Reading'
    BY <2>2, ReadingMoves, RequestKinds DEF IdleRequest
  <2>5. Bounded' /\ ToldStored'
    BY <2>2 DEF Bounded, ToldStored, Messages
  <2> QED BY <2>3, <2>4, <2>5
<1>12. ASSUME NEW r \in Requests, NEW c \in Contacts, NEW e \in Emojis \cup {NoEmoji},
              ReactSends(r, c, e)
       PROVE ListInv'
  <2> DEFINE q == [at |-> "react", chat |-> c, emoji |-> e]
  <2>1. q \in RequestStates /\ q.at \notin {"tell", "clear"}
    BY RequestKinds DEF ReactStates
  <2>2. /\ request' = [request EXCEPT ![r] = q]
        /\ UNCHANGED <<badge, sync, tab, listLoad>>
    BY <1>12 DEF ReactSends
  <2>3. ReactingOK'
    BY <1>12 DEF ReactSends, ReactingOK
  <2> HIDE DEF q, ListInv, Types
  <2> QED BY <2>1, <2>2, <2>3, RequestStep
<1>13. ASSUME NEW r \in Requests, ReactTaken(r) PROVE ListInv'
  <2>1. request[r] \in ReactStates
    BY <1>13, RequestKinds DEF ReactTaken, RequestOK
  <2>2. UNCHANGED <<badge, sync, tab, listLoad>>
    BY <1>13 DEF ReactTaken
  <2>3. ReactingOK'
    BY <1>13, <2>1 DEF ReactTaken, ReactingOK, ReactStates
  <2> DEFINE q == [request[r] EXCEPT !.at = "record"]
  <2>4. CASE request' = [request EXCEPT ![r].at = "record"]
    <3>1. q \in ReactStates /\ q.at \notin {"tell", "clear"}
      BY <2>1 DEF ReactStates
    <3>2. q \in RequestStates
      BY <3>1, RequestKinds
    <3>3. request' = [request EXCEPT ![r] = q]
      BY <2>4
    <3> HIDE DEF q, ListInv, Types
    <3> QED BY <2>2, <2>3, <3>1, <3>2, <3>3, RequestStep
  <2>5. CASE request' = [request EXCEPT ![r] = IdleRequest]
    <3>1. IdleRequest.at \notin {"tell", "clear"}
      BY DEF IdleRequest
    <3> HIDE DEF ListInv, Types
    <3> QED BY <2>2, <2>3, <2>5, <3>1, RequestStep, RequestKinds
  <2> QED BY <1>13, <2>4, <2>5 DEF ReactTaken
<1>14. ASSUME NEW r \in Requests, AddReaction(r) PROVE ListInv'
  <2>1. request[r] \in ReactStates
    BY <1>14, RequestKinds DEF AddReaction, RequestOK
  <2>2. /\ request' = [request EXCEPT ![r] = IdleRequest]
        /\ UNCHANGED <<badge, sync, tab, listLoad>>
    BY <1>14 DEF AddReaction
  <2>3. ReactingOK'
    BY <1>14, <2>1 DEF AddReaction, ReactingOK, ReactStates
  <2>4. IdleRequest.at \notin {"tell", "clear"}
    BY DEF IdleRequest
  <2> HIDE DEF ListInv, Types
  <2> QED BY <2>2, <2>3, <2>4, RequestStep, RequestKinds
<1>15. CASE UNCHANGED listVars
  <2>1. TabOK'
    BY <1>15 DEF listVars, tab, TabOK
  <2> QED BY <1>15, <2>1, TabStep DEF listVars
<1> HIDE DEF ListInv, Types
<1> QED
  BY <1>1, <1>2, <1>3, <1>4, <1>5, <1>6, <1>7, <1>8, <1>9, <1>10, <1>11, <1>12, <1>13,
     <1>14, <1>15
  DEF ListNext

LEMMA ListInvariant == ListSpec => []ListInv
<1>1. ListInit => ListInv
  <2> SUFFICES ASSUME ListInit PROVE ListInv
    OBVIOUS
  <2>1. BadgeOK /\ SyncOK /\ TabOK /\ LoadOK
    BY DEF ListInit, BadgeOK, SyncOK, TabOK, LoadOK, NoSync
  <2>2. RequestOK /\ Reading
    BY RequestKinds DEF ListInit, RequestOK, Reading, IdleRequest
  <2>3. ReactingOK
    BY DEF ListInit, ReactingOK
  <2>4. Bounded /\ ToldStored
    BY DEF ListInit, Bounded, ToldStored, NoSync
  <2> QED BY <2>1, <2>2, <2>3, <2>4 DEF ListInv, Types
<1> QED BY <1>1, ListStepInv, PTL DEF ListSpec

\* The types of the chat list alone.
LEMMA ListTypeCorrectAlone == ListSpec => []ListTypeOK
<1>1. ListInv => ListTypeOK
  BY DEF ListInv, Types, ListTypeOK, BadgeOK, SyncOK, RequestOK, ReactingOK, TabOK, LoadOK,
         ToldStored
<1> QED BY <1>1, ListInvariant, PTL

\* Any contacts and requests: every variable has its type, and what WhatsApp was
\* told of as read is stored.
THEOREM ListTypeCorrect == Spec => []ListTypeOK
BY ListTypeCorrectAlone, ListsHasChatList, PTL

--------------------------------------------------------------------------------
(* The badge *)

\* A message with as many newer ones as POST /read looks at.
Buried(c, m) == Cardinality({o \in msgs[c] : o > m}) >= ReadSize

\* Messages are not taken away, so what is buried stays buried.
LEMMA StillBuried ==
    ASSUME ListInv, ListInv', NEW c \in Contacts, msgs[c] \subseteq msgs'[c],
           UNCHANGED listLoad, NEW m \in Nat, Buried(c, m)
    PROVE Buried(c, m)'
<1> DEFINE before == {o \in msgs[c] : o > m}
           after == {o \in msgs'[c] : o > m}
<1>1. IsFiniteSet(after) /\ before \subseteq after
  BY MessagesFinite DEF ListInv, Types, Bounded, Messages
<1>2. /\ Cardinality(before) <= Cardinality(after)
      /\ Cardinality(before) \in Nat /\ Cardinality(after) \in Nat
  BY <1>1, FS_Subset, FS_CardinalityType
<1>3. Cardinality(before) >= ReadSize
  BY DEF Buried
<1> HIDE DEF before, after
<1>4. Cardinality(after) >= ReadSize
  BY <1>2, <1>3
<1> QED BY <1>4 DEF Buried, after

\* What is stored and not among the newest is buried.
LEMMA NewestOrBuried ==
    ASSUME ListInv, NEW c \in Contacts, NEW S \in SUBSET msgs[c], NEW m \in S,
           m \notin NewestOf(S, ReadSize)
    PROVE Buried(c, m)
<1> DEFINE narrow == {o \in S : o > m}
           wide == {o \in msgs[c] : o > m}
<1>1. IsFiniteSet(wide) /\ narrow \subseteq wide
  BY MessagesFinite DEF ListInv, Types, Bounded
<1>2. /\ Cardinality(narrow) <= Cardinality(wide)
      /\ Cardinality(narrow) \in Nat /\ Cardinality(wide) \in Nat
  BY <1>1, FS_Subset, FS_CardinalityType
<1>3. ~(Cardinality(narrow) < ReadSize)
  BY DEF NewestOf
<1> HIDE DEF narrow, wide
<1>4. Cardinality(wide) >= ReadSize
  BY <1>2, <1>3
<1> QED BY <1>4 DEF Buried, wide

\* A step that takes nothing away and gives no chat a new badge.
LEMMA BadgeKept ==
    ASSUME ListInv, ListInv', BadgeHonest, UNCHANGED listLoad,
           NEW c \in Contacts, unread'[c] = 0 => unread[c] = 0,
           due'[c] = due[c], msgs[c] \subseteq msgs'[c],
           told[c] \subseteq told'[c], slipped[c] \subseteq slipped'[c],
           unread'[c] = 0, NEW m \in due'[c]
    PROVE m \in told'[c] \cup slipped'[c] \/ Buried(c, m)'
<1>1. m \in Nat
  BY DEF ListInv, Types, BadgeOK
<1>2. m \in told[c] \cup slipped[c] \/ Buried(c, m)
  BY DEF BadgeHonest, Buried
<1> QED BY <1>1, <1>2, StillBuried

\* The badge of every chat stays honest when no step gives one.
LEMMA BadgesKept ==
    ASSUME ListInv, ListInv', BadgeHonest, UNCHANGED <<listLoad, unread, due>>,
           \A c \in Contacts : /\ msgs[c] \subseteq msgs'[c]
                               /\ told[c] \subseteq told'[c]
                               /\ slipped[c] \subseteq slipped'[c]
    PROVE BadgeHonest'
<1> SUFFICES ASSUME NEW c \in Contacts, unread'[c] = 0, NEW m \in due'[c]
             PROVE m \in told'[c] \cup slipped'[c] \/ Buried(c, m)'
  BY DEF BadgeHonest, Buried
<1> QED BY BadgeKept

LEMMA BadgeStep == ListInv /\ BadgeHonest /\ [ListNext]_listVars => BadgeHonest'
<1> SUFFICES ASSUME ListInv, BadgeHonest, [ListNext]_listVars PROVE BadgeHonest'
  OBVIOUS
<1>0. ListInv'
  BY ListStepInv
<1>1. CASE UNCHANGED <<badge, listLoad>>
  BY <1>0, <1>1, BadgesKept DEF badge
<1>2. ASSUME NEW c \in Contacts, NEW m \in Messages, ListMessage(c, m) PROVE BadgeHonest'
  <2>1. \A d \in Contacts : msgs[d] \subseteq msgs'[d]
    BY <1>2 DEF ListMessage, ListInv, Types, BadgeOK
  <2> QED BY <1>0, <1>2, <2>1, BadgesKept DEF ListMessage
<1>3. ASSUME NEW c \in Contacts, NEW ids \in SUBSET Messages,
             NEW n \in 0..listLoad.messages, SyncChat(c, ids, n)
      PROVE BadgeHonest'
  <2>1. CASE n = 0
    BY <1>0, <1>3, <2>1, BadgesKept DEF SyncChat
  <2>2. CASE n > 0
    <3>1. \A d \in Contacts : /\ unread'[d] = 0 => unread[d] = 0
                              /\ unread'[d] = 0 => due'[d] = due[d]
      BY <1>3, <2>2 DEF SyncChat, ListInv, Types, BadgeOK
    <3>2. UNCHANGED <<msgs, told, slipped, listLoad>>
      BY <1>3 DEF SyncChat
    <3> QED BY <3>1, <3>2 DEF BadgeHonest
  <2>3. n \in Nat
    BY DEF ListInv, Types, LoadOK
  <2> QED BY <2>1, <2>2, <2>3
<1>4. ASSUME NEW m \in Messages, SyncListed(m) PROVE BadgeHonest'
  <2>1. \A d \in Contacts : msgs[d] \subseteq msgs'[d]
    BY <1>4 DEF SyncListed, ListInv, Types, BadgeOK
  <2> QED BY <1>0, <1>4, <2>1, BadgesKept DEF SyncListed
<1>5. ASSUME NEW r \in Requests, ReadTells(r) PROVE BadgeHonest'
  <2>1. \A d \in Contacts : told[d] \subseteq told'[d]
    BY <1>5 DEF ReadTells, ListInv, Types, BadgeOK
  <2> QED BY <1>0, <1>5, <2>1, BadgesKept DEF ReadTells
<1>6. ASSUME NEW r \in Requests, ReadClears(r) PROVE BadgeHonest'
  <2> DEFINE c == request[r].chat
             had == request[r].had
  <2>1. request[r] \in ReadStates /\ InHand(r)
    BY <1>6, RequestKinds DEF ReadClears, ListInv, Types, RequestOK, Reading
  <2>2. c \in Contacts /\ had \subseteq msgs[c]
    BY <2>1 DEF ReadStates, InHand
  <2>3. NewestOf(had, ReadSize) \subseteq told[c]
    BY <1>6, <2>1 DEF InHand, ReadClears
  <2>4. /\ UNCHANGED <<msgs, due, told, listLoad>>
        /\ unread' = [unread EXCEPT ![c] = 0]
        /\ slipped' = [slipped EXCEPT ![c] = @ \cup (due[c] \ had)]
    BY <1>6 DEF ReadClears
  <2> HIDE DEF c, had
  <2>5. /\ slipped'[c] = slipped[c] \cup (due[c] \ had)
        /\ \A d \in Contacts : d # c => /\ slipped'[d] = slipped[d]
                                       /\ unread'[d] = unread[d]
    BY <2>2, <2>4 DEF ListInv, Types, BadgeOK
  <2> SUFFICES ASSUME NEW d \in Contacts, unread'[d] = 0, NEW m \in due'[d]
               PROVE m \in told'[d] \cup slipped'[d] \/ Buried(d, m)'
    BY DEF BadgeHonest, Buried
  <2>6. CASE d # c
    BY <2>4, <2>5, <2>6 DEF BadgeHonest, Buried
  <2>7. CASE d = c /\ m \in had
    <3>1. m \in told[c] \/ Buried(c, m)
      BY <2>2, <2>3, <2>7, NewestOrBuried
    <3> QED BY <2>4, <2>7, <3>1 DEF Buried
  <2>8. CASE d = c /\ m \notin had
    BY <2>4, <2>5, <2>8
  <2> QED BY <2>6, <2>7, <2>8
<1> QED
  BY <1>1, <1>2, <1>3, <1>4, <1>5, <1>6
  DEF ListNext, Post, LiveStatus, SyncStatus, SyncDone, ReadLists, ReadFails, ReactSends,
      ReactTaken, AddReaction, listVars

\* The badge, in the chat list alone.
LEMMA BadgeIsHonestAlone == ListSpec => []BadgeHonest
<1>1. ListInit => BadgeHonest
  BY DEF ListInit, BadgeHonest
<1> QED BY <1>1, BadgeStep, ListInvariant, PTL DEF ListSpec

\* Any contacts, any number of POST /read at once and any number of messages: a
\* badge that is gone stood for messages WhatsApp was told of, or for those that
\* BadgeHonest names.
THEOREM BadgeIsHonest == Spec => []BadgeHonest
BY BadgeIsHonestAlone, ListsHasChatList, PTL

--------------------------------------------------------------------------------
(* The reaction *)

Reacting(r) == request[r].at \in {"react", "record"}

\* Until two requests have reacted at the same time there is at most one, and the
\* store lags behind WhatsApp by what that one is about to record.
OneReacts ==
    ~crossed =>
        /\ \A r, o \in Requests : Reacting(r) /\ Reacting(o) => r = o
        /\ \A r \in Requests :
            request[r].at = "record" => sent[request[r].chat] = request[r].emoji
        /\ \A c \in Contacts : ~Recording(c) => reaction[c] = sent[c]

\* Steps of a request that does not react.
LEMMA OthersReact ==
    ASSUME OneReacts, UNCHANGED <<crossed, sent, reaction>>,
           \A r \in Requests : Reacting(r) \/ Reacting(r)' => request'[r] = request[r]
    PROVE OneReacts'
<1>1. \A c \in Contacts : Recording(c)' <=> Recording(c)
  BY DEF Recording, Reacting
<1> QED BY <1>1 DEF OneReacts, Reacting

LEMMA ReactStep == ListInv /\ OneReacts /\ [ListNext]_listVars => OneReacts'
<1> SUFFICES ASSUME Types, OneReacts, [ListNext]_listVars PROVE OneReacts'
  BY DEF ListInv
<1> USE DEF Types
<1>1. CASE UNCHANGED <<request, reacting>>
  BY <1>1, OthersReact DEF reacting, Reacting
<1>2. ASSUME NEW m \in Messages, SyncListed(m) PROVE OneReacts'
  <2>1. UNCHANGED <<request, crossed, sent, reaction>>
    BY <1>2 DEF SyncListed, Reacted, ReactingOK
  <2> QED BY <2>1, OthersReact
<1>3. ASSUME NEW r \in Requests, NEW q,
             request' = [request EXCEPT ![r] = q], UNCHANGED reacting,
             ~Reacting(r), q.at \notin {"react", "record"}
      PROVE OneReacts'
  <2>1. \A o \in Requests : request'[o] = IF o = r THEN q ELSE request[o]
    BY <1>3 DEF RequestOK
  <2> QED BY <1>3, <2>1, OthersReact DEF Reacting, reacting
<1>4. ASSUME NEW r \in Requests, NEW c \in Contacts, ReadLists(r, c) PROVE OneReacts'
  BY <1>3, <1>4 DEF ReadLists, Reacting
<1>5. ASSUME NEW r \in Requests, ReadTells(r) PROVE OneReacts'
  <2>1. request[r] \in ReadStates
    BY <1>5, RequestKinds DEF ReadTells, RequestOK
  <2>2. [request[r] EXCEPT !.at = "clear"].at = "clear"
    BY <2>1 DEF ReadStates
  <2> QED BY <1>3, <1>5, <2>2 DEF ReadTells, Reacting
<1>6. ASSUME NEW r \in Requests, ReadFails(r) PROVE OneReacts'
  BY <1>3, <1>6 DEF ReadFails, AfterFailure, IdleRequest, Reacting
<1>7. ASSUME NEW r \in Requests, ReadClears(r) PROVE OneReacts'
  BY <1>3, <1>7 DEF ReadClears, IdleRequest, Reacting
<1>8. ASSUME NEW r \in Requests, NEW c \in Contacts, NEW e \in Emojis \cup {NoEmoji},
             ReactSends(r, c, e)
      PROVE OneReacts'
  <2> SUFFICES ASSUME ~crossed' PROVE OneReacts'
    BY DEF OneReacts
  <2>1. ~crossed /\ \A o \in Requests : ~Reacting(o)
    BY <1>8 DEF ReactSends, Reacting
  <2>2. \A d \in Contacts : reaction[d] = sent[d]
    BY <2>1 DEF OneReacts, Recording, Reacting
  <2>3. \A o \in Requests : o # r => request'[o] = request[o]
    BY <1>8 DEF ReactSends, RequestOK
  <2>4. request'[r].at = "react"
    BY <1>8 DEF ReactSends, RequestOK
  <2>5. UNCHANGED <<reaction, sent>>
    BY <1>8 DEF ReactSends
  <2>6. \A o \in Requests : request'[o].at # "record"
    BY <2>1, <2>3, <2>4 DEF Reacting
  <2>7. \A o \in Requests : Reacting(o)' => o = r
    BY <2>1, <2>3 DEF Reacting
  <2> QED BY <2>2, <2>5, <2>6, <2>7 DEF OneReacts
<1>9. ASSUME NEW r \in Requests, ReactTaken(r) PROVE OneReacts'
  <2> SUFFICES ASSUME ~crossed PROVE OneReacts'
    BY <1>9 DEF ReactTaken, OneReacts
  <2> DEFINE c == request[r].chat
  <2>1. request[r] \in ReactStates /\ c \in Contacts
    BY <1>9, RequestKinds DEF ReactTaken, RequestOK, ReactStates
  <2>2. \A o \in Requests : Reacting(o) => o = r
    BY <1>9 DEF OneReacts, Reacting, ReactTaken
  <2>3. \A d \in Contacts : reaction[d] = sent[d]
    BY <1>9, <2>2 DEF OneReacts, Recording, Reacting, ReactTaken
  <2>4. \A o \in Requests : o # r => request'[o] = request[o]
    BY <1>9 DEF ReactTaken, RequestOK
  <2>5. \A o \in Requests : Reacting(o)' => o = r
    BY <2>2, <2>4 DEF Reacting
  <2>6. CASE /\ sent' = [sent EXCEPT ![request[r].chat] = request[r].emoji]
             /\ request' = [request EXCEPT ![r].at = "record"]
    <3>1. /\ request'[r].at = "record" /\ request'[r].chat = c
          /\ request'[r].emoji = request[r].emoji
      BY <2>1, <2>6 DEF RequestOK, ReactStates
    <3>2. sent'[c] = request[r].emoji /\ \A d \in Contacts : d # c => sent'[d] = sent[d]
      BY <2>1, <2>6 DEF ReactingOK
    <3>3. UNCHANGED reaction
      BY <1>9 DEF ReactTaken
    <3>4. \A o \in Requests :
            request'[o].at = "record" => sent'[request'[o].chat] = request'[o].emoji
      BY <2>5, <3>1, <3>2 DEF Reacting
    <3>5. \A d \in Contacts : ~Recording(d)' => reaction'[d] = sent'[d]
      <4> SUFFICES ASSUME NEW d \in Contacts, ~Recording(d)' PROVE reaction'[d] = sent'[d]
        OBVIOUS
      <4>1. d # c
        BY <3>1 DEF Recording
      <4> QED BY <2>3, <3>2, <3>3, <4>1
    <3>6. \A o, q \in Requests : Reacting(o)' /\ Reacting(q)' => o = q
      BY <2>5
    <3> QED BY <3>4, <3>5, <3>6 DEF OneReacts
  <2>7. CASE request' = [request EXCEPT ![r] = IdleRequest] /\ UNCHANGED sent
    <3>1. request'[r].at = "idle"
      BY <2>7 DEF RequestOK, IdleRequest
    <3>2. \A o \in Requests : ~Reacting(o)'
      BY <2>5, <3>1 DEF Reacting
    <3>3. UNCHANGED reaction
      BY <1>9 DEF ReactTaken
    <3> QED BY <2>3, <2>7, <3>2, <3>3 DEF OneReacts, Reacting
  <2> QED BY <1>9, <2>6, <2>7 DEF ReactTaken
<1>10. ASSUME NEW r \in Requests, AddReaction(r) PROVE OneReacts'
  <2> SUFFICES ASSUME ~crossed PROVE OneReacts'
    BY <1>10 DEF AddReaction, OneReacts
  <2> DEFINE c == request[r].chat
  <2>1. c \in Contacts
    BY <1>10, RequestKinds DEF AddReaction, RequestOK, ReactStates
  <2>2. \A o \in Requests : Reacting(o) => o = r
    BY <1>10 DEF OneReacts, Reacting, AddReaction
  <2>3. sent[c] = request[r].emoji
    BY <1>10 DEF OneReacts, AddReaction
  <2>4. \A d \in Contacts : d # c => reaction[d] = sent[d]
    BY <2>2 DEF OneReacts, Recording, Reacting
  <2>5. /\ reaction' = [reaction EXCEPT ![c] = request[r].emoji]
        /\ request' = [request EXCEPT ![r] = IdleRequest]
        /\ UNCHANGED sent
    BY <1>10 DEF AddReaction
  <2>6. \A o \in Requests : ~Reacting(o)'
    BY <2>2, <2>5 DEF Reacting, RequestOK, IdleRequest
  <2>7. \A d \in Contacts : reaction'[d] = sent'[d]
    BY <2>1, <2>3, <2>4, <2>5 DEF ReactingOK
  <2> QED BY <2>6, <2>7 DEF OneReacts, Reacting
<1> QED
  BY <1>1, <1>2, <1>4, <1>5, <1>6, <1>7, <1>8, <1>9, <1>10
  DEF ListNext, Post, LiveStatus, SyncStatus, ListMessage, SyncChat, SyncDone, listVars

\* The reaction, in the chat list alone.
LEMMA ReactionsAgreeAlone == ListSpec => []ReactionAgrees
<1>1. ListInit => OneReacts
  BY DEF ListInit, OneReacts, Reacting, IdleRequest
<1>2. OneReacts => ReactionAgrees
  BY DEF OneReacts, ReactionAgrees
<1> QED BY <1>1, <1>2, ReactStep, ListInvariant, PTL DEF ListSpec

\* Any contacts and reactions, and any syncs in between: the stored reaction is
\* the one WhatsApp holds, until two requests react at the same time.
THEOREM ReactionsAgree == Spec => []ReactionAgrees
BY ReactionsAgreeAlone, ListsHasChatList, PTL

--------------------------------------------------------------------------------
(* The Status tab *)

\* StatusNewest is inductive: a live post is newer than any live post before it,
\* and a sync never lowers the time of what is shown.
LEMMA StatusStep == ListInv /\ StatusNewest /\ [ListNext]_listVars => StatusNewest'
<1> SUFFICES ASSUME TabOK, LoadOK, StatusNewest, [ListNext]_listVars PROVE StatusNewest'
  BY DEF ListInv, Types
<1>1. CASE UNCHANGED <<status, lastLive, seen>>
  BY <1>1 DEF StatusNewest
<1>2. ASSUME NEW c \in Contacts, NEW p \in 1..listLoad.posts, LiveStatus(c, p)
      PROVE StatusNewest'
  <2>1. p \in Nat /\ p > lastLive[c]
    BY <1>2 DEF LiveStatus, LoadOK, TabOK
  <2>2. status'[c] = p /\ lastLive'[c] = p
    BY <1>2 DEF LiveStatus, TabOK
  <2>3. \A d \in Contacts : d # c =>
            status'[d] = status[d] /\ lastLive'[d] = lastLive[d] /\ seen'[d] = seen[d]
    BY <1>2 DEF LiveStatus, Tell, TabOK
  <2> QED BY <2>1, <2>2, <2>3 DEF StatusNewest
<1>3. ASSUME NEW c \in Contacts, NEW p \in 1..listLoad.posts, SyncStatus(c, p)
      PROVE StatusNewest'
  <2>1. p \in Nat
    BY DEF LoadOK
  <2>2. /\ status'[c] = (IF p > status[c] THEN p ELSE status[c])
        /\ seen'[c] = seen[c] \cup {p}
        /\ UNCHANGED lastLive
    BY <1>3 DEF SyncStatus, Tell, Newer, TabOK
  <2>3. \A d \in Contacts : d # c => status'[d] = status[d] /\ seen'[d] = seen[d]
    BY <1>3 DEF SyncStatus, Tell, TabOK
  <2>4. \A q \in seen'[c] : q > status'[c] => q > lastLive'[c]
    BY <2>1, <2>2 DEF StatusNewest, TabOK
  <2>5. lastLive'[c] <= status'[c]
    BY <2>1, <2>2 DEF StatusNewest, TabOK
  <2> QED BY <2>2, <2>3, <2>4, <2>5 DEF StatusNewest
<1> QED
  BY <1>1, <1>2, <1>3
  DEF ListNext, Post, ListMessage, SyncChat, SyncListed, SyncDone, ReadLists, ReadTells,
      ReadFails, ReadClears, ReactSends, ReactTaken, AddReaction, listVars, tab

\* The Status tab, in the chat list alone.
LEMMA StatusIsNewestAlone == ListSpec => []StatusNewest
<1>1. ListInit => StatusNewest
  BY DEF ListInit, StatusNewest
<1> QED BY <1>1, StatusStep, ListInvariant, PTL DEF ListSpec

\* Any contacts and posts: only a post that a sync told of can be hidden, by an
\* older one that has come live since.
THEOREM StatusIsNewest == Spec => []StatusNewest
BY StatusIsNewestAlone, ListsHasChatList, PTL

================================================================================
