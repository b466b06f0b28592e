------------------------------- MODULE Channels --------------------------------
(***************************************************************************)
(* The channels (newsletters) the account follows: the cache that answers  *)
(* the app's polls of /channels for a minute, the answers of WhatsApp or   *)
(* of the store that fill it, and the follow and unfollow requests that    *)
(* clear it. The cache holds its mutex for each get and set, and no longer.*)
(* Not being connected is one of the ways in which a request fails. A      *)
(* channel stands for its summary; its name and counts are left out.       *)
(***************************************************************************)
EXTENDS Integers, FiniteSets

CONSTANTS
    Newsletters,
    Polls,      \* requests for /channels, used over again
    Changes,    \* requests to follow and unfollow, used over again
    Starts,     \* what is followed and what has a chat when the server starts
    MaxChanges  \* bound: what is followed and unfollowed, here and elsewhere

ASSUME ChannelsAssumption ==
    /\ Starts \subseteq [followed : SUBSET Newsletters, stored : SUBSET Newsletters]
    /\ MaxChanges \in Nat

VARIABLES
    followed,  \* what the account follows, as WhatsApp has it
    stored,    \* the newsletters with a chat in the store
    cache,     \* channelCache.channels and whether its minute has not passed
    poll,      \* where each poll is
    change,    \* where each follow or unfollow is
    listed,    \* the list the app has been given last
    changes    \* how often followed has been asked to change

channelVars == <<followed, stored, cache, poll, change, listed, changes>>

\* An answer: its channels, where it comes from, and (history) how followed has
\* changed since: a change made here has overtaken it, or one has that the server
\* knows nothing of.
List(S, o) == [list |-> S, origin |-> o, since |-> {}]
NoList == List({}, "none")
Idle == [at |-> "idle"]

ChannelsInit ==
    /\ \E s \in Starts : followed = s.followed /\ stored = s.stored
    /\ cache = [answer |-> NoList, fresh |-> FALSE]
    /\ poll = [p \in Polls |-> [at |-> "idle", answer |-> NoList]]
    /\ change = [f \in Changes |-> Idle]
    /\ listed = {}
    /\ changes = 0

--------------------------------------------------------------------------------
(* GET /channels *)

\* Mutant of Hit: the minute never ends.
HitForever == cache.answer.list # {}

\* channelCache.get.
Hit == cache.answer.list # {} /\ cache.fresh

Expire ==
    /\ cache.fresh
    /\ cache' = [cache EXCEPT !.fresh = FALSE]
    /\ UNCHANGED <<followed, stored, poll, change, listed, changes>>

Serve(p) ==
    /\ poll[p].at = "idle"
    /\ Hit
    /\ listed' = cache.answer.list
    /\ UNCHANGED <<followed, stored, cache, poll, change, changes>>

Ask(p) ==
    /\ poll[p].at = "idle"
    /\ ~Hit
    /\ poll' = [poll EXCEPT ![p] = [at |-> "ask", answer |-> NoList]]
    /\ UNCHANGED <<followed, stored, cache, change, listed, changes>>

\* subscribedChannels makes its summaries.
Gets(p, answer) ==
    /\ poll[p].at = "ask"
    /\ poll' = [poll EXCEPT ![p] = [at |-> "set", answer |-> answer]]
    /\ UNCHANGED <<followed, stored, cache, change, listed, changes>>

\* GetSubscribedNewsletters.
Fetch(p) == followed # {} /\ Gets(p, List(followed, "network"))

\* Not connected, an error, or an empty list: the summaries come from the store.
FallBack(p) == Gets(p, List(stored, "store"))

\* channelCache.set, and the answer.
SetCache(p) ==
    /\ poll[p].at = "set"
    /\ cache' = [answer |-> poll[p].answer, fresh |-> TRUE]
    /\ listed' = poll[p].answer.list
    /\ poll' = [poll EXCEPT ![p] = [at |-> "idle", answer |-> NoList]]
    /\ UNCHANGED <<followed, stored, change, changes>>

--------------------------------------------------------------------------------
(* POST /channel/follow and /channel/unfollow *)

\* An answer of WhatsApp that no longer tells what is followed.
Since(a, reason) ==
    IF a.origin = "network" THEN [a EXCEPT !.since = @ \cup {reason}] ELSE a
OnTheWay(reason) == poll' = [p \in Polls |-> [poll[p] EXCEPT !.answer = Since(@, reason)]]
Unseen ==
    /\ OnTheWay("unseen")
    /\ cache' = [cache EXCEPT !.answer = Since(@, "unseen")]

Request(f, kind, c) ==
    /\ change[f].at = "idle"
    /\ changes < MaxChanges
    /\ changes' = changes + 1
    /\ change' = [change EXCEPT ![f] = [at |-> "ask", kind |-> kind, channel |-> c]]
    /\ UNCHANGED <<followed, stored, cache, poll, listed>>

Follow(f, c) == Request(f, "follow", c)
Unfollow(f, c) == Request(f, "unfollow", c)

Changed(f) ==
    IF change[f].kind = "follow" THEN followed \cup {change[f].channel}
                                 ELSE followed \ {change[f].channel}

\* FollowNewsletter or UnfollowNewsletter has succeeded.
Taken(f) ==
    /\ change[f].at = "ask"
    /\ followed' = Changed(f)
    /\ OnTheWay("overtaken")
    /\ change' = [change EXCEPT ![f] = [@ EXCEPT !.at = "clear"]]
    /\ UNCHANGED <<stored, cache, listed, changes>>

\* It has failed, or it has been done and the answer is lost.
FollowFails(f) ==
    /\ change[f].at = "ask"
    /\ change' = [change EXCEPT ![f] = Idle]
    /\ \/ UNCHANGED <<followed, cache, poll>>
       \/ followed' = Changed(f) /\ Unseen
    /\ UNCHANGED <<stored, listed, changes>>

\* Mutant of Cleared: the cache is left to expire.
NotCleared == cache

\* ChannelCache.set(nil).
Cleared == [answer |-> NoList, fresh |-> TRUE]

Clear(f) ==
    /\ change[f].at = "clear"
    /\ cache' = Cleared
    /\ change' = [change EXCEPT ![f] = Idle]
    /\ UNCHANGED <<followed, stored, poll, listed, changes>>

--------------------------------------------------------------------------------
(* The world *)

\* The phone follows or unfollows.
Elsewhere(c) ==
    /\ changes < MaxChanges
    /\ changes' = changes + 1
    /\ \/ followed' = followed \cup {c}
       \/ followed' = followed \ {c}
    /\ Unseen
    /\ UNCHANGED <<stored, change, listed>>

\* A post of a channel makes its chat.
ChannelPost(c) ==
    /\ c \in followed \ stored
    /\ stored' = stored \cup {c}
    /\ UNCHANGED <<followed, cache, poll, change, listed, changes>>

ChannelsNext ==
    \/ Expire
    \/ \E p \in Polls : Serve(p) \/ Ask(p) \/ Fetch(p) \/ FallBack(p) \/ SetCache(p)
    \/ \E f \in Changes : Taken(f) \/ FollowFails(f) \/ Clear(f)
    \/ \E c \in Newsletters :
        \/ \E f \in Changes : Follow(f, c) \/ Unfollow(f, c)
        \/ Elsewhere(c) \/ ChannelPost(c)

ChannelsSpec == ChannelsInit /\ [][ChannelsNext]_channelVars

\* What a poll does without an answer of WhatsApp.
ChannelSteps(p) == Serve(p) \/ Ask(p) \/ FallBack(p) \/ SetCache(p)

--------------------------------------------------------------------------------

Answers == [list : SUBSET Newsletters, origin : {"none", "network", "store"},
            since : SUBSET {"overtaken", "unseen"}]

\* Every cache content and every request is one of these.
ChannelsTypeOK ==
    /\ followed \subseteq Newsletters /\ stored \subseteq Newsletters
    /\ listed \subseteq Newsletters
    /\ cache \in [answer : Answers, fresh : BOOLEAN]
    /\ poll \in [Polls -> [at : {"idle", "ask", "set"}, answer : Answers]]
    /\ change \in [Changes -> [at : {"idle"}]
                    \cup [at : {"ask", "clear"}, kind : {"follow", "unfollow"},
                          channel : Newsletters]]
    /\ changes \in 0..MaxChanges

\* For its minute the cache answers with what the account follows, whatever
\* polls, follows and unfollows run at the same time. The exceptions: the list
\* is the store's; a change has been taken and is about to clear the cache; the
\* change was not seen here; or the list was on its way to the cache when a
\* change overtook it, and was stored after that change had cleared the cache.
CacheHonest ==
    Hit /\ cache.answer.origin = "network" =>
        \/ cache.answer.list = followed
        \/ cache.answer.since # {}
        \/ \E f \in Changes : change[f].at = "clear"

Settled == followed # {} => listed = followed

================================================================================
