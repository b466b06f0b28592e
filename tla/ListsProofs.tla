------------------------------ MODULE ListsProofs ------------------------------
(***************************************************************************)
(* Proofs about Channels, for any newsletters and any number of polls and  *)
(* of follow and unfollow requests at once; about FileCaches, for any      *)
(* messages and requests; and, with ChatListProofs, about Lists.           *)
(***************************************************************************)
EXTENDS ChatListProofs

USE ChannelsAssumption

\* The part of Lists that Channels describes.
LEMMA ListsHasChannels == Spec => ChannelsSpec
<1>1. Init => ChannelsInit
  BY DEF Init
<1>2. [Next]_vars => [ChannelsNext]_channelVars
  BY DEF Next, ListStep, ChannelStep, FileStep, vars
<1> QED BY <1>1, <1>2, PTL DEF Spec, ChannelsSpec

--------------------------------------------------------------------------------
(* Types *)

Reasons == {"overtaken", "unseen"}

WorldOK ==
    /\ followed \subseteq Newsletters /\ stored \subseteq Newsletters
    /\ listed \subseteq Newsletters
    /\ changes \in 0..MaxChanges

CacheOK == cache \in [answer : Answers, fresh : BOOLEAN]
PollOK == poll \in [Polls -> [at : {"idle", "ask", "set"}, answer : Answers]]

Requesting ==
    [at : {"idle"}]
    \cup [at : {"ask", "clear"}, kind : {"follow", "unfollow"}, channel : Newsletters]
ChangeOK == change \in [Changes -> Requesting]

LEMMA TypeSplit == ChannelsTypeOK <=> WorldOK /\ CacheOK /\ PollOK /\ ChangeOK
BY DEF ChannelsTypeOK, WorldOK, CacheOK, PollOK, ChangeOK, Requesting

LEMMA AnswersTyped ==
    /\ NoList \in Answers
    /\ \A S \in SUBSET Newsletters :
        List(S, "network") \in Answers /\ List(S, "store") \in Answers
BY DEF NoList, List, Answers

LEMMA SinceTyped ==
    ASSUME NEW a \in Answers, NEW r \in Reasons
    PROVE /\ Since(a, r) \in Answers
          /\ Since(a, r).origin = a.origin
          /\ a.origin = "network" => Since(a, r).since # {}
BY DEF Answers, Since, Reasons

\* What a change of followed does to the polls.
LEMMA OnTheWayTyped ==
    ASSUME PollOK, NEW r \in Reasons, OnTheWay(r)
    PROVE /\ PollOK'
          /\ \A p \in Polls :
                poll'[p].answer.origin = "network" => poll'[p].answer.since # {}
<1>1. \A p \in Polls : poll'[p] = [poll[p] EXCEPT !.answer = Since(poll[p].answer, r)]
  BY DEF OnTheWay
<1>2. ASSUME NEW p \in Polls
      PROVE /\ poll'[p] \in [at : {"idle", "ask", "set"}, answer : Answers]
            /\ poll'[p].answer.origin = "network" => poll'[p].answer.since # {}
  <2>1. poll[p] \in [at : {"idle", "ask", "set"}, answer : Answers]
    BY DEF PollOK
  <2>2. poll'[p].answer = Since(poll[p].answer, r) /\ poll'[p].at = poll[p].at
    BY <1>1, <2>1
  <2>3. Since(poll[p].answer, r).origin = poll[p].answer.origin
    BY <2>1, SinceTyped
  <2>4. poll'[p].answer.origin = "network" => poll'[p].answer.since # {}
    BY <2>1, <2>2, <2>3, SinceTyped
  <2>5. Since(poll[p].answer, r) \in Answers
    BY <2>1, SinceTyped
  <2> QED BY <1>1, <2>1, <2>4, <2>5
<1>3. poll' \in [Polls -> [at : {"idle", "ask", "set"}, answer : Answers]]
  BY <1>2 DEF OnTheWay
<1> QED BY <1>2, <1>3 DEF PollOK

LEMMA UnseenTyped ==
    ASSUME PollOK, CacheOK, Unseen
    PROVE /\ PollOK' /\ CacheOK'
          /\ cache'.answer.origin = "network" => cache'.answer.since # {}
          /\ \A p \in Polls :
                poll'[p].answer.origin = "network" => poll'[p].answer.since # {}
<1>1. OnTheWay("unseen") /\ "unseen" \in Reasons
  BY DEF Unseen, Reasons
<1>2. cache.answer \in Answers /\ cache \in [answer : Answers, fresh : BOOLEAN]
  BY DEF CacheOK
<1>3. /\ Since(cache.answer, "unseen") \in Answers
      /\ Since(cache.answer, "unseen").origin = cache.answer.origin
      /\ cache.answer.origin = "network" => Since(cache.answer, "unseen").since # {}
  BY <1>1, <1>2, SinceTyped
<1>4. cache' = [cache EXCEPT !.answer = Since(cache.answer, "unseen")]
  BY DEF Unseen
<1>5. CacheOK' /\ cache'.answer = Since(cache.answer, "unseen")
  BY <1>2, <1>3, <1>4 DEF CacheOK
<1> QED BY <1>1, <1>3, <1>5, OnTheWayTyped

LEMMA ChangedTyped ==
    ASSUME WorldOK, ChangeOK, NEW f \in Changes, change[f].at = "ask"
    PROVE Changed(f) \subseteq Newsletters
<1>1. change[f] \in Requesting
  BY DEF ChangeOK
<1>2. change[f].channel \in Newsletters
  BY <1>1 DEF Requesting
<1> QED BY <1>2 DEF Changed, WorldOK

LEMMA IdleTyped == Idle \in Requesting
BY DEF Requesting, Idle

LEMMA ClearTyped ==
    ASSUME ChangeOK, NEW f \in Changes, change[f].at = "ask"
    PROVE [change[f] EXCEPT !.at = "clear"] \in Requesting
<1>1. change[f] \in Requesting
  BY DEF ChangeOK
<1>2. change[f] \in [at : {"ask", "clear"}, kind : {"follow", "unfollow"},
                     channel : Newsletters]
  BY <1>1 DEF Requesting
<1>3. [change[f] EXCEPT !.at = "clear"]
        \in [at : {"ask", "clear"}, kind : {"follow", "unfollow"},
            channel : Newsletters]
  BY <1>2
<1> QED BY <1>3 DEF Requesting

LEMMA TypeStep == ChannelsTypeOK /\ [ChannelsNext]_channelVars => ChannelsTypeOK'
<1> SUFFICES ASSUME WorldOK, CacheOK, PollOK, ChangeOK, [ChannelsNext]_channelVars
             PROVE WorldOK' /\ CacheOK' /\ PollOK' /\ ChangeOK'
  BY DEF ChannelsTypeOK, WorldOK, CacheOK, PollOK, ChangeOK, Requesting
<1>1. CASE Expire
  BY <1>1 DEF Expire, WorldOK, CacheOK, PollOK, ChangeOK
<1>2. ASSUME NEW p \in Polls, Serve(p) PROVE WorldOK' /\ CacheOK' /\ PollOK' /\ ChangeOK'
  <2>1. cache.answer.list \subseteq Newsletters
    BY DEF CacheOK, Answers
  <2> QED BY <1>2, <2>1 DEF Serve, WorldOK, CacheOK, PollOK, ChangeOK
<1>3. ASSUME NEW p \in Polls, Ask(p) PROVE WorldOK' /\ CacheOK' /\ PollOK' /\ ChangeOK'
  <2>1. PollOK'
    BY <1>3, AnswersTyped DEF Ask, PollOK
  <2> QED BY <1>3, <2>1 DEF Ask, WorldOK, CacheOK, ChangeOK
<1>4. ASSUME NEW p \in Polls, NEW a \in Answers, Gets(p, a)
      PROVE WorldOK' /\ CacheOK' /\ PollOK' /\ ChangeOK'
  BY <1>4 DEF Gets, WorldOK, CacheOK, PollOK, ChangeOK
<1>5. ASSUME NEW p \in Polls, Fetch(p) PROVE WorldOK' /\ CacheOK' /\ PollOK' /\ ChangeOK'
  <2>1. List(followed, "network") \in Answers
    BY AnswersTyped DEF WorldOK
  <2> QED BY <1>4, <1>5, <2>1 DEF Fetch
<1>6. ASSUME NEW p \in Polls, FallBack(p) PROVE WorldOK' /\ CacheOK' /\ PollOK' /\ ChangeOK'
  <2>1. List(stored, "store") \in Answers
    BY AnswersTyped DEF WorldOK
  <2> QED BY <1>4, <1>6, <2>1 DEF FallBack
<1>7. ASSUME NEW p \in Polls, SetCache(p) PROVE WorldOK' /\ CacheOK' /\ PollOK' /\ ChangeOK'
  <2>1. poll[p].answer \in Answers /\ poll[p].answer.list \subseteq Newsletters
    BY DEF PollOK, Answers
  <2>2. PollOK'
    BY <1>7, AnswersTyped DEF SetCache, PollOK
  <2> QED BY <1>7, <2>1, <2>2 DEF SetCache, WorldOK, CacheOK, ChangeOK
<1>8. ASSUME NEW f \in Changes, NEW k \in {"follow", "unfollow"}, NEW c \in Newsletters,
             Request(f, k, c)
      PROVE WorldOK' /\ CacheOK' /\ PollOK' /\ ChangeOK'
  <2>1. [at |-> "ask", kind |-> k, channel |-> c] \in Requesting
    BY DEF Requesting
  <2> QED BY <1>8, <2>1 DEF Request, WorldOK, CacheOK, PollOK, ChangeOK
<1>9. ASSUME NEW f \in Changes, Taken(f) PROVE WorldOK' /\ CacheOK' /\ PollOK' /\ ChangeOK'
  <2>1. PollOK'
    BY <1>9, OnTheWayTyped DEF Taken, Reasons
  <2>2. followed' \subseteq Newsletters
    BY <1>9, ChangedTyped DEF Taken
  <2>3. ChangeOK'
    BY <1>9, ClearTyped DEF Taken, ChangeOK
  <2> QED BY <1>9, <2>1, <2>2, <2>3 DEF Taken, WorldOK, CacheOK
<1>10. ASSUME NEW f \in Changes, FollowFails(f)
       PROVE WorldOK' /\ CacheOK' /\ PollOK' /\ ChangeOK'
  <2>1. ChangeOK'
    BY <1>10, IdleTyped DEF FollowFails, ChangeOK
  <2>2. CASE UNCHANGED <<followed, cache, poll>>
    BY <1>10, <2>1, <2>2 DEF FollowFails, WorldOK, CacheOK, PollOK
  <2>3. CASE followed' = Changed(f) /\ Unseen
    <3>1. PollOK' /\ CacheOK' /\ followed' \subseteq Newsletters
      BY <1>10, <2>3, UnseenTyped, ChangedTyped DEF FollowFails
    <3> QED BY <1>10, <2>1, <3>1 DEF FollowFails, WorldOK
  <2> QED BY <1>10, <2>2, <2>3 DEF FollowFails
<1>11. ASSUME NEW f \in Changes, Clear(f) PROVE WorldOK' /\ CacheOK' /\ PollOK' /\ ChangeOK'
  <2>1. ChangeOK'
    BY <1>11, IdleTyped DEF Clear, ChangeOK
  <2>2. CacheOK'
    BY <1>11, AnswersTyped DEF Clear, Cleared, CacheOK
  <2> QED BY <1>11, <2>1, <2>2 DEF Clear, WorldOK, PollOK
<1>12. ASSUME NEW c \in Newsletters, Elsewhere(c)
       PROVE WorldOK' /\ CacheOK' /\ PollOK' /\ ChangeOK'
  <2>1. PollOK' /\ CacheOK'
    BY <1>12, UnseenTyped DEF Elsewhere
  <2> QED BY <1>12, <2>1 DEF Elsewhere, WorldOK, ChangeOK
<1>13. ASSUME NEW c \in Newsletters, ChannelPost(c)
       PROVE WorldOK' /\ CacheOK' /\ PollOK' /\ ChangeOK'
  BY <1>13 DEF ChannelPost, WorldOK, CacheOK, PollOK, ChangeOK
<1>14. CASE UNCHANGED channelVars
  BY <1>14 DEF channelVars, WorldOK, CacheOK, PollOK, ChangeOK
<1> QED
  BY <1>1, <1>2, <1>3, <1>5, <1>6, <1>7, <1>8, <1>9, <1>10, <1>11, <1>12, <1>13, <1>14
  DEF ChannelsNext, Follow, Unfollow

\* The types of the channels alone.
LEMMA ChannelsTypeCorrectAlone == ChannelsSpec => []ChannelsTypeOK
<1>1. ChannelsInit => ChannelsTypeOK
  <2> SUFFICES ASSUME ChannelsInit PROVE WorldOK /\ CacheOK /\ PollOK /\ ChangeOK
    BY TypeSplit
  <2>1. WorldOK
    BY DEF ChannelsInit, WorldOK
  <2>2. CacheOK /\ PollOK
    BY AnswersTyped DEF ChannelsInit, CacheOK, PollOK
  <2>3. ChangeOK
    BY IdleTyped DEF ChannelsInit, ChangeOK
  <2> QED BY <2>1, <2>2, <2>3
<1> QED BY <1>1, TypeStep, PTL DEF ChannelsSpec

\* Any newsletters, polls and requests: the cache and the requests have their types.
THEOREM ChannelsTypeCorrect == Spec => []ChannelsTypeOK
BY ChannelsTypeCorrectAlone, ListsHasChannels, PTL

--------------------------------------------------------------------------------
(* The cache *)

\* An answer of WhatsApp tells what is followed, or is known not to.
Right(a) == a.origin = "network" => a.list = followed \/ a.since # {}

Clearing == \E f \in Changes : change[f].at = "clear"

\* CacheHonest without the cache's minute, and what makes it inductive: the
\* answers on their way to the cache.
CacheInv ==
    /\ Right(cache.answer) \/ Clearing
    /\ \A p \in Polls : Right(poll[p].answer)

\* Steps that change neither the answers nor what is followed.
LEMMA AnswersKept ==
    ASSUME CacheInv, followed' = followed, cache'.answer = cache.answer,
           \A p \in Polls : poll'[p].answer = poll[p].answer,
           \A f \in Changes : change[f].at = "clear" => change'[f].at = "clear"
    PROVE CacheInv'
BY DEF CacheInv, Right, Clearing

LEMMA CacheStep == ChannelsTypeOK /\ CacheInv /\ [ChannelsNext]_channelVars => CacheInv'
<1> SUFFICES ASSUME CacheOK, PollOK, ChangeOK, CacheInv, [ChannelsNext]_channelVars
             PROVE CacheInv'
  BY TypeSplit
<1>1. CASE Expire
  BY <1>1, AnswersKept DEF Expire, CacheOK
<1>2. ASSUME NEW p \in Polls, Serve(p) PROVE CacheInv'
  BY <1>2, AnswersKept DEF Serve
<1>3. ASSUME NEW p \in Polls, Ask(p) PROVE CacheInv'
  <2>1. \A q \in Polls : poll'[q].answer = IF q = p THEN NoList ELSE poll[q].answer
    BY <1>3 DEF Ask, PollOK
  <2>2. NoList.origin # "network"
    BY DEF NoList, List
  <2>3. \A q \in Polls : Right(poll[q].answer)
    BY DEF CacheInv
  <2>4. Right(cache.answer) \/ Clearing
    BY DEF CacheInv
  <2>5. UNCHANGED <<followed, cache, change>>
    BY <1>3 DEF Ask
  <2> QED BY <2>1, <2>2, <2>3, <2>4, <2>5 DEF CacheInv, Right, Clearing
<1>4. ASSUME NEW p \in Polls, NEW a, Gets(p, a),
             a.origin = "network" => a.list = followed
      PROVE CacheInv'
  <2>1. \A q \in Polls : poll'[q].answer = IF q = p THEN a ELSE poll[q].answer
    BY <1>4 DEF Gets, PollOK
  <2>2. \A q \in Polls : Right(poll[q].answer)
    BY DEF CacheInv
  <2>3. Right(cache.answer) \/ Clearing
    BY DEF CacheInv
  <2>4. UNCHANGED <<followed, cache, change>>
    BY <1>4 DEF Gets
  <2> QED BY <1>4, <2>1, <2>2, <2>3, <2>4 DEF CacheInv, Right, Clearing
<1>5. ASSUME NEW p \in Polls, Fetch(p) PROVE CacheInv'
  BY <1>4, <1>5 DEF Fetch, List
<1>6. ASSUME NEW p \in Polls, FallBack(p) PROVE CacheInv'
  BY <1>4, <1>6 DEF FallBack, List
<1>7. ASSUME NEW p \in Polls, SetCache(p) PROVE CacheInv'
  <2>1. \A q \in Polls : poll'[q].answer = IF q = p THEN NoList ELSE poll[q].answer
    BY <1>7 DEF SetCache, PollOK
  <2>2. NoList.origin # "network"
    BY DEF NoList, List
  <2>3. \A q \in Polls : Right(poll[q].answer)
    BY DEF CacheInv
  <2>4. cache'.answer = poll[p].answer /\ UNCHANGED followed
    BY <1>7 DEF SetCache
  <2> QED BY <2>1, <2>2, <2>3, <2>4 DEF CacheInv, Right
<1>8. ASSUME NEW f \in Changes, NEW k, NEW c, Request(f, k, c) PROVE CacheInv'
  <2>1. \A g \in Changes : change[g].at = "clear" => change'[g].at = "clear"
    BY <1>8 DEF Request, ChangeOK
  <2> QED BY <1>8, <2>1, AnswersKept DEF Request
<1>9. ASSUME NEW f \in Changes, Taken(f) PROVE CacheInv'
  <2>1. \A p \in Polls : poll'[p].answer.origin = "network" => poll'[p].answer.since # {}
    BY <1>9, OnTheWayTyped DEF Taken, Reasons
  <2>2. change[f] \in Requesting /\ change' = [change EXCEPT ![f] = [@ EXCEPT !.at = "clear"]]
    BY <1>9 DEF Taken, ChangeOK
  <2>3. change'[f].at = "clear"
    BY <1>9, <2>2, ClearTyped DEF ChangeOK, Taken, Requesting
  <2> QED BY <2>1, <2>3 DEF CacheInv, Right, Clearing
<1>10. ASSUME NEW f \in Changes, FollowFails(f) PROVE CacheInv'
  <2>1. \A g \in Changes : change[g].at = "clear" => change'[g].at = "clear"
    BY <1>10 DEF FollowFails, ChangeOK
  <2>2. CASE UNCHANGED <<followed, cache, poll>>
    BY <2>1, <2>2, AnswersKept
  <2>3. CASE Unseen
    BY <2>3, UnseenTyped DEF CacheInv, Right
  <2> QED BY <1>10, <2>2, <2>3 DEF FollowFails
<1>11. ASSUME NEW f \in Changes, Clear(f) PROVE CacheInv'
  <2>1. cache'.answer.origin # "network" /\ UNCHANGED <<followed, poll>>
    BY <1>11 DEF Clear, Cleared, NoList, List
  <2> QED BY <2>1 DEF CacheInv, Right
<1>12. ASSUME NEW c \in Newsletters, Elsewhere(c) PROVE CacheInv'
  BY <1>12, UnseenTyped DEF Elsewhere, CacheInv, Right
<1>13. ASSUME NEW c \in Newsletters, ChannelPost(c) PROVE CacheInv'
  BY <1>13, AnswersKept DEF ChannelPost
<1>14. CASE UNCHANGED channelVars
  BY <1>14, AnswersKept DEF channelVars
<1> QED
  BY <1>1, <1>2, <1>3, <1>5, <1>6, <1>7, <1>8, <1>9, <1>10, <1>11, <1>12, <1>13, <1>14
  DEF ChannelsNext, Follow, Unfollow

\* The cache, in the channels alone.
LEMMA CacheIsHonestAlone == ChannelsSpec => []CacheHonest
<1>1. ChannelsInit => CacheInv
  BY DEF ChannelsInit, CacheInv, Right, NoList, List
<1>2. CacheInv => CacheHonest
  BY DEF CacheInv, Right, Clearing, CacheHonest
<1> QED
  BY <1>1, <1>2, CacheStep, ChannelsTypeCorrectAlone, PTL DEF ChannelsSpec

\* Any number of polls, follows and unfollows at once: for its minute the cache
\* answers with what the account follows, or a named race has put the list there.
THEOREM CacheIsHonest == Spec => []CacheHonest
BY CacheIsHonestAlone, ListsHasChannels, PTL

--------------------------------------------------------------------------------
(* What the app is told of the channels *)

\* WhatsApp's answer, and no change since.
ToldBy(a) == a.origin = "network" /\ a.since = {}

\* A poll is answered with the channels that are followed at that moment, unless
\* its answer is the store's, or was WhatsApp's before a change, or comes from the
\* cache before a change taken has cleared it.
ToldHonest ==
    /\ \A p \in Polls : SetCache(p) => listed' = followed \/ ~ToldBy(poll[p].answer)
    /\ \A p \in Polls : Serve(p) => listed' = followed \/ ~ToldBy(cache.answer) \/ Clearing

\* However polls, follows and unfollows interleave: a list the app is given in
\* answer to GET /channels, from the cache or past it, is what the account follows
\* when it is given, but for the exceptions CacheHonest names.
THEOREM AppIsToldTheTruth == Spec => [][ToldHonest]_vars
<1>1. CacheInv => ToldHonest
  <2> SUFFICES ASSUME CacheInv PROVE ToldHonest
    OBVIOUS
  <2>1. ASSUME NEW p \in Polls, SetCache(p)
        PROVE  listed' = followed \/ ~ToldBy(poll[p].answer)
    <3>1. listed' = poll[p].answer.list /\ Right(poll[p].answer)
      BY <2>1 DEF SetCache, CacheInv
    <3> QED BY <3>1 DEF Right, ToldBy
  <2>2. ASSUME NEW p \in Polls, Serve(p)
        PROVE  listed' = followed \/ ~ToldBy(cache.answer) \/ Clearing
    <3>1. listed' = cache.answer.list /\ (Right(cache.answer) \/ Clearing)
      BY <2>2 DEF Serve, CacheInv
    <3> QED BY <3>1 DEF Right, ToldBy
  <2> QED BY <2>1, <2>2 DEF ToldHonest
<1>2. ChannelsSpec => []CacheInv
  <2>1. ChannelsInit => CacheInv
    BY DEF ChannelsInit, CacheInv, Right, NoList, List
  <2> QED BY <2>1, CacheStep, ChannelsTypeCorrectAlone, PTL DEF ChannelsSpec
<1> QED BY <1>1, <1>2, ListsHasChannels, PTL

--------------------------------------------------------------------------------
(* The files *)

\* The part of Lists that FileCaches describes.
LEMMA ListsHasFiles == Spec => FilesSpec
<1>1. Init => FilesInit
  BY DEF Init
<1>2. [Next]_vars => [FilesNext]_fileVars
  BY DEF Next, ListStep, ChannelStep, FileStep, vars
<1> QED BY <1>1, <1>2, PTL DEF Spec, FilesSpec

MediaOK ==
    /\ carries \in [Incoming -> AllPayloads]
    /\ fetching \in [Incoming -> {"none", "download", "put", "write"}]
    /\ mediaFile \in [Files -> Contents]
    /\ cutMedia \subseteq Files /\ failed \subseteq Incoming
    /\ \A m \in Incoming : fetching[m] = "write" <=> mediaMu = m
    /\ mediaMu \in Incoming \cup {Nobody}

Asking == [at : {"idle"}] \cup [at : {"fetch", "put", "write"}, contact : Portraits]

AvatarOK ==
    /\ avatarFile \in [Portraits -> Contents]
    /\ expired \subseteq Portraits
    /\ asker \in [Askers -> Asking]
    /\ \A a \in Askers : asker[a].at = "write" <=> avatarMu = a
    /\ avatarMu \in Askers \cup {Nobody}

CutsOK == cuts \in 0..MaxCuts

\* What is fetched is media, and the file a fetch writes to is one of Files.
Fetches == \A m \in Incoming : fetching[m] # "none" => carries[m] \in MediaPayloads

FilesInv == MediaOK /\ AvatarOK /\ CutsOK /\ Fetches

LEMMA FileTyped ==
    ASSUME Fetches, NEW m \in Incoming, fetching[m] # "none"
    PROVE FileOf(m) \in Files
BY DEF Fetches, FileOf, Files, Kinds

\* A step of a request for an avatar.
LEMMA AskerStep ==
    ASSUME FilesInv, NEW a \in Askers,
           \/ \E c \in Portraits : AvatarMissed(a, c)
           \/ AvatarFetched(a) \/ AvatarNotFound(a) \/ AvatarPutBegins(a) \/ AvatarPutEnds(a)
    PROVE FilesInv'
<1> USE FileCachesAssumption DEF FilesInv
<1>1. ASSUME UNCHANGED mediaVars PROVE MediaOK' /\ Fetches'
  BY <1>1 DEF mediaVars, MediaOK, Fetches, FileOf
<1>2. UNCHANGED mediaVars
  BY DEF AvatarMissed, AvatarFetched, AvatarNotFound, AvatarPutBegins, AvatarPutEnds
<1>3. asker[a].at # "idle" => asker[a] \in [at : {"fetch", "put", "write"}, contact : Portraits]
  BY DEF AvatarOK, Asking
<1>4. ASSUME NEW c \in Portraits, AvatarMissed(a, c) PROVE AvatarOK' /\ CutsOK'
  BY <1>4 DEF AvatarMissed, AvatarOK, CutsOK, Asking
<1>5. CASE AvatarFetched(a)
  BY <1>1, <1>2, <1>3, <1>5 DEF AvatarFetched, AvatarOK, CutsOK, Asking
<1>6. CASE AvatarNotFound(a)
  BY <1>1, <1>2, <1>6 DEF AvatarNotFound, AvatarOK, CutsOK, Asking
<1>7. CASE AvatarPutBegins(a)
  BY <1>1, <1>2, <1>3, <1>7 DEF AvatarPutBegins, AvatarOK, CutsOK, Asking, Contents
<1>8. CASE AvatarPutEnds(a)
  BY <1>1, <1>2, <1>3, <1>8 DEF AvatarPutEnds, AvatarOK, CutsOK, Asking, Contents
<1> QED BY <1>1, <1>2, <1>4, <1>5, <1>6, <1>7, <1>8

\* A step of a message and its download.
LEMMA DownloadStep ==
    ASSUME FilesInv, NEW m \in Incoming,
           \/ \E p \in Payloads : Handle(m, p)
           \/ Downloaded(m) \/ DownloadFails(m) \/ PutBegins(m) \/ PutDone(m) \/ PutFails(m)
    PROVE FilesInv'
<1> USE FileCachesAssumption DEF FilesInv
<1>1. ASSUME UNCHANGED avatarVars PROVE AvatarOK'
  BY <1>1 DEF avatarVars, AvatarOK
<1>2. UNCHANGED avatarVars
  BY DEF Handle, Downloaded, DownloadFails, PutBegins, PutDone, PutFails, PutEnds
<1>3. ASSUME NEW p \in Payloads, Handle(m, p) PROVE MediaOK' /\ Fetches' /\ CutsOK'
  BY <1>3 DEF Handle, MediaOK, Fetches, CutsOK, HasMedia, Downloadable, AllPayloads, MediaPayloads
<1>4. CASE Downloaded(m)
  BY <1>1, <1>2, <1>4 DEF Downloaded, MediaOK, Fetches, CutsOK
<1>5. CASE DownloadFails(m)
  BY <1>1, <1>2, <1>5 DEF DownloadFails, MediaOK, Fetches, CutsOK
<1>6. CASE PutBegins(m)
  BY <1>1, <1>2, <1>6 DEF PutBegins, MediaOK, Fetches, CutsOK, Contents
<1>7. ASSUME NEW x \in Contents, PutEnds(m, x), failed' \subseteq Incoming, cutMedia' \subseteq Files
      PROVE MediaOK' /\ Fetches'
  BY <1>7 DEF PutEnds, MediaOK, Fetches, Unlocked
<1>8. CASE PutDone(m)
  <2>1. MediaOK' /\ Fetches'
    BY <1>7, <1>8 DEF PutDone, Contents, MediaOK
  <2> QED BY <1>1, <1>2, <1>8, <2>1 DEF PutDone, CutsOK
<1>9. CASE PutFails(m)
  <2>1. FileOf(m) \in Files
    BY <1>9, FileTyped DEF PutFails, PutEnds
  <2>2. MediaOK' /\ Fetches'
    BY <1>7, <1>9, <2>1 DEF PutFails, Contents, MediaOK
  <2> QED BY <1>1, <1>2, <1>9, <2>2 DEF PutFails, CutsOK
<1> QED BY <1>1, <1>2, <1>3, <1>4, <1>5, <1>6, <1>8, <1>9

LEMMA FilesStep == FilesInv /\ [FilesNext]_fileVars => FilesInv'
<1> SUFFICES ASSUME FilesInv, [FilesNext]_fileVars PROVE FilesInv'
  OBVIOUS
<1>1. CASE KillFiles
  <2>1. \A m \in Incoming : fetching[m] = "write" => FileOf(m) \in Files
    BY FileTyped DEF FilesInv
  <2> QED
    BY <1>1, <2>1, FileCachesAssumption
    DEF KillFiles, FilesInv, MediaOK, AvatarOK, CutsOK, Fetches, Asking
<1>2. ASSUME NEW c \in Portraits, Day(c) PROVE FilesInv'
  BY <1>2 DEF Day, mediaVars, FilesInv, MediaOK, AvatarOK, CutsOK, Fetches
<1>3. CASE UNCHANGED fileVars
  BY <1>3 DEF fileVars, mediaVars, avatarVars, FilesInv, MediaOK, AvatarOK, CutsOK, Fetches
<1> QED BY <1>1, <1>2, <1>3, AskerStep, DownloadStep DEF FilesNext

LEMMA FilesInvariant == FilesSpec => []FilesInv
<1>1. FilesInit => FilesInv
  BY FileCachesAssumption
  DEF FilesInit, FilesInv, MediaOK, AvatarOK, CutsOK, Fetches, Asking, Contents, AllPayloads
<1> QED BY <1>1, FilesStep, PTL DEF FilesSpec

\* The types of the files and requests, in FileCaches alone.
LEMMA FilesTypeCorrectAlone == FilesSpec => []FilesTypeOK
<1>1. FilesInv => FilesTypeOK
  BY DEF FilesInv, MediaOK, AvatarOK, CutsOK, Asking, FilesTypeOK
<1> QED BY <1>1, FilesInvariant, PTL

\* Any messages, requests and interrupted writes: files and requests have their
\* types, and who holds a mutex is the one who writes.
THEOREM FilesTypeCorrect == Spec => []FilesTypeOK
BY FilesTypeCorrectAlone, ListsHasFiles, PTL

\* A torn file is one of which a write has ended early, or one that is being
\* written under the mutex.
Torn ==
    \A f \in Files : mediaFile[f] = "torn" =>
        \/ f \in cutMedia
        \/ \E m \in Incoming : mediaMu = m /\ f = FileOf(m)

LEMMA TornStep == FilesInv /\ Torn /\ [FilesNext]_fileVars => Torn'
<1> SUFFICES ASSUME FilesInv, Torn, [FilesNext]_fileVars PROVE Torn'
  OBVIOUS
<1> USE FileCachesAssumption DEF FilesInv
<1>1. CASE KillFiles
  BY <1>1 DEF KillFiles, Torn, MediaOK
<1>2. ASSUME NEW m \in Incoming, NEW p \in Payloads, Handle(m, p) PROVE Torn'
  <2>1. fetching[m] = "none"
    BY <1>2 DEF Handle, Fetches, MediaPayloads
  <2>2. mediaMu # m /\ \A n \in Incoming \ {m} : FileOf(n)' = FileOf(n)
    BY <1>2, <2>1 DEF Handle, MediaOK, FileOf
  <2> QED BY <1>2, <2>2 DEF Handle, Torn
<1>3. ASSUME UNCHANGED <<carries, mediaFile, mediaMu, cutMedia>> PROVE Torn'
  BY <1>3 DEF Torn, FileOf
<1>4. ASSUME NEW m \in Incoming, PutBegins(m) PROVE Torn'
  <2>1. \A n \in Incoming : FileOf(n)' = FileOf(n)
    BY <1>4 DEF PutBegins, FileOf
  <2>2. mediaMu' = m /\ mediaMu = Nobody /\ UNCHANGED cutMedia
        /\ \A f \in Files \ {FileOf(m)} : mediaFile'[f] = mediaFile[f]
    BY <1>4 DEF PutBegins, MediaOK
  <2> QED BY <2>1, <2>2 DEF Torn
<1>5. ASSUME NEW m \in Incoming, NEW x \in Contents, PutEnds(m, x),
             cutMedia \subseteq cutMedia', x = "torn" => FileOf(m) \in cutMedia'
      PROVE Torn'
  <2>1. mediaMu = m /\ FileOf(m) \in Files
    BY <1>5, FileTyped DEF PutEnds, MediaOK
  <2>2. \A f \in Files : mediaFile'[f] = IF f = FileOf(m) THEN x ELSE mediaFile[f]
    BY <1>5 DEF PutEnds, MediaOK
  <2> QED BY <1>5, <2>1, <2>2 DEF Torn
<1>6. ASSUME NEW m \in Incoming, PutDone(m) \/ PutFails(m) PROVE Torn'
  BY <1>5, <1>6 DEF PutDone, PutFails, Contents
<1> QED
  BY <1>1, <1>2, <1>3, <1>4, <1>6
  DEF FilesNext, fileVars, mediaVars, Downloaded, DownloadFails, Day, AvatarMissed,
      AvatarFetched, AvatarNotFound, AvatarPutBegins, AvatarPutEnds

\* The media files, in FileCaches alone.
LEMMA MediaIsWholeAlone == FilesSpec => []MediaWhole
<1>1. FilesInit => Torn
  BY DEF FilesInit, Torn
<1>2. FilesInv /\ Torn => MediaWhole
  BY FileCachesAssumption DEF FilesInv, MediaOK, Torn, MediaWhole, MediaAnswers, MediaFree
<1> QED BY <1>1, <1>2, TornStep, FilesInvariant, PTL DEF FilesSpec

\* Any number of downloads and readers at once: GET /media answers with a whole
\* file or with none, unless a write of that file has ended early.
THEOREM MediaIsWhole == Spec => []MediaWhole
BY MediaIsWholeAlone, ListsHasFiles, PTL

--------------------------------------------------------------------------------
(* What is promised of the pictures *)

\* A media message the app has been told of is being fetched, or its file is
\* whole, under the kind the message names: there is no other way out of a fetch
\* than the whole file or a failure.
Provided(m) ==
    HasMedia(carries[m]) /\ m \notin failed =>
        fetching[m] # "none" \/ mediaFile[FileOf(m)] = "whole"

MediaInHand == \A m \in Incoming : Provided(m)

\* Two messages never share a file.
LEMMA OwnFile == \A m, n \in Incoming : FileOf(m) = FileOf(n) => m = n
  BY DEF FileOf

\* A step of one message leaves the others where they are.
LEMMA OthersInHand ==
    ASSUME FilesInv, MediaInHand, NEW m \in Incoming, Provided(m)', failed \subseteq failed',
           \A n \in Incoming \ {m} : carries'[n] = carries[n] /\ fetching'[n] = fetching[n],
           \A f \in Files \ {FileOf(m)'} : mediaFile'[f] = mediaFile[f]
    PROVE  MediaInHand'
<1> SUFFICES ASSUME NEW n \in Incoming \ {m}, HasMedia(carries[n]), n \notin failed
             PROVE  fetching'[n] # "none" \/ mediaFile'[FileOf(n)'] = "whole"
  BY DEF MediaInHand, Provided
<1>1. FileOf(n)' = FileOf(n) /\ FileOf(n)' # FileOf(m)'
  BY DEF FileOf
<1>2. FileOf(n) \in Files
  BY DEF FileOf, Files, Kinds, HasMedia
<1> QED BY <1>1, <1>2 DEF MediaInHand, Provided

LEMMA ProvidedStep == FilesInv /\ MediaInHand /\ [FilesNext]_fileVars => MediaInHand'
<1> SUFFICES ASSUME FilesInv, MediaInHand, [FilesNext]_fileVars PROVE MediaInHand'
  OBVIOUS
<1>1. CASE KillFiles
  <2>1. \A m \in Incoming : FileOf(m)' = FileOf(m)
    BY <1>1 DEF KillFiles, FileOf
  <2> QED BY <1>1, <2>1 DEF KillFiles, MediaInHand, Provided
<1>2. ASSUME NEW m \in Incoming, NEW p \in Payloads, Handle(m, p) PROVE MediaInHand'
  <2>1. carries'[m] = p /\ (HasMedia(p) => fetching'[m] = "download")
    BY <1>2 DEF Handle, FilesInv, MediaOK, HasMedia, Downloadable
  <2>2. Provided(m)'
    BY <2>1 DEF Provided
  <2>3. /\ \A n \in Incoming \ {m} : carries'[n] = carries[n] /\ fetching'[n] = fetching[n]
        /\ UNCHANGED <<mediaFile, failed>>
    BY <1>2 DEF Handle, FilesInv, MediaOK
  <2> QED BY <2>2, <2>3, OthersInHand
<1>3. ASSUME UNCHANGED <<carries, fetching, mediaFile, failed>> PROVE MediaInHand'
  <2>1. \A m \in Incoming : FileOf(m)' = FileOf(m)
    BY <1>3 DEF FileOf
  <2> QED BY <1>3, <2>1 DEF MediaInHand, Provided
\* A step of a fetch, which goes on or has its way out.
<1>4. ASSUME NEW m \in Incoming, NEW s, fetching' = [fetching EXCEPT ![m] = s],
             UNCHANGED carries, failed \subseteq failed',
             \A f \in Files \ {FileOf(m)} : mediaFile'[f] = mediaFile[f],
             s # "none" \/ m \in failed' \/ mediaFile'[FileOf(m)] = "whole"
      PROVE  MediaInHand'
  <2>1. FileOf(m)' = FileOf(m)
    BY <1>4 DEF FileOf
  <2>2. fetching'[m] = s /\ \A n \in Incoming \ {m} : fetching'[n] = fetching[n]
    BY <1>4 DEF FilesInv, MediaOK
  <2>3. Provided(m)'
    BY <1>4, <2>1, <2>2 DEF Provided
  <2> QED BY <1>4, <2>1, <2>2, <2>3, OthersInHand
<1>5. ASSUME NEW m \in Incoming, Downloaded(m) PROVE MediaInHand'
  BY <1>4, <1>5 DEF Downloaded
<1>6. ASSUME NEW m \in Incoming, DownloadFails(m) PROVE MediaInHand'
  BY <1>4, <1>6 DEF DownloadFails
<1>7. ASSUME NEW m \in Incoming, PutBegins(m) PROVE MediaInHand'
  <2>1. \A f \in Files \ {FileOf(m)} : mediaFile'[f] = mediaFile[f]
    BY <1>7 DEF PutBegins, FilesInv, MediaOK
  <2> QED BY <1>4, <1>7, <2>1 DEF PutBegins
<1>8. ASSUME NEW m \in Incoming, PutDone(m) \/ PutFails(m) PROVE MediaInHand'
  <2>1. FileOf(m) \in Files
    BY <1>8, FileTyped DEF PutDone, PutFails, PutEnds, FilesInv
  <2>2. \A f \in Files \ {FileOf(m)} : mediaFile'[f] = mediaFile[f]
    BY <1>8 DEF PutDone, PutFails, PutEnds, FilesInv, MediaOK
  <2>3. m \in failed' \/ mediaFile'[FileOf(m)] = "whole"
    BY <1>8, <2>1 DEF PutDone, PutFails, PutEnds, FilesInv, MediaOK
  <2>4. fetching' = [fetching EXCEPT ![m] = "none"] /\ UNCHANGED carries /\ failed \subseteq failed'
    BY <1>8 DEF PutDone, PutFails, PutEnds
  <2> QED BY <1>4, <2>2, <2>3, <2>4
<1> QED
  BY <1>1, <1>2, <1>3, <1>5, <1>6, <1>7, <1>8
  DEF FilesNext, fileVars, mediaVars, Day, AvatarMissed, AvatarFetched, AvatarNotFound,
      AvatarPutBegins, AvatarPutEnds

\* Any messages, failures and kills: no media message is forgotten. Until its
\* download or its write fails, or the process is killed under it, a goroutine is
\* fetching it or /media has the whole file. (That the goroutine gets there is
\* PicturesComeRight.)
THEOREM NoMediaForgotten == Spec => []MediaInHand
<1>1. FilesInit => MediaInHand
  BY DEF FilesInit, MediaInHand, Provided, HasMedia, MediaPayloads
<1> QED BY <1>1, ProvidedStep, FilesInvariant, ListsHasFiles, PTL DEF FilesSpec

\* A torn avatar is being written under the mutex, or some write has ended early.
AvatarWhole ==
    \A c \in Portraits : avatarFile[c] = "torn" =>
        \/ cuts > 0
        \/ \E a \in Askers : avatarMu = a /\ asker[a].contact = c

LEMMA AvatarStep == FilesInv /\ AvatarWhole /\ [FilesNext]_fileVars => AvatarWhole'
<1> SUFFICES ASSUME FilesInv, AvatarWhole, [FilesNext]_fileVars PROVE AvatarWhole'
  OBVIOUS
<1>a. cuts \in Nat
  BY FileCachesAssumption DEF FilesInv, CutsOK
<1> USE <1>a, FileCachesAssumption DEF FilesInv
<1>1. ASSUME cuts' = cuts + 1 PROVE AvatarWhole'
  BY <1>1 DEF AvatarWhole
<1>2. ASSUME UNCHANGED <<avatarVars, cuts>> PROVE AvatarWhole'
  BY <1>2 DEF avatarVars, AvatarWhole
\* Whoever holds the mutex is left alone.
<1>3. ASSUME UNCHANGED <<avatarFile, avatarMu, cuts>>,
             \A a \in Askers : avatarMu = a => asker'[a] = asker[a]
      PROVE  AvatarWhole'
  BY <1>3 DEF AvatarWhole
<1>4. ASSUME NEW a \in Askers, NEW c \in Portraits, AvatarMissed(a, c) PROVE AvatarWhole'
  BY <1>3, <1>4 DEF AvatarMissed, AvatarOK
<1>5. ASSUME NEW a \in Askers, AvatarFetched(a) \/ AvatarNotFound(a) PROVE AvatarWhole'
  BY <1>3, <1>5 DEF AvatarFetched, AvatarNotFound, AvatarOK
<1>6. ASSUME NEW a \in Askers, AvatarPutBegins(a) PROVE AvatarWhole'
  <2>1. asker[a] \in [at : {"fetch", "put", "write"}, contact : Portraits]
    BY <1>6 DEF AvatarPutBegins, AvatarOK, Asking
  <2>2. avatarMu' = a /\ asker'[a].contact = asker[a].contact
    BY <1>6, <2>1 DEF AvatarPutBegins, AvatarOK
  <2>3. ASSUME NEW c \in Portraits, c # asker[a].contact, avatarFile'[c] = "torn"
        PROVE  cuts > 0
    <3>1. avatarFile[c] = "torn" /\ avatarMu = Nobody
      BY <1>6, <2>3 DEF AvatarPutBegins, AvatarOK
    <3> QED BY <3>1 DEF AvatarWhole
  <2> QED BY <1>6, <2>2, <2>3 DEF AvatarPutBegins, AvatarWhole
<1>7. ASSUME NEW a \in Askers, AvatarPutEnds(a) PROVE AvatarWhole'
  <2>1. avatarMu = a
    BY <1>7 DEF AvatarPutEnds, AvatarOK
  <2>2. CASE cuts' = cuts + 1
    BY <1>1, <2>2
  <2>3. CASE avatarFile' = [avatarFile EXCEPT ![asker[a].contact] = "whole"] /\ UNCHANGED cuts
    <3> SUFFICES ASSUME NEW c \in Portraits, avatarFile'[c] = "torn" PROVE cuts > 0
      BY <2>3 DEF AvatarWhole
    <3>1. c # asker[a].contact /\ avatarFile[c] = "torn"
      BY <2>3 DEF AvatarOK
    <3> QED BY <2>1, <3>1 DEF AvatarWhole
  <2> QED BY <1>7, <2>2, <2>3 DEF AvatarPutEnds
<1> QED
  BY <1>1, <1>2, <1>3, <1>4, <1>5, <1>6, <1>7
  DEF FilesNext, fileVars, avatarVars, KillFiles, Handle, Downloaded, DownloadFails, PutBegins,
      PutDone, PutFails, PutEnds, Day

\* What avatarCache.get hits is a whole picture, unless some write has ended early.
AvatarServedWhole == \A c \in Portraits : AvatarHit(c) => avatarFile[c] = "whole" \/ cuts > 0

\* Any contacts and any requests at once: GET /avatar never serves from its cache
\* a picture that another request is still writing.
THEOREM AvatarsAreWhole == Spec => []AvatarServedWhole
<1>1. FilesInit => AvatarWhole
  BY DEF FilesInit, AvatarWhole
<1>2. FilesInv /\ AvatarWhole => AvatarServedWhole
  BY FileCachesAssumption
  DEF FilesInv, AvatarOK, AvatarWhole, AvatarServedWhole, AvatarHit, Contents
<1> QED BY <1>1, <1>2, AvatarStep, FilesInvariant, ListsHasFiles, PTL DEF FilesSpec

--------------------------------------------------------------------------------

\* The state of the lists, all parts together, keeps its types.
THEOREM TypeCorrect == Spec => []TypeOK
BY ListTypeCorrect, ChannelsTypeCorrect, FilesTypeCorrect, PTL DEF TypeOK

\* A behaviour of Lists is one of each of its parts.
THEOREM ListsImplementsParts == Spec => ListSpec /\ ChannelsSpec /\ FilesSpec
BY ListsHasChatList, ListsHasChannels, ListsHasFiles

\* And whatever runs the three parts, one at a time as Lists does, with their
\* steps interleaved or taken at once as a server does, has the properties that
\* are checked of Lists: running one part at a time hides no error.
THEOREM PartsTogether ==
    ListSpec /\ ChannelsSpec /\ FilesSpec =>
        [](TypeOK /\ BadgeHonest /\ ReactionAgrees /\ StatusNewest /\ CacheHonest /\ MediaWhole)
BY ListTypeCorrectAlone, BadgeIsHonestAlone, ReactionsAgreeAlone, StatusIsNewestAlone,
   ChannelsTypeCorrectAlone, CacheIsHonestAlone, FilesTypeCorrectAlone, MediaIsWholeAlone, PTL
   DEF TypeOK

================================================================================
