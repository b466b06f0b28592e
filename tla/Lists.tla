--------------------------------- MODULE Lists ---------------------------------
(***************************************************************************)
(* What the app's lists are made from: the chat and status lists           *)
(* (ChatList), the channels (Channels) and the pictures (FileCaches) of    *)
(* one server. No step of one of them reads what a step of another writes, *)
(* so their interleavings tell nothing: a behaviour is one of one part.    *)
(***************************************************************************)
EXTENDS ChatList, Channels, FileCaches

VARIABLE part

vars == <<part, listVars, channelVars, fileVars>>

Init ==
    /\ part \in {"chats", "channels", "files"}
    /\ ListInit /\ ChannelsInit /\ FilesInit
    /\ part # "chats" => listLoad = CHOOSE l \in ListLoads : TRUE
    /\ part # "channels" => followed = (CHOOSE s \in Starts : TRUE).followed

In(p) == part = p /\ UNCHANGED part
ListStep(A) == In("chats") /\ A /\ UNCHANGED <<channelVars, fileVars>>
ChannelStep(A) == In("channels") /\ A /\ UNCHANGED <<listVars, fileVars>>
FileStep(A) == In("files") /\ A /\ UNCHANGED <<listVars, channelVars>>

Next == ListStep(ListNext) \/ ChannelStep(ChannelsNext) \/ FileStep(FilesNext)

Spec == Init /\ [][Next]_vars

\* Time passes, the polls and the downloads go on, the app asks for the avatars it
\* shows, and what WhatsApp is asked for over and over it answers at some time. A
\* part has a conjunct where both parts run, since only one of them ever does.
Fairness ==
    /\ WF_vars(ChannelStep(Expire) \/ FileStep(\E c \in Portraits : Day(c)))
    /\ WF_vars(\/ ChannelStep(\E p \in Polls : ChannelSteps(p))
               \/ FileStep(\E m \in Incoming : Downloading(m)))
    /\ WF_vars(FileStep(\E a \in Askers : AvatarSteps(a)))
    /\ WF_vars(FileStep(\E a \in Askers, c \in Portraits : AvatarMissed(a, c)))
    /\ SF_vars(\/ ChannelStep(\E p \in Polls : Fetch(p))
               \/ FileStep(\E a \in Askers : AvatarFetched(a)))

FairSpec == Spec /\ Fairness

\* Every part has its types.
TypeOK == ListTypeOK /\ ChannelsTypeOK /\ FilesTypeOK

\* The app's list of channels is never wrong for good: over and over it is what
\* the account follows, whatever stale list was cached (when nothing is followed,
\* the list is the store's, and stays).
ListSettles == []<>(part = "channels" => Settled)

\* The pictures come right: what the app has been told of can be fetched in the
\* end, under the kind that its message names, unless the download failed or the
\* process was killed; and a torn avatar is not there for good, since its day
\* passes and a later request writes it again (a torn media file is never written
\* again).
PicturesComeRight == MediaArrives /\ AvatarHeals

================================================================================
