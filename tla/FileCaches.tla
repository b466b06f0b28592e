------------------------------ MODULE FileCaches -------------------------------
(***************************************************************************)
(* The pictures kept on disk: mediaCache, which onMessage fills from a     *)
(* goroutine while the app already knows of the message, and avatarCache,  *)
(* which GET /avatar fills and which forgets after a day. Each has a mutex *)
(* that is held while a file is read or written. os.WriteFile truncates    *)
(* first, so a write that ends early, by a kill of the process or a full   *)
(* disk, leaves a torn file, and no reader looks at what a file holds.     *)
(***************************************************************************)
EXTENDS Integers, FiniteSets

CONSTANTS
    Incoming,   \* ids of the incoming messages
    Payloads,   \* what such a message may carry, of AllPayloads
    Portraits,  \* contacts, each with a profile picture
    Askers,     \* requests for /avatar, used over again
    MaxCuts     \* bound: writes that end early

AllPayloads == {"conversation", "extended", "image", "video", "audio", "ptt", "document",
                "sticker", "reaction", "none"}

Nobody == "nobody"

ASSUME FileCachesAssumption ==
    /\ Payloads \subseteq AllPayloads
    /\ Nobody \notin Incoming \cup Askers
    /\ MaxCuts \in Nat

VARIABLES
    carries,   \* what a message that has been handled carried
    fetching,  \* cacheIncomingMedia's goroutine: none, download, put or write
    mediaFile, \* the media directory: <<id, extension>> to absent, torn or whole
    mediaMu,   \* the message whose Put holds mediaCache.mu
    avatarFile,
    expired,   \* the avatars written more than a day ago
    asker,     \* where each GET /avatar is
    avatarMu,  \* the request whose put holds avatarCache.mu
    cuts,      \* how often a write has ended early
    cutMedia,  \* history: the files of which a write ended early
    failed     \* history: the messages of which the download or the Put has failed

mediaVars == <<carries, fetching, mediaFile, mediaMu, cutMedia, failed>>
avatarVars == <<avatarFile, expired, asker, avatarMu>>
fileVars == <<mediaVars, avatarVars, cuts>>

--------------------------------------------------------------------------------
(* What a message carries *)

MediaPayloads == {"image", "video", "audio", "ptt", "document", "sticker"}

\* mediaFromMessage's Kind.
MediaKind(payload) == IF payload = "ptt" THEN "voice" ELSE payload

\* extractMessage: text and replies go first and have no media, nor has a reaction.
HasMedia(payload) == payload \in MediaPayloads

\* Mutant of Downloadable: one kind of media is forgotten.
NoStickers(payload) == payload \in MediaPayloads \ {"sticker"}

\* mediaDownloadable.
Downloadable(payload) == payload \in MediaPayloads

\* mediaExt: one extension for both kinds of sound.
MediaExt(kind) == IF kind \in {"audio", "voice"} THEN "aud" ELSE kind

Kinds == {MediaKind(p) : p \in MediaPayloads}
Files == Incoming \X {MediaExt(k) : k \in Kinds}
FileOf(m) == <<m, MediaExt(MediaKind(carries[m]))>>

Contents == {"absent", "torn", "whole"}

FilesInit ==
    /\ carries = [m \in Incoming |-> "none"]
    /\ fetching = [m \in Incoming |-> "none"]
    /\ mediaFile = [f \in Files |-> "absent"]
    /\ mediaMu = Nobody
    /\ avatarFile = [c \in Portraits |-> "absent"]
    /\ expired = {}
    /\ asker = [a \in Askers |-> [at |-> "idle"]]
    /\ avatarMu = Nobody
    /\ cuts = 0
    /\ cutMedia = {} /\ failed = {}

--------------------------------------------------------------------------------
(* mediaCache *)

\* onMessage starts the download, and tells the app of the message at once.
Handle(m, payload) ==
    /\ carries[m] = "none"
    /\ carries' = [carries EXCEPT ![m] = payload]
    /\ fetching' = [fetching EXCEPT ![m] =
            IF HasMedia(payload) /\ Downloadable(payload) THEN "download" ELSE "none"]
    /\ UNCHANGED <<mediaFile, mediaMu, cutMedia, failed, avatarVars, cuts>>

Downloaded(m) ==
    /\ fetching[m] = "download"
    /\ fetching' = [fetching EXCEPT ![m] = "put"]
    /\ UNCHANGED <<carries, mediaFile, mediaMu, cutMedia, failed, avatarVars, cuts>>

\* Nobody tries again.
DownloadFails(m) ==
    /\ fetching[m] = "download"
    /\ fetching' = [fetching EXCEPT ![m] = "none"]
    /\ failed' = failed \cup {m}
    /\ UNCHANGED <<carries, mediaFile, mediaMu, cutMedia, avatarVars, cuts>>

\* mediaCache.Put: the file is truncated,
PutBegins(m) ==
    /\ fetching[m] = "put"
    /\ mediaMu = Nobody
    /\ mediaMu' = m
    /\ fetching' = [fetching EXCEPT ![m] = "write"]
    /\ mediaFile' = [mediaFile EXCEPT ![FileOf(m)] = "torn"]
    /\ UNCHANGED <<carries, cutMedia, failed, avatarVars, cuts>>

\* Mutant of Unlocked: the way out of Put that forgets the mutex.
StillLocked == mediaMu

Unlocked == Nobody

PutEnds(m, content) ==
    /\ fetching[m] = "write"
    /\ mediaMu' = Unlocked
    /\ fetching' = [fetching EXCEPT ![m] = "none"]
    /\ mediaFile' = [mediaFile EXCEPT ![FileOf(m)] = content]
    /\ UNCHANGED <<carries, avatarVars>>

\* and written,
PutDone(m) == PutEnds(m, "whole") /\ UNCHANGED <<cuts, cutMedia, failed>>

\* or the disk is full, which is only logged.
PutFails(m) ==
    /\ PutEnds(m, "torn")
    /\ cuts < MaxCuts
    /\ cuts' = cuts + 1
    /\ cutMedia' = cutMedia \cup {FileOf(m)}
    /\ failed' = failed \cup {m}

\* Mutant of MediaFree: Get does not take the mutex.
NoMediaMutex == TRUE

\* Get waits for the mutex.
MediaFree == mediaMu = Nobody

\* What GET /media/{id}/{kind} answers: a content, or "absent" for not found.
MediaAnswers(f) == IF MediaFree THEN {mediaFile[f]} ELSE {}

--------------------------------------------------------------------------------
(* avatarCache *)

\* Mutant of Fresh: the age of a file is not looked at.
NeverExpires(c) == TRUE

Fresh(c) == c \notin expired

\* avatarCache.get answers, or the request goes to WhatsApp.
AvatarHit(c) == avatarMu = Nobody /\ avatarFile[c] # "absent" /\ Fresh(c)

AvatarMissed(a, c) ==
    /\ asker[a].at = "idle"
    /\ avatarMu = Nobody
    /\ ~AvatarHit(c)
    /\ asker' = [asker EXCEPT ![a] = [at |-> "fetch", contact |-> c]]
    /\ UNCHANGED <<mediaVars, avatarFile, expired, avatarMu, cuts>>

\* avatarURL and fetchAvatarBytes bring a picture, or the request ends not found.
AvatarFetched(a) ==
    /\ asker[a].at = "fetch"
    /\ asker' = [asker EXCEPT ![a].at = "put"]
    /\ UNCHANGED <<mediaVars, avatarFile, expired, avatarMu, cuts>>

AvatarNotFound(a) ==
    /\ asker[a].at = "fetch"
    /\ asker' = [asker EXCEPT ![a] = [at |-> "idle"]]
    /\ UNCHANGED <<mediaVars, avatarFile, expired, avatarMu, cuts>>

\* put truncates, then writes; the file is new from the first of these on.
AvatarPutBegins(a) ==
    /\ asker[a].at = "put"
    /\ avatarMu = Nobody
    /\ avatarMu' = a
    /\ asker' = [asker EXCEPT ![a].at = "write"]
    /\ avatarFile' = [avatarFile EXCEPT ![asker[a].contact] = "torn"]
    /\ expired' = expired \ {asker[a].contact}
    /\ UNCHANGED <<mediaVars, cuts>>

AvatarPutEnds(a) ==
    /\ asker[a].at = "write"
    /\ avatarMu' = Nobody
    /\ \/ /\ avatarFile' = [avatarFile EXCEPT ![asker[a].contact] = "whole"]
          /\ UNCHANGED cuts
       \/ /\ cuts < MaxCuts
          /\ cuts' = cuts + 1
          /\ UNCHANGED avatarFile
    /\ asker' = [asker EXCEPT ![a] = [at |-> "idle"]]
    /\ UNCHANGED <<mediaVars, expired>>

Day(c) ==
    /\ avatarFile[c] # "absent"
    /\ expired' = expired \cup {c}
    /\ UNCHANGED <<mediaVars, avatarFile, asker, avatarMu, cuts>>

--------------------------------------------------------------------------------

\* The process is killed and started again: the files stay as they are.
KillFiles ==
    /\ cuts < MaxCuts
    /\ cuts' = cuts + 1
    /\ cutMedia' = cutMedia \cup {FileOf(m) : m \in {n \in Incoming : fetching[n] = "write"}}
    /\ failed' = failed \cup {m \in Incoming : fetching[m] # "none"}
    /\ fetching' = [m \in Incoming |-> "none"]
    /\ mediaMu' = Nobody
    /\ asker' = [a \in Askers |-> [at |-> "idle"]]
    /\ avatarMu' = Nobody
    /\ UNCHANGED <<carries, mediaFile, avatarFile, expired>>

FilesNext ==
    \/ KillFiles
    \/ \E m \in Incoming :
        \/ \E p \in Payloads : Handle(m, p)
        \/ Downloaded(m) \/ DownloadFails(m) \/ PutBegins(m) \/ PutDone(m) \/ PutFails(m)
    \/ \E c \in Portraits : Day(c) \/ \E a \in Askers : AvatarMissed(a, c)
    \/ \E a \in Askers :
        \/ AvatarFetched(a) \/ AvatarNotFound(a) \/ AvatarPutBegins(a) \/ AvatarPutEnds(a)

FilesSpec == FilesInit /\ [][FilesNext]_fileVars

Downloading(m) == Downloaded(m) \/ DownloadFails(m) \/ PutBegins(m) \/ PutDone(m) \/ PutFails(m)
AvatarSteps(a) == AvatarNotFound(a) \/ AvatarPutBegins(a) \/ AvatarPutEnds(a)

--------------------------------------------------------------------------------

\* Every file and request is one of these; the holder of a mutex is writing.
FilesTypeOK ==
    /\ carries \in [Incoming -> AllPayloads]
    /\ fetching \in [Incoming -> {"none", "download", "put", "write"}]
    /\ mediaFile \in [Files -> Contents]
    /\ avatarFile \in [Portraits -> Contents]
    /\ expired \subseteq Portraits
    /\ asker \in [Askers -> [at : {"idle"}] \cup [at : {"fetch", "put", "write"}, contact : Portraits]]
    /\ cuts \in 0..MaxCuts
    /\ cutMedia \subseteq Files /\ failed \subseteq Incoming
    /\ \A m \in Incoming : fetching[m] = "write" <=> mediaMu = m
    /\ \A a \in Askers : asker[a].at = "write" <=> avatarMu = a
    /\ mediaMu \in Incoming \cup {Nobody} /\ avatarMu \in Askers \cup {Nobody}

\* GET /media answers with a whole file or with none, also while the file is being
\* written, unless a write of that file has ended early.
MediaWhole ==
    \A f \in Files : "torn" \in MediaAnswers(f) => f \in cutMedia

CanBeFetched(m) == HasMedia(carries[m]) /\ "whole" \in MediaAnswers(FileOf(m))

MediaArrives ==
    \A m \in Incoming : HasMedia(carries[m]) ~> m \in failed \/ CanBeFetched(m)

AvatarHeals ==
    \A c \in Portraits : avatarFile[c] = "torn" ~> avatarFile[c] = "whole"

================================================================================
