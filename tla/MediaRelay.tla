------------------------------ MODULE MediaRelay -------------------------------
(***************************************************************************)
(* The media of running calls between WhatsApp and the app: the relay that *)
(* attachMedia (calls.go) makes for each call, with bounded channels for   *)
(* the microphone, the camera and the peer's audio and video; the library  *)
(* meowcaller, which reads and fills them; the WebSocket sessions (ws.go), *)
(* each with a goroutine that sends the peer's frames to the app and a     *)
(* reader that takes the app's frames; SetCamera; and stop(), called by    *)
(* Hangup and by OnEnd.                                                    *)
(*                                                                         *)
(* The signalling around it is the subject of Calls, the events on the     *)
(* same connections of Sessions. The flag that SetMuted stores is read     *)
(* nowhere and left out.                                                   *)
(***************************************************************************)
EXTENDS MediaFormat, FiniteSets

CONSTANTS
    Calls,       \* call identifiers
    Sessions,    \* WebSocket connections
    Capacity,    \* size of a channel (128 or 32 in the code)
    FrameSize,   \* samples of a frame the call reads (frameSamples)
    ChunkSizes,  \* stereo frames in what the app sends at once
    Loads        \* bounds: who takes part, and how much each sends

Kinds == {"audio", "video"}
Stops == {"hangup", "end"}

ASSUME SizesAssumption ==
    /\ Capacity \in Nat \ {0} /\ FrameSize \in Nat \ {0} /\ ChunkSizes \subseteq Nat
    /\ \A l \in Loads :
        /\ l.calls \subseteq Calls /\ l.ends \subseteq Calls /\ l.sessions \subseteq Sessions
        /\ l.peer \in [Calls \X Kinds -> Nat]
        /\ l.mic \in Nat /\ l.cam \in Nat /\ l.switches \in Nat

VARIABLES
    relays,     \* the calls in CallRegistry.relays
    attached,   \* the calls whose attachMedia has run
    cancelled,  \* the relays whose context has ended
    stopping,   \* how far Hangup and OnEnd are in stop()
    sink,       \* the frame a callback of the library has in hand, 0 for none
    peerCh,     \* peerAudioCh and peerVideoCh
    relayOut,   \* where relayMediaOut of each session is, and what it holds
    closed,     \* the sessions whose done channel is closed
    micCh,      \* micCh of each relay
    reading,    \* pcmSource: its pending samples and the frame being filled
    camCh,      \* how many access units wait in camCh
    cameraOn,   \* SetCamera's flag
    sender,     \* the goroutine that sends the camera's access units
    load,       \* the bounds of this behaviour
    offered,    \* history: how many frames the peer has sent
    heard,      \* history: the frames each session has sent to the app
    lost,       \* history: the frames that a failed write or a stop has cost
    accepted,   \* history: the samples that micCh has taken
    played,     \* history: the samples that the call has read
    spent,      \* history: what the app has sent and switched so far
    late        \* history: access units sent since the camera was switched off

peer == <<sink, peerCh, offered>>
out == <<relayOut, heard, lost>>
mic == <<micCh, reading, accepted, played>>
cam == <<camCh, cameraOn, sender, late>>
life == <<relays, attached, cancelled, stopping>>
vars == <<life, peer, out, closed, mic, cam, load, spent>>

Idle == [at |-> "none"]

Init ==
    /\ relays = {} /\ attached = {} /\ cancelled = {}
    /\ stopping = [c \in Calls |-> [t \in Stops |-> "no"]]
    /\ sink = [c \in Calls |-> [k \in Kinds |-> 0]]
    /\ peerCh = [c \in Calls |-> [k \in Kinds |-> <<>>]]
    /\ relayOut = [s \in Sessions |-> Idle]
    /\ closed = {}
    /\ micCh = [c \in Calls |-> <<>>]
    /\ reading = [c \in Calls |-> [pending |-> <<>>, frame |-> <<>>]]
    /\ camCh = [c \in Calls |-> 0]
    /\ cameraOn = [c \in Calls |-> FALSE]
    /\ sender = [c \in Calls |-> "none"]
    /\ load \in Loads
    /\ offered = sink
    /\ heard = [s \in Sessions |-> {}]
    /\ lost = {}
    /\ accepted = micCh /\ played = micCh
    /\ spent = [mic |-> 0, cam |-> 0, switches |-> 0]
    /\ late = camCh

--------------------------------------------------------------------------------
(* A call's relay *)

\* newRelay and attachMedia: from now on the library may call back.
Attach(c) ==
    /\ c \in load.calls \ attached
    /\ attached' = attached \cup {c}
    /\ sender' = [sender EXCEPT ![c] = "waiting"]
    /\ UNCHANGED <<relays, cancelled, stopping, peer, out, closed, mic, camCh, cameraOn,
                   late, load, spent>>

\* StartOutgoing and AcceptIncoming put the relay in the map afterwards.
Register(c) ==
    /\ c \in attached
    /\ c \notin relays
    /\ stopping[c]["hangup"] = "no" /\ stopping[c]["end"] = "no"
    /\ relays' = relays \cup {c}
    /\ UNCHANGED <<attached, cancelled, stopping, peer, out, closed, mic, cam, load, spent>>

Stop(c, t) ==
    /\ stopping' = [stopping EXCEPT ![c][t] = "waiting"]
    /\ cancelled' = cancelled \cup {c}

\* POST /call/end: the relay leaves the map first.
Hangup(c) ==
    /\ c \in relays \cap load.ends
    /\ relays' = relays \ {c}
    /\ Stop(c, "hangup")
    /\ UNCHANGED <<attached, peer, out, closed, mic, cam, load, spent>>

\* The library reports the end of the call, once.
OnEnd(c) ==
    /\ c \in attached \cap load.ends
    /\ stopping[c]["end"] = "no"
    /\ Stop(c, "end")
    /\ UNCHANGED <<relays, attached, peer, out, closed, mic, cam, load, spent>>

\* Mutant of WaitGroupDone: stop() cancels the context and returns.
NoWaitGroup(c) == TRUE

\* The goroutine of the player returns by itself.
WaitGroupDone(c) == sender[c] = "ended"

\* stop() returns. OnEnd takes the relay from the map then, Hangup has before.
Stopped(c, t) ==
    /\ stopping[c][t] = "waiting"
    /\ WaitGroupDone(c)
    /\ stopping' = [stopping EXCEPT ![c][t] = "done"]
    /\ relays' = IF t = "end" THEN relays \ {c} ELSE relays
    /\ UNCHANGED <<attached, cancelled, peer, out, closed, mic, cam, load, spent>>

--------------------------------------------------------------------------------
(* From the peer to the app *)

\* The library calls WriteFrame, or the video sink, for the next frame.
PeerFrame(c, k) ==
    /\ c \in attached
    /\ sink[c][k] = 0
    /\ offered[c][k] < load.peer[c, k]
    /\ offered' = [offered EXCEPT ![c][k] = @ + 1]
    /\ sink' = [sink EXCEPT ![c][k] = offered[c][k] + 1]
    /\ UNCHANGED <<life, peerCh, out, closed, mic, cam, load, spent>>

\* Mutant of Deposit: the callback does not wait for room, like the reader of the
\* app's frames.
DepositOrDrop(c, k) ==
    /\ peerCh' = IF Len(peerCh[c][k]) = Capacity THEN peerCh
                 ELSE [peerCh EXCEPT ![c][k] = Append(@, sink[c][k])]
    /\ lost' = lost

\* Mutant of Deposit: the channel has no bound.
DepositAnyway(c, k) ==
    /\ peerCh' = [peerCh EXCEPT ![c][k] = Append(@, sink[c][k])]
    /\ lost' = lost

Deposit(c, k) ==
    /\ Len(peerCh[c][k]) < Capacity
    /\ peerCh' = [peerCh EXCEPT ![c][k] = Append(@, sink[c][k])]
    /\ lost' = lost

\* Mutant of SinkClosed: the callback waits for room alone.
NeverClosed(c, k) == FALSE /\ UNCHANGED <<peerCh, lost>>

SinkClosed(c, k) ==
    /\ c \in cancelled
    /\ lost' = lost \cup {<<c, k, sink[c][k]>>}
    /\ UNCHANGED peerCh

\* The callback returns: the frame is in the channel, or the relay has ended.
SinkReturns(c, k) ==
    /\ sink[c][k] # 0
    /\ Deposit(c, k) \/ SinkClosed(c, k)
    /\ sink' = [sink EXCEPT ![c][k] = 0]
    /\ UNCHANGED <<life, offered, relayOut, heard, closed, mic, cam, load, spent>>

\* ws starts relayMediaOut and the reader.
Open(s) ==
    /\ s \in load.sessions
    /\ relayOut[s].at = "none"
    /\ relayOut' = [relayOut EXCEPT ![s] = [at |-> "list"]]
    /\ UNCHANGED <<life, peer, heard, lost, closed, mic, cam, load, spent>>

\* The main loop of ws returns.
Close(s) ==
    /\ relayOut[s].at # "none"
    /\ s \notin closed
    /\ closed' = closed \cup {s}
    /\ UNCHANGED <<life, peer, out, mic, cam, load, spent>>

SeesDone(s) ==
    /\ relayOut[s].at = "list"
    /\ s \in closed
    /\ relayOut' = [relayOut EXCEPT ![s] = [at |-> "gone"]]
    /\ UNCHANGED <<life, peer, heard, lost, closed, mic, cam, load, spent>>

\* Mutant of FirstListed: List gives the calls in one fixed order, as its comment
\* has it.
FirstOfAll(c) == c \in relays /\ c = CHOOSE d \in relays : TRUE

\* List walks a map: any call may come first.
FirstListed(c) == c \in relays

Look(s, c) ==
    /\ relayOut[s].at = "list"
    /\ s \notin closed
    /\ FirstListed(c)
    /\ relayOut' = [relayOut EXCEPT ![s] = [at |-> "receive", call |-> c, kind |-> "audio"]]
    /\ UNCHANGED <<life, peer, heard, lost, closed, mic, cam, load, spent>>

After(p) == IF p.kind = "audio" THEN [p EXCEPT !.at = "receive", !.kind = "video"]
            ELSE [at |-> "list"]

\* One receive that does not wait: first the audio, then the video of the call.
ReceiveFrame(s) ==
    LET p == relayOut[s]
        channel == peerCh[p.call][p.kind]
    IN  /\ p.at = "receive"
        /\ IF channel = <<>>
           THEN /\ relayOut' = [relayOut EXCEPT ![s] = After(p)]
                /\ UNCHANGED peerCh
           ELSE /\ relayOut' = [relayOut EXCEPT ![s] =
                        [at |-> "write", call |-> p.call, kind |-> p.kind,
                         frame |-> Head(channel)]]
                /\ peerCh' = [peerCh EXCEPT ![p.call][p.kind] = Tail(@)]
        /\ UNCHANGED <<life, sink, offered, heard, lost, closed, mic, cam, load, spent>>

\* Mutant of WriteFrame: a frame whose write has failed is put back.
WriteFrameAgain(s) ==
    LET p == relayOut[s]
        f == <<p.call, p.kind, p.frame>>
    IN  /\ p.at = "write"
        /\ \/ /\ heard' = [heard EXCEPT ![s] = @ \cup {f}]
              /\ relayOut' = [relayOut EXCEPT ![s] =
                    After([at |-> "write", call |-> p.call, kind |-> p.kind])]
              /\ UNCHANGED peerCh
           \/ /\ peerCh' = [peerCh EXCEPT ![p.call][p.kind] = Append(@, p.frame)]
              /\ relayOut' = [relayOut EXCEPT ![s] = [at |-> "gone"]]
              /\ UNCHANGED heard
        /\ UNCHANGED <<life, sink, offered, lost, closed, mic, cam, load, spent>>

\* WriteMessage succeeds, or the goroutine returns.
WriteFrame(s) ==
    LET p == relayOut[s]
        f == <<p.call, p.kind, p.frame>>
    IN  /\ p.at = "write"
        /\ \/ /\ heard' = [heard EXCEPT ![s] = @ \cup {f}]
              /\ relayOut' = [relayOut EXCEPT ![s] =
                    After([at |-> "write", call |-> p.call, kind |-> p.kind])]
              /\ UNCHANGED lost
           \/ /\ lost' = lost \cup {f}
              /\ relayOut' = [relayOut EXCEPT ![s] = [at |-> "gone"]]
              /\ UNCHANGED heard
        /\ UNCHANGED <<life, peer, closed, mic, cam, load, spent>>

--------------------------------------------------------------------------------
(* From the app to the peer *)

\* The reader goroutine hands a frame to the first call listed, if there is room.
Reads(s) == relayOut[s].at # "none" /\ s \notin closed
Spend(what) ==
    /\ spent[what] < load[what]
    /\ spent' = [spent EXCEPT ![what] = @ + 1]

\* The stereo frames of a chunk, numbered over all chunks.
Chunk(size) == [i \in 1..size |-> 10 * spent.mic + i]

MicFrame(s, c, size) ==
    /\ Reads(s)
    /\ FirstListed(c)
    /\ IF Len(micCh[c]) < Capacity
       THEN /\ micCh' = [micCh EXCEPT ![c] = Append(@, Chunk(size))]
            /\ accepted' = [accepted EXCEPT ![c] = @ \o Downmix48k(Chunk(size))]
       ELSE UNCHANGED <<micCh, accepted>>
    /\ Spend("mic")
    /\ UNCHANGED <<life, peer, out, closed, reading, played, cam, load>>

CamFrame(s, c) ==
    /\ Reads(s)
    /\ FirstListed(c)
    /\ camCh' = IF camCh[c] < Capacity THEN [camCh EXCEPT ![c] = @ + 1] ELSE camCh
    /\ Spend("cam")
    /\ UNCHANGED <<life, peer, out, closed, mic, cameraOn, sender, late, load>>

\* POST /call/camera, for a call in the map.
SetCamera(c, on) ==
    /\ c \in relays
    /\ cameraOn' = [cameraOn EXCEPT ![c] = on]
    /\ late' = [late EXCEPT ![c] = 0]
    /\ Spend("switches")
    /\ UNCHANGED <<life, peer, out, closed, mic, camCh, sender, load>>

\* The library's player calls ReadFrame while the call runs: a chunk is taken
\* only when no sample is pending.
Playing(c) == c \in attached \ cancelled

TakeChunk(c) ==
    /\ Playing(c)
    /\ reading[c].pending = <<>>
    /\ micCh[c] # <<>>
    /\ micCh' = [micCh EXCEPT ![c] = Tail(@)]
    /\ reading' = [reading EXCEPT ![c].pending = Downmix48k(Head(micCh[c]))]
    /\ UNCHANGED <<life, peer, out, closed, accepted, played, cam, load, spent>>

\* Mutant of FillFrame: what is left over when the frame is full is forgotten.
FillAndForget(r) ==
    LET room == FrameSize - Len(r.frame)
        some == IF Len(r.pending) < room THEN Len(r.pending) ELSE room
    IN  [frame |-> r.frame \o SubSeq(r.pending, 1, some), pending |-> <<>>]

FillFrame(r) ==
    LET room == FrameSize - Len(r.frame)
        some == IF Len(r.pending) < room THEN Len(r.pending) ELSE room
    IN  [frame |-> r.frame \o SubSeq(r.pending, 1, some),
         pending |-> SubSeq(r.pending, some + 1, Len(r.pending))]

\* A full frame is returned to the player.
ReadFrame(c) ==
    /\ Playing(c)
    /\ reading[c].pending # <<>>
    /\ LET r == FillFrame(reading[c])
       IN  IF Len(r.frame) = FrameSize
           THEN /\ played' = [played EXCEPT ![c] = @ \o r.frame]
                /\ reading' = [reading EXCEPT ![c] = [r EXCEPT !.frame = <<>>]]
           ELSE reading' = [reading EXCEPT ![c] = r] /\ UNCHANGED played
    /\ UNCHANGED <<life, peer, out, closed, micCh, accepted, cam, load, spent>>

\* The select of the camera's goroutine: an access unit, or the end.
TakeUnit(c) ==
    /\ sender[c] = "waiting"
    /\ camCh[c] > 0
    /\ camCh' = [camCh EXCEPT ![c] = @ - 1]
    /\ sender' = [sender EXCEPT ![c] = "checking"]
    /\ UNCHANGED <<life, peer, out, closed, mic, cameraOn, late, load, spent>>

\* Mutant of MaySend: the flag is not looked at.
MaySendAlways(c) == TRUE

MaySend(c) == cameraOn[c]

CheckCamera(c) ==
    /\ sender[c] = "checking"
    /\ sender' = [sender EXCEPT ![c] = IF MaySend(c) THEN "sending" ELSE "waiting"]
    /\ UNCHANGED <<life, peer, out, closed, mic, camCh, cameraOn, late, load, spent>>

SendVideo(c) ==
    /\ sender[c] = "sending"
    /\ sender' = [sender EXCEPT ![c] = "waiting"]
    /\ late' = IF cameraOn[c] THEN late ELSE [late EXCEPT ![c] = @ + 1]
    /\ UNCHANGED <<life, peer, out, closed, mic, camCh, cameraOn, load, spent>>

SenderEnds(c) ==
    /\ sender[c] = "waiting"
    /\ c \in cancelled
    /\ sender' = [sender EXCEPT ![c] = "ended"]
    /\ UNCHANGED <<life, peer, out, closed, mic, camCh, cameraOn, late, load, spent>>

--------------------------------------------------------------------------------

\* The goroutines that rest when there is nothing to do, and those that spin.
Working(c) ==
    \/ Register(c) \/ CheckCamera(c) \/ SendVideo(c) \/ SenderEnds(c)
    \/ \E t \in Stops : Stopped(c, t)
    \/ \E k \in Kinds : SinkReturns(c, k)
Relaying(s) == SeesDone(s) \/ ReceiveFrame(s) \/ WriteFrame(s)

Next ==
    \/ \E c \in Calls :
        \/ Attach(c) \/ Register(c) \/ Hangup(c) \/ OnEnd(c)
        \/ \E t \in Stops : Stopped(c, t)
        \/ \E k \in Kinds : PeerFrame(c, k) \/ SinkReturns(c, k)
        \/ \E on \in BOOLEAN : SetCamera(c, on)
        \/ TakeChunk(c) \/ ReadFrame(c)
        \/ TakeUnit(c) \/ CheckCamera(c) \/ SendVideo(c) \/ SenderEnds(c)
    \/ \E s \in Sessions :
        \/ Open(s) \/ Close(s) \/ SeesDone(s) \/ ReceiveFrame(s) \/ WriteFrame(s)
        \/ \E c \in Calls :
            \/ Look(s, c) \/ CamFrame(s, c)
            \/ \E size \in ChunkSizes : MicFrame(s, c, size)

Spec == Init /\ [][Next]_vars

\* Goroutines run, and the walk over the map begins with each call again and
\* again. What the first kind has to do is finite: one condition covers them all.
FairSpec ==
    /\ Spec
    /\ WF_vars(\E c \in Calls : Working(c))
    /\ \A s \in Sessions : WF_vars(Relaying(s))
    /\ \A c \in Calls : SF_vars(\E s \in Sessions : Look(s, c))

--------------------------------------------------------------------------------

Frames == Calls \X Kinds \X (Nat \ {0})

Places == [at : {"none", "list", "gone"}]
          \cup [at : {"receive"}, call : Calls, kind : Kinds]
          \cup [at : {"write"}, call : Calls, kind : Kinds, frame : Nat \ {0}]

TypeOK ==
    /\ relays \subseteq attached /\ attached \subseteq Calls
    /\ cancelled \subseteq attached /\ closed \subseteq Sessions
    /\ stopping \in [Calls -> [Stops -> {"no", "waiting", "done"}]]
    /\ sink \in [Calls -> [Kinds -> Nat]] /\ offered \in [Calls -> [Kinds -> Nat]]
    /\ peerCh \in [Calls -> [Kinds -> Seq(Nat \ {0})]]
    /\ relayOut \in [Sessions -> Places]
    /\ heard \in [Sessions -> SUBSET Frames] /\ lost \subseteq Frames
    /\ reading \in [Calls -> [pending : Seq(Nat), frame : Seq(Nat)]]
    /\ camCh \in [Calls -> 0..Capacity] /\ cameraOn \in [Calls -> BOOLEAN]
    /\ sender \in [Calls -> {"none", "waiting", "checking", "sending", "ended"}]
    /\ load \in Loads
    /\ \A c \in Calls :
        /\ \A k \in Kinds : Len(peerCh[c][k]) <= Capacity
        /\ Len(micCh[c]) <= Capacity
        /\ Len(reading[c].frame) < FrameSize

\* Every frame of the peer is in one place: in the hands of the callback, in the
\* channel, on its way in one session, or sent to the app by one session, unless
\* a failed write or the end of the call has cost it. However many sessions drain
\* the same relay, no frame goes out twice and none disappears.
Holders(c, k, n) ==
    {"sink" : x \in {y \in {1} : sink[c][k] = n}}
    \cup {<<"channel", i>> : i \in {j \in 1..Len(peerCh[c][k]) : peerCh[c][k][j] = n}}
    \cup {<<"hand", s>> : s \in {r \in Sessions : relayOut[r].at = "write"
            /\ relayOut[r].call = c /\ relayOut[r].kind = k /\ relayOut[r].frame = n}}
    \cup {<<"app", s>> : s \in {r \in Sessions : <<c, k, n>> \in heard[r]}}
    \cup {"lost" : x \in {y \in {1} : <<c, k, n>> \in lost}}

PeerFramesKept ==
    \A c \in Calls, k \in Kinds :
        \A n \in 1..offered[c][k] : Cardinality(Holders(c, k, n)) = 1

\* A session sends the app the frames of a call's audio, and those of its video,
\* in the order the peer sent them, also when another session takes some of them.
KeepsOrder ==
    \A s \in Sessions : \A f \in heard'[s] \ heard[s] : \A g \in heard[s] :
        g[1] = f[1] /\ g[2] = f[2] => g[3] < f[3]

HeardInOrder == [][KeepsOrder]_vars

\* As long as one session goes on relaying, what the peer sends does not get
\* stuck, whichever of two calls the map lists first.
Relayed(s) == relayOut[s].at \notin {"none", "gone"} /\ s \notin closed

Unheard ==
    \E c \in relays \ cancelled, k \in Kinds : sink[c][k] # 0 \/ peerCh[c][k] # <<>>

PeerHeard == Unheard ~> (~Unheard \/ ~\E s \in Sessions : Relayed(s))

\* stop() returns, and lets the callbacks go that wait on full channels, although
\* no session drains them any more.
Held ==
    \E c \in cancelled :
        \/ \E t \in Stops : stopping[c][t] = "waiting"
        \/ \E k \in Kinds : sink[c][k] # 0

Released == Held ~> ~Held

\* When stop() has returned, the camera's goroutine sends nothing more.
QuietAfterStop ==
    \A c \in Calls, t \in Stops :
        stopping[c][t] = "done" => sender[c] \notin {"checking", "sending"}

\* After the camera has been switched off at most one more access unit goes out,
\* the one that had passed the check.
CameraOffIsOff == \A c \in Calls : late[c] <= 1

\* The samples of the chunks in a channel.
Waiting(q) ==
    LET first[i \in 0..Len(q)] == IF i = 0 THEN <<>> ELSE first[i - 1] \o Downmix48k(q[i])
    IN  first[Len(q)]

\* What the microphone recorded and micCh took reaches the call in order, without
\* a gap and without a repetition, cut into frames as ReadFrame needs them.
MicKept ==
    \A c \in Calls :
        /\ accepted[c] = played[c] \o reading[c].frame \o reading[c].pending
                         \o Waiting(micCh[c])
        /\ Len(played[c]) % FrameSize = 0

\* The peer's voice comes back unchanged, clamped to 16 bits, when the app sends
\* it back: downmix48kStereo undoes upsample16kTo48kStereo; and isKeyframe tells
\* the type of the first unit of H.264 data, whatever comes before it. Facts about
\* functions, evaluated before the first call.
FormatsSound == attached = {} => SoundReturns /\ FlagAgrees

================================================================================
