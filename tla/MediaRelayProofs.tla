---------------------------- MODULE MediaRelayProofs ----------------------------
(***************************************************************************)
(* Proofs about MediaRelay, for any calls and sessions, any size of the    *)
(* channels, frames and chunks, and any load.                              *)
(***************************************************************************)
EXTENDS MediaRelay, FiniteSetTheorems, SequenceTheorems, WellFoundedInduction, TLAPS

USE SizesAssumption

--------------------------------------------------------------------------------
(* Types *)

Frame == Nat \ {0}
Samples == Seq(Nat)

LifeOK ==
    /\ relays \subseteq attached /\ attached \subseteq Calls
    /\ cancelled \subseteq attached /\ closed \subseteq Sessions
    /\ stopping \in [Calls -> [Stops -> {"no", "waiting", "done"}]]
SinkOK ==
    /\ sink \in [Calls -> [Kinds -> Nat]] /\ offered \in [Calls -> [Kinds -> Nat]]
ChannelOK ==
    /\ peerCh \in [Calls -> [Kinds -> Seq(Frame)]]
    /\ \A c \in Calls, k \in Kinds : Len(peerCh[c][k]) <= Capacity
OutOK ==
    /\ relayOut \in [Sessions -> Places]
    /\ heard \in [Sessions -> SUBSET Frames] /\ lost \subseteq Frames
MicOK ==
    /\ micCh \in [Calls -> Seq(Samples)]
    /\ reading \in [Calls -> [pending : Samples, frame : Samples]]
    /\ \A c \in Calls : Len(micCh[c]) <= Capacity /\ Len(reading[c].frame) < FrameSize
CamOK ==
    /\ camCh \in [Calls -> 0..Capacity] /\ cameraOn \in [Calls -> BOOLEAN]
    /\ sender \in [Calls -> {"none", "waiting", "checking", "sending", "ended"}]
    /\ late \in [Calls -> Nat]
LoadOK == load \in Loads /\ spent \in [mic : Nat, cam : Nat, switches : Nat]

Types == LifeOK /\ SinkOK /\ ChannelOK /\ OutOK /\ MicOK /\ CamOK /\ LoadOK

LEMMA ChunkTyped ==
    ASSUME LoadOK, NEW size \in Nat
    PROVE Chunk(size) \in Samples
<1>1. spent.mic \in Nat
  BY DEF LoadOK
<1>2. \A i \in 1..size : 10 * spent.mic + i \in Nat
  BY <1>1
<1> QED BY <1>2 DEF Chunk, Samples

LEMMA DownmixTyped ==
    ASSUME NEW b \in Samples
    PROVE Downmix48k(b) \in Samples
<1> DEFINE n == (Len(b) + 2) \div 3
<1>1. Len(b) \in Nat
  BY DEF Samples
<1>2. n \in Nat /\ \A i \in 1..n : 3 * i - 2 \in 1..Len(b)
  BY <1>1
<1>3. \A i \in 1..n : b[3 * i - 2] \in Nat
  BY <1>2 DEF Samples
<1> HIDE DEF n
<1>4. [i \in 1..n |-> b[3 * i - 2]] \in Seq(Nat)
  BY <1>2, <1>3
<1> QED BY <1>4 DEF Downmix48k, n, Samples

LEMMA ConcatTyped ==
    ASSUME NEW s \in Seq(Nat), NEW t \in Seq(Nat)
    PROVE s \o t \in Seq(Nat) /\ Len(s \o t) = Len(s) + Len(t)
OBVIOUS

LEMMA FillTyped ==
    ASSUME NEW r \in [pending : Samples, frame : Samples], Len(r.frame) < FrameSize
    PROVE /\ FillFrame(r) \in [pending : Samples, frame : Samples]
          /\ Len(FillFrame(r).frame) <= FrameSize
<1> DEFINE room == FrameSize - Len(r.frame)
           some == IF Len(r.pending) < room THEN Len(r.pending) ELSE room
           taken == SubSeq(r.pending, 1, some)
           left == SubSeq(r.pending, some + 1, Len(r.pending))
<1>1. r.pending \in Seq(Nat) /\ r.frame \in Seq(Nat)
  BY DEF Samples
<1>2. some \in 0..Len(r.pending) /\ some <= room /\ room \in Nat
  BY <1>1
<1> HIDE DEF some
<1>3. taken \in Seq(Nat) /\ Len(taken) = some /\ left \in Seq(Nat)
  BY <1>1, <1>2
<1> HIDE DEF taken, left
<1>4. r.frame \o taken \in Seq(Nat) /\ Len(r.frame \o taken) = Len(r.frame) + some
  BY <1>1, <1>3, ConcatTyped
<1>5. Len(r.frame) + some <= FrameSize
  BY <1>1, <1>2
<1>6. FillFrame(r) = [frame |-> r.frame \o taken, pending |-> left]
  BY DEF FillFrame, taken, left, some
<1> QED BY <1>3, <1>4, <1>5, <1>6 DEF Samples

LEMMA TypesInit == Init => Types
<1> SUFFICES ASSUME Init PROVE Types
  OBVIOUS
<1>1. LifeOK
  BY DEF Init, LifeOK
<1>2. SinkOK
  BY DEF Init, SinkOK
<1>3. ChannelOK
  BY DEF Init, ChannelOK
<1>4. OutOK
  BY DEF Init, OutOK, Idle, Places
<1>5. MicOK
  BY DEF Init, MicOK, Samples
<1>6. CamOK
  BY DEF Init, CamOK
<1>7. LoadOK
  BY DEF Init, LoadOK
<1> QED BY <1>1, <1>2, <1>3, <1>4, <1>5, <1>6, <1>7 DEF Types

\* Which part a step leaves alone.
LEMMA Untouched ==
    /\ LifeOK /\ UNCHANGED <<life, closed>> => LifeOK'
    /\ SinkOK /\ UNCHANGED <<sink, offered>> => SinkOK'
    /\ ChannelOK /\ UNCHANGED peerCh => ChannelOK'
    /\ OutOK /\ UNCHANGED out => OutOK'
    /\ MicOK /\ UNCHANGED <<micCh, reading>> => MicOK'
    /\ CamOK /\ UNCHANGED cam => CamOK'
    /\ LoadOK /\ UNCHANGED <<load, spent>> => LoadOK'
<1>1. LifeOK /\ UNCHANGED <<life, closed>> => LifeOK'
  BY DEF LifeOK, life
<1>2. SinkOK /\ UNCHANGED <<sink, offered>> => SinkOK'
  BY DEF SinkOK
<1>3. ChannelOK /\ UNCHANGED peerCh => ChannelOK'
  BY DEF ChannelOK
<1>4. OutOK /\ UNCHANGED out => OutOK'
  BY DEF OutOK, out
<1>5. MicOK /\ UNCHANGED <<micCh, reading>> => MicOK'
  BY DEF MicOK
<1>6. CamOK /\ UNCHANGED cam => CamOK'
  BY DEF CamOK, cam
<1>7. LoadOK /\ UNCHANGED <<load, spent>> => LoadOK'
  BY DEF LoadOK
<1> QED BY <1>1, <1>2, <1>3, <1>4, <1>5, <1>6, <1>7

LEMMA SpendTyped ==
    ASSUME LoadOK, NEW what \in {"mic", "cam", "switches"}, Spend(what), UNCHANGED load
    PROVE LoadOK'
BY DEF LoadOK, Spend

\* The steps of a call's life.
LEMMA LifeTypes ==
    ASSUME Types, NEW c \in Calls,
           \/ Attach(c) \/ Register(c) \/ Hangup(c) \/ OnEnd(c)
           \/ \E t \in Stops : Stopped(c, t)
    PROVE Types'
<1> USE DEF Types
<1>1. CASE Attach(c)
  <2>1. LifeOK'
    BY <1>1 DEF Attach, LifeOK
  <2>2. CamOK'
    BY <1>1 DEF Attach, CamOK
  <2> QED BY <1>1, <2>1, <2>2, Untouched DEF Attach, peer, out, mic
<1>2. CASE Register(c)
  <2>1. LifeOK'
    BY <1>2 DEF Register, LifeOK
  <2> QED BY <1>2, <2>1, Untouched DEF Register, peer, out, mic
<1>3. CASE Hangup(c)
  <2>1. LifeOK'
    BY <1>3 DEF Hangup, Stop, LifeOK, Stops
  <2> QED BY <1>3, <2>1, Untouched DEF Hangup, peer, out, mic
<1>4. CASE OnEnd(c)
  <2>1. LifeOK'
    BY <1>4 DEF OnEnd, Stop, LifeOK, Stops
  <2> QED BY <1>4, <2>1, Untouched DEF OnEnd, peer, out, mic
<1>5. ASSUME NEW t \in Stops, Stopped(c, t) PROVE Types'
  <2>1. LifeOK'
    BY <1>5 DEF Stopped, LifeOK
  <2> QED BY <1>5, <2>1, Untouched DEF Stopped, peer, out, mic
<1> QED BY <1>1, <1>2, <1>3, <1>4, <1>5

\* The steps from the peer to the app.
LEMMA PeerTypes ==
    ASSUME Types, NEW c \in Calls, NEW k \in Kinds, PeerFrame(c, k) \/ SinkReturns(c, k)
    PROVE Types'
<1> USE DEF Types
<1>1. CASE PeerFrame(c, k)
  <2>1. SinkOK'
    <3>1. offered[c][k] + 1 \in Nat
      BY DEF SinkOK
    <3>2. /\ offered' = [offered EXCEPT ![c][k] = offered[c][k] + 1]
          /\ sink' = [sink EXCEPT ![c][k] = offered[c][k] + 1]
      BY <1>1 DEF PeerFrame
    <3> QED BY <3>1, <3>2 DEF SinkOK
  <2> QED BY <1>1, <2>1, Untouched DEF PeerFrame, out, mic
<1>2. CASE SinkReturns(c, k)
  <2>1. sink[c][k] \in Frame
    BY <1>2 DEF SinkReturns, SinkOK, Frame
  <2>2. SinkOK'
    BY <1>2 DEF SinkReturns, SinkOK
  <2>3. CASE Deposit(c, k)
    <3>1. peerCh[c][k] \in Seq(Frame) /\ Len(peerCh[c][k]) < Capacity
      BY <2>3 DEF Deposit, ChannelOK
    <3>2. Append(peerCh[c][k], sink[c][k]) \in Seq(Frame)
      BY <2>1, <3>1
    <3>3. Len(Append(peerCh[c][k], sink[c][k])) <= Capacity
      BY <3>1
    <3> HIDE DEF Types
    <3>4. ChannelOK'
      BY <2>3, <3>2, <3>3 DEF Deposit, ChannelOK, Types
    <3>5. UNCHANGED out
      BY <1>2, <2>3 DEF SinkReturns, Deposit, out
    <3> QED BY <1>2, <2>2, <3>4, <3>5, Untouched DEF SinkReturns, mic, Types
  <2>4. CASE SinkClosed(c, k)
    <3>1. <<c, k, sink[c][k]>> \in Frames
      BY <2>1 DEF Frames, Frame
    <3>2. OutOK'
      BY <1>2, <2>4, <3>1 DEF SinkReturns, SinkClosed, OutOK
    <3> QED BY <1>2, <2>2, <2>4, <3>2, Untouched DEF SinkReturns, SinkClosed, mic
  <2> QED BY <1>2, <2>3, <2>4 DEF SinkReturns
<1> QED BY <1>1, <1>2

LEMMA PlacesShapes ==
    /\ \A at \in {"none", "list", "gone"} : [at |-> at] \in Places
    /\ \A c \in Calls, k \in Kinds : [at |-> "receive", call |-> c, kind |-> k] \in Places
    /\ \A c \in Calls, k \in Kinds, n \in Frame :
        [at |-> "write", call |-> c, kind |-> k, frame |-> n] \in Places
    /\ \A p \in Places :
        /\ p.at = "receive" => p \in [at : {"receive"}, call : Calls, kind : Kinds]
        /\ p.at = "write" => p \in [at : {"write"}, call : Calls, kind : Kinds, frame : Frame]
BY DEF Places, Frame

\* After a kind the goroutine goes to the next one, or lists the calls again.
LEMMA AfterTyped ==
    ASSUME NEW at, NEW c \in Calls, NEW k \in Kinds
    PROVE After([at |-> at, call |-> c, kind |-> k]) \in Places
<1>1. CASE k = "audio"
  BY <1>1, PlacesShapes DEF After, Kinds
<1>2. CASE k = "video"
  BY <1>2, PlacesShapes DEF After
<1> QED BY <1>1, <1>2 DEF Kinds

LEMMA SessionTypes ==
    ASSUME Types, NEW s \in Sessions,
           \/ Open(s) \/ Close(s) \/ SeesDone(s) \/ ReceiveFrame(s) \/ WriteFrame(s)
           \/ \E c \in Calls : Look(s, c)
    PROVE Types'
<1> USE DEF Types
<1> DEFINE p == relayOut[s]
<1>1. ASSUME NEW q \in Places, relayOut' = [relayOut EXCEPT ![s] = q]
      PROVE relayOut' \in [Sessions -> Places]
  BY <1>1 DEF OutOK
<1>2. CASE Open(s)
  <2>1. OutOK'
    BY <1>1, <1>2, PlacesShapes DEF Open, OutOK
  <2> QED BY <1>2, <2>1, Untouched DEF Open, peer, mic
<1>3. CASE Close(s)
  <2>1. LifeOK'
    BY <1>3 DEF Close, LifeOK, life
  <2> QED BY <1>3, <2>1, Untouched DEF Close, peer, mic
<1>4. CASE SeesDone(s)
  <2>1. OutOK'
    BY <1>1, <1>4, PlacesShapes DEF SeesDone, OutOK
  <2> QED BY <1>4, <2>1, Untouched DEF SeesDone, peer, mic
<1>5. CASE ReceiveFrame(s)
  <2>1. p \in [at : {"receive"}, call : Calls, kind : Kinds]
    BY <1>5, PlacesShapes DEF ReceiveFrame, OutOK
  <2>2. p.call \in Calls /\ p.kind \in Kinds
    BY <2>1
  <2>3. p = [at |-> "receive", call |-> p.call, kind |-> p.kind]
    BY <2>1
  <2>4. peerCh[p.call][p.kind] \in Seq(Frame) /\ Len(peerCh[p.call][p.kind]) <= Capacity
    BY <2>2 DEF ChannelOK
  <2>5. CASE peerCh[p.call][p.kind] = <<>>
    <3>1. After(p) \in Places
      BY <2>2, <2>3, AfterTyped
    <3>2. OutOK'
      BY <1>1, <1>5, <2>5, <3>1 DEF ReceiveFrame, OutOK
    <3> QED BY <1>5, <2>5, <3>2, Untouched DEF ReceiveFrame, mic
  <2>6. CASE peerCh[p.call][p.kind] # <<>>
    <3>1. /\ Head(peerCh[p.call][p.kind]) \in Frame
          /\ Tail(peerCh[p.call][p.kind]) \in Seq(Frame)
          /\ Len(Tail(peerCh[p.call][p.kind])) <= Capacity
      BY <2>4, <2>6
    <3>2. /\ relayOut' = [relayOut EXCEPT ![s] =
                [at |-> "write", call |-> p.call, kind |-> p.kind,
                 frame |-> Head(peerCh[p.call][p.kind])]]
          /\ peerCh' = [peerCh EXCEPT ![p.call][p.kind] = Tail(@)]
          /\ UNCHANGED <<life, sink, offered, heard, lost, closed, mic, cam, load, spent>>
      BY <1>5, <2>6 DEF ReceiveFrame
    <3>3. OutOK'
      BY <1>1, <2>2, <3>1, <3>2, PlacesShapes DEF OutOK
    <3>4. ChannelOK'
      BY <2>2, <3>1, <3>2 DEF ChannelOK
    <3> QED BY <3>2, <3>3, <3>4, Untouched DEF mic
  <2> QED BY <2>5, <2>6
<1>6. CASE WriteFrame(s)
  <2>1. p \in [at : {"write"}, call : Calls, kind : Kinds, frame : Frame]
    BY <1>6, PlacesShapes DEF WriteFrame, OutOK
  <2>2. p.call \in Calls /\ p.kind \in Kinds /\ p.frame \in Frame
    BY <2>1
  <2>3. <<p.call, p.kind, p.frame>> \in Frames
    BY <2>2 DEF Frames, Frame
  <2>4. After([at |-> "write", call |-> p.call, kind |-> p.kind]) \in Places
    BY <2>2, AfterTyped
  <2>5. relayOut' \in [Sessions -> Places]
    BY <1>1, <1>6, <2>4, PlacesShapes DEF WriteFrame
  <2>6. heard' \in [Sessions -> SUBSET Frames] /\ lost' \subseteq Frames
    BY <1>6, <2>3 DEF WriteFrame, OutOK
  <2>7. UNCHANGED <<life, peer, closed, mic, cam, load, spent>>
    BY <1>6 DEF WriteFrame
  <2> QED BY <2>5, <2>6, <2>7, Untouched DEF OutOK, peer, mic
<1>7. ASSUME NEW c \in Calls, Look(s, c) PROVE Types'
  <2>1. OutOK'
    BY <1>1, <1>7, PlacesShapes DEF Look, OutOK, Kinds
  <2> QED BY <1>7, <2>1, Untouched DEF Look, peer, mic
<1> QED BY <1>2, <1>3, <1>4, <1>5, <1>6, <1>7

\* The steps from the app to the peer.
LEMMA MicTypes ==
    ASSUME Types, NEW c \in Calls,
           \/ \E s \in Sessions, size \in ChunkSizes : MicFrame(s, c, size)
           \/ TakeChunk(c) \/ ReadFrame(c)
    PROVE Types'
<1> USE DEF Types
<1>1. ASSUME NEW s \in Sessions, NEW size \in ChunkSizes, MicFrame(s, c, size)
      PROVE Types'
  <2>1. Chunk(size) \in Samples
    BY ChunkTyped
  <2>2. MicOK'
    <3>1. CASE Len(micCh[c]) < Capacity
      <4>1. micCh[c] \in Seq(Samples)
        BY DEF MicOK
      <4>2. /\ Append(micCh[c], Chunk(size)) \in Seq(Samples)
            /\ Len(Append(micCh[c], Chunk(size))) <= Capacity
        BY <2>1, <3>1, <4>1
      <4>3. micCh' = [micCh EXCEPT ![c] = Append(@, Chunk(size))] /\ UNCHANGED reading
        BY <1>1, <3>1 DEF MicFrame
      <4> QED BY <4>2, <4>3 DEF MicOK
    <3>2. CASE ~(Len(micCh[c]) < Capacity)
      BY <1>1, <3>2, Untouched DEF MicFrame
    <3> QED BY <3>1, <3>2
  <2>3. LoadOK'
    BY <1>1, SpendTyped DEF MicFrame
  <2> QED BY <1>1, <2>2, <2>3, Untouched DEF MicFrame, peer
<1>2. CASE TakeChunk(c)
  <2>1. micCh[c] \in Seq(Samples) /\ micCh[c] # <<>>
    BY <1>2 DEF TakeChunk, MicOK
  <2>2. /\ Head(micCh[c]) \in Samples /\ Tail(micCh[c]) \in Seq(Samples)
        /\ Len(Tail(micCh[c])) = Len(micCh[c]) - 1 /\ Len(micCh[c]) \in Nat
    BY <2>1
  <2>3. Downmix48k(Head(micCh[c])) \in Samples
    BY <2>2, DownmixTyped
  <2>4. MicOK'
    <3>1. micCh' \in [Calls -> Seq(Samples)] /\ \A d \in Calls : Len(micCh'[d]) <= Capacity
      BY <1>2, <2>2 DEF TakeChunk, MicOK
    <3>2. /\ reading' \in [Calls -> [pending : Samples, frame : Samples]]
          /\ \A d \in Calls : reading'[d].frame = reading[d].frame
      BY <1>2, <2>3 DEF TakeChunk, MicOK
    <3> QED BY <3>1, <3>2 DEF MicOK
  <2> QED BY <1>2, <2>4, Untouched DEF TakeChunk, peer
<1>3. CASE ReadFrame(c)
  <2> DEFINE r == FillFrame(reading[c])
  <2>1. r \in [pending : Samples, frame : Samples] /\ Len(r.frame) <= FrameSize
    BY FillTyped DEF MicOK
  <2>2. /\ [r EXCEPT !.frame = <<>>] \in [pending : Samples, frame : Samples]
        /\ Len([r EXCEPT !.frame = <<>>].frame) < FrameSize
    <3> HIDE DEF r
    <3>1. [r EXCEPT !.frame = <<>>] = [pending |-> r.pending, frame |-> <<>>]
      BY <2>1
    <3>2. <<>> \in Samples /\ Len(<<>>) < FrameSize
      BY DEF Samples
    <3> QED BY <2>1, <3>1, <3>2
  <2>3. Len(r.frame) \in Nat
    BY <2>1 DEF Samples
  <2>4. MicOK'
    <3>1. CASE Len(r.frame) = FrameSize
      <4>1. /\ reading' = [reading EXCEPT ![c] = [r EXCEPT !.frame = <<>>]]
            /\ UNCHANGED micCh
        BY <1>3, <3>1 DEF ReadFrame
      <4> HIDE DEF r
      <4> QED BY <2>2, <4>1 DEF MicOK
    <3>2. CASE Len(r.frame) # FrameSize
      <4>1. reading' = [reading EXCEPT ![c] = r] /\ UNCHANGED micCh
        BY <1>3, <3>2 DEF ReadFrame
      <4>2. Len(r.frame) < FrameSize
        BY <2>1, <2>3, <3>2
      <4> HIDE DEF r
      <4> QED BY <2>1, <4>1, <4>2 DEF MicOK
    <3> QED BY <3>1, <3>2
  <2> QED BY <1>3, <2>4, Untouched DEF ReadFrame, peer
<1> QED BY <1>1, <1>2, <1>3

LEMMA CamTypes ==
    ASSUME Types, NEW c \in Calls,
           \/ \E s \in Sessions : CamFrame(s, c)
           \/ \E on \in BOOLEAN : SetCamera(c, on)
           \/ TakeUnit(c) \/ CheckCamera(c) \/ SendVideo(c) \/ SenderEnds(c)
    PROVE Types'
<1> USE DEF Types
<1>1. ASSUME NEW s \in Sessions, CamFrame(s, c) PROVE Types'
  <2>1. camCh' \in [Calls -> 0..Capacity]
    BY <1>1 DEF CamFrame, CamOK
  <2>2. LoadOK'
    BY <1>1, SpendTyped DEF CamFrame
  <2> QED BY <1>1, <2>1, <2>2, Untouched DEF CamFrame, CamOK, peer, mic
<1>2. ASSUME NEW on \in BOOLEAN, SetCamera(c, on) PROVE Types'
  <2>1. CamOK'
    BY <1>2 DEF SetCamera, CamOK
  <2>2. LoadOK'
    BY <1>2, SpendTyped DEF SetCamera
  <2> QED BY <1>2, <2>1, <2>2, Untouched DEF SetCamera, peer, mic
<1>3. CASE TakeUnit(c)
  <2>1. camCh' \in [Calls -> 0..Capacity]
    BY <1>3 DEF TakeUnit, CamOK
  <2>2. CamOK'
    BY <1>3, <2>1 DEF TakeUnit, CamOK
  <2> QED BY <1>3, <2>2, Untouched DEF TakeUnit, peer, mic
<1>4. CASE CheckCamera(c)
  <2>1. CamOK'
    BY <1>4 DEF CheckCamera, CamOK
  <2> QED BY <1>4, <2>1, Untouched DEF CheckCamera, peer, mic
<1>5. CASE SendVideo(c)
  <2>1. late' \in [Calls -> Nat]
    BY <1>5 DEF SendVideo, CamOK
  <2>2. CamOK'
    BY <1>5, <2>1 DEF SendVideo, CamOK
  <2> QED BY <1>5, <2>2, Untouched DEF SendVideo, peer, mic
<1>6. CASE SenderEnds(c)
  <2>1. CamOK'
    BY <1>6 DEF SenderEnds, CamOK
  <2> QED BY <1>6, <2>1, Untouched DEF SenderEnds, peer, mic
<1> QED BY <1>1, <1>2, <1>3, <1>4, <1>5, <1>6

LEMMA TypesStep == Types /\ [Next]_vars => Types'
<1> SUFFICES ASSUME Types, [Next]_vars PROVE Types'
  OBVIOUS
<1>1. CASE UNCHANGED vars
  BY <1>1, Untouched DEF vars, peer, out, mic, Types
<1> QED BY <1>1, LifeTypes, PeerTypes, SessionTypes, MicTypes, CamTypes DEF Next

LEMMA TypesHold == Spec => []Types
BY TypesInit, TypesStep, PTL DEF Spec

\* Any calls, sessions and sizes: every variable has its type, and no channel
\* holds more than its capacity.
THEOREM TypeCorrect == Spec => []TypeOK
<1>1. Types => TypeOK
  <2> SUFFICES ASSUME Types PROVE TypeOK
    OBVIOUS
  <2> USE DEF Types
  <2>1. peerCh \in [Calls -> [Kinds -> Seq(Nat \ {0})]]
    BY DEF ChannelOK, Frame
  <2>2. reading \in [Calls -> [pending : Seq(Nat), frame : Seq(Nat)]]
    BY DEF MicOK, Samples
  <2> QED BY <2>1, <2>2 DEF TypeOK, LifeOK, SinkOK, ChannelOK, OutOK, MicOK, CamOK, LoadOK
<1> QED BY <1>1, TypesHold, PTL

--------------------------------------------------------------------------------
(* The end of a call, and the camera *)

\* QuietAfterStop's reason: stop() has waited for the goroutine to end, and it is
\* not started again for a call that has been stopped.
Ended ==
    \A c \in Calls, t \in Stops :
        /\ stopping[c][t] = "done" => sender[c] = "ended"
        /\ stopping[c][t] # "no" => c \in attached

LEMMA EndedStep == Types /\ Ended /\ [Next]_vars => Ended'
<1> SUFFICES ASSUME LifeOK, CamOK, Ended, [Next]_vars PROVE Ended'
  BY DEF Types
<1>1. CASE UNCHANGED <<life, sender>>
  BY <1>1 DEF Ended, life
<1>2. ASSUME NEW c \in Calls, Attach(c) PROVE Ended'
  BY <1>2 DEF Attach, Ended, LifeOK, CamOK
<1>3. ASSUME NEW c \in Calls, Register(c) PROVE Ended'
  BY <1>3 DEF Register, Ended, cam
<1>4. ASSUME NEW c \in Calls, Hangup(c) PROVE Ended'
  BY <1>4 DEF Hangup, Stop, Ended, LifeOK, Stops, cam
<1>5. ASSUME NEW c \in Calls, OnEnd(c) PROVE Ended'
  BY <1>5 DEF OnEnd, Stop, Ended, LifeOK, Stops, cam
<1>6. ASSUME NEW c \in Calls, NEW t \in Stops, Stopped(c, t) PROVE Ended'
  BY <1>6 DEF Stopped, WaitGroupDone, Ended, LifeOK, cam
<1>7. ASSUME NEW c \in Calls,
             TakeUnit(c) \/ CheckCamera(c) \/ SendVideo(c) \/ SenderEnds(c)
      PROVE Ended'
  BY <1>7 DEF TakeUnit, CheckCamera, SendVideo, SenderEnds, Ended, CamOK, life
<1> QED
  BY <1>1, <1>2, <1>3, <1>4, <1>5, <1>6, <1>7
  DEF Next, PeerFrame, SinkReturns, SetCamera, TakeChunk, ReadFrame, Open, Close, SeesDone,
      ReceiveFrame, WriteFrame, Look, CamFrame, MicFrame, vars, cam

\* Any number of calls and of stop() at once: after stop() nothing is sent.
THEOREM StopsQuietly == Spec => []QuietAfterStop
<1>1. Init => Ended
  BY DEF Init, Ended
<1>2. Ended => QuietAfterStop
  BY DEF Ended, QuietAfterStop
<1> QED BY <1>1, <1>2, EndedStep, TypesHold, PTL DEF Spec

\* CameraOffIsOff's reason: a unit that has passed the check is the only one.
Camera ==
    \A c \in Calls :
        /\ late[c] <= 1
        /\ late[c] = 1 => ~cameraOn[c] /\ sender[c] # "sending"

LEMMA CameraStep == Types /\ Camera /\ [Next]_vars => Camera'
<1> SUFFICES ASSUME CamOK, Camera, [Next]_vars PROVE Camera'
  BY DEF Types
<1>1. CASE UNCHANGED <<late, cameraOn, sender>>
  BY <1>1 DEF Camera
<1>2. ASSUME NEW c \in Calls, Attach(c) PROVE Camera'
  BY <1>2 DEF Attach, Camera, CamOK
<1>3. ASSUME NEW c \in Calls, NEW on \in BOOLEAN, SetCamera(c, on) PROVE Camera'
  BY <1>3 DEF SetCamera, Camera, CamOK
<1>4. ASSUME NEW c \in Calls, TakeUnit(c) \/ SenderEnds(c) PROVE Camera'
  BY <1>4 DEF TakeUnit, SenderEnds, Camera, CamOK
<1>5. ASSUME NEW c \in Calls, CheckCamera(c) PROVE Camera'
  BY <1>5 DEF CheckCamera, MaySend, Camera, CamOK
<1>6. ASSUME NEW c \in Calls, SendVideo(c) PROVE Camera'
  <2>1. sender'[c] = "waiting" /\ UNCHANGED cameraOn
    BY <1>6 DEF SendVideo, CamOK
  <2>2. \A d \in Calls : d # c => late'[d] = late[d] /\ sender'[d] = sender[d]
    BY <1>6 DEF SendVideo, CamOK
  <2>3. late'[c] = IF cameraOn[c] THEN late[c] ELSE late[c] + 1
    BY <1>6 DEF SendVideo, CamOK
  <2>4. late[c] \in Nat /\ late[c] <= 1 /\ late[c] # 1
    BY <1>6 DEF SendVideo, CamOK, Camera
  <2>5. late'[c] <= 1 /\ (late'[c] = 1 => ~cameraOn[c])
    BY <2>3, <2>4
  <2> QED BY <2>1, <2>2, <2>5 DEF Camera
<1> QED
  BY <1>1, <1>2, <1>3, <1>4, <1>5, <1>6
  DEF Next, Register, Hangup, OnEnd, Stopped, PeerFrame, SinkReturns, TakeChunk, ReadFrame,
      Open, Close, SeesDone, ReceiveFrame, WriteFrame, Look, CamFrame, MicFrame, vars, cam

\* Any number of switches: at most one unit goes out after the camera is off.
THEOREM CameraOffHolds == Spec => []CameraOffIsOff
<1>1. Init => Camera
  BY DEF Init, Camera
<1>2. Camera => CameraOffIsOff
  BY DEF Camera, CameraOffIsOff
<1> QED BY <1>1, <1>2, CameraStep, TypesHold, PTL DEF Spec

--------------------------------------------------------------------------------
(***************************************************************************)
(* What Released, which is liveness and stays with TLC, rests on: while    *)
(* stop() waits, the goroutine it waits for has a step to take that nobody *)
(* can keep from it, and what has ended stays ended.                       *)
(***************************************************************************)

\* The camera's goroutine has ended, is busy with one access unit, or is at its
\* select and the context it selects on has ended.
StopGoesOn ==
    \A c \in Calls, t \in Stops : stopping[c][t] = "waiting" =>
        \/ WaitGroupDone(c)
        \/ sender[c] \in {"checking", "sending"}
        \/ sender[c] = "waiting" /\ c \in cancelled

\* When stop() has returned, the relay is no longer in the map: no session looks
\* at its channels and no frame of the app goes into them.
StoppedLeft ==
    \A c \in Calls, t \in Stops : stopping[c][t] = "done" => c \notin relays

\* A context that has ended, a goroutine that has and a stop() that has returned
\* stay so.
StopIsFinal ==
    \A c \in Calls :
        /\ c \in cancelled => c \in cancelled'
        /\ sender[c] = "ended" => sender'[c] = "ended"
        /\ \A t \in Stops : stopping[c][t] = "done" => stopping'[c][t] = "done"

\* Whoever stops has ended the context first; a call in the map has not been hung
\* up, and is not put there again.
StopInv ==
    \A c \in Calls :
        /\ c \in attached <=> sender[c] # "none"
        /\ \A t \in Stops : stopping[c][t] # "no" => c \in cancelled
        /\ c \in relays => stopping[c]["hangup"] = "no" /\ stopping[c]["end"] # "done"

LEMMA StopStep ==
    ASSUME LifeOK, CamOK, StopInv, [Next]_vars
    PROVE  StopInv' /\ StopIsFinal
<1> USE DEF LifeOK, CamOK, StopInv, StopIsFinal, Stops
<1>1. CASE UNCHANGED <<life, sender>>
  BY <1>1 DEF life
<1>2. ASSUME NEW c \in Calls, Attach(c) PROVE StopInv' /\ StopIsFinal
  <2>1. sender[c] = "none" /\ sender' = [sender EXCEPT ![c] = "waiting"]
    BY <1>2 DEF Attach
  <2> QED BY <1>2, <2>1 DEF Attach
<1>3. ASSUME NEW c \in Calls, Register(c) PROVE StopInv' /\ StopIsFinal
  BY <1>3 DEF Register, cam
<1>4. ASSUME NEW c \in Calls, Hangup(c) PROVE StopInv' /\ StopIsFinal
  BY <1>4 DEF Hangup, Stop, cam
<1>5. ASSUME NEW c \in Calls, OnEnd(c) PROVE StopInv' /\ StopIsFinal
  BY <1>5 DEF OnEnd, Stop, cam
<1>6. ASSUME NEW c \in Calls, NEW t \in Stops, Stopped(c, t) PROVE StopInv' /\ StopIsFinal
  BY <1>6 DEF Stopped, cam
<1>7. ASSUME NEW c \in Calls,
             TakeUnit(c) \/ CheckCamera(c) \/ SendVideo(c) \/ SenderEnds(c)
      PROVE StopInv' /\ StopIsFinal
  BY <1>7 DEF TakeUnit, CheckCamera, SendVideo, SenderEnds, life
<1> QED
  BY <1>1, <1>2, <1>3, <1>4, <1>5, <1>6, <1>7
  DEF Next, PeerFrame, SinkReturns, SetCamera, TakeChunk, ReadFrame, Open, Close, SeesDone,
      ReceiveFrame, WriteFrame, Look, CamFrame, MicFrame, vars, cam

\* Any number of calls, each stopped by Hangup, by OnEnd or by both at once: neither
\* waits for something that cannot come, and a call that has been stopped is out of
\* the map for good.
THEOREM StopsForGood == Spec => [](StopGoesOn /\ StoppedLeft) /\ [][StopIsFinal]_vars
<1>1. Init => StopInv
  BY DEF Init, StopInv
<1>2. LifeOK /\ CamOK /\ StopInv => StopGoesOn /\ StoppedLeft
  BY DEF LifeOK, CamOK, StopInv, StopGoesOn, StoppedLeft, WaitGroupDone, Stops
<1>3. LifeOK /\ CamOK /\ StopInv /\ [Next]_vars => StopInv' /\ [StopIsFinal]_vars
  BY StopStep
<1>4. Types => LifeOK /\ CamOK
  BY DEF Types
<1> QED BY <1>1, <1>2, <1>3, <1>4, TypesHold, PTL DEF Spec

--------------------------------------------------------------------------------
(* The frames of the peer *)

\* The places where a frame can be, with the session for two of them.
Place == ({"sink", "channel", "lost"} \X {0}) \cup ({"hand", "app"} \X Sessions)

InChannel(c, k, n) == \E i \in 1..Len(peerCh[c][k]) : peerCh[c][k][i] = n
InHandOf(s, c, k, n) ==
    relayOut[s].at = "write" /\ relayOut[s].call = c /\ relayOut[s].kind = k
    /\ relayOut[s].frame = n

At(c, k, n, p) ==
    \/ p[1] = "sink" /\ sink[c][k] = n
    \/ p[1] = "channel" /\ InChannel(c, k, n)
    \/ p[1] = "lost" /\ <<c, k, n>> \in lost
    \/ p[1] = "hand" /\ InHandOf(p[2], c, k, n)
    \/ p[1] = "app" /\ <<c, k, n>> \in heard[p[2]]

OnePlace(c, k, n) == \E p \in Place : \A q \in Place : At(c, k, n, q) <=> q = p

\* PeerFramesKept, with what makes it inductive: a frame not offered yet is
\* nowhere, and a channel holds no frame twice.
Placed ==
    \A c \in Calls, k \in Kinds, n \in Frame :
        IF n <= offered[c][k] THEN OnePlace(c, k, n) ELSE \A q \in Place : ~At(c, k, n, q)
NoRepeat ==
    \A c \in Calls, k \in Kinds : \A i, j \in 1..Len(peerCh[c][k]) :
        peerCh[c][k][i] = peerCh[c][k][j] => i = j

\* A frame goes to one other place, and the others stay where they are.
LEMMA FrameMoves ==
    ASSUME Placed, UNCHANGED offered,
           NEW c \in Calls, NEW k \in Kinds, NEW n \in Frame, NEW p \in Place, NEW r \in Place,
           At(c, k, n, p),
           \A q \in Place : At(c, k, n, q)' <=> q = r,
           \A d \in Calls, l \in Kinds, m \in Frame : <<d, l, m>> # <<c, k, n>> =>
                \A q \in Place : At(d, l, m, q)' <=> At(d, l, m, q)
    PROVE Placed'
<1>1. n <= offered[c][k]
  BY DEF Placed
<1> SUFFICES ASSUME NEW d \in Calls, NEW l \in Kinds, NEW m \in Frame
             PROVE IF m <= offered[d][l] THEN OnePlace(d, l, m)'
                                         ELSE \A q \in Place : ~At(d, l, m, q)'
  BY DEF Placed, Place
<1>2. CASE <<d, l, m>> = <<c, k, n>>
  BY <1>1, <1>2 DEF OnePlace, Place
<1>3. CASE <<d, l, m>> # <<c, k, n>>
  <2>1. \A q \in Place : At(d, l, m, q)' <=> At(d, l, m, q)
    BY <1>3
  <2>2. IF m <= offered[d][l] THEN OnePlace(d, l, m) ELSE \A q \in Place : ~At(d, l, m, q)
    BY DEF Placed
  <2> QED BY <2>1, <2>2 DEF OnePlace, Place
<1> QED BY <1>2, <1>3

\* No frame moves.
LEMMA FramesRest ==
    ASSUME Placed, UNCHANGED offered,
           \A c \in Calls, k \in Kinds, n \in Frame :
                \A q \in Place : At(c, k, n, q)' <=> At(c, k, n, q)
    PROVE Placed'
BY DEF Placed, OnePlace, Place

\* A session that does not hold a frame turns to something else.
LEMMA EmptyHands ==
    ASSUME Types, Placed, NEW s \in Sessions, NEW x, relayOut' = [relayOut EXCEPT ![s] = x],
           relayOut[s].at # "write", x.at # "write",
           UNCHANGED <<sink, peerCh, offered, heard, lost>>
    PROVE Placed'
<1>1. \A r \in Sessions : r # s => relayOut'[r] = relayOut[r]
  BY DEF Types, OutOK
<1>2. relayOut'[s].at # "write"
  BY DEF Types, OutOK
<1>3. \A r \in Sessions, c \in Calls, k \in Kinds, n \in Frame :
        InHandOf(r, c, k, n)' <=> InHandOf(r, c, k, n)
  BY <1>1, <1>2 DEF InHandOf
<1>4. \A c \in Calls, k \in Kinds, n \in Frame : InChannel(c, k, n)' <=> InChannel(c, k, n)
  BY DEF InChannel
<1>5. \A c \in Calls, k \in Kinds, n \in Frame, q \in Place :
        At(c, k, n, q)' <=> At(c, k, n, q)
  BY <1>3, <1>4 DEF At, Place
<1> QED BY <1>5, FramesRest

LEMMA PeerFramePlaces ==
    ASSUME Types, Placed, NEW c \in Calls, NEW k \in Kinds, PeerFrame(c, k)
    PROVE Placed'
<1>0. offered[c][k] + 1 \in Frame /\ offered[c][k] \in Nat
  BY DEF Types, SinkOK, Frame
<1> PICK n \in Frame : n = offered[c][k] + 1
  BY <1>0
<1>1. /\ sink[c][k] = 0 /\ UNCHANGED <<peerCh, relayOut, heard, lost>>
      /\ offered' = [offered EXCEPT ![c][k] = n] /\ sink' = [sink EXCEPT ![c][k] = n]
  BY DEF PeerFrame, out
<1>2. n \in Frame /\ offered[c][k] \in Nat
  BY <1>0
<1>3. \A d \in Calls, l \in Kinds :
        /\ offered'[d][l] = IF d = c /\ l = k THEN n ELSE offered[d][l]
        /\ sink'[d][l] = IF d = c /\ l = k THEN n ELSE sink[d][l]
  BY <1>1 DEF Types, SinkOK
<1>4. \A q \in Place : ~At(c, k, n, q)
  BY <1>2 DEF Placed
<1>5. \A d \in Calls, l \in Kinds, m \in Frame :
        InChannel(d, l, m)' <=> InChannel(d, l, m)
  BY <1>1 DEF InChannel
<1>6. \A s \in Sessions, d \in Calls, l \in Kinds, m \in Frame :
        InHandOf(s, d, l, m)' <=> InHandOf(s, d, l, m)
  BY <1>1 DEF InHandOf
<1>7. \A d \in Calls, l \in Kinds, m \in Frame : <<d, l, m>> # <<c, k, n>> =>
        \A q \in Place : At(d, l, m, q)' <=> At(d, l, m, q)
  BY <1>1, <1>3, <1>5, <1>6 DEF At, Place, Frame
<1>8. \A q \in Place : At(c, k, n, q)' <=> q = <<"sink", 0>>
  BY <1>1, <1>2, <1>3, <1>4, <1>5, <1>6 DEF At, Place
<1> SUFFICES ASSUME NEW d \in Calls, NEW l \in Kinds, NEW m \in Frame
             PROVE IF m <= offered'[d][l] THEN OnePlace(d, l, m)'
                                          ELSE \A q \in Place : ~At(d, l, m, q)'
  BY DEF Placed, Place
<1>9. CASE d = c /\ l = k /\ m = n
  <2>1. <<"sink", 0>> \in Place
    BY DEF Place
  <2>2. OnePlace(c, k, m)'
    BY <1>8, <1>9, <2>1 DEF OnePlace, Place
  <2> QED BY <1>2, <1>3, <1>9, <2>2
<1>10. CASE ~(d = c /\ l = k /\ m = n)
  <2>1. \A q \in Place : At(d, l, m, q)' <=> At(d, l, m, q)
    BY <1>7, <1>10
  <2>2. IF m <= offered[d][l] THEN OnePlace(d, l, m) ELSE \A q \in Place : ~At(d, l, m, q)
    BY DEF Placed
  <2>3. m <= offered'[d][l] <=> m <= offered[d][l]
    <3>1. m \in Nat /\ n \in Nat
      BY DEF Frame
    <3>2. CASE d = c /\ l = k
      <4>1. offered'[d][l] = n /\ n = offered[d][l] + 1 /\ offered[d][l] \in Nat /\ m # n
        BY <1>2, <1>3, <1>10, <3>2
      <4> QED BY <3>1, <4>1
    <3>3. CASE ~(d = c /\ l = k)
      BY <1>3, <3>3
    <3> QED BY <3>2, <3>3
  <2> QED BY <2>1, <2>2, <2>3 DEF OnePlace, Place
<1> QED BY <1>9, <1>10

LEMMA AppendMembers ==
    ASSUME NEW q \in Seq(Frame), NEW n \in Frame, NEW m
    PROVE (\E i \in 1..Len(Append(q, n)) : Append(q, n)[i] = m)
                <=> (\E i \in 1..Len(q) : q[i] = m) \/ m = n
<1>1. /\ Len(Append(q, n)) = Len(q) + 1 /\ Len(q) \in Nat
      /\ \A i \in 1..Len(q) : Append(q, n)[i] = q[i]
      /\ Append(q, n)[Len(q) + 1] = n
  OBVIOUS
<1>2. \A i \in 1..Len(q) + 1 : i \in 1..Len(q) \/ i = Len(q) + 1
  BY <1>1
<1> QED BY <1>1, <1>2

\* A step at the channel and the callback of one call: what the other channels,
\* sessions and callbacks have is not touched.
LEMMA DepositPlaces ==
    ASSUME Types, Placed, NEW c \in Calls, NEW k \in Kinds, SinkReturns(c, k)
    PROVE Placed'
<1> PICK n \in Frame : n = sink[c][k]
  BY DEF SinkReturns, Types, SinkOK, Frame
<1>1. UNCHANGED <<offered, relayOut, heard>> /\ sink' = [sink EXCEPT ![c][k] = 0]
  BY DEF SinkReturns
<1>2. \A d \in Calls, l \in Kinds : sink'[d][l] = IF d = c /\ l = k THEN 0 ELSE sink[d][l]
  BY <1>1 DEF Types, SinkOK
<1>3. \A s \in Sessions, d \in Calls, l \in Kinds, m \in Frame :
        InHandOf(s, d, l, m)' <=> InHandOf(s, d, l, m)
  BY <1>1 DEF InHandOf
<1>4. At(c, k, n, <<"sink", 0>>) /\ <<"sink", 0>> \in Place
  BY DEF At, Place
<1>5. \A q \in Place : At(c, k, n, q) => q = <<"sink", 0>>
  BY <1>4 DEF Placed, OnePlace
<1>6. CASE Deposit(c, k)
  <2>1. UNCHANGED lost /\ peerCh' = [peerCh EXCEPT ![c][k] = Append(@, n)]
    BY <1>6 DEF Deposit
  <2>2. peerCh[c][k] \in Seq(Frame)
    BY DEF Types, ChannelOK
  <2>3. \A d \in Calls, l \in Kinds :
          peerCh'[d][l] = IF d = c /\ l = k THEN Append(peerCh[c][k], n) ELSE peerCh[d][l]
    BY <2>1 DEF Types, ChannelOK
  <2>4. \A d \in Calls, l \in Kinds, m \in Frame :
          InChannel(d, l, m)' <=> InChannel(d, l, m) \/ <<d, l, m>> = <<c, k, n>>
    <3> SUFFICES ASSUME NEW d \in Calls, NEW l \in Kinds, NEW m \in Frame
                 PROVE InChannel(d, l, m)' <=> InChannel(d, l, m) \/ <<d, l, m>> = <<c, k, n>>
      OBVIOUS
    <3>1. CASE d = c /\ l = k
      <4>1. peerCh'[d][l] = Append(peerCh[c][k], n) /\ peerCh[d][l] = peerCh[c][k]
        BY <2>3, <3>1
      <4>2. InChannel(d, l, m)' <=>
                \E i \in 1..Len(Append(peerCh[c][k], n)) : Append(peerCh[c][k], n)[i] = m
        BY <4>1 DEF InChannel
      <4>3. InChannel(d, l, m) <=> \E i \in 1..Len(peerCh[c][k]) : peerCh[c][k][i] = m
        BY <4>1 DEF InChannel
      <4> QED BY <2>2, <3>1, <4>2, <4>3, AppendMembers
    <3>2. CASE ~(d = c /\ l = k)
      BY <2>3, <3>2 DEF InChannel
    <3> QED BY <3>1, <3>2
  <2>5. \A d \in Calls, l \in Kinds, m \in Frame : <<d, l, m>> # <<c, k, n>> =>
          \A q \in Place : At(d, l, m, q)' <=> At(d, l, m, q)
    BY <1>1, <1>2, <1>3, <2>1, <2>4 DEF At, Place, Frame
  <2>6. \A q \in Place : At(c, k, n, q)' <=> q = <<"channel", 0>>
    BY <1>1, <1>2, <1>3, <1>5, <2>1, <2>4 DEF At, Place, Frame
  <2>7. <<"channel", 0>> \in Place
    BY DEF Place
  <2> QED BY <1>1, <1>4, <2>5, <2>6, <2>7, FrameMoves
<1>7. CASE SinkClosed(c, k)
  <2>1. lost' = lost \cup {<<c, k, n>>} /\ UNCHANGED peerCh
    BY <1>7 DEF SinkClosed
  <2>2. \A d \in Calls, l \in Kinds, m \in Frame : InChannel(d, l, m)' <=> InChannel(d, l, m)
    BY <2>1 DEF InChannel
  <2>3. \A d \in Calls, l \in Kinds, m \in Frame : <<d, l, m>> # <<c, k, n>> =>
          \A q \in Place : At(d, l, m, q)' <=> At(d, l, m, q)
    BY <1>1, <1>2, <1>3, <2>1, <2>2 DEF At, Place, Frame
  <2>4. \A q \in Place : At(c, k, n, q)' <=> q = <<"lost", 0>>
    BY <1>1, <1>2, <1>3, <1>5, <2>1, <2>2 DEF At, Place, Frame
  <2>5. <<"lost", 0>> \in Place
    BY DEF Place
  <2> QED BY <1>1, <1>4, <2>3, <2>4, <2>5, FrameMoves
<1> QED BY <1>6, <1>7 DEF SinkReturns

LEMMA ReceivePlaces ==
    ASSUME Types, Placed, NoRepeat, NEW s \in Sessions, ReceiveFrame(s)
    PROVE Placed'
<1>1. relayOut[s] \in [at : {"receive"}, call : Calls, kind : Kinds]
  BY PlacesShapes DEF ReceiveFrame, Types, OutOK
<1>2. PICK c \in Calls, k \in Kinds :
        relayOut[s] = [at |-> "receive", call |-> c, kind |-> k]
  BY <1>1
<1>3. CASE peerCh[c][k] = <<>>
  <2>1. /\ relayOut' = [relayOut EXCEPT ![s] = After(relayOut[s])]
        /\ UNCHANGED <<sink, peerCh, offered, heard, lost>>
    BY <1>2, <1>3 DEF ReceiveFrame
  <2>2. After(relayOut[s]).at # "write"
    BY <1>2 DEF After
  <2>3. relayOut[s].at # "write"
    BY <1>2
  <2> HIDE <1>3
  <2> QED BY <2>1, <2>2, <2>3, EmptyHands
<1>4. CASE peerCh[c][k] # <<>>
  <2>1. peerCh[c][k] \in Seq(Frame)
    BY DEF Types, ChannelOK
  <2> PICK n \in Frame : n = Head(peerCh[c][k])
    BY <1>4, <2>1
  <2>2. /\ relayOut' = [relayOut EXCEPT ![s] =
                [at |-> "write", call |-> c, kind |-> k, frame |-> n]]
        /\ peerCh' = [peerCh EXCEPT ![c][k] = Tail(@)]
        /\ UNCHANGED <<sink, offered, heard, lost>>
    BY <1>2, <1>4 DEF ReceiveFrame
  <2>3. \A d \in Calls, l \in Kinds :
          peerCh'[d][l] = IF d = c /\ l = k THEN Tail(peerCh[c][k]) ELSE peerCh[d][l]
    BY <2>2 DEF Types, ChannelOK
  <2>4. \A r \in Sessions : relayOut'[r] =
          IF r = s THEN [at |-> "write", call |-> c, kind |-> k, frame |-> n] ELSE relayOut[r]
    BY <2>2 DEF Types, OutOK
  <2>5. \A m \in Frame : InChannel(c, k, m)' <=> InChannel(c, k, m) /\ m # n
    <3> DEFINE q == peerCh[c][k]
    <3>1. peerCh'[c][k] = Tail(q) /\ q \in Seq(Frame) /\ q # <<>> /\ n = q[1]
      BY <1>4, <2>1, <2>3
    <3>2. \A i, j \in 1..Len(q) : q[i] = q[j] => i = j
      BY DEF NoRepeat
    <3>3. Len(Tail(q)) = Len(q) - 1 /\ \A i \in 1..Len(q) - 1 : Tail(q)[i] = q[i + 1]
      BY <3>1
    <3> HIDE DEF q
    <3> SUFFICES ASSUME NEW m \in Frame
                 PROVE (\E i \in 1..Len(Tail(q)) : Tail(q)[i] = m)
                            <=> (\E i \in 1..Len(q) : q[i] = m) /\ m # n
      BY <3>1 DEF InChannel, q
    <3>4. Len(q) \in Nat /\ 1 \in 1..Len(q)
      BY <3>1
    <3>5. ASSUME NEW i \in 1..Len(Tail(q)), Tail(q)[i] = m
          PROVE (\E j \in 1..Len(q) : q[j] = m) /\ m # n
      <4>1. i + 1 \in 1..Len(q) /\ q[i + 1] = m /\ i + 1 # 1
        BY <3>3, <3>4, <3>5
      <4> QED BY <3>1, <3>2, <3>4, <4>1
    <3>6. ASSUME NEW i \in 1..Len(q), q[i] = m, m # n
          PROVE \E j \in 1..Len(Tail(q)) : Tail(q)[j] = m
      <4>1. i - 1 \in 1..Len(q) - 1 /\ (i - 1) + 1 = i
        BY <3>1, <3>4, <3>6
      <4> QED BY <3>3, <3>6, <4>1
    <3> QED BY <3>5, <3>6
  <2>6. \A d \in Calls, l \in Kinds, m \in Frame : ~(d = c /\ l = k) =>
          (InChannel(d, l, m)' <=> InChannel(d, l, m))
    BY <2>3 DEF InChannel
  <2>7. \A r \in Sessions, d \in Calls, l \in Kinds, m \in Frame :
          InHandOf(r, d, l, m)' <=>
            IF r = s THEN <<d, l, m>> = <<c, k, n>> ELSE InHandOf(r, d, l, m)
    BY <2>4 DEF InHandOf
  <2>8. \A d \in Calls, l \in Kinds, m \in Frame : ~InHandOf(s, d, l, m)
    BY <1>2 DEF InHandOf
  <2>9. InChannel(c, k, n)
    BY <1>4, <2>1 DEF InChannel
  <2>10. At(c, k, n, <<"channel", 0>>) /\ <<"channel", 0>> \in Place
    BY <2>9 DEF At, Place
  <2>11. \A q \in Place : At(c, k, n, q) => q = <<"channel", 0>>
    BY <2>10 DEF Placed, OnePlace
  <2>12. \A d \in Calls, l \in Kinds, m \in Frame : <<d, l, m>> # <<c, k, n>> =>
          \A q \in Place : At(d, l, m, q)' <=> At(d, l, m, q)
    BY <2>2, <2>5, <2>6, <2>7, <2>8 DEF At, Place
  <2>13. \A q \in Place : At(c, k, n, q)' <=> q = <<"hand", s>>
    BY <2>2, <2>5, <2>7, <2>11 DEF At, Place
  <2>14. <<"hand", s>> \in Place
    BY DEF Place
  <2> QED BY <2>2, <2>10, <2>12, <2>13, <2>14, FrameMoves
<1> QED BY <1>3, <1>4

LEMMA WritePlaces ==
    ASSUME Types, Placed, NEW s \in Sessions, WriteFrame(s)
    PROVE Placed'
<1>1. relayOut[s] \in [at : {"write"}, call : Calls, kind : Kinds, frame : Frame]
  BY PlacesShapes DEF WriteFrame, Types, OutOK
<1>2. PICK c \in Calls, k \in Kinds, n \in Frame :
        relayOut[s] = [at |-> "write", call |-> c, kind |-> k, frame |-> n]
  BY <1>1
<1>3. UNCHANGED <<sink, peerCh, offered>>
  BY DEF WriteFrame, peer
<1>4. /\ \A r \in Sessions : r # s => relayOut'[r] = relayOut[r]
      /\ relayOut'[s].at # "write"
  <2> DEFINE q == After([at |-> "write", call |-> c, kind |-> k])
  <2>1. q.at # "write"
    BY DEF After
  <2>2. \/ relayOut' = [relayOut EXCEPT ![s] = q]
        \/ relayOut' = [relayOut EXCEPT ![s] = [at |-> "gone"]]
    BY <1>2 DEF WriteFrame
  <2> HIDE DEF q
  <2> QED BY <2>1, <2>2 DEF Types, OutOK
<1>5. \A d \in Calls, l \in Kinds, m \in Frame : InChannel(d, l, m)' <=> InChannel(d, l, m)
  BY <1>3 DEF InChannel
<1>6. \A r \in Sessions, d \in Calls, l \in Kinds, m \in Frame :
        InHandOf(r, d, l, m)' <=> InHandOf(r, d, l, m) /\ r # s
  BY <1>4 DEF InHandOf
<1>7. \A d \in Calls, l \in Kinds, m \in Frame :
        InHandOf(s, d, l, m) <=> <<d, l, m>> = <<c, k, n>>
  BY <1>2 DEF InHandOf
<1>8. At(c, k, n, <<"hand", s>>) /\ <<"hand", s>> \in Place
  BY <1>7 DEF At, Place
<1>9. \A q \in Place : At(c, k, n, q) => q = <<"hand", s>>
  BY <1>8 DEF Placed, OnePlace
<1>10. CASE heard' = [heard EXCEPT ![s] = @ \cup {<<c, k, n>>}] /\ UNCHANGED lost
  <2>1. \A r \in Sessions : heard'[r] =
          IF r = s THEN heard[r] \cup {<<c, k, n>>} ELSE heard[r]
    BY <1>10 DEF Types, OutOK
  <2>2. \A d \in Calls, l \in Kinds, m \in Frame : <<d, l, m>> # <<c, k, n>> =>
          \A q \in Place : At(d, l, m, q)' <=> At(d, l, m, q)
    BY <1>3, <1>5, <1>6, <1>7, <1>10, <2>1 DEF At, Place
  <2>3. \A q \in Place : At(c, k, n, q)' <=> q = <<"app", s>>
    <3>1. /\ sink[c][k] # n /\ ~InChannel(c, k, n) /\ <<c, k, n>> \notin lost
          /\ \A r \in Sessions : <<c, k, n>> \notin heard[r]
      <4>1. \A r \in Sessions : <<"app", r>> \in Place /\ <<"app", r>> # <<"hand", s>>
        BY DEF Place
      <4>2. \A tag \in {"sink", "channel", "lost"} :
              <<tag, 0>> \in Place /\ <<tag, 0>> # <<"hand", s>>
        BY DEF Place
      <4>3. /\ ~At(c, k, n, <<"sink", 0>>) /\ ~At(c, k, n, <<"channel", 0>>)
            /\ ~At(c, k, n, <<"lost", 0>>)
            /\ \A r \in Sessions : ~At(c, k, n, <<"app", r>>)
        BY <1>9, <4>1, <4>2
      <4> QED BY <4>3 DEF At
    <3>2. \A r \in Sessions : ~InHandOf(r, c, k, n)'
      <4>1. \A r \in Sessions : InHandOf(r, c, k, n) =>
                <<"hand", r>> \in Place /\ At(c, k, n, <<"hand", r>>)
        BY DEF At, Place
      <4>2. \A r \in Sessions : <<"hand", r>> = <<"hand", s>> => r = s
        OBVIOUS
      <4> QED BY <1>6, <1>9, <4>1, <4>2
    <3> QED BY <1>3, <1>5, <1>10, <2>1, <3>1, <3>2 DEF At, Place
  <2>4. <<"app", s>> \in Place
    BY DEF Place
  <2> QED BY <1>3, <1>8, <2>2, <2>3, <2>4, FrameMoves
<1>11. CASE lost' = lost \cup {<<c, k, n>>} /\ UNCHANGED heard
  <2>1. \A d \in Calls, l \in Kinds, m \in Frame : <<d, l, m>> # <<c, k, n>> =>
          \A q \in Place : At(d, l, m, q)' <=> At(d, l, m, q)
    BY <1>3, <1>5, <1>6, <1>7, <1>11 DEF At, Place
  <2>2. \A q \in Place : At(c, k, n, q)' <=> q = <<"lost", 0>>
    BY <1>3, <1>5, <1>6, <1>9, <1>11 DEF At, Place
  <2>3. <<"lost", 0>> \in Place
    BY DEF Place
  <2> QED BY <1>3, <1>8, <2>1, <2>2, <2>3, FrameMoves
<1> QED BY <1>2, <1>10, <1>11 DEF WriteFrame

Distinct(q) == \A i, j \in 1..Len(q) : q[i] = q[j] => i = j

LEMMA AppendDistinct ==
    ASSUME NEW q \in Seq(Frame), NEW n \in Frame, Distinct(q), \A i \in 1..Len(q) : q[i] # n
    PROVE Distinct(Append(q, n))
<1>1. /\ Len(Append(q, n)) = Len(q) + 1 /\ Len(q) \in Nat
      /\ \A i \in 1..Len(q) : Append(q, n)[i] = q[i]
      /\ Append(q, n)[Len(q) + 1] = n
  OBVIOUS
<1>2. \A i \in 1..Len(q) + 1 : i \in 1..Len(q) \/ i = Len(q) + 1
  BY <1>1
<1> QED BY <1>1, <1>2 DEF Distinct

LEMMA TailDistinct ==
    ASSUME NEW q \in Seq(Frame), q # <<>>, Distinct(q)
    PROVE Distinct(Tail(q))
<1>1. /\ Len(Tail(q)) = Len(q) - 1 /\ Len(q) \in Nat
      /\ \A i \in 1..Len(q) - 1 : Tail(q)[i] = q[i + 1]
  OBVIOUS
<1>2. \A i \in 1..Len(q) - 1 : i \in Nat /\ i + 1 \in 1..Len(q)
  BY <1>1
<1> SUFFICES ASSUME NEW i \in 1..Len(q) - 1, NEW j \in 1..Len(q) - 1, q[i + 1] = q[j + 1]
             PROVE i = j
  BY <1>1 DEF Distinct
<1>3. i + 1 = j + 1
  BY <1>2 DEF Distinct
<1> QED BY <1>2, <1>3

\* One channel changes.
LEMMA OneChannel ==
    ASSUME Types, NoRepeat, NEW c \in Calls, NEW k \in Kinds, NEW q,
           peerCh' = [peerCh EXCEPT ![c][k] = q], Distinct(q)
    PROVE NoRepeat'
<1>1. \A d \in Calls, l \in Kinds :
        peerCh'[d][l] = IF d = c /\ l = k THEN q ELSE peerCh[d][l]
  BY DEF Types, ChannelOK
<1>2. \A d \in Calls, l \in Kinds : Distinct(peerCh[d][l])
  BY DEF NoRepeat, Distinct
<1>3. \A d \in Calls, l \in Kinds : Distinct(peerCh'[d][l])
  BY <1>1, <1>2
<1> QED BY <1>3 DEF NoRepeat, Distinct

LEMMA DepositRepeats ==
    ASSUME Types, Placed, NoRepeat, NEW c \in Calls, NEW k \in Kinds, SinkReturns(c, k)
    PROVE NoRepeat'
<1> DEFINE n == sink[c][k]
<1>1. n \in Frame
  BY DEF SinkReturns, Types, SinkOK, Frame
<1>2. CASE Deposit(c, k)
  <2>1. peerCh[c][k] \in Seq(Frame) /\ Distinct(peerCh[c][k])
    BY DEF Types, ChannelOK, NoRepeat, Distinct
  <2>2. At(c, k, n, <<"sink", 0>>) /\ <<"sink", 0>> \in Place /\ <<"channel", 0>> \in Place
    BY DEF At, Place
  <2>3. <<"sink", 0>> # <<"channel", 0>>
    OBVIOUS
  <2>4. ~At(c, k, n, <<"channel", 0>>)
    BY <1>1, <2>2, <2>3 DEF Placed, OnePlace
  <2>5. \A i \in 1..Len(peerCh[c][k]) : peerCh[c][k][i] # n
    BY <2>4 DEF At, InChannel
  <2>6. Distinct(Append(peerCh[c][k], n))
    BY <1>1, <2>1, <2>5, AppendDistinct
  <2> QED BY <1>2, <2>6, OneChannel DEF Deposit
<1>3. CASE SinkClosed(c, k)
  BY <1>3 DEF SinkClosed, NoRepeat
<1> QED BY <1>2, <1>3 DEF SinkReturns

LEMMA ReceiveRepeats ==
    ASSUME Types, NoRepeat, NEW s \in Sessions, ReceiveFrame(s)
    PROVE NoRepeat'
<1>1. relayOut[s] \in [at : {"receive"}, call : Calls, kind : Kinds]
  BY PlacesShapes DEF ReceiveFrame, Types, OutOK
<1>2. PICK c \in Calls, k \in Kinds :
        relayOut[s] = [at |-> "receive", call |-> c, kind |-> k]
  BY <1>1
<1>3. CASE peerCh[c][k] = <<>>
  BY <1>2, <1>3 DEF ReceiveFrame, NoRepeat
<1>4. CASE peerCh[c][k] # <<>>
  <2>1. peerCh[c][k] \in Seq(Frame) /\ Distinct(peerCh[c][k])
    BY DEF Types, ChannelOK, NoRepeat, Distinct
  <2>2. peerCh' = [peerCh EXCEPT ![c][k] = Tail(peerCh[c][k])]
    BY <1>2, <1>4 DEF ReceiveFrame
  <2> QED BY <1>4, <2>1, <2>2, TailDistinct, OneChannel
<1> QED BY <1>3, <1>4

LEMMA PlacedStep == Types /\ Placed /\ NoRepeat /\ [Next]_vars => Placed' /\ NoRepeat'
<1> SUFFICES ASSUME Types, Placed, NoRepeat, [Next]_vars PROVE Placed' /\ NoRepeat'
  OBVIOUS
<1>1. CASE UNCHANGED <<sink, peerCh, offered, relayOut, heard, lost>>
  <2>1. \A c \in Calls, k \in Kinds, n \in Frame, q \in Place :
          At(c, k, n, q)' <=> At(c, k, n, q)
    BY <1>1 DEF At, InChannel, InHandOf
  <2> QED BY <1>1, <2>1, FramesRest DEF NoRepeat
<1>2. ASSUME NEW c \in Calls, NEW k \in Kinds, PeerFrame(c, k) PROVE Placed' /\ NoRepeat'
  <2>1. NoRepeat'
    BY <1>2 DEF PeerFrame, NoRepeat
  <2> QED BY <1>2, <2>1, PeerFramePlaces
<1>3. ASSUME NEW c \in Calls, NEW k \in Kinds, SinkReturns(c, k) PROVE Placed' /\ NoRepeat'
  BY <1>3, DepositPlaces, DepositRepeats
<1>4. ASSUME NEW s \in Sessions, ReceiveFrame(s) PROVE Placed' /\ NoRepeat'
  BY <1>4, ReceivePlaces, ReceiveRepeats
<1>5. ASSUME NEW s \in Sessions, WriteFrame(s) PROVE Placed' /\ NoRepeat'
  <2>1. NoRepeat'
    BY <1>5 DEF WriteFrame, peer, NoRepeat
  <2> QED BY <1>5, <2>1, WritePlaces
<1>6. ASSUME NEW s \in Sessions, NEW x, relayOut' = [relayOut EXCEPT ![s] = x],
             relayOut[s].at # "write", x.at # "write",
             UNCHANGED <<sink, peerCh, offered, heard, lost>>
      PROVE Placed' /\ NoRepeat'
  <2>1. NoRepeat'
    BY <1>6 DEF NoRepeat
  <2> QED BY <1>6, <2>1, EmptyHands
<1>7. ASSUME NEW s \in Sessions, Open(s) PROVE Placed' /\ NoRepeat'
  <2>1. /\ relayOut' = [relayOut EXCEPT ![s] =
                [at |-> "list"]]
        /\ relayOut[s].at # "write"
        /\ UNCHANGED <<sink, peerCh, offered, heard, lost>>
    BY <1>7 DEF Open, peer
  <2>2. [at |-> "list"].at # "write"
    OBVIOUS
  <2> QED BY <1>6, <2>1, <2>2
<1>8. ASSUME NEW s \in Sessions, SeesDone(s) PROVE Placed' /\ NoRepeat'
  <2>1. /\ relayOut' = [relayOut EXCEPT ![s] =
                [at |-> "gone"]]
        /\ relayOut[s].at # "write"
        /\ UNCHANGED <<sink, peerCh, offered, heard, lost>>
    BY <1>8 DEF SeesDone, peer
  <2>2. [at |-> "gone"].at # "write"
    OBVIOUS
  <2> QED BY <1>6, <2>1, <2>2
<1>9. ASSUME NEW s \in Sessions, NEW c \in Calls, Look(s, c) PROVE Placed' /\ NoRepeat'
  <2>1. /\ relayOut' = [relayOut EXCEPT ![s] =
                [at |-> "receive", call |-> c, kind |-> "audio"]]
        /\ relayOut[s].at # "write"
        /\ UNCHANGED <<sink, peerCh, offered, heard, lost>>
    BY <1>9 DEF Look, peer
  <2>2. [at |-> "receive", call |-> c, kind |-> "audio"].at # "write"
    OBVIOUS
  <2> QED BY <1>6, <2>1, <2>2
<1> QED
  BY <1>1, <1>2, <1>3, <1>4, <1>5, <1>7, <1>8, <1>9
  DEF Next, Attach, Register, Hangup, OnEnd, Stopped, SetCamera, TakeChunk, ReadFrame,
      TakeUnit, CheckCamera, SendVideo, SenderEnds, Close, CamFrame, MicFrame, vars, peer, out

LEMMA PlacedInit == Init => Placed /\ NoRepeat
<1> SUFFICES ASSUME Init PROVE Placed /\ NoRepeat
  OBVIOUS
<1>1. \A c \in Calls, k \in Kinds :
        sink[c][k] = 0 /\ offered[c][k] = 0 /\ peerCh[c][k] = <<>>
  BY DEF Init
<1>2. lost = {} /\ \A s \in Sessions : heard[s] = {} /\ relayOut[s].at = "none"
  BY DEF Init, Idle
<1>3. \A c \in Calls, k \in Kinds, n \in Frame, q \in Place : ~At(c, k, n, q)
  BY <1>1, <1>2 DEF At, InChannel, InHandOf, Place, Frame
<1>4. \A n \in Frame : ~(n <= 0)
  BY DEF Frame
<1> QED BY <1>1, <1>3, <1>4 DEF Placed, NoRepeat

\* The holders of a frame, one by one.
LEMMA HoldersAre ==
    ASSUME NEW c \in Calls, NEW k \in Kinds, NEW n
    PROVE \A h : h \in Holders(c, k, n) <=>
            \/ h = "sink" /\ sink[c][k] = n
            \/ \E i \in 1..Len(peerCh[c][k]) : h = <<"channel", i>> /\ peerCh[c][k][i] = n
            \/ \E s \in Sessions : h = <<"hand", s>> /\ InHandOf(s, c, k, n)
            \/ \E s \in Sessions : h = <<"app", s>> /\ <<c, k, n>> \in heard[s]
            \/ h = "lost" /\ <<c, k, n>> \in lost
BY DEF Holders, InHandOf

\* What one place means for the set of holders.
LEMMA OneHolder ==
    ASSUME Types, NoRepeat, NEW c \in Calls, NEW k \in Kinds, NEW n \in Frame,
           OnePlace(c, k, n)
    PROVE \E h : Holders(c, k, n) = {h}
<1> PICK p \in Place : \A q \in Place : At(c, k, n, q) <=> q = p
  BY DEF OnePlace
<1>1. /\ sink[c][k] = n <=> p = <<"sink", 0>>
      /\ InChannel(c, k, n) <=> p = <<"channel", 0>>
      /\ <<c, k, n>> \in lost <=> p = <<"lost", 0>>
      /\ \A s \in Sessions : InHandOf(s, c, k, n) <=> p = <<"hand", s>>
      /\ \A s \in Sessions : <<c, k, n>> \in heard[s] <=> p = <<"app", s>>
  <2>1. /\ At(c, k, n, <<"sink", 0>>) <=> p = <<"sink", 0>>
        /\ At(c, k, n, <<"channel", 0>>) <=> p = <<"channel", 0>>
        /\ At(c, k, n, <<"lost", 0>>) <=> p = <<"lost", 0>>
    BY DEF Place
  <2>2. \A s \in Sessions : /\ At(c, k, n, <<"hand", s>>) <=> p = <<"hand", s>>
                            /\ At(c, k, n, <<"app", s>>) <=> p = <<"app", s>>
    BY DEF Place
  <2> QED BY <2>1, <2>2 DEF At
<1>2. CASE p = <<"sink", 0>>
  <2>1. Holders(c, k, n) = {"sink"}
    BY <1>1, <1>2, HoldersAre DEF InChannel
  <2> QED BY <2>1
<1>3. CASE p = <<"lost", 0>>
  <2>1. Holders(c, k, n) = {"lost"}
    BY <1>1, <1>3, HoldersAre DEF InChannel
  <2> QED BY <2>1
<1>4. CASE p = <<"channel", 0>>
  <2>1. PICK i \in 1..Len(peerCh[c][k]) : peerCh[c][k][i] = n
    BY <1>1, <1>4 DEF InChannel
  <2>2. \A j \in 1..Len(peerCh[c][k]) : peerCh[c][k][j] = n => j = i
    BY <2>1 DEF NoRepeat
  <2>3. Holders(c, k, n) = {<<"channel", i>>}
    <3>1. /\ sink[c][k] # n /\ <<c, k, n>> \notin lost
          /\ \A s \in Sessions : ~InHandOf(s, c, k, n) /\ <<c, k, n>> \notin heard[s]
      BY <1>1, <1>4
    <3>2. \A h : h \in Holders(c, k, n) <=>
                \E j \in 1..Len(peerCh[c][k]) : h = <<"channel", j>> /\ peerCh[c][k][j] = n
      BY <3>1, HoldersAre, Zenon
    <3>3. \A h : h \in Holders(c, k, n) <=> h = <<"channel", i>>
      BY <2>1, <2>2, <3>2, Zenon
    <3> QED BY <3>3
  <2> QED BY <2>3
<1>5. ASSUME NEW s \in Sessions, p = <<"hand", s>> PROVE \E h : Holders(c, k, n) = {h}
  <2>1. Holders(c, k, n) = {<<"hand", s>>}
    BY <1>1, <1>5, HoldersAre DEF InChannel
  <2> QED BY <2>1
<1>6. ASSUME NEW s \in Sessions, p = <<"app", s>> PROVE \E h : Holders(c, k, n) = {h}
  <2>1. Holders(c, k, n) = {<<"app", s>>}
    BY <1>1, <1>6, HoldersAre DEF InChannel
  <2> QED BY <2>1
<1>7. \/ p \in {"sink", "channel", "lost"} \X {0}
      \/ \E tag \in {"hand", "app"}, s \in Sessions : p = <<tag, s>>
  BY DEF Place
<1>8. CASE p \in {"sink", "channel", "lost"} \X {0}
  <2>1. p = <<"sink", 0>> \/ p = <<"channel", 0>> \/ p = <<"lost", 0>>
    BY <1>8
  <2> QED BY <1>2, <1>3, <1>4, <2>1
<1> QED BY <1>5, <1>6, <1>7, <1>8

\* Any calls, sessions and capacity: however many sessions drain the same relay,
\* every frame the peer has sent is in exactly one place.
THEOREM FramesKept == Spec => []PeerFramesKept
<1>1. Types /\ Placed /\ NoRepeat => PeerFramesKept
  <2> SUFFICES ASSUME Types, Placed, NoRepeat, NEW c \in Calls, NEW k \in Kinds,
                      NEW n \in 1..offered[c][k]
               PROVE Cardinality(Holders(c, k, n)) = 1
    BY DEF PeerFramesKept
  <2>1. n \in Frame /\ n <= offered[c][k]
    BY DEF Types, SinkOK, Frame
  <2>2. PICK h : Holders(c, k, n) = {h}
    BY <2>1, OneHolder DEF Placed
  <2> QED BY <2>2, FS_Singleton
<1> QED BY <1>1, PlacedInit, PlacedStep, TypesHold, PTL DEF Spec

--------------------------------------------------------------------------------
(* The order of the peer's frames *)

Rising(q) == \A i, j \in 1..Len(q) : i < j => q[i] < q[j]

\* The frames of a channel still to be taken, and those a session has taken from it.
Upcoming(c, k, n) == InChannel(c, k, n) \/ sink[c][k] = n
Taken(s, c, k, n) == <<c, k, n>> \in heard[s] \/ InHandOf(s, c, k, n)

\* HeardInOrder's reason: along callback, channel, hand and app the numbers fall,
\* whichever session has taken a frame.
Ordered ==
    \A c \in Calls, k \in Kinds :
        /\ Rising(peerCh[c][k])
        /\ sink[c][k] # 0 => \A n \in Frame : InChannel(c, k, n) => n < sink[c][k]
        /\ \A s \in Sessions, m, n \in Frame :
            /\ Taken(s, c, k, m) /\ Upcoming(c, k, n) => m < n
            /\ <<c, k, m>> \in heard[s] /\ InHandOf(s, c, k, n) => m < n

LEMMA AppendRising ==
    ASSUME NEW q \in Seq(Frame), NEW n \in Frame, Rising(q), \A i \in 1..Len(q) : q[i] < n
    PROVE Rising(Append(q, n))
<1>1. /\ Len(Append(q, n)) = Len(q) + 1 /\ Len(q) \in Nat
      /\ \A i \in 1..Len(q) : Append(q, n)[i] = q[i]
      /\ Append(q, n)[Len(q) + 1] = n
  OBVIOUS
<1> SUFFICES ASSUME NEW i \in 1..Len(q) + 1, NEW j \in 1..Len(q) + 1, i < j
             PROVE Append(q, n)[i] < Append(q, n)[j]
  BY <1>1 DEF Rising
<1>2. i \in 1..Len(q)
  BY <1>1
<1>3. CASE j \in 1..Len(q)
  BY <1>1, <1>2, <1>3 DEF Rising
<1>4. CASE j = Len(q) + 1
  BY <1>1, <1>2, <1>4
<1> QED BY <1>1, <1>3, <1>4

\* The head of a rising channel is below everything that stays.
LEMMA TailRising ==
    ASSUME NEW q \in Seq(Frame), q # <<>>, Rising(q)
    PROVE /\ Rising(Tail(q))
          /\ \A i \in 1..Len(Tail(q)) : Head(q) < Tail(q)[i]
          /\ \A i \in 1..Len(Tail(q)) : \E j \in 1..Len(q) : Tail(q)[i] = q[j]
<1>1. /\ Len(Tail(q)) = Len(q) - 1 /\ Len(q) \in Nat \ {0} /\ Head(q) = q[1]
      /\ \A i \in 1..Len(q) - 1 : Tail(q)[i] = q[i + 1]
  OBVIOUS
<1>2. \A i \in 1..Len(q) - 1 : i \in Nat /\ i + 1 \in 1..Len(q) /\ 1 < i + 1
  BY <1>1
<1>3. Rising(Tail(q))
  <2> SUFFICES ASSUME NEW i \in 1..Len(q) - 1, NEW j \in 1..Len(q) - 1, i < j
               PROVE q[i + 1] < q[j + 1]
    BY <1>1 DEF Rising
  <2>1. i + 1 < j + 1
    BY <1>2
  <2> QED BY <1>2, <2>1 DEF Rising
<1>4. 1 \in 1..Len(q)
  BY <1>1
<1>5. \A i \in 1..Len(q) - 1 : q[1] < q[i + 1]
  BY <1>2, <1>4 DEF Rising
<1> QED BY <1>1, <1>2, <1>3, <1>5

\* No frame has been taken, or waits, that the peer has not sent.
LEMMA NoneAhead ==
    ASSUME Types, Placed, NEW s \in Sessions, NEW c \in Calls, NEW k \in Kinds,
           NEW m \in Frame, InChannel(c, k, m) \/ Taken(s, c, k, m)
    PROVE m < offered[c][k] + 1
<1>1. \E q \in Place : At(c, k, m, q)
  <2>1. /\ InChannel(c, k, m) => At(c, k, m, <<"channel", 0>>)
        /\ <<c, k, m>> \in heard[s] => At(c, k, m, <<"app", s>>)
        /\ InHandOf(s, c, k, m) => At(c, k, m, <<"hand", s>>)
    BY DEF At
  <2>2. <<"channel", 0>> \in Place /\ <<"app", s>> \in Place /\ <<"hand", s>> \in Place
    BY DEF Place
  <2> QED BY <2>1, <2>2 DEF Taken
<1>2. m <= offered[c][k]
  BY <1>1 DEF Placed
<1>3. m \in Nat /\ offered[c][k] \in Nat
  BY DEF Types, SinkOK, Frame
<1> QED BY <1>2, <1>3

\* A step after which less waits and less has been taken keeps the order.
LEMMA OrderRests ==
    ASSUME Ordered,
           \A c \in Calls, k \in Kinds :
               /\ Rising(peerCh'[c][k])
               /\ sink'[c][k] # 0 => sink'[c][k] = sink[c][k]
               /\ \A n \in Frame :
                   /\ Upcoming(c, k, n)' => Upcoming(c, k, n)
                   /\ sink'[c][k] # 0 => (InChannel(c, k, n)' => InChannel(c, k, n))
                   /\ \A s \in Sessions :
                       /\ Taken(s, c, k, n)' => Taken(s, c, k, n)
                       /\ InHandOf(s, c, k, n)' =>
                            InHandOf(s, c, k, n) /\ UNCHANGED heard[s]
    PROVE Ordered'
<1>1. \A c \in Calls, k \in Kinds, n \in Frame :
        sink'[c][k] # 0 => (InChannel(c, k, n)' => n < sink'[c][k])
  BY DEF Ordered
<1>2. \A c \in Calls, k \in Kinds, s \in Sessions, m, n \in Frame :
        Taken(s, c, k, m)' /\ Upcoming(c, k, n)' => m < n
  <2> SUFFICES ASSUME NEW c \in Calls, NEW k \in Kinds, NEW s \in Sessions,
                      NEW m \in Frame, NEW n \in Frame,
                      Taken(s, c, k, m)', Upcoming(c, k, n)'
               PROVE m < n
    OBVIOUS
  <2>1. Taken(s, c, k, m) /\ Upcoming(c, k, n)
    OBVIOUS
  <2> QED BY <2>1 DEF Ordered
<1>3. \A c \in Calls, k \in Kinds, s \in Sessions, m, n \in Frame :
        <<c, k, m>> \in heard'[s] /\ InHandOf(s, c, k, n)' => m < n
  BY DEF Ordered
<1> QED BY <1>1, <1>2, <1>3 DEF Ordered

\* The next frame is above all that wait or have been taken.
LEMMA PeerFrameOrder ==
    ASSUME Types, Placed, Ordered, NEW c \in Calls, NEW k \in Kinds, PeerFrame(c, k)
    PROVE Ordered'
<1>0. offered[c][k] + 1 \in Frame /\ offered[c][k] \in Nat
  BY DEF Types, SinkOK, Frame
<1> PICK next \in Frame : next = offered[c][k] + 1
  BY <1>0
<1>1. /\ sink[c][k] = 0 /\ UNCHANGED <<peerCh, relayOut, heard, lost>>
      /\ sink' = [sink EXCEPT ![c][k] = next]
  BY DEF PeerFrame, out
<1>2. \A d \in Calls, l \in Kinds : sink'[d][l] = IF d = c /\ l = k THEN next ELSE sink[d][l]
  BY <1>1 DEF Types, SinkOK
<1>3. \A s \in Sessions, m \in Frame :
        InChannel(c, k, m) \/ Taken(s, c, k, m) => m < next
  BY NoneAhead
<1>4. \A m \in Frame : InChannel(c, k, m) => m < next
  <2> SUFFICES ASSUME NEW m \in Frame, InChannel(c, k, m) PROVE m < next
    OBVIOUS
  <2>1. At(c, k, m, <<"channel", 0>>) /\ <<"channel", 0>> \in Place
    BY DEF At, Place
  <2>2. m <= offered[c][k] /\ m \in Nat /\ offered[c][k] \in Nat
    BY <2>1 DEF Placed, Types, SinkOK, Frame
  <2> QED BY <2>2
<1>5. \A s \in Sessions, d \in Calls, l \in Kinds, m \in Frame :
        /\ InChannel(d, l, m)' <=> InChannel(d, l, m)
        /\ InHandOf(s, d, l, m)' <=> InHandOf(s, d, l, m)
        /\ Taken(s, d, l, m)' <=> Taken(s, d, l, m)
  BY <1>1 DEF InChannel, InHandOf, Taken
<1>6. \A d \in Calls, l \in Kinds, m \in Frame :
        InChannel(d, l, m)' <=> InChannel(d, l, m)
  BY <1>1 DEF InChannel
<1>7. \A d \in Calls, l \in Kinds, n \in Frame :
        sink'[d][l] # 0 => (InChannel(d, l, n)' => n < sink'[d][l])
  BY <1>2, <1>4, <1>6 DEF Ordered
<1>8. \A d \in Calls, l \in Kinds, n \in Frame :
        Upcoming(d, l, n)' => Upcoming(d, l, n) \/ (d = c /\ l = k /\ n = next)
  BY <1>2, <1>6 DEF Upcoming
<1>9. \A d \in Calls, l \in Kinds, s \in Sessions, m, n \in Frame :
        Taken(s, d, l, m)' /\ Upcoming(d, l, n)' => m < n
  <2> SUFFICES ASSUME NEW d \in Calls, NEW l \in Kinds, NEW s \in Sessions,
                      NEW m \in Frame, NEW n \in Frame,
                      Taken(s, d, l, m)', Upcoming(d, l, n)'
               PROVE m < n
    OBVIOUS
  <2>1. Taken(s, d, l, m)
    BY <1>5
  <2>2. CASE Upcoming(d, l, n)
    BY <2>1, <2>2 DEF Ordered
  <2>3. CASE d = c /\ l = k /\ n = next
    BY <1>3, <2>1, <2>3
  <2> QED BY <1>8, <2>2, <2>3
<1>10. \A d \in Calls, l \in Kinds, s \in Sessions, m, n \in Frame :
        <<d, l, m>> \in heard'[s] /\ InHandOf(s, d, l, n)' => m < n
  BY <1>1, <1>5 DEF Ordered
<1>11. \A d \in Calls, l \in Kinds : Rising(peerCh'[d][l])
  BY <1>1 DEF Ordered
<1> QED BY <1>7, <1>9, <1>10, <1>11 DEF Ordered

\* The callback's frame goes behind those of the channel, or is lost.
LEMMA DepositOrder ==
    ASSUME Types, Ordered, NEW c \in Calls, NEW k \in Kinds, SinkReturns(c, k)
    PROVE Ordered'
<1> PICK n \in Frame : n = sink[c][k]
  BY DEF SinkReturns, Types, SinkOK, Frame
<1>1. UNCHANGED <<relayOut, heard>> /\ sink' = [sink EXCEPT ![c][k] = 0]
  BY DEF SinkReturns
<1>2. \A d \in Calls, l \in Kinds : sink'[d][l] = IF d = c /\ l = k THEN 0 ELSE sink[d][l]
  BY <1>1 DEF Types, SinkOK
<1>3. \A s \in Sessions, d \in Calls, l \in Kinds, m \in Frame :
        /\ InHandOf(s, d, l, m)' <=> InHandOf(s, d, l, m)
        /\ Taken(s, d, l, m)' <=> Taken(s, d, l, m)
  BY <1>1 DEF InHandOf, Taken
<1>4. CASE Deposit(c, k)
  <2>1. peerCh' = [peerCh EXCEPT ![c][k] = Append(@, n)] /\ peerCh[c][k] \in Seq(Frame)
    BY <1>4 DEF Deposit, Types, ChannelOK
  <2>2. \A d \in Calls, l \in Kinds :
          peerCh'[d][l] = IF d = c /\ l = k THEN Append(peerCh[c][k], n) ELSE peerCh[d][l]
    BY <2>1 DEF Types, ChannelOK
  <2>3. \A i \in 1..Len(peerCh[c][k]) : peerCh[c][k][i] < n
    <3>1. \A i \in 1..Len(peerCh[c][k]) :
            peerCh[c][k][i] \in Frame /\ InChannel(c, k, peerCh[c][k][i])
      BY <2>1 DEF InChannel
    <3>2. n # 0
      BY DEF Frame
    <3> QED BY <3>1, <3>2 DEF Ordered
  <2>4. Rising(Append(peerCh[c][k], n))
    BY <2>1, <2>3, AppendRising DEF Ordered
  <2>5. \A m \in Frame : InChannel(c, k, m)' <=> InChannel(c, k, m) \/ m = n
    <3> TAKE m \in Frame
    <3>1. InChannel(c, k, m)' <=>
            \E i \in 1..Len(Append(peerCh[c][k], n)) : Append(peerCh[c][k], n)[i] = m
      BY <2>2 DEF InChannel
    <3>2. InChannel(c, k, m) <=> \E i \in 1..Len(peerCh[c][k]) : peerCh[c][k][i] = m
      BY DEF InChannel
    <3> DEFINE q == peerCh[c][k]
    <3>3. q \in Seq(Frame)
      BY <2>1
    <3> HIDE DEF q
    <3>4. (\E i \in 1..Len(Append(q, n)) : Append(q, n)[i] = m)
            <=> (\E i \in 1..Len(q) : q[i] = m) \/ m = n
      BY <3>3, AppendMembers
    <3> QED BY <3>1, <3>2, <3>4 DEF q
  <2>6. \A d \in Calls, l \in Kinds, m \in Frame : ~(d = c /\ l = k) =>
          (InChannel(d, l, m)' <=> InChannel(d, l, m))
    BY <2>2 DEF InChannel
  <2>7. \A d \in Calls, l \in Kinds, m \in Frame : Upcoming(d, l, m)' => Upcoming(d, l, m)
    BY <1>2, <2>5, <2>6 DEF Upcoming, Frame
  <2>8. \A d \in Calls, l \in Kinds : Rising(peerCh'[d][l])
    BY <2>2, <2>4 DEF Ordered
  <2>9. \A d \in Calls, l \in Kinds, m \in Frame :
          sink'[d][l] # 0 => (InChannel(d, l, m)' => InChannel(d, l, m))
    BY <1>2, <2>6
  <2> QED BY <1>1, <1>2, <1>3, <2>7, <2>8, <2>9, OrderRests
<1>5. CASE SinkClosed(c, k)
  <2>1. UNCHANGED peerCh
    BY <1>5 DEF SinkClosed
  <2>2. \A d \in Calls, l \in Kinds, m \in Frame : InChannel(d, l, m)' <=> InChannel(d, l, m)
    BY <2>1 DEF InChannel
  <2>3. \A d \in Calls, l \in Kinds, m \in Frame : Upcoming(d, l, m)' => Upcoming(d, l, m)
    BY <1>2, <2>2 DEF Upcoming, Frame
  <2>4. \A d \in Calls, l \in Kinds : Rising(peerCh'[d][l])
    BY <2>1 DEF Ordered
  <2> QED BY <1>1, <1>2, <1>3, <2>2, <2>3, <2>4, OrderRests
<1> QED BY <1>4, <1>5 DEF SinkReturns

\* A session takes the lowest frame that waits.
LEMMA ReceiveOrder ==
    ASSUME Types, Ordered, NEW s \in Sessions, NEW c \in Calls, NEW k \in Kinds,
           relayOut[s] = [at |-> "receive", call |-> c, kind |-> k],
           peerCh[c][k] # <<>>, ReceiveFrame(s)
    PROVE Ordered'
<1>1. peerCh[c][k] \in Seq(Frame) /\ Rising(peerCh[c][k])
  BY DEF Types, ChannelOK, Ordered
<1> PICK n \in Frame : n = Head(peerCh[c][k])
  BY <1>1
<1>2. /\ relayOut' = [relayOut EXCEPT ![s] =
            [at |-> "write", call |-> c, kind |-> k, frame |-> n]]
      /\ peerCh' = [peerCh EXCEPT ![c][k] = Tail(@)]
      /\ UNCHANGED <<sink, heard>>
  BY DEF ReceiveFrame
<1>3. \A d \in Calls, l \in Kinds :
        peerCh'[d][l] = IF d = c /\ l = k THEN Tail(peerCh[c][k]) ELSE peerCh[d][l]
  BY <1>2 DEF Types, ChannelOK
<1>4. \A r \in Sessions : relayOut'[r] =
        IF r = s THEN [at |-> "write", call |-> c, kind |-> k, frame |-> n] ELSE relayOut[r]
  BY <1>2 DEF Types, OutOK
<1>5. \A d \in Calls, l \in Kinds, m \in Frame :
        /\ InChannel(d, l, m)' => InChannel(d, l, m)
        /\ d = c /\ l = k => (InChannel(d, l, m)' => n < m)
  <2>1. \A m \in Frame : InChannel(c, k, m)' =>
          \E i \in 1..Len(Tail(peerCh[c][k])) : Tail(peerCh[c][k])[i] = m
    BY <1>3 DEF InChannel
  <2>2. \A m \in Frame : InChannel(c, k, m)' => InChannel(c, k, m) /\ n < m
    BY <1>1, <2>1, TailRising DEF InChannel
  <2>3. \A d \in Calls, l \in Kinds, m \in Frame : ~(d = c /\ l = k) =>
          (InChannel(d, l, m)' <=> InChannel(d, l, m))
    BY <1>3 DEF InChannel
  <2> QED BY <2>2, <2>3
<1>6. InChannel(c, k, n)
  <2>1. 1 \in 1..Len(peerCh[c][k]) /\ peerCh[c][k][1] = n
    BY <1>1
  <2> QED BY <2>1 DEF InChannel
<1>7. \A r \in Sessions, d \in Calls, l \in Kinds, m \in Frame :
        InHandOf(r, d, l, m)' =>
            InHandOf(r, d, l, m) \/ (r = s /\ d = c /\ l = k /\ m = n)
  BY <1>4 DEF InHandOf
<1>8. \A d \in Calls, l \in Kinds : Rising(peerCh'[d][l])
  BY <1>1, <1>3, TailRising DEF Ordered
<1>9. \A d \in Calls, l \in Kinds, m \in Frame :
        sink'[d][l] # 0 => (InChannel(d, l, m)' => m < sink'[d][l])
  BY <1>2, <1>5 DEF Ordered
<1>10. \A d \in Calls, l \in Kinds, m \in Frame :
        /\ Upcoming(d, l, m)' => Upcoming(d, l, m)
        /\ d = c /\ l = k => (Upcoming(d, l, m)' => n < m)
  <2>1. \A m \in Frame : sink[c][k] = m => n < m
    BY <1>6 DEF Ordered, Frame
  <2> QED BY <1>2, <1>5, <2>1 DEF Upcoming
<1>11. \A r \in Sessions, d \in Calls, l \in Kinds, m \in Frame :
        Taken(r, d, l, m)' => Taken(r, d, l, m) \/ (r = s /\ d = c /\ l = k /\ m = n)
  BY <1>2, <1>7 DEF Taken
<1>12. \A d \in Calls, l \in Kinds, r \in Sessions, m, j \in Frame :
        Taken(r, d, l, m)' /\ Upcoming(d, l, j)' => m < j
  <2> SUFFICES ASSUME NEW d \in Calls, NEW l \in Kinds, NEW r \in Sessions,
                      NEW m \in Frame, NEW j \in Frame,
                      Taken(r, d, l, m)', Upcoming(d, l, j)'
               PROVE m < j
    OBVIOUS
  <2>1. Upcoming(d, l, j) /\ (d = c /\ l = k => n < j)
    BY <1>10
  <2>2. CASE Taken(r, d, l, m)
    BY <2>1, <2>2 DEF Ordered
  <2>3. CASE d = c /\ l = k /\ m = n
    BY <2>1, <2>3
  <2> QED BY <1>11, <2>2, <2>3
<1>13. \A d \in Calls, l \in Kinds, r \in Sessions, m, j \in Frame :
        <<d, l, m>> \in heard'[r] /\ InHandOf(r, d, l, j)' => m < j
  BY <1>2, <1>6, <1>7 DEF Ordered, Taken, Upcoming
<1> QED BY <1>8, <1>9, <1>12, <1>13 DEF Ordered

\* What a session sends, or loses, it had taken.
LEMMA WriteOrder ==
    ASSUME Types, Ordered, NEW s \in Sessions, WriteFrame(s)
    PROVE Ordered' /\ KeepsOrder
<1>1. relayOut[s] \in [at : {"write"}, call : Calls, kind : Kinds, frame : Frame]
  BY PlacesShapes DEF WriteFrame, Types, OutOK
<1>2. PICK c \in Calls, k \in Kinds, n \in Frame :
        relayOut[s] = [at |-> "write", call |-> c, kind |-> k, frame |-> n]
  BY <1>1
<1>3. UNCHANGED <<sink, peerCh>>
  BY DEF WriteFrame, peer
<1>4. /\ \A r \in Sessions : r # s => relayOut'[r] = relayOut[r]
      /\ relayOut'[s].at # "write"
  <2> DEFINE q == After([at |-> "write", call |-> c, kind |-> k])
  <2>1. q.at # "write"
    BY DEF After
  <2>2. \/ relayOut' = [relayOut EXCEPT ![s] = q]
        \/ relayOut' = [relayOut EXCEPT ![s] = [at |-> "gone"]]
    BY <1>2 DEF WriteFrame
  <2> HIDE DEF q
  <2> QED BY <2>1, <2>2 DEF Types, OutOK
<1>5. \A r \in Sessions : heard'[r] \subseteq
        IF r = s THEN heard[r] \cup {<<c, k, n>>} ELSE heard[r]
  <2>1. heard' = [heard EXCEPT ![s] = @ \cup {<<c, k, n>>}] \/ UNCHANGED heard
    BY <1>2 DEF WriteFrame
  <2> QED BY <2>1 DEF Types, OutOK
<1>6. \A r \in Sessions : r # s => UNCHANGED heard[r]
  <2>1. heard' = [heard EXCEPT ![s] = @ \cup {<<c, k, n>>}] \/ UNCHANGED heard
    BY <1>2 DEF WriteFrame
  <2> QED BY <2>1 DEF Types, OutOK
<1>7. InHandOf(s, c, k, n)
  BY <1>2 DEF InHandOf
<1>8. \A r \in Sessions, d \in Calls, l \in Kinds, m \in Frame :
        InHandOf(r, d, l, m)' => InHandOf(r, d, l, m) /\ r # s
  BY <1>4 DEF InHandOf
<1>9. \A r \in Sessions, d \in Calls, l \in Kinds, m \in Frame :
        Taken(r, d, l, m)' => Taken(r, d, l, m)
  BY <1>5, <1>7, <1>8 DEF Taken
<1>10. \A d \in Calls, l \in Kinds, m \in Frame :
        /\ InChannel(d, l, m)' <=> InChannel(d, l, m)
        /\ Upcoming(d, l, m)' <=> Upcoming(d, l, m)
  BY <1>3 DEF InChannel, Upcoming
<1>11. \A d \in Calls, l \in Kinds : Rising(peerCh'[d][l])
  BY <1>3 DEF Ordered
<1>12. Ordered'
  BY <1>3, <1>6, <1>8, <1>9, <1>10, <1>11, OrderRests
<1>13. KeepsOrder
  <2> SUFFICES ASSUME NEW f, f = <<c, k, n>>, NEW g \in heard[s], g[1] = f[1], g[2] = f[2]
               PROVE g[3] < f[3]
    BY <1>5, <1>6 DEF KeepsOrder
  <2>1. g \in Calls \X Kinds \X Frame
    BY DEF Types, OutOK, Frames, Frame
  <2>2. g = <<c, k, g[3]>> /\ g[3] \in Frame
    BY <2>1
  <2> QED BY <1>7, <2>2 DEF Ordered
<1> QED BY <1>12, <1>13

\* A session moves with nothing in its hands.
LEMMA HandsOrder ==
    ASSUME Types, Ordered, NEW s \in Sessions, NEW x, relayOut' = [relayOut EXCEPT ![s] = x],
           x.at # "write", UNCHANGED <<sink, peerCh, heard>>
    PROVE Ordered'
<1>1. /\ \A r \in Sessions : r # s => relayOut'[r] = relayOut[r]
      /\ relayOut'[s].at # "write"
  BY DEF Types, OutOK
<1>2. \A r \in Sessions, c \in Calls, k \in Kinds, n \in Frame :
        /\ InHandOf(r, c, k, n)' => InHandOf(r, c, k, n)
        /\ Taken(r, c, k, n)' => Taken(r, c, k, n)
  BY <1>1 DEF InHandOf, Taken
<1>3. \A c \in Calls, k \in Kinds, n \in Frame :
        /\ InChannel(c, k, n)' <=> InChannel(c, k, n)
        /\ Upcoming(c, k, n)' <=> Upcoming(c, k, n)
  BY DEF InChannel, Upcoming
<1>4. \A c \in Calls, k \in Kinds : Rising(peerCh'[c][k])
  BY DEF Ordered
<1> QED BY <1>2, <1>3, <1>4, OrderRests

LEMMA OrderedStep ==
    Types /\ Placed /\ Ordered /\ [Next]_vars => Ordered' /\ KeepsOrder
<1> SUFFICES ASSUME Types, Placed, Ordered, [Next]_vars PROVE Ordered' /\ KeepsOrder
  OBVIOUS
<1>0. UNCHANGED heard => KeepsOrder
  BY DEF KeepsOrder
<1>1. CASE UNCHANGED <<sink, peerCh, relayOut, heard>>
  <2>1. Ordered'
    BY <1>1 DEF Ordered, Upcoming, Taken, InChannel, InHandOf
  <2> QED BY <1>0, <1>1, <2>1
<1>2. ASSUME NEW c \in Calls, NEW k \in Kinds, PeerFrame(c, k) \/ SinkReturns(c, k)
      PROVE Ordered' /\ KeepsOrder
  <2>1. UNCHANGED heard
    <3>1. PeerFrame(c, k) => UNCHANGED <<relayOut, heard, lost>>
      BY DEF PeerFrame, out
    <3>2. SinkReturns(c, k) => UNCHANGED heard
      BY DEF SinkReturns
    <3> QED BY <1>2, <3>1, <3>2
  <2> QED BY <1>0, <1>2, <2>1, PeerFrameOrder, DepositOrder
<1>3. ASSUME NEW s \in Sessions, ReceiveFrame(s) PROVE Ordered' /\ KeepsOrder
  <2>1. relayOut[s] \in [at : {"receive"}, call : Calls, kind : Kinds]
    BY <1>3, PlacesShapes DEF ReceiveFrame, Types, OutOK
  <2>2. PICK c \in Calls, k \in Kinds :
          relayOut[s] = [at |-> "receive", call |-> c, kind |-> k]
    BY <2>1
  <2>3. UNCHANGED heard
    BY <1>3 DEF ReceiveFrame
  <2>4. CASE peerCh[c][k] = <<>>
    <3>1. /\ relayOut' = [relayOut EXCEPT ![s] = After(relayOut[s])]
          /\ UNCHANGED <<sink, peerCh, heard>>
      BY <1>3, <2>2, <2>4 DEF ReceiveFrame
    <3>2. After(relayOut[s]).at # "write"
      BY <2>2 DEF After
    <3> HIDE <2>4
    <3> QED BY <1>0, <3>1, <3>2, HandsOrder
  <2>5. CASE peerCh[c][k] # <<>>
    BY <1>0, <1>3, <2>2, <2>3, <2>5, ReceiveOrder
  <2> QED BY <2>4, <2>5
<1>4. ASSUME NEW s \in Sessions, WriteFrame(s) PROVE Ordered' /\ KeepsOrder
  BY <1>4, WriteOrder
<1>5. ASSUME NEW s \in Sessions, Open(s) \/ SeesDone(s) \/ \E c \in Calls : Look(s, c)
      PROVE Ordered' /\ KeepsOrder
  <2>1. UNCHANGED <<sink, peerCh, heard>>
    BY <1>5 DEF Open, SeesDone, Look, peer
  <2>2. PICK x : relayOut' = [relayOut EXCEPT ![s] = x] /\ x.at # "write"
    BY <1>5 DEF Open, SeesDone, Look
  <2> QED BY <1>0, <2>1, <2>2, HandsOrder
<1> QED
  BY <1>1, <1>2, <1>3, <1>4, <1>5
  DEF Next, Attach, Register, Hangup, OnEnd, Stopped, SetCamera, TakeChunk, ReadFrame,
      TakeUnit, CheckCamera, SendVideo, SenderEnds, Close, CamFrame, MicFrame, vars, peer, out

LEMMA OrderedInit == Init => Ordered
<1> SUFFICES ASSUME Init PROVE Ordered
  OBVIOUS
<1>1. \A c \in Calls, k \in Kinds : sink[c][k] = 0 /\ peerCh[c][k] = <<>>
  BY DEF Init
<1>2. \A s \in Sessions : heard[s] = {} /\ relayOut[s].at = "none"
  BY DEF Init, Idle
<1>3. \A c \in Calls, k \in Kinds : Rising(peerCh[c][k])
  BY <1>1 DEF Rising
<1>4. \A s \in Sessions, c \in Calls, k \in Kinds, n \in Frame :
        ~Taken(s, c, k, n) /\ ~InHandOf(s, c, k, n)
  BY <1>2 DEF Taken, InHandOf
<1> QED BY <1>1, <1>3, <1>4 DEF Ordered

\* Any calls, sessions and capacity: whatever other sessions take away, each session
\* sends the app what it takes in the order in which the peer sent it.
THEOREM FramesInOrder == Spec => HeardInOrder
<1>1. Spec => []Types
  BY TypesHold
<1>2. Types /\ Placed /\ NoRepeat /\ Ordered /\ [Next]_vars
        => Placed' /\ NoRepeat' /\ Ordered' /\ KeepsOrder
  BY PlacedStep, OrderedStep
<1>3. Init => Placed /\ NoRepeat /\ Ordered
  BY PlacedInit, OrderedInit
<1> QED BY <1>1, <1>2, <1>3, PTL DEF Spec, HeardInOrder

--------------------------------------------------------------------------------
(* Induction, and what Waiting computes *)

\* A set of naturals has a least element, and holds every natural when it holds zero
\* and, with a number, the next one.
LEMMA LeastOf ==
    ASSUME NEW T \in SUBSET Nat, T # {}
    PROVE \E x \in T : \A y \in T : x <= y
<1> DEFINE R == {ss \in Nat \X Nat : ss[1] < ss[2]}
<1>1. IsWellFoundedOn(R, Nat)
  BY NatLessThanWellFounded, Zenon DEF OpToRel
<1>2. \A x, y \in Nat : <<y, x>> \in R <=> y < x
  OBVIOUS
<1> HIDE DEF R
<1>3. PICK x \in T : \A y \in T : ~(<<y, x>> \in R)
  BY <1>1, WFMin
<1>4. \A y \in T : ~(y < x)
  BY <1>2, <1>3
<1>5. \A y \in T : x <= y
  BY <1>4
<1> QED BY <1>5

LEMMA Induct ==
    ASSUME NEW T \in SUBSET Nat, 0 \in T, \A n \in T : n + 1 \in T
    PROVE T = Nat
<1> SUFFICES ASSUME Nat \ T # {} PROVE FALSE
  OBVIOUS
<1>1. PICK x \in Nat \ T : \A y \in Nat \ T : x <= y
  BY LeastOf
<1>2. x # 0 /\ x - 1 \in Nat
  OBVIOUS
<1>3. x - 1 \in T
  BY <1>1, <1>2
<1> QED BY <1>1, <1>2, <1>3

\* What Waiting computes: the samples of the first chunks of a channel.
Prefixes(w, q, n) ==
    w = [i \in 0..n |-> IF i = 0 THEN <<>> ELSE w[i - 1] \o Downmix48k(q[i])]

LEMMA PrefixesAre ==
    ASSUME NEW q, NEW n \in Nat, NEW w, Prefixes(w, q, n)
    PROVE /\ w[0] = <<>>
          /\ \A i \in 0..n : i # n => w[i + 1] = w[i] \o Downmix48k(q[i + 1])
<1>1. \A i \in 0..n : w[i] = IF i = 0 THEN <<>> ELSE w[i - 1] \o Downmix48k(q[i])
  BY Zenon DEF Prefixes
<1>2. w[0] = <<>>
  BY <1>1
<1>3. ASSUME NEW i \in 0..n, i # n PROVE w[i + 1] = w[i] \o Downmix48k(q[i + 1])
  <2>1. i + 1 \in 0..n /\ i + 1 # 0 /\ (i + 1) - 1 = i
    BY <1>3
  <2> QED BY <1>1, <2>1
<1> QED BY <1>2, <1>3

LEMMA PrefixesExist ==
    ASSUME NEW q
    PROVE \A n \in Nat : \E w : Prefixes(w, q, n)
<1> DEFINE T == {n \in Nat : \E w : Prefixes(w, q, n)}
<1>1. 0 \in T
  <2> DEFINE w == [i \in 0..0 |-> <<>>]
  <2>1. Prefixes(w, q, 0)
    BY DEF Prefixes
  <2> QED BY <2>1
<1>2. ASSUME NEW n \in T PROVE n + 1 \in T
  <2>1. PICK w : Prefixes(w, q, n)
    OBVIOUS
  <2> DEFINE v == [i \in 0..(n + 1) |->
                     IF i = n + 1 THEN w[n] \o Downmix48k(q[n + 1]) ELSE w[i]]
  <2>2. \A i \in 0..n : w[i] = IF i = 0 THEN <<>> ELSE w[i - 1] \o Downmix48k(q[i])
    BY <2>1 DEF Prefixes
  <2>3. \A i \in 0..(n + 1) : v[i] = IF i = 0 THEN <<>> ELSE v[i - 1] \o Downmix48k(q[i])
    BY <2>2
  <2>4. Prefixes(v, q, n + 1)
    BY <2>3 DEF Prefixes
  <2> QED BY <2>4
<1> HIDE DEF T
<1>3. T \in SUBSET Nat
  BY DEF T
<1>4. T = Nat
  BY <1>1, <1>2, <1>3, Induct
<1> QED BY <1>4 DEF T

\* Waiting is a choice of such a function: there is one, so it is what its definition
\* says.
LEMMA WaitingIs ==
    ASSUME NEW q, Len(q) \in Nat
    PROVE \E w : Prefixes(w, q, Len(q)) /\ Waiting(q) = w[Len(q)]
<1> DEFINE w == CHOOSE f : f = [i \in 0..Len(q) |->
                   IF i = 0 THEN <<>> ELSE f[i - 1] \o Downmix48k(q[i])]
<1>1. Waiting(q) = w[Len(q)]
  BY DEF Waiting
<1>2. \E f : f = [i \in 0..Len(q) |-> IF i = 0 THEN <<>> ELSE f[i - 1] \o Downmix48k(q[i])]
  BY PrefixesExist DEF Prefixes
<1>3. w = [i \in 0..Len(q) |-> IF i = 0 THEN <<>> ELSE w[i - 1] \o Downmix48k(q[i])]
  BY <1>2, Zenon
<1> QED BY <1>1, <1>3 DEF Prefixes

\* They are samples, and do not depend on the chunks that come later.
LEMMA PrefixesTyped ==
    ASSUME NEW q \in Seq(Samples), NEW w, Prefixes(w, q, Len(q))
    PROVE \A n \in 0..Len(q) : w[n] \in Samples
<1> DEFINE T == {n \in Nat : n <= Len(q) => w[n] \in Samples}
<1>0. Len(q) \in Nat
  OBVIOUS
<1>1. 0 \in T
  <2>1. w[0] = <<>>
    BY <1>0, PrefixesAre
  <2>2. w[0] \in Samples
    BY <2>1 DEF Samples
  <2> QED BY <2>2
<1>2. ASSUME NEW n \in T PROVE n + 1 \in T
  <2> SUFFICES ASSUME n + 1 <= Len(q) PROVE w[n + 1] \in Samples
    OBVIOUS
  <2>1. w[n] \in Samples /\ q[n + 1] \in Samples /\ n \in 0..Len(q) /\ n # Len(q)
    BY <1>0
  <2>2. w[n + 1] = w[n] \o Downmix48k(q[n + 1])
    BY <1>0, <2>1, PrefixesAre
  <2>3. Downmix48k(q[n + 1]) \in Samples
    BY <2>1, DownmixTyped
  <2> QED BY <2>1, <2>2, <2>3, ConcatTyped DEF Samples
<1> HIDE DEF T
<1>3. T \in SUBSET Nat
  BY DEF T
<1>4. T = Nat
  BY <1>1, <1>2, <1>3, Induct
<1> QED BY <1>0, <1>4 DEF T

\* Facts about samples put together.
LEMMA Associative ==
    ASSUME NEW s \in Samples, NEW t \in Samples, NEW u \in Samples
    PROVE (s \o t) \o u = s \o (t \o u)
BY ConcatAssociative DEF Samples

LEMMA WithNothing ==
    ASSUME NEW s \in Samples
    PROVE s \o <<>> = s /\ <<>> \o s = s
BY ConcatEmptySeq DEF Samples

LEMMA WaitingEmpty == Waiting(<<>>) = <<>>
<1>1. PICK w : Prefixes(w, <<>>, 0) /\ Waiting(<<>>) = w[0]
  BY WaitingIs
<1> QED BY <1>1, PrefixesAre

LEMMA WaitingTyped ==
    ASSUME NEW q \in Seq(Samples)
    PROVE Waiting(q) \in Samples
<1>1. PICK w : Prefixes(w, q, Len(q)) /\ Waiting(q) = w[Len(q)]
  BY WaitingIs
<1>2. Len(q) \in 0..Len(q)
  OBVIOUS
<1> QED BY <1>1, <1>2, PrefixesTyped

\* A chunk more in the channel puts its samples at the end.
LEMMA WaitingAppend ==
    ASSUME NEW q \in Seq(Samples), NEW x \in Samples
    PROVE Waiting(Append(q, x)) = Waiting(q) \o Downmix48k(x)
<1> DEFINE r == Append(q, x)
<1>0. /\ Len(q) \in Nat /\ Len(r) \in Nat /\ Len(r) = Len(q) + 1 /\ r[Len(q) + 1] = x
      /\ \A i \in 1..Len(q) : r[i] = q[i]
  OBVIOUS
<1> HIDE DEF r
<1>1. PICK w : Prefixes(w, q, Len(q)) /\ Waiting(q) = w[Len(q)]
  BY <1>0, WaitingIs
<1>2. PICK v : Prefixes(v, r, Len(r)) /\ Waiting(r) = v[Len(r)]
  BY <1>0, WaitingIs
<1> DEFINE T == {n \in Nat : n <= Len(q) => v[n] = w[n]}
<1>3. 0 \in T
  <2>1. v[0] = <<>> /\ w[0] = <<>>
    BY <1>0, <1>1, <1>2, PrefixesAre
  <2> QED BY <2>1
<1>4. ASSUME NEW n \in T PROVE n + 1 \in T
  <2> SUFFICES ASSUME n + 1 <= Len(q) PROVE v[n + 1] = w[n + 1]
    OBVIOUS
  <2>1. v[n] = w[n] /\ r[n + 1] = q[n + 1]
    BY <1>0
  <2>2. n \in 0..Len(q) /\ n # Len(q) /\ n \in 0..Len(r) /\ n # Len(r)
    BY <1>0
  <2>3. w[n + 1] = w[n] \o Downmix48k(q[n + 1])
    BY <1>0, <1>1, <2>2, PrefixesAre
  <2>4. v[n + 1] = v[n] \o Downmix48k(r[n + 1])
    BY <1>0, <1>2, <2>2, PrefixesAre
  <2> QED BY <2>1, <2>3, <2>4
<1> HIDE DEF T
<1>5. T = Nat
  <2>1. T \in SUBSET Nat
    BY DEF T
  <2> QED BY <1>3, <1>4, <2>1, Induct
<1>6. v[Len(q)] = w[Len(q)]
  BY <1>0, <1>5 DEF T
<1>7. v[Len(q) + 1] = v[Len(q)] \o Downmix48k(r[Len(q) + 1])
  <2>1. Len(q) \in 0..Len(r) /\ Len(q) # Len(r) /\ Len(r) \in Nat
    BY <1>0
  <2> QED BY <1>2, <2>1, PrefixesAre
<1> QED BY <1>0, <1>1, <1>2, <1>6, <1>7 DEF r

\* The first chunk taken from the channel takes its samples from the front.
LEMMA WaitingTail ==
    ASSUME NEW q \in Seq(Samples), q # <<>>
    PROVE Waiting(q) = Downmix48k(Head(q)) \o Waiting(Tail(q))
<1> DEFINE r == Tail(q)
           first == Downmix48k(Head(q))
<1>0. /\ Len(q) \in Nat /\ Len(q) # 0 /\ Len(r) \in Nat /\ Len(q) = Len(r) + 1 /\ q[1] = Head(q)
      /\ \A i \in 1..Len(r) : r[i] = q[i + 1]
      /\ r \in Seq(Samples) /\ Head(q) \in Samples
  OBVIOUS
<1>1. first \in Samples
  BY <1>0, DownmixTyped
<1> HIDE DEF r, first
<1>2. PICK w : Prefixes(w, r, Len(r)) /\ Waiting(r) = w[Len(r)]
  BY <1>0, WaitingIs
<1>3. PICK v : Prefixes(v, q, Len(q)) /\ Waiting(q) = v[Len(q)]
  BY <1>0, WaitingIs
<1> DEFINE T == {n \in Nat : n <= Len(r) => v[n + 1] = first \o w[n]}
<1>4. 0 \in T
  <2>1. v[0] = <<>> /\ w[0] = <<>> /\ v[0 + 1] = v[0] \o Downmix48k(q[0 + 1])
    <3>1. 0 \in 0..Len(q) /\ 0 # Len(q)
      BY <1>0
    <3> QED BY <1>0, <1>2, <1>3, <3>1, PrefixesAre
  <2>2. v[1] = first
    BY <1>0, <1>1, <2>1, ConcatEmptySeq DEF first, Samples
  <2>3. first \o <<>> = first
    BY <1>1, ConcatEmptySeq DEF Samples
  <2>4. v[0 + 1] = first \o w[0]
    BY <2>1, <2>2, <2>3
  <2> QED BY <2>4
<1>5. ASSUME NEW n \in T PROVE n + 1 \in T
  <2> SUFFICES ASSUME n + 1 <= Len(r) PROVE v[(n + 1) + 1] = first \o w[n + 1]
    OBVIOUS
  <2>1. v[n + 1] = first \o w[n] /\ r[n + 1] = q[(n + 1) + 1] /\ q[(n + 1) + 1] \in Samples
    BY <1>0
  <2>2. n \in 0..Len(r) /\ n # Len(r) /\ n + 1 \in 0..Len(q) /\ n + 1 # Len(q)
    BY <1>0
  <2>3. w[n + 1] = w[n] \o Downmix48k(r[n + 1])
    BY <1>0, <1>2, <2>2, PrefixesAre
  <2>4. v[(n + 1) + 1] = v[n + 1] \o Downmix48k(q[(n + 1) + 1])
    BY <1>0, <1>3, <2>2, PrefixesAre
  <2>5. w[n] \in Samples /\ Downmix48k(r[n + 1]) \in Samples
    BY <1>0, <1>2, <2>1, <2>2, PrefixesTyped, DownmixTyped
  <2>6. (first \o w[n]) \o Downmix48k(r[n + 1]) = first \o (w[n] \o Downmix48k(r[n + 1]))
    <3>1. PICK d \in Samples, e \in Samples : d = Downmix48k(r[n + 1]) /\ e = w[n]
      BY <2>5
    <3>2. (first \o e) \o d = first \o (e \o d)
      BY <1>1, Associative
    <3> QED BY <3>1, <3>2
  <2> QED BY <2>1, <2>3, <2>4, <2>6
<1> HIDE DEF T
<1>6. T = Nat
  <2>1. T \in SUBSET Nat
    BY DEF T
  <2> QED BY <1>4, <1>5, <2>1, Induct
<1>7. v[Len(r) + 1] = first \o w[Len(r)]
  BY <1>0, <1>6 DEF T
<1> QED BY <1>0, <1>2, <1>3, <1>7 DEF r, first

--------------------------------------------------------------------------------
(* The samples of the microphone *)

\* A full frame more leaves full frames.
LEMMA FullFrames ==
    ASSUME NEW m \in Nat, m % FrameSize = 0
    PROVE (m + FrameSize) % FrameSize = 0
<1> DEFINE F == FrameSize
           q == m \div F
           p == (m + F) \div F
           r == (m + F) % F
<1>0. F \in Nat /\ F > 0
  OBVIOUS
<1> HIDE DEF F
<1>1. q \in Int /\ p \in Int /\ r \in 0..(F - 1) /\ m = F * q /\ m + F = F * p + r
  BY <1>0 DEF F
<1> HIDE DEF q, p, r
<1>2. F * ((p - q) - 1) = -r
  BY <1>0, <1>1
<1>3. (p - q) - 1 >= 1 => F * ((p - q) - 1) >= F
  BY <1>0, <1>1
<1>4. (p - q) - 1 <= -1 => F * ((p - q) - 1) <= -F
  BY <1>0, <1>1
<1>5. r = 0
  BY <1>0, <1>1, <1>2, <1>3, <1>4
<1> QED BY <1>5 DEF F, r

\* FillFrame moves samples from what is pending to the frame, in order.
LEMMA FillKeeps ==
    ASSUME NEW r \in [pending : Samples, frame : Samples], Len(r.frame) < FrameSize
    PROVE /\ FillFrame(r).frame \o FillFrame(r).pending = r.frame \o r.pending
          /\ FillFrame(r) \in [pending : Samples, frame : Samples]
<1> DEFINE room == FrameSize - Len(r.frame)
           some == IF Len(r.pending) < room THEN Len(r.pending) ELSE room
           taken == SubSeq(r.pending, 1, some)
           left == SubSeq(r.pending, some + 1, Len(r.pending))
<1>1. r.pending \in Samples /\ r.frame \in Samples
  OBVIOUS
<1>2. some \in 0..Len(r.pending)
  BY <1>1 DEF Samples
<1>3. FillFrame(r) = [frame |-> r.frame \o taken, pending |-> left]
  BY DEF FillFrame
<1> HIDE DEF some
<1>4. taken \in Samples /\ left \in Samples
  BY <1>1, <1>2 DEF Samples
<1>5. taken \o left = r.pending
  <2>1. r.pending \in Seq(Nat)
    BY <1>1 DEF Samples
  <2>2. PICK p \in Seq(Nat) : p = r.pending
    BY <2>1
  <2>3. /\ some \in (1 - 1)..Len(p) /\ 1 \in 1..(Len(p) + 1) /\ Len(p) \in some..Len(p)
    BY <1>2, <2>2
  <2>4. SubSeq(p, 1, some) \o SubSeq(p, some + 1, Len(p)) = SubSeq(p, 1, Len(p))
    BY <2>3, ConcatAdjacentSubSeq
  <2>5. SubSeq(p, 1, Len(p)) = p
    OBVIOUS
  <2> QED BY <2>2, <2>4, <2>5
<1> HIDE DEF taken, left
<1>6. (r.frame \o taken) \o left = r.frame \o (taken \o left)
  BY <1>1, <1>4, Associative
<1>7. FillFrame(r).frame = r.frame \o taken /\ FillFrame(r).pending = left
  BY <1>3
<1>8. FillFrame(r) \in [pending : Samples, frame : Samples]
  BY FillTyped
<1> QED BY <1>5, <1>6, <1>7, <1>8

\* The invariant, with the types of its histories.
MicWhole ==
    /\ accepted \in [Calls -> Samples] /\ played \in [Calls -> Samples]
    /\ MicKept

\* A chunk that micCh takes is at the end of what was accepted.
LEMMA MicFrameKeeps ==
    ASSUME Types, MicWhole, NEW c \in Calls, NEW s \in Sessions, NEW size \in ChunkSizes,
           MicFrame(s, c, size)
    PROVE MicWhole'
<1>1. CASE ~(Len(micCh[c]) < Capacity)
  <2>1. UNCHANGED <<micCh, reading, accepted, played>>
    BY <1>1 DEF MicFrame
  <2> QED BY <2>1 DEF MicWhole, MicKept
<1>2. CASE Len(micCh[c]) < Capacity
  <2> PICK x : x = Chunk(size)
    OBVIOUS
  <2> PICK d : d = Downmix48k(x)
    OBVIOUS
  <2>1. /\ micCh' = [micCh EXCEPT ![c] = Append(@, x)]
        /\ accepted' = [accepted EXCEPT ![c] = @ \o d]
        /\ UNCHANGED <<reading, played>>
    BY <1>2 DEF MicFrame
  <2>2. x \in Samples /\ d \in Samples
    BY ChunkTyped, DownmixTyped DEF Types
  <2>3. \A b \in Calls : micCh[b] \in Seq(Samples) /\ Waiting(micCh[b]) \in Samples
    BY WaitingTyped DEF Types, MicOK
  <2>4. Waiting(Append(micCh[c], x)) = Waiting(micCh[c]) \o d
    BY <2>2, <2>3, WaitingAppend
  <2> DEFINE sent(b) == played[b] \o reading[b].frame \o reading[b].pending
  <2>5. \A b \in Calls : sent(b) \in Samples
    BY DEF MicWhole, Types, MicOK, Samples
  <2>6. \A b \in Calls : accepted[b] = sent(b) \o Waiting(micCh[b]) /\ accepted[b] \in Samples
    BY DEF MicWhole, MicKept
  <2>7. UNCHANGED sent(c)
    BY <2>1
  <2>8. accepted'[c] = sent(c) \o Waiting(micCh'[c]) /\ accepted'[c] \in Samples
    <3> HIDE DEF sent
    <3>1. (sent(c) \o Waiting(micCh[c])) \o d = sent(c) \o (Waiting(micCh[c]) \o d)
      BY <2>2, <2>3, <2>5, Associative
    <3>2. accepted'[c] = accepted[c] \o d /\ micCh'[c] = Append(micCh[c], x)
      BY <2>1 DEF MicWhole, Types, MicOK
    <3>3. accepted[c] \o d \in Samples
      BY <2>2, <2>6, ConcatTyped DEF Samples
    <3> QED BY <2>4, <2>6, <3>1, <3>2, <3>3
  <2>9. \A b \in Calls : b # c => accepted'[b] = accepted[b] /\ micCh'[b] = micCh[b]
    BY <2>1 DEF MicWhole, Types, MicOK
  <2>10. \A b \in Calls : accepted'[b] = sent(b) \o Waiting(micCh'[b])
    BY <2>6, <2>8, <2>9
  <2>11. accepted' \in [Calls -> Samples]
    BY <2>1, <2>8, <2>9 DEF MicWhole
  <2> QED BY <2>1, <2>10, <2>11 DEF MicWhole, MicKept
<1> QED BY <1>1, <1>2

\* A chunk is taken when nothing is pending, so its samples are the next ones.
LEMMA TakeChunkKeeps ==
    ASSUME Types, MicWhole, NEW c \in Calls, TakeChunk(c)
    PROVE MicWhole'
<1>1. /\ reading[c].pending = <<>> /\ micCh[c] # <<>> /\ micCh[c] \in Seq(Samples)
      /\ played[c] \in Samples /\ reading[c].frame \in Samples
  BY DEF TakeChunk, Types, MicOK, MicWhole
<1> PICK d : d = Downmix48k(Head(micCh[c]))
  OBVIOUS
<1>2. /\ micCh' = [micCh EXCEPT ![c] = Tail(@)]
      /\ reading' = [reading EXCEPT ![c].pending = d]
      /\ UNCHANGED <<accepted, played>>
  BY DEF TakeChunk
<1>3. Head(micCh[c]) \in Samples /\ Tail(micCh[c]) \in Seq(Samples)
  BY <1>1
<1> PICK w : w = Waiting(Tail(micCh[c]))
  OBVIOUS
<1>4. d \in Samples /\ w \in Samples /\ Waiting(micCh[c]) = d \o w
  BY <1>1, <1>3, DownmixTyped, WaitingTyped, WaitingTail
<1> DEFINE made == played[c] \o reading[c].frame
<1>5. made \in Samples
  BY <1>1, ConcatTyped DEF Samples
<1>6. accepted[c] = made \o <<>> \o (d \o w)
  BY <1>1, <1>4 DEF MicWhole, MicKept
<1>7. made \o <<>> \o (d \o w) = made \o d \o w
  <2> HIDE DEF made
  <2>1. made \o <<>> = made
    BY <1>5, WithNothing
  <2>2. (made \o d) \o w = made \o (d \o w)
    BY <1>4, <1>5, Associative
  <2> QED BY <2>1, <2>2
<1>8. /\ micCh'[c] = Tail(micCh[c]) /\ reading'[c].pending = d
      /\ reading'[c].frame = reading[c].frame
      /\ \A b \in Calls : b # c => micCh'[b] = micCh[b] /\ reading'[b] = reading[b]
  BY <1>2 DEF Types, MicOK
<1>9. accepted'[c] = played'[c] \o reading'[c].frame \o reading'[c].pending \o Waiting(micCh'[c])
  BY <1>2, <1>6, <1>7, <1>8
<1> QED BY <1>2, <1>8, <1>9 DEF MicWhole, MicKept

\* Samples go from pending to the frame; a full frame goes to the call.
LEMMA ReadFrameKeeps ==
    ASSUME Types, MicWhole, NEW c \in Calls, ReadFrame(c)
    PROVE MicWhole'
<1> PICK r : r = FillFrame(reading[c])
  OBVIOUS
<1>1. /\ reading[c] \in [pending : Samples, frame : Samples]
      /\ Len(reading[c].frame) < FrameSize /\ played[c] \in Samples
      /\ reading[c].frame \in Samples /\ reading[c].pending \in Samples
  BY DEF Types, MicOK, MicWhole
<1>2. /\ r \in [pending : Samples, frame : Samples]
      /\ r.frame \o r.pending = reading[c].frame \o reading[c].pending
  BY <1>1, FillKeeps
<1>3. r.frame \in Samples /\ r.pending \in Samples
  BY <1>2
<1> PICK w : w = Waiting(micCh[c])
  OBVIOUS
<1>4. accepted[c] = (played[c] \o r.frame) \o r.pending \o w
  <2>1. (played[c] \o reading[c].frame) \o reading[c].pending
          = played[c] \o (reading[c].frame \o reading[c].pending)
    BY <1>1, Associative
  <2>2. (played[c] \o r.frame) \o r.pending = played[c] \o (r.frame \o r.pending)
    BY <1>1, <1>3, Associative
  <2> QED BY <1>2, <2>1, <2>2 DEF MicWhole, MicKept
<1>5. UNCHANGED <<accepted, micCh>>
  BY DEF ReadFrame
<1>6. CASE Len(r.frame) = FrameSize
  <2>1. /\ played' = [played EXCEPT ![c] = @ \o r.frame]
        /\ reading' = [reading EXCEPT ![c] = [r EXCEPT !.frame = <<>>]]
    BY <1>6 DEF ReadFrame
  <2>2. /\ played'[c] = played[c] \o r.frame
        /\ reading'[c].frame = <<>> /\ reading'[c].pending = r.pending
        /\ \A b \in Calls : b # c => played'[b] = played[b] /\ reading'[b] = reading[b]
    BY <1>2, <2>1 DEF MicWhole, Types, MicOK
  <2>3. played'[c] \in Samples /\ Len(played'[c]) = Len(played[c]) + FrameSize
    <3>1. played[c] \o r.frame \in Samples
      BY <1>1, <1>3, ConcatTyped DEF Samples
    <3>2. Len(played[c] \o r.frame) = Len(played[c]) + Len(r.frame)
      BY <1>1, <1>3, ConcatTyped DEF Samples
    <3> QED BY <1>6, <2>2, <3>1, <3>2
  <2>4. Len(played'[c]) % FrameSize = 0
    <3>1. Len(played[c]) \in Nat
      BY <1>1 DEF Samples
    <3>2. Len(played[c]) % FrameSize = 0
      BY DEF MicWhole, MicKept
    <3> QED BY <2>3, <3>1, <3>2, FullFrames
  <2>5. played'[c] \o <<>> = played'[c]
    BY <2>3, WithNothing
  <2>6. accepted'[c] = played'[c] \o reading'[c].frame \o reading'[c].pending \o Waiting(micCh'[c])
    BY <1>4, <1>5, <2>2, <2>5
  <2>7. played' \in [Calls -> Samples]
    BY <2>1, <2>2, <2>3 DEF MicWhole
  <2> QED BY <1>5, <2>2, <2>4, <2>6, <2>7 DEF MicWhole, MicKept
<1>7. CASE Len(r.frame) # FrameSize
  <2>1. reading' = [reading EXCEPT ![c] = r] /\ UNCHANGED played
    BY <1>7 DEF ReadFrame
  <2>2. reading'[c] = r /\ \A b \in Calls : b # c => reading'[b] = reading[b]
    BY <2>1 DEF Types, MicOK
  <2>3. accepted'[c] = played'[c] \o reading'[c].frame \o reading'[c].pending \o Waiting(micCh'[c])
    BY <1>4, <1>5, <2>1, <2>2
  <2> QED BY <1>5, <2>1, <2>2, <2>3 DEF MicWhole, MicKept
<1> QED BY <1>6, <1>7

LEMMA MicWholeInit == Init => MicWhole
<1> SUFFICES ASSUME Init PROVE MicWhole
  OBVIOUS
<1>1. \A c \in Calls : /\ micCh[c] = <<>> /\ accepted[c] = <<>> /\ played[c] = <<>>
                       /\ reading[c].pending = <<>> /\ reading[c].frame = <<>>
  BY DEF Init
<1>2. <<>> \in Samples
  BY DEF Samples
<1>3. <<>> \o <<>> = <<>>
  BY <1>2, WithNothing
<1>4. Len(<<>>) % FrameSize = 0
  OBVIOUS
<1>5. accepted \in [Calls -> Samples] /\ played \in [Calls -> Samples]
  BY <1>2 DEF Init
<1>6. MicKept
  <2> SUFFICES ASSUME NEW c \in Calls
               PROVE /\ accepted[c] = played[c] \o reading[c].frame \o reading[c].pending
                                      \o Waiting(micCh[c])
                     /\ Len(played[c]) % FrameSize = 0
    BY DEF MicKept
  <2>1. accepted[c] = <<>> \o <<>> \o <<>> \o Waiting(<<>>)
    BY <1>1, <1>3, WaitingEmpty
  <2>2. Len(played[c]) % FrameSize = 0
    <3>1. played[c] = <<>>
      BY <1>1
    <3> QED BY <1>4, <3>1, Zenon
  <2>3. accepted[c] = played[c] \o reading[c].frame \o reading[c].pending \o Waiting(micCh[c])
    BY <1>1, <2>1
  <2> QED BY <2>2, <2>3
<1> QED BY <1>5, <1>6 DEF MicWhole

LEMMA MicWholeStep == Types /\ MicWhole /\ [Next]_vars => MicWhole'
<1> SUFFICES ASSUME Types, MicWhole, [Next]_vars PROVE MicWhole'
  OBVIOUS
<1>1. CASE UNCHANGED mic
  BY <1>1 DEF mic, MicWhole, MicKept
<1>2. ASSUME NEW c \in Calls, NEW s \in Sessions, NEW size \in ChunkSizes, MicFrame(s, c, size)
      PROVE MicWhole'
  BY <1>2, MicFrameKeeps
<1>3. ASSUME NEW c \in Calls, TakeChunk(c) PROVE MicWhole'
  BY <1>3, TakeChunkKeeps
<1>4. ASSUME NEW c \in Calls, ReadFrame(c) PROVE MicWhole'
  BY <1>4, ReadFrameKeeps
<1> QED
  BY <1>1, <1>2, <1>3, <1>4
  DEF Next, Attach, Register, Hangup, OnEnd, Stopped, PeerFrame, SinkReturns, SetCamera,
      TakeUnit, CheckCamera, SendVideo, SenderEnds, Open, Close, SeesDone, ReceiveFrame,
      WriteFrame, Look, CamFrame, vars

\* Any calls, sessions and sizes of channels, chunks and frames: the call reads what
\* micCh took, in order, without a gap or a repetition, in full frames; the rest is in
\* the frame being filled, in the pending samples of pcmSource and in the channel.
THEOREM MicHolds == Spec => []MicKept
<1>1. Spec => []Types
  BY TypesHold
<1>2. MicWhole => MicKept
  BY DEF MicWhole
<1> QED BY <1>1, <1>2, MicWholeInit, MicWholeStep, PTL DEF Spec

--------------------------------------------------------------------------------
(* The formats of the media *)

LEMMA ClampWords ==
    ASSUME NEW v \in Int
    PROVE Clamp(v) \in Words
<1>1. PICK lo \in Int, hi \in Int : lo = -32768 /\ hi = 32767
  OBVIOUS
<1>2. lo <= hi
  BY <1>1
<1>3. Clamp(v) = IF v > hi THEN hi ELSE IF v < lo THEN lo ELSE v
  BY <1>1 DEF Clamp
<1>4. (IF v > hi THEN hi ELSE IF v < lo THEN lo ELSE v) \in lo..hi
  BY <1>2
<1>5. Words = lo..hi
  BY <1>1, SMT DEF Words
<1> QED BY <1>3, <1>4, <1>5
LEMMA Truncated ==
    ASSUME NEW v \in Int
    PROVE Truncate(v, 3) \in Int
BY DEF Truncate
LEMMA TruncatedBack ==
    ASSUME NEW v \in Int
    PROVE Truncate(v * 3, 3) = v
BY DEF Truncate

\* One output frame before it is clamped.
Line(frame, j) ==
    LET i == (j + 2) \div 3
        k == (j + 2) % 3
    IN  Truncate(frame[i] * (3 - k)
                    + (IF i < Len(frame) THEN frame[i + 1] ELSE frame[i]) * k, 3)

LEMMA LineIs ==
    ASSUME NEW frame \in Seq(Int), NEW i \in 1..Len(frame), NEW k \in 0..2,
           NEW j \in Nat, (j + 2) \div 3 = i, (j + 2) % 3 = k
    PROVE Line(frame, j) \in Int /\ (k = 0 => Line(frame, j) = frame[i])
<1> DEFINE y == IF i < Len(frame) THEN frame[i + 1] ELSE frame[i]
           v == frame[i] * (3 - k) + y * k
<1>1. Line(frame, j) = Truncate(v, 3)
  BY DEF Line
<1>2. frame[i] \in Int /\ y \in Int /\ k \in Int
  OBVIOUS
<1> HIDE DEF y
<1>3. frame[i] * (3 - k) \in Int /\ y * k \in Int
  BY <1>2
<1>4. v \in Int
  BY <1>3
<1>5. k = 0 => v = frame[i] * 3
  BY <1>2
<1> HIDE DEF v
<1>6. Truncate(v, 3) \in Int
  BY <1>4, Truncated
<1>7. k = 0 => Truncate(v, 3) = frame[i]
  BY <1>2, <1>5, TruncatedBack
<1> QED BY <1>1, <1>6, <1>7

LEMMA UpsampleIs ==
    ASSUME NEW frame \in Seq(Int)
    PROVE /\ Upsample16k(frame) \in Seq(Words)
          /\ Len(Upsample16k(frame)) = 3 * Len(frame)
          /\ \A i \in 1..Len(frame) : Upsample16k(frame)[3 * i - 2] = Clamp(frame[i])
<1> DEFINE n == Len(frame)
           u == [j \in 1..(3 * n) |-> Clamp(Line(frame, j))]
<1>1. Upsample16k(frame) = u
  BY DEF Upsample16k, Line
<1>2. n \in Nat
  OBVIOUS
<1>3. ASSUME NEW j \in 1..(3 * n) PROVE Line(frame, j) \in Int
  <2>1. PICK i \in 1..n, k \in 0..2 : (j + 2) \div 3 = i /\ (j + 2) % 3 = k
    BY <1>2
  <2> QED BY <2>1, LineIs
<1>4. ASSUME NEW i \in 1..n PROVE Line(frame, 3 * i - 2) = frame[i]
  <2>1. ((3 * i - 2) + 2) \div 3 = i /\ ((3 * i - 2) + 2) % 3 = 0 /\ 3 * i - 2 \in Nat
    BY <1>2
  <2> QED BY <2>1, LineIs
<1> HIDE DEF n
<1>5. \A j \in 1..(3 * n) : Clamp(Line(frame, j)) \in Words
  BY <1>3, ClampWords
<1>6. 3 * n \in Nat
  BY <1>2
<1>7. u \in [1..(3 * n) -> Words]
  BY <1>5
<1>8. u \in Seq(Words) /\ Len(u) = 3 * n
  <2> HIDE DEF u
  <2>1. PICK m \in Nat : m = 3 * n
    BY <1>6
  <2>2. u \in [1..m -> Words]
    BY <1>7, <2>1
  <2>3. u \in Seq(Words) /\ Len(u) = m
    BY <2>2
  <2> QED BY <2>1, <2>3
<1>9. ASSUME NEW i \in 1..n PROVE u[3 * i - 2] = Clamp(frame[i])
  <2>1. 3 * i - 2 \in 1..(3 * n)
    BY <1>2
  <2> QED BY <1>4, <2>1
<1> QED BY <1>1, <1>8, <1>9 DEF n

\* Any frame of integers: what upsample16kTo48kStereo makes is within 16 bits, and
\* downmix48kStereo makes the samples of it again, clamped.
THEOREM AnySoundReturns ==
    ASSUME NEW frame \in Seq(Int)
    PROVE /\ Downmix48k(Upsample16k(frame)) = [i \in 1..Len(frame) |-> Clamp(frame[i])]
          /\ \A j \in 1..(3 * Len(frame)) : Upsample16k(frame)[j] \in Words
<1>1. PICK u : u = Upsample16k(frame)
  OBVIOUS
<1>2. /\ u \in Seq(Words) /\ Len(u) = 3 * Len(frame)
      /\ \A i \in 1..Len(frame) : u[3 * i - 2] = Clamp(frame[i])
  BY <1>1, UpsampleIs
<1>3. (Len(u) + 2) \div 3 = Len(frame)
  BY <1>2
<1>4. Downmix48k(u) = [i \in 1..Len(frame) |-> Clamp(frame[i])]
  BY <1>2, <1>3 DEF Downmix48k
<1>5. \A j \in 1..(3 * Len(frame)) : u[j] \in Words
  BY <1>2
<1> QED BY <1>1, <1>4, <1>5

--------------------------------------------------------------------------------

\* Where a unit with the start code 00 00 01 begins in the bytes.
Starts(au) == {i \in 1..(Len(au) - 3) : SubSeq(au, i, i + 2) = <<0, 0, 1>>}

LEMMA StartsAre ==
    ASSUME NEW au \in Seq(Nat)
    PROVE \A i \in Int : i \in Starts(au) <=>
            /\ i \in 1..(Len(au) - 3)
            /\ au[i] = 0 /\ au[i + 1] = 0 /\ au[i + 2] = 1
<1> TAKE i \in Int
<1>1. CASE i \in 1..(Len(au) - 3)
  <2>1. SubSeq(au, i, i + 2) = <<au[i], au[i + 1], au[i + 2]>>
    <3>1. /\ i \in Int /\ i + 2 \in Int /\ (i + 2) - i + 1 = 3 /\ i <= i + 2
          /\ \A j \in i..(i + 2) : au[j] \in Nat
      BY <1>1
    <3>2. /\ SubSeq(au, i, i + 2) \in Seq(Nat) /\ Len(SubSeq(au, i, i + 2)) = 3
          /\ \A j \in 1..3 : SubSeq(au, i, i + 2)[j] = au[i + j - 1]
      BY <3>1, SubSeqProperties
    <3>3. PICK q \in Seq(Nat) : q = SubSeq(au, i, i + 2)
      BY <3>2
    <3>4. q[1] = au[i] /\ q[2] = au[i + 1] /\ q[3] = au[i + 2] /\ Len(q) = 3
      BY <1>1, <3>2, <3>3
    <3>5. \A p \in Seq(Nat) : Len(p) = 3 => p = <<p[1], p[2], p[3]>>
      OBVIOUS
    <3> QED BY <3>3, <3>4, <3>5
  <2> QED BY <1>1, <2>1 DEF Starts
<1>2. CASE i \notin 1..(Len(au) - 3)
  BY <1>2 DEF Starts
<1> QED BY <1>1, <1>2

LEMMA StartsAtIs ==
    ASSUME NEW au \in Seq(Nat)
    PROVE \A i \in 1..Len(au) :
            /\ StartsAt(au, i) <=> \/ i \in Starts(au)
                                   \/ i + 1 \in Starts(au) /\ au[i] = 0
            /\ i \in Starts(au) => NalAt(au, i) = au[i + 3] % 32
            /\ i + 1 \in Starts(au) => NalAt(au, i) = au[(i + 1) + 3] % 32
<1> TAKE i \in 1..Len(au)
<1>1. Len(au) \in Nat /\ (i + 1) + 3 = i + 4 /\ (i + 1) + 2 = i + 3 /\ (i + 1) + 1 = i + 2
  OBVIOUS
<1>2. i \in Starts(au) <=>
        i + 3 <= Len(au) /\ au[i] = 0 /\ au[i + 1] = 0 /\ au[i + 2] = 1
  BY <1>1, StartsAre
<1>3. i + 1 \in Starts(au) <=>
        i + 4 <= Len(au) /\ au[i + 1] = 0 /\ au[i + 2] = 0 /\ au[i + 3] = 1
  BY <1>1, StartsAre
<1>4. i + 4 <= Len(au) => i + 3 <= Len(au)
  BY <1>1
<1> QED BY <1>1, <1>2, <1>3, <1>4 DEF StartsAt, NalAt

\* Any bytes: isKeyframe tells the type of the first unit, whose start code is
\* 00 00 01, whatever comes before it and with one more zero before it or not.
THEOREM AnyFlagAgrees ==
    ASSUME NEW au \in Seq(Nat)
    PROVE IsKeyframe(au) <=>
            \E i \in Starts(au) : /\ \A j \in Starts(au) : i <= j
                                  /\ au[i + 3] % 32 \in {5, 7, 8}
<1>0. Starts(au) \in SUBSET Nat /\ Len(au) \in Nat
  BY DEF Starts
<1>1. CASE Starts(au) = {}
  BY <1>1, StartsAtIs DEF IsKeyframe
<1>2. CASE Starts(au) # {}
  <2>1. PICK m \in Starts(au) : \A j \in Starts(au) : m <= j
    BY <1>0, <1>2, LeastOf
  <2>2. /\ m \in 1..Len(au) /\ m - 1 \in Nat /\ (m - 1) + 1 = m
        /\ m > 1 => m - 1 \in 1..Len(au)
    BY <1>0 DEF Starts
  <2>3. PICK i \in 1..Len(au) : IF m > 1 /\ au[m - 1] = 0 THEN i = m - 1 ELSE i = m
    BY <2>2
  <2>4. StartsAt(au, i) /\ NalAt(au, i) = au[m + 3] % 32
    BY <2>2, <2>3, StartsAtIs
  <2>5. ASSUME NEW j \in 1..Len(au), StartsAt(au, j) PROVE i <= j
    <3>1. j \in Starts(au) \/ (j + 1 \in Starts(au) /\ au[j] = 0)
      BY <2>5, StartsAtIs
    <3>2. CASE j \in Starts(au)
      BY <1>0, <2>1, <2>2, <2>3, <3>2
    <3>3. CASE j + 1 \in Starts(au) /\ au[j] = 0
      <4>1. m <= j + 1
        BY <2>1, <3>3
      <4>2. CASE m = j + 1
        <5>1. j = m - 1 /\ m > 1
          BY <4>2, <1>0
        <5> QED BY <2>2, <2>3, <3>3, <5>1
      <4>3. CASE m # j + 1
        BY <1>0, <2>2, <2>3, <4>1, <4>3
      <4> QED BY <4>2, <4>3
    <3> QED BY <3>1, <3>2, <3>3
  <2>6. \A j \in 1..(i - 1) : j \in 1..Len(au) /\ ~(i <= j)
    BY <1>0
  <2>7. \A j \in 1..(i - 1) : ~StartsAt(au, j)
    BY <2>5, <2>6
  <2>8. IsKeyframe(au) <=> NalAt(au, i) \in {5, 7, 8}
    <3>1. NalAt(au, i) \in {5, 7, 8} => IsKeyframe(au)
      BY <2>4, <2>7 DEF IsKeyframe
    <3>2. ASSUME IsKeyframe(au) PROVE NalAt(au, i) \in {5, 7, 8}
      <4>1. PICK j \in 1..Len(au) : /\ StartsAt(au, j) /\ NalAt(au, j) \in {5, 7, 8}
                                    /\ \A l \in 1..(j - 1) : ~StartsAt(au, l)
        BY <3>2 DEF IsKeyframe
      <4>2. i <= j
        BY <2>5, <4>1
      <4>3. ~(i \in 1..(j - 1))
        BY <2>4, <4>1
      <4>4. i = j
        BY <4>2, <4>3
      <4> QED BY <4>1, <4>4
    <3> QED BY <3>1, <3>2
  <2>9. \A j \in Starts(au) : (\A l \in Starts(au) : j <= l) => j = m
    <3> TAKE j \in Starts(au)
    <3> HAVE \A l \in Starts(au) : j <= l
    <3>1. j <= m /\ m <= j /\ j \in Nat /\ m \in Nat
      BY <1>0, <2>1
    <3> QED BY <3>1
  <2> QED BY <2>1, <2>4, <2>8, <2>9
<1> QED BY <1>1, <1>2

\* The frames and units that the runs evaluate are among those: the facts hold before
\* the first call, as at any time.
THEOREM FormatsHold == Spec => []FormatsSound
<1>1. SoundReturns
  <2> SUFFICES ASSUME NEW frame \in Sounds
               PROVE /\ Downmix48k(Upsample16k(frame)) =
                            [i \in 1..Len(frame) |-> Clamp(frame[i])]
                     /\ \A j \in 1..(3 * Len(frame)) : Upsample16k(frame)[j] \in Words
    BY DEF SoundReturns
  <2>1. PICK n \in 1..3 : frame \in [1..n -> {-32769, -32768, -7, 0, 5, 32767, 32768}]
    BY DEF Sounds
  <2>2. frame \in Seq(Int)
    BY <2>1
  <2> QED BY <2>2, AnySoundReturns
<1>2. FlagAgrees
  <2> SUFFICES ASSUME NEW n \in 0..6, NEW au \in [1..n -> {0, 1, 5, 39}]
               PROVE IsKeyframe(au) <=> \E i \in Starts(au) :
                        (\A j \in Starts(au) : i <= j) /\ au[i + 3] \in {5, 39}
    BY DEF FlagAgrees, Units, Starts
  <2>1. au \in Seq(Nat) /\ Len(au) = n
    OBVIOUS
  <2>2. \A b \in {0, 1, 5, 39} : b % 32 \in {5, 7, 8} <=> b \in {5, 39}
    OBVIOUS
  <2>3. \A i \in Starts(au) : i + 3 \in 1..n
    BY <2>1 DEF Starts
  <2>4. \A i \in Starts(au) : au[i + 3] % 32 \in {5, 7, 8} <=> au[i + 3] \in {5, 39}
    BY <2>2, <2>3
  <2> QED BY <2>1, <2>4, AnyFlagAgrees
<1>3. FormatsSound
  BY <1>1, <1>2 DEF FormatsSound
<1> QED BY <1>3, PTL

================================================================================
