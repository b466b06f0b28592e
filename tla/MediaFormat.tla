------------------------------ MODULE MediaFormat ------------------------------
(***************************************************************************)
(* The conversions of the call media in calls.go, as functions of their    *)
(* input: the microphone's 48 kHz stereo to the call's 16 kHz mono, the    *)
(* peer's 16 kHz mono to 48 kHz stereo, and the keyframe flag of an H.264  *)
(* access unit.                                                            *)
(*                                                                         *)
(* A sample is an integer in units of 1/32768. The two stereo channels     *)
(* carry the same value, as everything upsample16kTo48kStereo makes does,  *)
(* so their average is left out; float32 is exact on these values.         *)
(***************************************************************************)
EXTENDS Integers, Sequences

\* Mutant of Downmix48k: every third frame, starting with the third.
DownmixLate(b) == [i \in 1..(Len(b) \div 3) |-> b[3 * i]]

\* Every third frame, starting with the first of the chunk.
Downmix48k(b) == [i \in 1..((Len(b) + 2) \div 3) |-> b[3 * i - 2]]

\* The conversion to int32 drops the fraction; what int16 cannot hold is clamped.
Truncate(v, d) == IF v >= 0 THEN v \div d ELSE -((-v) \div d)
Clamp(v) == IF v > 32767 THEN 32767 ELSE IF v < -32768 THEN -32768 ELSE v

\* Three output frames for one sample, on the line to the next sample; the last
\* sample of a frame is held.
Upsample16k(frame) ==
    LET following(i) == IF i < Len(frame) THEN frame[i + 1] ELSE frame[i]
    IN  [j \in 1..(3 * Len(frame)) |->
            LET i == (j + 2) \div 3
                k == (j + 2) % 3
            IN  Clamp(Truncate(frame[i] * (3 - k) + following(i) * k, 3))]

\* Mutant of NalAt: the type is read where the short start code has it.
NalAtShort(au, i) == au[i + 3] % 32

\* The type of the unit whose start code, of three or four bytes, begins at i.
NalAt(au, i) == IF au[i + 2] = 1 THEN au[i + 3] % 32 ELSE au[i + 4] % 32

StartsAt(au, i) ==
    /\ i + 3 <= Len(au)
    /\ au[i] = 0 /\ au[i + 1] = 0
    /\ au[i + 2] = 1 \/ (i + 4 <= Len(au) /\ au[i + 2] = 0 /\ au[i + 3] = 1)

\* Only the first unit decides.
IsKeyframe(au) ==
    \E i \in 1..Len(au) :
        /\ StartsAt(au, i)
        /\ \A j \in 1..(i - 1) : ~StartsAt(au, j)
        /\ NalAt(au, i) \in {5, 7, 8}

--------------------------------------------------------------------------------

\* What 16 bits hold.
Words == -32768..32767

\* What the peer says arrives unchanged when it is sent back: taking every third
\* frame of what upsample16kTo48kStereo makes gives the samples again, clamped to
\* 16 bits, for all short frames of extreme and ordinary samples.
Sounds == UNION {[1..n -> {-32769, -32768, -7, 0, 5, 32767, 32768}] : n \in 1..3}

SoundReturns ==
    \A frame \in Sounds :
        /\ Downmix48k(Upsample16k(frame)) = [i \in 1..Len(frame) |-> Clamp(frame[i])]
        /\ \A j \in 1..(3 * Len(frame)) : Upsample16k(frame)[j] \in Words

\* The keyframe flag agrees with H.264: whatever bytes come before it, it tells
\* the type of the first unit, whose start code is 00 00 01, with one more zero
\* before it or not.
Units == UNION {[1..n -> {0, 1, 5, 39}] : n \in 0..6}

FlagAgrees ==
    \A au \in Units :
        LET starts == {i \in 1..(Len(au) - 3) : SubSeq(au, i, i + 2) = <<0, 0, 1>>}
        IN  IsKeyframe(au) <=>
                \E i \in starts : /\ \A j \in starts : i <= j
                                  /\ au[i + 3] \in {5, 39}

================================================================================
