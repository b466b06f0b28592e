----------------------------- MODULE MCMediaRelay ------------------------------
(* Instances of MediaRelay for TLC. *)
EXTENDS MediaRelay, TLC

MCCalls == {"k1", "k2"}
MCSessions == {"w1", "w2"}
MCChunkSizes == {3, 4}

Few(c, audio, video) ==
    [p \in {c} \X Kinds |-> IF p[2] = "audio" THEN audio ELSE video]
Load(calls, ends, sessions, k1, k2, mc, cm, sw) ==
    [calls |-> calls, ends |-> ends, sessions |-> sessions, peer |-> k1 @@ k2,
     mic |-> mc, cam |-> cm, switches |-> sw]

\* Two sessions that drain one call; one session and two calls that do not end;
\* what the app's microphone and its camera send to one call.
MCLoads ==
    {Load({"k1"}, {"k1"}, MCSessions, Few("k1", 2, 1), Few("k2", 0, 0), 0, 0, 0),
     Load(MCCalls, {}, {"w1"}, Few("k1", 2, 0), Few("k2", 1, 1), 0, 0, 0),
     Load({"k1"}, {"k1"}, {"w1"}, Few("k1", 0, 0), Few("k2", 0, 0), 3, 0, 0),
     Load({"k1"}, {"k1"}, {"w1"}, Few("k1", 0, 0), Few("k2", 0, 0), 0, 3, 2)}

================================================================================
