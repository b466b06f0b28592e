--------------------------------- MODULE Calls ---------------------------------
(***************************************************************************)
(* server-go's CallRegistry: the calls the app may answer (`incoming`),    *)
(* the relays of the calls it is in (`relays`), and the call history. The  *)
(* call engine (meowcaller) is a library; it appears through its calls     *)
(* into the registry (OnIncomingCall, the OnEnd callback) and what Answer, *)
(* Reject and Hangup do to a call.                                         *)
(*                                                                         *)
(* The registry's mutex covers single map operations. A request handler    *)
(* goes from one to the next in steps, and the engine's goroutines run in  *)
(* between.                                                                *)
(***************************************************************************)
EXTENDS Naturals, Sequences

CONSTANTS
    Outgoing,   \* calls the app starts
    Incoming,   \* calls it receives
    MaxCalls    \* store.go's maxCalls

ASSUME CallsAssumption ==
    /\ Outgoing \cap Incoming = {}
    /\ MaxCalls \in Nat \ {0}

Calls == Outgoing \cup Incoming

VARIABLES
    engine,    \* the library's view of each call
    offer,     \* progress of OnIncomingCall
    incoming,  \* CallRegistry.incoming
    setup,     \* progress of StartOutgoing or AcceptIncoming
    reject,    \* progress of RejectIncoming
    relays,    \* CallRegistry.relays
    running,   \* calls whose relay has its media goroutines running
    ender,     \* progress of the callback that attachMedia gave to OnEnd
    hangup,    \* progress of Hangup
    history    \* HistoryStore.calls

handlers == <<offer, setup, reject, ender, hangup>>
vars == <<engine, offer, incoming, setup, reject, relays, running, ender, hangup, history>>

Init ==
    /\ engine = [c \in Calls |-> "none"]
    /\ offer = [c \in Incoming |-> "none"]
    /\ incoming = {}
    /\ setup = [c \in Calls |-> "none"]
    /\ reject = [c \in Incoming |-> "none"]
    /\ relays = {}
    /\ running = {}
    /\ ender = [c \in Calls |-> "unset"]
    /\ hangup = [c \in Calls |-> "none"]
    /\ history = <<>>

--------------------------------------------------------------------------------
(* The call history in the store *)

Recorded(c) == \E i \in DOMAIN history : history[i].id = c

\* Mutant of AddCall: the history is never trimmed.
AddCallUncapped(c, missed) ==
    history' = IF Recorded(c) THEN history ELSE Append(history, [id |-> c, missed |-> missed])

\* HistoryStore.AddCall: one entry per id, the newest MaxCalls of them.
AddCall(c, missed) ==
    LET entry == [id |-> c, missed |-> missed]
        longer == Append(history, entry)
    IN  history' =
            IF Recorded(c)
            THEN [i \in DOMAIN history |->
                    IF history[i].id = c THEN entry ELSE history[i]]
            ELSE IF Len(longer) > MaxCalls THEN Tail(longer) ELSE longer

\* Mutant of MarkCallAnswered: the record stays as OnIncomingCall made it.
MarkForgotten(c) == UNCHANGED history

MarkCallAnswered(c) ==
    history' = [i \in DOMAIN history |->
        IF history[i].id = c THEN [history[i] EXCEPT !.missed = FALSE] ELSE history[i]]

--------------------------------------------------------------------------------
(* The engine *)

\* The engine calls the callback it was given when the call ends.
Fires(c) == IF ender[c] = "set" THEN [ender EXCEPT ![c] = "stop"] ELSE ender

Ends(c) ==
    /\ engine' = [engine EXCEPT ![c] = "ended"]
    /\ ender' = Fires(c)

\* The peer hangs up, gives up ringing or is lost.
PeerEnds(c) ==
    /\ engine[c] \in {"ringing", "live"}
    /\ Ends(c)
    /\ UNCHANGED <<offer, incoming, setup, reject, relays, running, hangup, history>>

--------------------------------------------------------------------------------
(* OnIncomingCall: store the call, record it as missed, tell the app *)

StoreOffer(c) ==
    /\ engine[c] = "none"
    /\ engine' = [engine EXCEPT ![c] = "ringing"]
    /\ incoming' = incoming \cup {c}
    /\ offer' = [offer EXCEPT ![c] = "stored"]
    /\ UNCHANGED <<setup, reject, relays, running, ender, hangup, history>>

RecordOffer(c) ==
    /\ offer[c] = "stored"
    /\ AddCall(c, TRUE)
    /\ offer' = [offer EXCEPT ![c] = "recorded"]
    /\ UNCHANGED <<engine, incoming, setup, reject, relays, running, ender, hangup>>

TellOffer(c) ==
    /\ offer[c] = "recorded"
    /\ offer' = [offer EXCEPT ![c] = "told"]
    /\ UNCHANGED <<engine, incoming, setup, reject, relays, running, ender, hangup, history>>

--------------------------------------------------------------------------------
(* StartOutgoing and AcceptIncoming *)

\* CallWithOptions has placed the call.
PlaceCall(c) ==
    /\ engine[c] = "none"
    /\ engine' = [engine EXCEPT ![c] = "live"]
    /\ setup' = [setup EXCEPT ![c] = "placed"]
    /\ UNCHANGED <<offer, incoming, reject, relays, running, ender, hangup, history>>

\* Mutant of Take: the pending call is read but left in the map.
Peek(c) == c \in incoming /\ UNCHANGED incoming

\* Both verdicts take the pending call out of the map in one lock section.
Take(c) == c \in incoming /\ incoming' = incoming \ {c}

\* The app knows a call from its incoming_call event.
TakeToAccept(c) ==
    /\ offer[c] = "told"
    /\ setup[c] = "none"
    /\ Take(c)
    /\ setup' = [setup EXCEPT ![c] = "taken"]
    /\ UNCHANGED <<engine, offer, reject, relays, running, ender, hangup, history>>

\* Answer fails when the peer has given up; the call was taken already.
Answer(c) ==
    /\ setup[c] = "taken"
    /\ \/ /\ engine[c] = "ringing"
          /\ engine' = [engine EXCEPT ![c] = "live"]
          /\ setup' = [setup EXCEPT ![c] = "placed"]
       \/ /\ setup' = [setup EXCEPT ![c] = "failed"]
          /\ UNCHANGED engine
    /\ UNCHANGED <<offer, incoming, reject, relays, running, ender, hangup, history>>

\* Whether the engine still calls a callback registered after the end is its
\* own business.
AttachMedia(c) ==
    /\ setup[c] = "placed"
    /\ running' = running \cup {c}
    /\ \/ ender' = [ender EXCEPT ![c] = "set"]
       \/ engine[c] = "ended" /\ ender' = [ender EXCEPT ![c] = "stop"]
    /\ setup' = [setup EXCEPT ![c] = "attached"]
    /\ UNCHANGED <<engine, offer, incoming, reject, relays, hangup, history>>

Register(c) ==
    /\ setup[c] = "attached"
    /\ relays' = relays \cup {c}
    /\ setup' = [setup EXCEPT ![c] = "registered"]
    /\ UNCHANGED <<engine, offer, incoming, reject, running, ender, hangup, history>>

RecordCall(c) ==
    /\ setup[c] = "registered"
    /\ IF c \in Outgoing THEN AddCall(c, FALSE) ELSE MarkCallAnswered(c)
    /\ setup' = [setup EXCEPT ![c] = "recorded"]
    /\ UNCHANGED <<engine, offer, incoming, reject, relays, running, ender, hangup>>

\* The call_state event "calling" or "connecting".
Announce(c) ==
    /\ setup[c] = "recorded"
    /\ setup' = [setup EXCEPT ![c] = "announced"]
    /\ UNCHANGED <<engine, offer, incoming, reject, relays, running, ender, hangup, history>>

--------------------------------------------------------------------------------
(* RejectIncoming *)

\* Mutant of TakeToReject: the call is looked up and left in the map.
PeekToReject(c) ==
    /\ offer[c] = "told"
    /\ reject[c] = "none"
    /\ c \in incoming
    /\ reject' = [reject EXCEPT ![c] = "taken"]
    /\ UNCHANGED <<engine, incoming, offer, setup, relays, running, ender, hangup, history>>

TakeToReject(c) ==
    /\ offer[c] = "told"
    /\ reject[c] = "none"
    /\ Take(c)
    /\ reject' = [reject EXCEPT ![c] = "taken"]
    /\ UNCHANGED <<engine, offer, setup, relays, running, ender, hangup, history>>

Reject(c) ==
    /\ reject[c] = "taken"
    /\ reject' = [reject EXCEPT ![c] = "done"]
    /\ Ends(c)
    /\ UNCHANGED <<offer, incoming, setup, relays, running, hangup, history>>

--------------------------------------------------------------------------------
(* Hangup: unregister the relay, stop it, end the call *)

Unregister(c) ==
    /\ c \in relays
    /\ hangup[c] = "none"
    /\ relays' = relays \ {c}
    /\ hangup' = [hangup EXCEPT ![c] = "stop"]
    /\ UNCHANGED <<engine, offer, incoming, setup, reject, running, ender, history>>

StopRelay(c) ==
    /\ hangup[c] = "stop"
    /\ running' = running \ {c}
    /\ hangup' = [hangup EXCEPT ![c] = "end"]
    /\ UNCHANGED <<engine, offer, incoming, setup, reject, relays, ender, history>>

HangUp(c) ==
    /\ hangup[c] = "end"
    /\ hangup' = [hangup EXCEPT ![c] = "done"]
    /\ IF engine[c] = "ended" THEN UNCHANGED <<engine, ender>> ELSE Ends(c)
    /\ UNCHANGED <<offer, incoming, setup, reject, relays, running, history>>

--------------------------------------------------------------------------------
(* The OnEnd callback: stop the relay, unregister it, publish "ended" *)

OnEndStops(c) ==
    /\ ender[c] = "stop"
    /\ running' = running \ {c}
    /\ ender' = [ender EXCEPT ![c] = "remove"]
    /\ UNCHANGED <<engine, offer, incoming, setup, reject, relays, hangup, history>>

\* Mutant of OnEndRemoves: the relay is left in the map.
OnEndLeaves(c) ==
    /\ ender[c] = "remove"
    /\ ender' = [ender EXCEPT ![c] = "done"]
    /\ UNCHANGED <<engine, offer, incoming, setup, reject, relays, running, hangup, history>>

OnEndRemoves(c) ==
    /\ ender[c] = "remove"
    /\ relays' = relays \ {c}
    /\ ender' = [ender EXCEPT ![c] = "done"]
    /\ UNCHANGED <<engine, offer, incoming, setup, reject, running, hangup, history>>

--------------------------------------------------------------------------------

\* What the handlers and callbacks under way do next on their own.
Continue(c) ==
    \/ c \in Incoming /\ (RecordOffer(c) \/ TellOffer(c) \/ Reject(c))
    \/ Answer(c) \/ AttachMedia(c) \/ Register(c) \/ RecordCall(c) \/ Announce(c)
    \/ StopRelay(c) \/ HangUp(c)
    \/ OnEndStops(c) \/ OnEndRemoves(c)

Next ==
    \/ \E c \in Incoming :
        \/ StoreOffer(c) \/ RecordOffer(c) \/ TellOffer(c)
        \/ TakeToAccept(c) \/ TakeToReject(c) \/ Reject(c)
    \/ \E c \in Outgoing : PlaceCall(c)
    \/ \E c \in Calls :
        \/ PeerEnds(c)
        \/ Answer(c) \/ AttachMedia(c) \/ Register(c) \/ RecordCall(c) \/ Announce(c)
        \/ Unregister(c) \/ StopRelay(c) \/ HangUp(c)
        \/ OnEndStops(c) \/ OnEndRemoves(c)

Spec == Init /\ [][Next]_vars

\* Every handler and callback that has started goes on; nobody is obliged to
\* start, answer or end a call.
FairSpec == Spec /\ \A c \in Calls : WF_vars(Continue(c))

--------------------------------------------------------------------------------

\* Types, and the cap on the history.
TypeOK ==
    /\ engine \in [Calls -> {"none", "ringing", "live", "ended"}]
    /\ offer \in [Incoming -> {"none", "stored", "recorded", "told"}]
    /\ incoming \in SUBSET Incoming
    /\ setup \in [Calls -> {"none", "taken", "placed", "failed", "attached",
                            "registered", "recorded", "announced"}]
    /\ reject \in [Incoming -> {"none", "taken", "done"}]
    /\ relays \in SUBSET Calls
    /\ running \in SUBSET Calls
    /\ ender \in [Calls -> {"unset", "set", "stop", "remove", "done"}]
    /\ hangup \in [Calls -> {"none", "stop", "end", "done"}]
    /\ history \in Seq([id : Calls, missed : BOOLEAN])
    /\ Len(history) <= MaxCalls

\* However accept and reject requests race, one of them gets the call: it is
\* never answered and rejected, and while it waits nobody has it.
OneVerdict ==
    \A c \in Incoming :
        /\ ~(setup[c] # "none" /\ reject[c] # "none")
        /\ c \in incoming => setup[c] = "none" /\ reject[c] = "none"

\* The history tells answered from missed calls: an answered one is not missed
\* once its handler has marked it, and only answered ones lose the mark.
MissedMeansUnanswered ==
    \A i \in DOMAIN history : history[i].id \in Incoming =>
        /\ setup[history[i].id] \in {"recorded", "announced"} => ~history[i].missed
        /\ ~history[i].missed => setup[history[i].id] \in {"recorded", "announced"}

\* A registered call whose end is noticed leaves the registry, and its media
\* goroutines stop, whatever the user's Hangup does at the same time.
NoticedEndsLeave ==
    \A c \in Calls :
        ender[c] = "stop" /\ c \in relays ~> c \notin relays /\ c \notin running

Stage(c) ==
    IF setup[c] # "none" THEN "accepted"
    ELSE IF reject[c] # "none" THEN "rejected"
    ELSE IF c \in incoming THEN "pending"
    ELSE "unknown"

Book == INSTANCE CallBook WITH
    stage <- [c \in Incoming |-> Stage(c)],
    book <- {e \in {history[i] : i \in DOMAIN history} : e.id \in Incoming}

\* The registry, with its pending map, its handlers' steps and the capped
\* history, implements the call book: verdicts are final, the missed mark is
\* put on undecided calls, and only an accept takes it away.
KeepsBook == Book!Spec

\* A call that is over leaves the registry without anyone asking for it: List
\* and GET /call/state show active calls.
EndedCallsLeave ==
    \A c \in Calls : engine[c] = "ended" ~> c \notin relays

================================================================================
