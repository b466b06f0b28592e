-------------------------------- MODULE Linking --------------------------------
(***************************************************************************)
(* How server-go keeps a QR code on offer while no account is linked:      *)
(* StartPairing and PairCode under pairMu, startQR, the goroutine that     *)
(* reads each QR stream and restarts pairing when it closes, and the       *)
(* callers: POST /pair, /pair-code and /logout, and onLoggedOut.           *)
(*                                                                         *)
(* whatsmeow is a library. As the code uses it, a QR stream opened by      *)
(* GetQRChannel offers one code after another once the socket is up, and   *)
(* its channel closes when the account is linked, when the codes run out   *)
(* or the socket drops (after a "timeout" item), and when its context      *)
(* ends; running out and the end of the context are followed by a call of  *)
(* Disconnect of its own. Which number is linked, and who is told of it,   *)
(* is the subject of Sessions.                                             *)
(***************************************************************************)
EXTENDS Naturals, Sequences

CONSTANTS
    Slots,       \* names for the QR streams in use at once, used over again
    Requests,    \* POST /pair requests, used over again
    Phones,      \* POST /pair-code requests, used over again
    MaxWaiting,  \* bound: how many background calls may wait when one more logout comes
    MaxRequests, \* bound: how many requests come in all
    MaxDrops     \* bound: how often the network closes the socket

None == "none"
Background == "background"
Callers == Requests \cup Phones \cup {Background}

ASSUME NamesAssumption ==
    /\ Slots # {} /\ Requests \cap Phones = {}
    /\ {"background", "ended"} \cap (Requests \cup Phones) = {}
    /\ {"none", "stale"} \cap Slots = {}
    /\ MaxWaiting \in Nat \ {0} /\ MaxRequests \in Nat /\ MaxDrops \in Nat

VARIABLES
    device,    \* whether cli.Store.ID is set
    socket,    \* cli.IsConnected()
    stream,    \* the library's side of each stream
    ctx,       \* the caller whose context the stream has, or "ended"
    items,     \* the channel of each stream
    reader,    \* the goroutine of startQR that reads it
    qrCh,      \* WAClient.qrCh, never reset
    cancelQR,  \* the stream that WAClient.cancelQR cancels
    qr,        \* the stream whose code AppState.qr holds
    waiting,   \* how many calls of each caller wait for pairMu
    inside,    \* who holds it, and where in StartPairing or PairCode
    requests,  \* history: how many requests have come
    drops,     \* history: how often the socket has dropped
    mishap     \* history: what went wrong with the latest dial

library == <<device, socket, stream, items, drops>>
client == <<ctx, reader, qrCh, cancelQR, qr>>
calls == <<waiting, inside, requests>>
vars == <<library, client, calls, mishap>>

\* The program listens after Connect: linked, or with the first stream open.
Init ==
    /\ device \in BOOLEAN
    /\ socket = TRUE
    /\ LET first == CHOOSE s \in Slots : TRUE
           opened == IF device THEN {} ELSE {first}
       IN  /\ stream = [s \in Slots |-> IF s \in opened THEN "open" ELSE "closed"]
           /\ ctx = [s \in Slots |-> IF s \in opened THEN Background ELSE "ended"]
           /\ reader = [s \in Slots |-> IF s \in opened THEN "reading" ELSE None]
           /\ qrCh = IF device THEN None ELSE first
    /\ cancelQR = qrCh
    /\ items = [s \in Slots |-> <<>>]
    /\ qr = None
    /\ waiting = [c \in Callers |-> 0]
    /\ inside = {}
    /\ requests = 0
    /\ drops = 0
    /\ mishap = None

Running(s) == stream[s] \in {"open", "offering"}

--------------------------------------------------------------------------------
(* The library *)

\* A code for the app. The first needs the socket; the rest come from a list, as
\* long as the context lasts.
Offer(s) ==
    /\ \/ stream[s] = "open" /\ socket
       \/ stream[s] = "offering" /\ ctx[s] # "ended"
    /\ items[s] = <<>>
    /\ items' = [items EXCEPT ![s] = <<"code">>]
    /\ stream' = [stream EXCEPT ![s] = "offering"]
    /\ UNCHANGED <<device, socket, drops, client, calls, mishap>>

\* The list of codes is used up, long after the last was read.
RunOut(s) ==
    /\ stream[s] = "offering"
    /\ items[s] = <<>>
    /\ items' = [items EXCEPT ![s] = <<"timeout">>]
    /\ stream' = [stream EXCEPT ![s] = "ending"]
    /\ UNCHANGED <<device, socket, drops, client, calls, mishap>>

ContextEnds(s) ==
    /\ Running(s)
    /\ ctx[s] = "ended"
    /\ stream' = [stream EXCEPT ![s] = "ending"]
    /\ UNCHANGED <<device, socket, items, drops, client, calls, mishap>>

\* The channel is closed; the call of Disconnect follows.
Disconnects(s) ==
    /\ stream[s] = "ending"
    /\ stream' = [stream EXCEPT ![s] = "closed"]
    /\ socket' = FALSE
    /\ mishap' = IF socket /\ \E r \in Slots : Running(r) THEN "torn" ELSE mishap
    /\ UNCHANGED <<device, items, drops, client, calls>>

Drop ==
    /\ socket
    /\ drops < MaxDrops
    /\ socket' = FALSE
    /\ drops' = drops + 1
    /\ items' = [s \in Slots |-> IF Running(s) THEN Append(items[s], "timeout") ELSE items[s]]
    /\ stream' = [s \in Slots |-> IF Running(s) THEN "closed" ELSE stream[s]]
    /\ UNCHANGED <<device, client, calls, mishap>>

\* EnableAutoReconnect works for a linked device.
Reconnect ==
    /\ device
    /\ ~socket
    /\ socket' = TRUE
    /\ UNCHANGED <<device, stream, items, drops, client, calls, mishap>>

\* A code was scanned, or the eight characters typed: every stream closes.
PairSuccess ==
    /\ socket
    /\ ~device
    /\ mishap = "bare" \/ \E s \in Slots : stream[s] = "offering"
    /\ device' = TRUE
    /\ stream' = [s \in Slots |-> IF Running(s) THEN "closed" ELSE stream[s]]
    /\ UNCHANGED <<socket, items, drops, client, calls, mishap>>

--------------------------------------------------------------------------------
(* The goroutine of startQR *)

Show(s) ==
    /\ reader[s] = "reading"
    /\ items[s] # <<>>
    /\ qr' = IF Head(items[s]) = "code" THEN s ELSE None
    /\ items' = [items EXCEPT ![s] = Tail(@)]
    /\ UNCHANGED <<device, socket, stream, drops, ctx, reader, qrCh, cancelQR, calls, mishap>>

\* The range over the channel ends.
StreamClosed(s) ==
    /\ reader[s] = "reading"
    /\ items[s] = <<>>
    /\ ~Running(s)
    /\ reader' = [reader EXCEPT ![s] = IF device THEN None ELSE "waiting"]
    /\ UNCHANGED <<library, ctx, qrCh, cancelQR, qr, calls, mishap>>

\* Mutant of WaitForTeardown: the goroutine just ends, as it does when linked.
NoRestart(s) ==
    /\ reader[s] = "waiting"
    /\ ~socket \/ \A r \in Slots : stream[r] # "ending"
    /\ reader' = [reader EXCEPT ![s] = None]
    /\ UNCHANGED <<library, ctx, qrCh, cancelQR, qr, calls, mishap>>

\* Another call waits for pairMu.
Enqueue(c) ==
    /\ waiting' = [waiting EXCEPT ![c] = @ + 1]
    /\ UNCHANGED inside

\* It waits until the socket is down, five seconds at most: longer than a call
\* of Disconnect takes. Then it calls StartPairing.
WaitForTeardown(s) ==
    /\ reader[s] = "waiting"
    /\ ~socket \/ \A r \in Slots : stream[r] # "ending"
    /\ reader' = [reader EXCEPT ![s] = None]
    /\ Enqueue(Background)
    /\ UNCHANGED requests
    /\ UNCHANGED <<library, ctx, qrCh, cancelQR, qr, mishap>>

--------------------------------------------------------------------------------
(* The callers *)

\* POST /pair and POST /pair-code; a request is used again when it has returned.
Request(c) ==
    /\ c # Background
    /\ waiting[c] = 0 /\ \A e \in inside : e.who # c
    /\ Enqueue(c)
    /\ requests < MaxRequests
    /\ requests' = requests + 1
    /\ UNCHANGED <<library, client, mishap>>

\* POST /logout goes on to StartPairing whether or not Logout succeeded.
Logout ==
    /\ waiting[Background] < MaxWaiting
    /\ \/ device /\ device' = FALSE /\ socket' = FALSE
       \/ UNCHANGED <<device, socket>>
    /\ Enqueue(Background)
    /\ UNCHANGED requests
    /\ UNCHANGED <<stream, items, drops, client, mishap>>

\* onLoggedOut, half a second before its goroutine calls StartPairing.
LoggedOut ==
    /\ device
    /\ waiting[Background] < MaxWaiting
    /\ device' = FALSE
    /\ socket' = FALSE
    /\ qr' = None
    /\ Enqueue(Background)
    /\ UNCHANGED requests
    /\ UNCHANGED <<stream, items, drops, ctx, reader, qrCh, cancelQR, mishap>>

--------------------------------------------------------------------------------
(* StartPairing and PairCode *)

\* pairMu is free.
Free == inside = {}

\* What the end of a request does to the stream that has its context.
WithoutContext(c) ==
    [s \in Slots |-> IF ctx[s] = c /\ c # Background THEN "ended" ELSE ctx[s]]

Enter(c, at) ==
    /\ waiting[c] > 0
    /\ Free
    /\ waiting' = [waiting EXCEPT ![c] = @ - 1]
    /\ inside' = inside \cup {[who |-> c, at |-> at]}
    /\ UNCHANGED <<library, client, requests, mishap>>

\* Mutant of TurnedAway: an early return lets two waiting calls go.
TurnedAwayTwice(c) ==
    /\ waiting[c] > 0
    /\ Free
    /\ waiting' = [waiting EXCEPT ![c] = @ - 2]
    /\ ctx' = WithoutContext(c)
    /\ UNCHANGED <<library, reader, qrCh, cancelQR, qr, inside, requests, mishap>>

\* The early returns: nothing is changed.
TurnedAway(c) ==
    /\ waiting[c] > 0
    /\ Free
    /\ waiting' = [waiting EXCEPT ![c] = @ - 1]
    /\ ctx' = WithoutContext(c)
    /\ UNCHANGED <<library, reader, qrCh, cancelQR, qr, inside, requests, mishap>>

Go(e, at) ==
    /\ inside' = (inside \ {e}) \cup {[e EXCEPT !.at = at]}
    /\ UNCHANGED <<waiting, requests>>

Return(e) ==
    /\ inside' = inside \ {e}
    /\ ctx' = WithoutContext(e.who)
    /\ UNCHANGED <<waiting, requests>>

\* A stream is taken for alive as long as one was ever opened and the client is
\* connected.
Pairing == device \/ (qrCh # None /\ socket)

\* Mutant of StartPairing: the check for a live stream is left out.
StartPairingAlways(c) ==
    /\ c \notin Phones
    /\ IF device THEN TurnedAway(c) ELSE Enter(c, "restart")

StartPairing(c) ==
    /\ c \notin Phones
    /\ IF Pairing THEN TurnedAway(c) ELSE Enter(c, "restart")

\* A slot nothing runs in any more. A code of its former stream stays on show.
Unused(s) == stream[s] = "closed" /\ reader[s] = None /\ items[s] = <<>>

StartQR(c, s, contexts) ==
    /\ Unused(s)
    /\ stream' = [stream EXCEPT ![s] = "open"]
    /\ ctx' = [contexts EXCEPT ![s] = c]
    /\ reader' = [reader EXCEPT ![s] = "reading"]
    /\ qrCh' = s
    /\ cancelQR' = s
    /\ qr' = IF qr = s THEN "stale" ELSE qr

\* Mutant of Cancelled: the old stream is replaced without being cancelled.
NotCancelled == ctx

Cancelled == IF cancelQR = None THEN ctx ELSE [ctx EXCEPT ![cancelQR] = "ended"]

\* cancelQR, Disconnect if connected, startQR.
Restart(e, s) ==
    /\ e.at = "restart"
    /\ StartQR(e.who, s, Cancelled)
    /\ socket' = FALSE
    /\ Go(e, "dial")
    /\ UNCHANGED <<device, items, drops, mishap>>

\* Connect, and StartPairing returns.
Dial(e) ==
    /\ e.who \notin Phones
    /\ e.at = "dial"
    /\ socket' \in BOOLEAN
    /\ mishap' = IF socket' THEN None ELSE "failed"
    /\ Return(e)
    /\ UNCHANGED <<device, stream, items, drops, reader, qrCh, cancelQR, qr>>

PairCode(c) ==
    /\ c \in Phones
    /\ IF device THEN TurnedAway(c) ELSE Enter(c, IF socket THEN "phone" ELSE "dial")

\* startQR only if no stream was ever opened, then Connect.
DialForCode(e) ==
    /\ e.who \in Phones
    /\ e.at = "dial"
    /\ IF qrCh = None THEN \E s \in Slots : StartQR(e.who, s, ctx)
       ELSE UNCHANGED <<stream, ctx, reader, qrCh, cancelQR, qr>>
    /\ socket' \in BOOLEAN
    /\ mishap' = IF ~socket' THEN "failed" ELSE IF qrCh = None THEN None ELSE "bare"
    /\ Go(e, IF socket' THEN "await" ELSE "failed")
    /\ UNCHANGED <<device, items, drops>>

\* The receive takes an item the goroutine will not see, or finds the channel of
\* a stream that has closed.
AwaitItem(e) ==
    /\ e.at = "await"
    /\ items[qrCh] # <<>> \/ ~Running(qrCh)
    /\ items' = IF items[qrCh] = <<>> THEN items ELSE [items EXCEPT ![qrCh] = Tail(@)]
    /\ Go(e, "phone")
    /\ UNCHANGED <<device, socket, stream, drops, client, mishap>>

\* PairPhone has returned the code or an error, five seconds have passed without
\* an item, or the dial has failed.
CodeReturned(e) ==
    /\ e.at \in {"phone", "await", "failed"}
    /\ Return(e)
    /\ UNCHANGED <<library, reader, qrCh, cancelQR, qr, mishap>>

--------------------------------------------------------------------------------

\* What runs on by itself, the app, the phone and the network apart.
Library(s) == Offer(s) \/ ContextEnds(s) \/ Disconnects(s)
Goroutine(s) == Show(s) \/ StreamClosed(s) \/ WaitForTeardown(s)
Proceed ==
    \E e \in inside :
        \/ \E s \in Slots : Restart(e, s)
        \/ Dial(e) \/ DialForCode(e) \/ CodeReturned(e)

Next ==
    \/ \E s \in Slots :
        \/ Offer(s) \/ RunOut(s) \/ ContextEnds(s) \/ Disconnects(s)
        \/ Show(s) \/ StreamClosed(s) \/ WaitForTeardown(s)
    \/ Drop \/ Reconnect \/ PairSuccess \/ Logout \/ LoggedOut
    \/ \E c \in Callers : Request(c) \/ StartPairing(c) \/ PairCode(c)
    \/ \E e \in inside :
        \/ \E s \in Slots : Restart(e, s)
        \/ Dial(e) \/ DialForCode(e) \/ AwaitItem(e) \/ CodeReturned(e)

Spec == Init /\ [][Next]_vars

\* Goroutines run, the library does what it has begun, and a background call of
\* StartPairing gets pairMu at some time, whoever else asks for it.
FairSpec ==
    /\ Spec
    /\ \A s \in Slots : WF_vars(Library(s)) /\ WF_vars(Goroutine(s))
    /\ WF_vars(Proceed)
    /\ SF_vars(StartPairing(Background))

--------------------------------------------------------------------------------

TypeOK ==
    /\ device \in BOOLEAN /\ socket \in BOOLEAN
    /\ stream \in [Slots -> {"closed", "open", "offering", "ending"}]
    /\ ctx \in [Slots -> Callers \cup {"ended"}]
    /\ items \in [Slots -> Seq({"code", "timeout"})]
    /\ reader \in [Slots -> {None, "reading", "waiting"}]
    /\ qrCh \in Slots \cup {None} /\ cancelQR \in Slots \cup {None}
    /\ qr \in Slots \cup {None, "stale"}
    /\ waiting \in [Callers -> Nat]
    /\ inside \subseteq
        [who : Callers, at : {"restart", "dial", "await", "failed", "phone"}]
    /\ requests \in 0..MaxRequests /\ drops \in 0..MaxDrops
    /\ mishap \in {None, "failed", "bare", "torn"}

\* A stream on a connected socket that still has its context.
Alive(s) == qrCh = s /\ Running(s) /\ socket /\ ctx[s] = "background"

KeepsLiveStream ==
    \A s \in Slots : Alive(s) =>
        \/ ctx'[s] = "background" /\ stream'[s] # "ending"
        \/ RunOut(s)

\* However many callers ask for pairing at once, none of them takes a live QR
\* stream down (client.go, pairMu): only the codes running out, a dropped
\* socket or a linked account end it.
LiveStreamKept == [][KeepsLiveStream]_vars

\* At most one stream is left running: a stream that was replaced has lost its
\* context, so the library closes it and its goroutine ends.
OneStream == \A s \in Slots : Running(s) /\ ctx[s] = "background" => s = qrCh

\* Until an account is linked there is, again and again, a code on show that
\* can be scanned. The restart that follows a closed stream sees to it, unless
\* its dial fails, PairCode has connected without a stream, or the Disconnect of
\* an old stream comes late and takes the new socket down.
Scannable == \E s \in Slots : Alive(s) /\ qr = s

CodeComesBack == ~device ~> (device \/ Scannable \/ mishap # None)

================================================================================
