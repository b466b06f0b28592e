-------------------------------- MODULE Sessions --------------------------------
(***************************************************************************)
(* The link to the WhatsApp account as server-go keeps it and tells it:    *)
(* whatsmeow's device store, AppState.phone, the handlers that change them *)
(* and publish "linked" and "logged_out", and the WebSocket sessions that  *)
(* send the app a status snapshot and then the events of the EventBus.     *)
(*                                                                         *)
(* The account is linked or not (IsLinked: AppState.phone is not empty);   *)
(* numbers are left out. All other traffic on the bus is the event         *)
(* "other". The model begins when main has connected and the HTTP server   *)
(* listens. A name in Channels stands for one connection after another.    *)
(***************************************************************************)
EXTENDS EventBus

CONSTANT Logouts   \* whether POST /logout is used

ASSUME HandlersAssumption == Publishers = {"library", "logout", "others"} /\ Logouts \in BOOLEAN

VARIABLES
    device,   \* whether whatsmeow's store holds a session (cli.Store.ID)
    phone,    \* whether AppState.phone is set
    work,     \* what each handler still has to do
    asked,    \* history: POST /logout was used
    stage,    \* where each WebSocket handler is
    left,     \* connections the app has closed
    heard,    \* what the app was last told of the link
    told      \* history: the latest news of the link was put into the channel

link == <<device, phone, asked>>
ws == <<stage, left, heard>>
vars == <<subs, buffer, sending, device, phone, work, asked, stage, left, heard, told>>

Set(linked) == [do |-> "set", linked |-> linked]
Tell(event) == [do |-> "tell", event |-> event]
Send(event) == [do |-> "send", event |-> event]

Idle(h) == work[h] = <<>>
AtRest == \A h \in Publishers : Idle(h)

Init ==
    /\ BusInit
    /\ device \in BOOLEAN
    /\ phone = device
    /\ work = [h \in Publishers |-> <<>>]
    /\ asked = FALSE
    /\ stage = [c \in Channels |-> "none"]
    /\ left = {}
    /\ heard = [c \in Channels |-> FALSE]
    /\ told = [c \in Channels |-> FALSE]

--------------------------------------------------------------------------------
(* What the handlers do, in order *)

\* onLinked, and handleEvent for Connected. The store's copy of the number, which
\* no route reads, is left out.
OnLinked == <<Set(TRUE), Tell("linked")>>

\* Mutant of OnLoggedOut: the app is not told.
OnLoggedOutSilent == <<Set(FALSE)>>

\* Mutant of OnLoggedOut: the app is told, and the status stays linked.
OnLoggedOutForgetful == <<Tell("logged_out")>>

OnLoggedOut == <<Set(FALSE), Tell("logged_out")>>

Starts(h, steps) ==
    /\ Idle(h)
    /\ work' = [work EXCEPT ![h] = steps]
    /\ UNCHANGED <<subs, buffer, sending, phone, stage, left, heard, told>>

\* whatsmeow has stored the new session.
PairSuccess ==
    /\ ~device
    /\ device' = TRUE
    /\ Starts("library", OnLinked)
    /\ UNCHANGED asked

Connected ==
    /\ device
    /\ Starts("library", OnLinked)
    /\ UNCHANGED <<device, asked>>

\* The phone has removed this device; whatsmeow has deleted the session.
LoggedOut ==
    /\ device
    /\ device' = FALSE
    /\ Starts("library", OnLoggedOut)
    /\ UNCHANGED asked

\* POST /logout: whatsmeow's Logout may fail, and the handler ignores the error.
Logout ==
    /\ Logouts
    /\ device' \in {device, FALSE}
    /\ asked' = TRUE
    /\ Starts("logout", OnLoggedOut)

\* Messages, receipts, calls, QR codes: all that is no news of the link.
OtherNews ==
    /\ Starts("others", <<Tell("other")>>)
    /\ UNCHANGED <<device, asked>>

--------------------------------------------------------------------------------
(* The steps of a handler *)

Doing(h, what) == ~Idle(h) /\ Head(work[h]).do = what

SetPhone(h) ==
    /\ Doing(h, "set")
    /\ phone' = Head(work[h]).linked
    /\ work' = [work EXCEPT ![h] = Tail(@)]
    /\ UNCHANGED <<subs, buffer, sending, device, asked, stage, left, heard, told>>

Publish(h) ==
    /\ Doing(h, "tell")
    /\ CopySubs(h)
    /\ work' = [work EXCEPT ![h] = <<Send(Head(@).event)>> \o Tail(@)]
    /\ told' = IF Head(work[h]).event = "other" THEN told
               ELSE [c \in Channels |-> FALSE]
    /\ UNCHANGED <<link, ws>>

Deliver(h, c) ==
    /\ Doing(h, "send")
    /\ LET event == Head(work[h]).event
       IN  /\ Offer(h, c, event)
           /\ told' = IF event = "other" \/ Full(c) THEN told ELSE [told EXCEPT ![c] = TRUE]
    /\ UNCHANGED <<link, ws, work>>

Published(h) ==
    /\ Doing(h, "send")
    /\ sending[h] = {}
    /\ work' = [work EXCEPT ![h] = Tail(@)]
    /\ UNCHANGED <<bus, link, ws, told>>

--------------------------------------------------------------------------------
(* A WebSocket session *)

\* The upgrade, and the snapshot of the state.
Open(c) ==
    /\ stage[c] = "none"
    /\ Released(c)
    /\ stage' = [stage EXCEPT ![c] = "snapshot"]
    /\ heard' = [heard EXCEPT ![c] = phone]
    /\ UNCHANGED <<bus, link, work, left, told>>

\* The handler returns; the name is free for the app's next connection.
Return(c) ==
    /\ c \in left
    /\ stage' = [stage EXCEPT ![c] = "none"]
    /\ left' = left \ {c}
    /\ heard' = [heard EXCEPT ![c] = FALSE]
    /\ told' = [told EXCEPT ![c] = FALSE]

\* The snapshot is sent, or the connection is found closed.
Greet(c) ==
    /\ stage[c] = "snapshot"
    /\ \/ stage' = [stage EXCEPT ![c] = "greeted"] /\ UNCHANGED <<left, heard, told>>
       \/ Return(c)
    /\ UNCHANGED <<bus, link, work>>

Join(c) ==
    /\ stage[c] = "greeted"
    /\ Subscribe(c)
    /\ stage' = [stage EXCEPT ![c] = "stream"]
    /\ told' = [told EXCEPT ![c] = FALSE]
    /\ UNCHANGED <<link, work, left, heard>>

\* What the app understands of an event.
News(event, before) ==
    CASE event = "linked" -> TRUE
      [] event = "logged_out" -> FALSE
      [] OTHER -> before

\* The main loop: the next event goes to the app, or into a connection whose
\* end has not been noticed.
Write(c) ==
    /\ stage[c] = "stream"
    /\ Receive(c)
    /\ heard' = [heard EXCEPT ![c] = News(Head(buffer[c]), @)]
    /\ UNCHANGED <<subs, sending, link, work, stage, left, told>>

\* A write to a closed connection fails: the handler unsubscribes and returns.
WriteFails(c) ==
    /\ stage[c] = "stream"
    /\ Return(c)
    /\ buffer[c] # <<>>
    /\ buffer' = [buffer EXCEPT ![c] = <<>>]
    /\ Unsubscribe(c)
    /\ UNCHANGED <<link, work>>

\* The app closes the connection or loses it. Only the reader sees it, and its
\* return ends nothing else.
Leave(c) ==
    /\ stage[c] \in {"snapshot", "greeted", "stream"}
    /\ c \notin left
    /\ left' = left \cup {c}
    /\ UNCHANGED <<bus, link, work, stage, heard, told>>

--------------------------------------------------------------------------------

HandlerStep(h) ==
    SetPhone(h) \/ Publish(h) \/ (\E c \in Channels : Deliver(h, c)) \/ Published(h)

Next ==
    \/ PairSuccess \/ Connected \/ LoggedOut \/ Logout \/ OtherNews
    \/ \E h \in Publishers : HandlerStep(h)
    \/ \E c \in Channels :
        Open(c) \/ Greet(c) \/ Join(c) \/ Write(c) \/ WriteFails(c) \/ Leave(c)

Spec == Init /\ [][Next]_vars

--------------------------------------------------------------------------------

Steps ==
    [do : {"set"}, linked : BOOLEAN]
        \cup [do : {"tell", "send"}, event : {"linked", "logged_out", "other"}]

\* Types, and the bound of the channels.
TypeOK ==
    /\ subs \in SUBSET Channels
    /\ buffer \in [Channels -> Seq({"linked", "logged_out", "other"})]
    /\ \A c \in Channels : Len(buffer[c]) <= Capacity
    /\ sending \in [Publishers -> SUBSET Channels]
    /\ device \in BOOLEAN
    /\ phone \in BOOLEAN
    /\ work \in [Publishers -> Seq(Steps)]
    /\ asked \in BOOLEAN
    /\ stage \in [Channels -> {"none", "snapshot", "greeted", "stream"}]
    /\ left \in SUBSET Channels
    /\ heard \in [Channels -> BOOLEAN]
    /\ told \in [Channels -> BOOLEAN]

\* A session whose stream is written out.
Drained(c) == stage[c] = "stream" /\ buffer[c] = <<>>

\* As long as the link changes by the library's events only, a session that the
\* latest news reached has told the app how the link stands: set and publish
\* keep their order, and nothing older overtakes it in the channel.
LastWord ==
    ~asked /\ AtRest => \A c \in Channels : Drained(c) /\ told[c] => heard[c] = phone

\* The status the server reports and the session it holds agree at rest, as
\* long as nobody logs out by request: no event is handled halfway.
StatusHonest == ~asked /\ AtRest => phone = device

\* Publish never waits: whoever has begun can go on, also when the app has closed
\* its connection without the server noticing and the channel is full.
NeverBlocked == \A h \in Publishers : ~Idle(h) => ENABLED HandlerStep(h)

\* A drained session has told the app how the link stands ("on connect send the
\* status snapshot, then stream events").
InTouch == ~asked /\ AtRest => \A c \in Channels : Drained(c) => heard[c] = phone

================================================================================
