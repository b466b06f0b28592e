-------------------------------- MODULE EventBus --------------------------------
(***************************************************************************)
(* server-go's EventBus: a set of subscriber channels, each with a buffer. *)
(* Publish copies the set under the mutex and then, without it, offers the *)
(* event to one channel after the other; a full channel loses it. Several  *)
(* goroutines publish at once, and a channel may be unsubscribed while a   *)
(* publisher still holds it.                                               *)
(*                                                                         *)
(* The operators say what each call does to the bus; the modules that use  *)
(* the bus say when it is called.                                          *)
(***************************************************************************)
EXTENDS Naturals, Sequences

CONSTANTS
    Channels,    \* the subscribers' channels
    Publishers,  \* the goroutines that call Publish
    Capacity     \* the buffer of a channel (256 in the code)

ASSUME CapacityAssumption == Capacity \in Nat \ {0}

VARIABLES
    subs,     \* EventBus.subs
    buffer,   \* the events in each channel
    sending   \* the channels each publisher has copied and not served yet

bus == <<subs, buffer, sending>>

BusInit ==
    /\ subs = {}
    /\ buffer = [c \in Channels |-> <<>>]
    /\ sending = [p \in Publishers |-> {}]

\* A channel nobody holds any more.
Released(c) == c \notin subs /\ \A p \in Publishers : c \notin sending[p]

\* A new channel, empty.
Subscribe(c) ==
    /\ Released(c)
    /\ subs' = subs \cup {c}
    /\ buffer' = [buffer EXCEPT ![c] = <<>>]
    /\ UNCHANGED sending

Unsubscribe(c) ==
    /\ subs' = subs \ {c}
    /\ UNCHANGED sending

\* Publish begins: the subscribers of this moment.
CopySubs(p) ==
    /\ sending' = [sending EXCEPT ![p] = subs]
    /\ UNCHANGED <<subs, buffer>>

Full(c) == Len(buffer[c]) >= Capacity

\* Mutant of Offer: the send waits for room in the channel.
OfferWaits(p, c, event) ==
    /\ c \in sending[p]
    /\ ~Full(c)
    /\ sending' = [sending EXCEPT ![p] = @ \ {c}]
    /\ buffer' = [buffer EXCEPT ![c] = Append(@, event)]
    /\ UNCHANGED subs

\* Mutant of Offer: the buffer has no end.
OfferUnbounded(p, c, event) ==
    /\ c \in sending[p]
    /\ sending' = [sending EXCEPT ![p] = @ \ {c}]
    /\ buffer' = [buffer EXCEPT ![c] = Append(@, event)]
    /\ UNCHANGED subs

\* One turn of Publish's loop: a send that never blocks. The order of the turns
\* is the map's, that is any.
Offer(p, c, event) ==
    /\ c \in sending[p]
    /\ sending' = [sending EXCEPT ![p] = @ \ {c}]
    /\ buffer' = IF Full(c) THEN buffer ELSE [buffer EXCEPT ![c] = Append(@, event)]
    /\ UNCHANGED subs

\* The subscriber takes the next event.
Receive(c) ==
    /\ buffer[c] # <<>>
    /\ buffer' = [buffer EXCEPT ![c] = Tail(@)]

================================================================================
