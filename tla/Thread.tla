-------------------------------- MODULE Thread ---------------------------------
(***************************************************************************)
(* What the store promises about the messages of one chat, whatever live   *)
(* traffic, receipts, /send and history syncs do to it in whatever order:  *)
(* it holds each message once; it has room for so many; when there is none *)
(* left, the oldest makes way for a newer one; and all that ever changes   *)
(* in a message that is held is its status, which once known is known.     *)
(***************************************************************************)
EXTENDS Integers, FiniteSets

CONSTANT MaxMessages

VARIABLE held  \* the messages

Init == held = {}

Fresh(m) == \A other \in held : other.id # m.id

Take(m) ==
    /\ Fresh(m)
    /\ Cardinality(held) < MaxMessages
    /\ held' = held \cup {m}

\* One of the oldest makes way, and it is no newer than what replaces it.
Replace(old, m) ==
    /\ Fresh(m)
    /\ Cardinality(held) = MaxMessages
    /\ \A other \in held \cup {m} : old.time <= other.time
    /\ held' = (held \ {old}) \cup {m}

Mark(old, new) ==
    /\ new.id = old.id
    /\ new.time = old.time
    /\ new.status # ""
    /\ held' = (held \ {old}) \cup {new}

Next ==
    \/ \E m \in held' : Take(m)
    \/ \E old \in held, m \in held' : Replace(old, m) \/ Mark(old, m)

Spec == Init /\ [][Next]_held

================================================================================
