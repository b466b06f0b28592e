------------------------------- MODULE CallBook --------------------------------
(***************************************************************************)
(* What the call registry and the call history promise together about the  *)
(* incoming calls, whatever requests and callbacks race: a call rings, is  *)
(* accepted or rejected once and for good; it enters the book as missed    *)
(* while it is undecided, loses the mark only by being accepted and never  *)
(* gets it back; nothing else enters the book, though old entries fall off.*)
(***************************************************************************)
CONSTANT Incoming

VARIABLES
    stage,  \* what has become of each call
    book    \* the entries of the call history that are about incoming calls

Missed(c) == [id |-> c, missed |-> TRUE]
Answered(e) == [e EXCEPT !.missed = FALSE]

Init ==
    /\ stage = [c \in Incoming |-> "unknown"]
    /\ book = {}

Ring(c) ==
    /\ stage[c] = "unknown"
    /\ stage' = [stage EXCEPT ![c] = "pending"]
    /\ UNCHANGED book

Log(c) ==
    /\ stage[c] = "pending"
    /\ book' \subseteq book \cup {Missed(c)}
    /\ UNCHANGED stage

Decide(c) ==
    /\ stage[c] = "pending"
    /\ \E verdict \in {"accepted", "rejected"} : stage' = [stage EXCEPT ![c] = verdict]
    /\ UNCHANGED book

MarkAnswered(c) ==
    /\ stage[c] = "accepted"
    /\ book' = {IF e.id = c THEN Answered(e) ELSE e : e \in book}
    /\ UNCHANGED stage

\* An entry about another call pushes old ones out.
FallOff ==
    /\ book' \subseteq book
    /\ UNCHANGED stage

Next ==
    \/ \E c \in Incoming : Ring(c) \/ Log(c) \/ Decide(c) \/ MarkAnswered(c)
    \/ FallOff

Spec == Init /\ [][Next]_<<stage, book>>

================================================================================
