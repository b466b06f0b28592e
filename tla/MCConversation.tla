---------------------------- MODULE MCConversation ----------------------------
(* Instances of Conversation for TLC. *)
EXTENDS Conversation

\* m2 and m3 have the same time; s is sent through /send.
MCTied == {"m2", "m3", "s"}
MCTiedAt == [m2 |-> 2, m3 |-> 2, s |-> 3]
MCTwo == {"m1", "s"}
MCTwoAt == [m1 |-> 1, s |-> 2]
MCThread == {"m1", "m2", "m3", "m4"}
MCThreadAt == [m1 |-> 1, m2 |-> 2, m3 |-> 3, m4 |-> 4]
MCNone == {}
MCJustS == {"s"}
MCJustM4 == {"m4"}
MCM3AndS == {"m3", "s"}
MCExact == {0}
MCEarly == {0, -2}
MCReceipts == {"played", "read"}
MCAllReceipts == {"delivered", "read", "read-self", "played"}

================================================================================
