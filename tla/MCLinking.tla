------------------------------- MODULE MCLinking -------------------------------
(* Instances of Linking for TLC. *)
EXTENDS Linking

MCSlots == {"s1", "s2"}
MCRequests == {"p1"}
MCPhones == {"c1"}

================================================================================
