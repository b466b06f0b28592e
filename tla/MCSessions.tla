------------------------------ MODULE MCSessions ------------------------------
(* Instances of Sessions for TLC. *)
EXTENDS Sessions, TLC

MCPublishers == {"library", "logout", "others"}

\* Connections are alike.
Connections == Permutations(Channels)

================================================================================
