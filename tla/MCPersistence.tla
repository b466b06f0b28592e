----------------------------- MODULE MCPersistence -----------------------------
(* Instances of Persistence for TLC. *)
EXTENDS Persistence

MCCopied == {"phone"}
MCShared == {"chats"}
MCTickerOnly == {"ticker"}

================================================================================
