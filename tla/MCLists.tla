-------------------------------- MODULE MCLists --------------------------------
(* An instance of Lists for TLC. *)
EXTENDS Lists

MCContacts == {"a"}
MCRequests == {"r1", "r2"}
MCEmojis == {"x", "y"}

\* The badge, a reaction, or the Status tab.
MCListLoads ==
    {[messages |-> 2, reactions |-> 0, posts |-> 0],
     [messages |-> 1, reactions |-> 3, posts |-> 0],
     [messages |-> 0, reactions |-> 0, posts |-> 4]}

MCNewsletters == {"n1", "n2"}
MCPolls == {"p1", "p2"}
MCChanges == {"f1"}

\* One channel is followed, and one that is not has left its chat; or both are
\* followed, and one has posted.
MCStarts ==
    {[followed |-> {"n1"}, stored |-> {"n2"}],
     [followed |-> {"n1", "n2"}, stored |-> {"n1"}]}

MCIncoming == {"m1", "m2"}
MCPayloads == {"extended", "image", "ptt", "sticker"}
MCPortraits == {"c1"}
MCAskers == {"a1", "a2"}

================================================================================
