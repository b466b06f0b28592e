----------------------------- MODULE SessionsProofs -----------------------------
(***************************************************************************)
(* Proofs about EventBus and Sessions, for any number of connections and   *)
(* any capacity of their channels.                                         *)
(***************************************************************************)
EXTENDS Sessions, TLAPS

USE CapacityAssumption, HandlersAssumption

Events == {"linked", "logged_out", "other"}

--------------------------------------------------------------------------------
(* Types *)

\* The bus.
BusOK ==
    /\ subs \in SUBSET Channels
    /\ buffer \in [Channels -> Seq(Events)]
    /\ \A c \in Channels : Len(buffer[c]) <= Capacity
    /\ sending \in [Publishers -> SUBSET Channels]

LEMMA SubscribeTyped ==
    ASSUME BusOK, NEW c \in Channels, Subscribe(c) PROVE BusOK'
BY DEF BusOK, Subscribe, Released

LEMMA CopyTyped ==
    ASSUME BusOK, NEW p \in Publishers, CopySubs(p) PROVE BusOK'
BY DEF BusOK, CopySubs

LEMMA OfferTyped ==
    ASSUME BusOK, NEW p \in Publishers, NEW c \in Channels, NEW event \in Events,
           Offer(p, c, event)
    PROVE BusOK'
<1>1. sending' \in [Publishers -> SUBSET Channels] /\ subs' \in SUBSET Channels
  BY DEF BusOK, Offer
<1>2. CASE Full(c)
  BY <1>1, <1>2 DEF BusOK, Offer
<1>3. CASE ~Full(c)
  <2>1. buffer[c] \in Seq(Events) /\ Len(buffer[c]) \in Nat /\ Len(buffer[c]) < Capacity
    BY <1>3 DEF BusOK, Full
  <2>2. /\ Append(buffer[c], event) \in Seq(Events)
        /\ Len(Append(buffer[c], event)) <= Capacity
    BY <2>1
  <2>3. buffer' = [buffer EXCEPT ![c] = Append(buffer[c], event)]
    BY <1>3 DEF Offer
  <2> QED BY <1>1, <2>2, <2>3 DEF BusOK
<1> QED BY <1>2, <1>3

LEMMA ReceiveTyped ==
    ASSUME BusOK, NEW c \in Channels, Receive(c), UNCHANGED <<subs, sending>>
    PROVE BusOK'
<1>1. buffer[c] \in Seq(Events) /\ buffer[c] # <<>>
  BY DEF BusOK, Receive
<1>2. Tail(buffer[c]) \in Seq(Events) /\ Len(Tail(buffer[c])) <= Len(buffer[c])
  BY <1>1
<1>3. buffer' = [buffer EXCEPT ![c] = Tail(buffer[c])]
  BY DEF Receive
<1>4. Len(buffer[c]) <= Capacity /\ Len(buffer[c]) \in Nat
  BY <1>1 DEF BusOK
<1>5. Len(Tail(buffer[c])) <= Capacity
  BY <1>1, <1>2, <1>4
<1> QED BY <1>2, <1>3, <1>5 DEF BusOK

\* The handlers.
WorkOK == work \in [Publishers -> Seq(Steps)]

\* The link and the sessions.
RestOK ==
    /\ device \in BOOLEAN
    /\ phone \in BOOLEAN
    /\ asked \in BOOLEAN
    /\ stage \in [Channels -> {"none", "snapshot", "greeted", "stream"}]
    /\ left \in SUBSET Channels
    /\ heard \in [Channels -> BOOLEAN]
    /\ told \in [Channels -> BOOLEAN]

LEMMA TypeSplit == TypeOK <=> BusOK /\ WorkOK /\ RestOK
<1>1. TypeOK => BusOK
  BY DEF TypeOK, BusOK, Events
<1>2. TypeOK => WorkOK /\ RestOK
  BY DEF TypeOK, WorkOK, RestOK
<1>3. BusOK /\ WorkOK /\ RestOK => TypeOK
  BY DEF TypeOK, BusOK, WorkOK, RestOK, Events
<1> QED BY <1>1, <1>2, <1>3

--------------------------------------------------------------------------------

LEMMA ProgramsTyped ==
    /\ OnLinked \in Seq(Steps)
    /\ OnLoggedOut \in Seq(Steps)
    /\ <<Tell("other")>> \in Seq(Steps)
<1>1. Set(TRUE) \in Steps /\ Set(FALSE) \in Steps
  BY DEF Set, Steps
<1>2. Tell("linked") \in Steps /\ Tell("logged_out") \in Steps /\ Tell("other") \in Steps
  BY DEF Tell, Steps
<1>3. ASSUME NEW a \in Steps, NEW b \in Steps
      PROVE <<a>> \in Seq(Steps) /\ <<a, b>> \in Seq(Steps)
  OBVIOUS
<1>4. <<Tell("other")>> \in Seq(Steps)
  BY <1>2, <1>3
<1>5. OnLinked \in Seq(Steps)
  BY <1>1, <1>2, <1>3 DEF OnLinked
<1>6. OnLoggedOut \in Seq(Steps)
  BY <1>1, <1>2, <1>3 DEF OnLoggedOut
<1> QED BY <1>4, <1>5, <1>6

\* What is left of a handler's work after each of its steps.
LEMMA WorkShrinks ==
    ASSUME WorkOK, NEW h \in Publishers, ~Idle(h)
    PROVE /\ Head(work[h]) \in Steps
          /\ Tail(work[h]) \in Seq(Steps)
BY DEF WorkOK, Idle

LEMMA EventTyped ==
    ASSUME WorkOK, NEW h \in Publishers, Doing(h, "tell") \/ Doing(h, "send")
    PROVE /\ Head(work[h]).event \in Events
          /\ Send(Head(work[h]).event) \in Steps
<1>1. Head(work[h]) \in Steps
  BY WorkShrinks DEF Doing
<1>2. Head(work[h]).event \in Events
  BY <1>1 DEF Steps, Events, Doing
<1> QED BY <1>2 DEF Send, Steps, Events

LEMMA LinkedTyped ==
    ASSUME WorkOK, NEW h \in Publishers, Doing(h, "set")
    PROVE Head(work[h]).linked \in BOOLEAN
<1>1. Head(work[h]) \in Steps
  BY WorkShrinks DEF Doing
<1> QED BY <1>1 DEF Steps, Doing

LEMMA StartsTyped ==
    ASSUME TypeOK, NEW h \in Publishers, NEW steps \in Seq(Steps), Starts(h, steps),
           device' \in BOOLEAN, asked' \in BOOLEAN
    PROVE TypeOK'
<1>1. BusOK /\ WorkOK /\ RestOK
  BY TypeSplit
<1>2. BusOK'
  BY <1>1 DEF BusOK, Starts
<1>3. WorkOK'
  BY <1>1 DEF WorkOK, Starts
<1>4. RestOK'
  BY <1>1 DEF RestOK, Starts
<1> QED BY <1>2, <1>3, <1>4 DEF TypeOK, BusOK, WorkOK, RestOK, Events

LEMMA TypeStep ==
    ASSUME TypeOK, [Next]_vars
    PROVE TypeOK'
<1>1. BusOK /\ WorkOK /\ RestOK
  BY TypeSplit
<1>2. BusOK' /\ WorkOK' /\ RestOK' => TypeOK'
  BY DEF TypeOK, BusOK, WorkOK, RestOK, Events
<1>3. CASE PairSuccess \/ Connected \/ LoggedOut \/ Logout \/ OtherNews
  <2>1. \E h \in Publishers, steps \in Seq(Steps) : Starts(h, steps)
    BY <1>3, ProgramsTyped DEF PairSuccess, Connected, LoggedOut, Logout, OtherNews
  <2>2. device' \in BOOLEAN /\ asked' \in BOOLEAN
    BY <1>1, <1>3 DEF RestOK, PairSuccess, Connected, LoggedOut, Logout, OtherNews
  <2> QED BY <2>1, <2>2, StartsTyped
<1>4. ASSUME NEW h \in Publishers, SetPhone(h) PROVE TypeOK'
  <2>1. BusOK'
    BY <1>1, <1>4 DEF BusOK, SetPhone
  <2>2. WorkOK'
    BY <1>1, <1>4, WorkShrinks DEF WorkOK, SetPhone, Doing
  <2>3. RestOK'
    BY <1>1, <1>4, LinkedTyped DEF RestOK, SetPhone
  <2> QED BY <1>2, <2>1, <2>2, <2>3
<1>5. ASSUME NEW h \in Publishers, Publish(h) PROVE TypeOK'
  <2>1. BusOK'
    BY <1>1, <1>5, CopyTyped DEF Publish
  <2>2. WorkOK'
    <3>1. <<Send(Head(work[h]).event)>> \o Tail(work[h]) \in Seq(Steps)
      BY <1>1, <1>5, WorkShrinks, EventTyped DEF Publish, Doing
    <3> QED BY <1>1, <1>5, <3>1 DEF WorkOK, Publish
  <2>3. RestOK'
    BY <1>1, <1>5 DEF RestOK, Publish, link, ws
  <2> QED BY <1>2, <2>1, <2>2, <2>3
<1>6. ASSUME NEW h \in Publishers, NEW c \in Channels, Deliver(h, c) PROVE TypeOK'
  <2>1. BusOK'
    BY <1>1, <1>6, EventTyped, OfferTyped DEF Deliver
  <2>2. WorkOK'
    BY <1>1, <1>6 DEF WorkOK, Deliver
  <2>3. RestOK'
    BY <1>1, <1>6 DEF RestOK, Deliver, link, ws
  <2> QED BY <1>2, <2>1, <2>2, <2>3
<1>7. ASSUME NEW h \in Publishers, Published(h) PROVE TypeOK'
  <2>1. BusOK'
    BY <1>1, <1>7 DEF BusOK, Published, bus
  <2>2. WorkOK'
    BY <1>1, <1>7, WorkShrinks DEF WorkOK, Published, Doing
  <2>3. RestOK'
    BY <1>1, <1>7 DEF RestOK, Published, link, ws
  <2> QED BY <1>2, <2>1, <2>2, <2>3
<1>8. ASSUME NEW c \in Channels, Open(c) \/ Greet(c) \/ Leave(c) PROVE TypeOK'
  <2>1. BusOK' /\ WorkOK'
    BY <1>1, <1>8 DEF BusOK, WorkOK, Open, Greet, Leave, bus
  <2>2. RestOK'
    BY <1>1, <1>8 DEF RestOK, Open, Greet, Return, Leave, link
  <2> QED BY <1>2, <2>1, <2>2
<1>9. ASSUME NEW c \in Channels, Join(c) PROVE TypeOK'
  <2>1. BusOK'
    BY <1>1, <1>9, SubscribeTyped DEF Join
  <2>2. WorkOK' /\ RestOK'
    BY <1>1, <1>9 DEF WorkOK, RestOK, Join, link
  <2> QED BY <1>2, <2>1, <2>2
<1>10. ASSUME NEW c \in Channels, Write(c) PROVE TypeOK'
  <2>1. BusOK'
    BY <1>1, <1>10, ReceiveTyped DEF Write
  <2>2. News(Head(buffer[c]), heard[c]) \in BOOLEAN
    BY <1>1 DEF News, RestOK
  <2>3. WorkOK' /\ RestOK'
    BY <1>1, <1>10, <2>2 DEF WorkOK, RestOK, Write, link
  <2> QED BY <1>2, <2>1, <2>3
<1>11. ASSUME NEW c \in Channels, WriteFails(c) PROVE TypeOK'
  <2>1. <<>> \in Seq(Events) /\ Len(<<>>) <= Capacity
    OBVIOUS
  <2>2. BusOK'
    BY <1>1, <1>11, <2>1 DEF BusOK, WriteFails, Unsubscribe
  <2>3. WorkOK' /\ RestOK'
    BY <1>1, <1>11 DEF WorkOK, RestOK, WriteFails, Return, link
  <2> QED BY <1>2, <2>2, <2>3
<1>12. CASE UNCHANGED vars
  BY <1>12 DEF vars, TypeOK
<1> QED
  BY <1>3, <1>4, <1>5, <1>6, <1>7, <1>8, <1>9, <1>10, <1>11, <1>12 DEF Next, HandlerStep

\* No channel ever holds more than its buffer, and every variable keeps its type.
THEOREM TypeCorrect == Spec => []TypeOK
<1>1. Init => TypeOK
  <2> SUFFICES ASSUME Init PROVE TypeOK
    OBVIOUS
  <2>1. BusOK
    BY DEF Init, BusInit, BusOK
  <2>2. WorkOK
    BY DEF Init, WorkOK
  <2>3. RestOK
    BY DEF Init, RestOK
  <2> QED BY <2>1, <2>2, <2>3, TypeSplit
<1>2. TypeOK /\ [Next]_vars => TypeOK'
  BY TypeStep
<1> QED BY <1>1, <1>2, PTL DEF Spec

--------------------------------------------------------------------------------
(* The library's handler and the status *)

NewsOf(linked) == IF linked THEN "linked" ELSE "logged_out"

\* How far the library's handler has come with the link as the device has it.
LibraryAt ==
    \/ work["library"] = <<>> /\ phone = device
    \/ work["library"] = <<Set(device), Tell(NewsOf(device))>>
    \/ work["library"] = <<Tell(NewsOf(device))>> /\ phone = device
    \/ work["library"] = <<Send(NewsOf(device))>> /\ phone = device

HandlersInv ==
    ~asked =>
        /\ work["logout"] = <<>>
        /\ work["others"] \in {<<>>, <<Tell("other")>>, <<Send("other")>>}
        /\ LibraryAt

LEMMA Names == "library" \in Publishers /\ "logout" \in Publishers /\ "others" \in Publishers
OBVIOUS

LEMMA OneStepWork ==
    ASSUME NEW a, NEW b
    PROVE /\ <<a>> # <<>> /\ Head(<<a>>) = a /\ Tail(<<a>>) = <<>>
          /\ <<a, b>> # <<>> /\ Head(<<a, b>>) = a /\ Tail(<<a, b>>) = <<b>>
OBVIOUS

LEMMA Kinds ==
    ASSUME NEW x
    PROVE /\ Set(x).do = "set" /\ Set(x).linked = x
          /\ Tell(x).do = "tell" /\ Tell(x).event = x
          /\ Send(x).do = "send" /\ Send(x).event = x
BY DEF Set, Tell, Send

\* What a handler that is about to do `what` has before it, without /logout.
LEMMA AboutTo ==
    ASSUME TypeOK, HandlersInv, ~asked, NEW h \in Publishers
    PROVE /\ Doing(h, "set") =>
                /\ h = "library"
                /\ work[h] = <<Set(device), Tell(NewsOf(device))>>
          /\ Doing(h, "tell") =>
                \/ h = "library" /\ work[h] = <<Tell(NewsOf(device))>> /\ phone = device
                \/ h = "others" /\ work[h] = <<Tell("other")>>
          /\ Doing(h, "send") =>
                \/ h = "library" /\ work[h] = <<Send(NewsOf(device))>> /\ phone = device
                \/ h = "others" /\ work[h] = <<Send("other")>>
<1>1. h \in {"library", "logout", "others"}
  OBVIOUS
<1>2. CASE h = "library"
  BY <1>2, OneStepWork, Kinds DEF HandlersInv, LibraryAt, Doing, Idle
<1>3. CASE h = "logout"
  BY <1>3 DEF HandlersInv, Doing, Idle
<1>4. CASE h = "others"
  BY <1>4, OneStepWork, Kinds DEF HandlersInv, Doing, Idle
<1> QED BY <1>1, <1>2, <1>3, <1>4

LEMMA HandlersStep ==
    ASSUME TypeOK, HandlersInv, [Next]_vars
    PROVE HandlersInv'
<1> SUFFICES ASSUME ~asked' PROVE HandlersInv'
  BY DEF HandlersInv
<1>1. ~asked
  BY DEF Next, vars, PairSuccess, Connected, LoggedOut, Logout, OtherNews, Starts, HandlerStep,
         SetPhone, Publish, Deliver, Published, Open, Greet, Join, Write, WriteFails, Leave, link
<1>2. /\ work["logout"] = <<>>
      /\ work["others"] \in {<<>>, <<Tell("other")>>, <<Send("other")>>}
      /\ LibraryAt
  BY <1>1 DEF HandlersInv
<1>3. work \in [Publishers -> Seq(Steps)] /\ device \in BOOLEAN /\ phone \in BOOLEAN
  BY DEF TypeOK
<1>4. CASE PairSuccess \/ Connected \/ LoggedOut
  <2>1. /\ work["library"] = <<>> /\ UNCHANGED phone
        /\ \/ device' = TRUE /\ work' = [work EXCEPT !["library"] = OnLinked]
           \/ device' = FALSE /\ work' = [work EXCEPT !["library"] = OnLoggedOut]
    BY <1>3, <1>4 DEF PairSuccess, Connected, LoggedOut, Starts, Idle
  <2>2. work'["library"] = <<Set(device'), Tell(NewsOf(device'))>>
    BY <1>3, <2>1, Names DEF OnLinked, OnLoggedOut, NewsOf
  <2>3. work'["logout"] = work["logout"] /\ work'["others"] = work["others"]
    BY <1>3, <2>1, Names
  <2> QED BY <1>2, <2>2, <2>3 DEF HandlersInv, LibraryAt
<1>5. CASE Logout
  BY <1>5 DEF Logout, HandlersInv
<1>6. CASE OtherNews
  <2>1. work' = [work EXCEPT !["others"] = <<Tell("other")>>] /\ UNCHANGED <<device, phone>>
    BY <1>6 DEF OtherNews, Starts
  <2> QED BY <1>2, <1>3, <2>1, Names DEF HandlersInv, LibraryAt
<1>7. ASSUME NEW h \in Publishers, SetPhone(h) PROVE HandlersInv'
  <2>1. h = "library" /\ work[h] = <<Set(device), Tell(NewsOf(device))>>
    BY <1>1, <1>7, AboutTo DEF SetPhone
  <2>2. phone' = device /\ UNCHANGED device
        /\ work' = [work EXCEPT !["library"] = <<Tell(NewsOf(device))>>]
    BY <1>7, <2>1, OneStepWork, Kinds DEF SetPhone
  <2> QED BY <1>2, <1>3, <2>2, Names DEF HandlersInv, LibraryAt
<1>8. ASSUME NEW h \in Publishers, Publish(h) PROVE HandlersInv'
  <2>1. \/ h = "library" /\ work[h] = <<Tell(NewsOf(device))>> /\ phone = device
        \/ h = "others" /\ work[h] = <<Tell("other")>>
    BY <1>1, <1>8, AboutTo DEF Publish
  <2>2. UNCHANGED <<device, phone>>
        /\ work' = [work EXCEPT ![h] = <<Send(Head(work[h]).event)>> \o Tail(work[h])]
    BY <1>8 DEF Publish, link
  <2>3. CASE h = "library"
    <3>1. work[h] = <<Tell(NewsOf(device))>> /\ phone = device
      BY <2>1, <2>3
    <3>2. Head(work[h]).event = NewsOf(device) /\ Tail(work[h]) = <<>>
      BY <3>1, OneStepWork, Kinds
    <3>3. <<Send(NewsOf(device))>> \o <<>> = <<Send(NewsOf(device))>>
      OBVIOUS
    <3>4. work' = [work EXCEPT !["library"] = <<Send(NewsOf(device))>>]
      BY <2>2, <2>3, <3>2, <3>3
    <3> QED BY <1>2, <1>3, <2>2, <3>1, <3>4, Names DEF HandlersInv, LibraryAt
  <2>4. CASE h = "others"
    <3>1. work[h] = <<Tell("other")>>
      BY <2>1, <2>4
    <3>2. Head(work[h]).event = "other" /\ Tail(work[h]) = <<>>
      BY <3>1, OneStepWork, Kinds
    <3>3. <<Send("other")>> \o <<>> = <<Send("other")>>
      OBVIOUS
    <3>4. work' = [work EXCEPT !["others"] = <<Send("other")>>]
      BY <2>2, <2>4, <3>2, <3>3
    <3> QED BY <1>2, <1>3, <2>2, <3>1, <3>4, Names DEF HandlersInv, LibraryAt
  <2> QED BY <2>1, <2>3, <2>4
<1>9. ASSUME NEW h \in Publishers, Published(h) PROVE HandlersInv'
  <2>1. \/ h = "library" /\ work[h] = <<Send(NewsOf(device))>> /\ phone = device
        \/ h = "others" /\ work[h] = <<Send("other")>>
    BY <1>1, <1>9, AboutTo DEF Published
  <2>2. UNCHANGED <<device, phone>> /\ work' = [work EXCEPT ![h] = <<>>]
    BY <1>9, <2>1, OneStepWork DEF Published, link
  <2> QED BY <1>2, <1>3, <2>1, <2>2, Names DEF HandlersInv, LibraryAt
<1>10. CASE UNCHANGED <<work, device, phone>>
  BY <1>2, <1>10 DEF HandlersInv, LibraryAt
<1>11. ASSUME NEW h \in Publishers, NEW c \in Channels, Deliver(h, c)
       PROVE UNCHANGED <<work, device, phone>>
  BY <1>11 DEF Deliver, link
<1>12. ASSUME NEW c \in Channels,
              Open(c) \/ Greet(c) \/ Join(c) \/ Write(c) \/ WriteFails(c) \/ Leave(c)
       PROVE UNCHANGED <<work, device, phone>>
  BY <1>12 DEF Open, Greet, Join, Write, WriteFails, Leave, link
<1>13. CASE UNCHANGED vars
  BY <1>10, <1>13 DEF vars
<1> QED
  BY <1>4, <1>5, <1>6, <1>7, <1>8, <1>9, <1>10, <1>11, <1>12, <1>13 DEF Next, HandlerStep

LEMMA HandlersStart == Init => HandlersInv
BY Names DEF Init, HandlersInv, LibraryAt

\* At rest the status agrees with the device, as long as nobody logs out by request.
THEOREM StatusAgrees == Spec => []StatusHonest
<1>1. HandlersInv => StatusHonest
  <2> SUFFICES ASSUME HandlersInv, ~asked, AtRest PROVE phone = device
    BY DEF StatusHonest
  <2>1. work["library"] = <<>>
    BY Names DEF AtRest, Idle
  <2> QED BY <2>1, OneStepWork DEF HandlersInv, LibraryAt
<1>2. HandlersInv /\ TypeOK /\ [Next]_vars => HandlersInv'
  BY HandlersStep
<1> QED BY <1>1, <1>2, HandlersStart, TypeCorrect, PTL DEF Spec

--------------------------------------------------------------------------------
(* The last word *)

\* Of the news that end with the channel s, after what was heard before, the
\* last says that the link is as `linked` tells.
Latest(s, before, linked) ==
    \/ \E i \in 1..Len(s) :
        s[i] = NewsOf(linked) /\ \A j \in 1..Len(s) : j > i => s[j] = "other"
    \/ before = linked /\ \A j \in 1..Len(s) : s[j] = "other"

LEMMA LatestOther ==
    ASSUME NEW s \in Seq(Events), NEW before, NEW linked \in BOOLEAN, Latest(s, before, linked)
    PROVE Latest(Append(s, "other"), before, linked)
<1> DEFINE t == Append(s, "other")
<1>1. /\ Len(t) = Len(s) + 1 /\ Len(s) \in Nat
      /\ \A j \in 1..Len(s) : t[j] = s[j]
      /\ t[Len(s) + 1] = "other"
      /\ \A j \in 1..Len(t) : j \in 1..Len(s) \/ j = Len(s) + 1
  BY DEF Events
<1> HIDE DEF t
<1>2. CASE \E i \in 1..Len(s) :
              s[i] = NewsOf(linked) /\ \A j \in 1..Len(s) : j > i => s[j] = "other"
  <2>1. PICK i \in 1..Len(s) :
              s[i] = NewsOf(linked) /\ \A j \in 1..Len(s) : j > i => s[j] = "other"
    BY <1>2
  <2>2. i \in 1..Len(t) /\ t[i] = NewsOf(linked)
    BY <1>1, <2>1
  <2>3. \A j \in 1..Len(t) : j > i => t[j] = "other"
    BY <1>1, <2>1
  <2> QED BY <2>2, <2>3 DEF Latest, t
<1>3. CASE before = linked /\ \A j \in 1..Len(s) : s[j] = "other"
  <2>1. \A j \in 1..Len(t) : t[j] = "other"
    BY <1>1, <1>3
  <2> QED BY <1>3, <2>1 DEF Latest, t
<1> QED BY <1>2, <1>3 DEF Latest

LEMMA LatestNews ==
    ASSUME NEW s \in Seq(Events), NEW before, NEW linked \in BOOLEAN
    PROVE Latest(Append(s, NewsOf(linked)), before, linked)
<1> DEFINE t == Append(s, NewsOf(linked))
<1>1. NewsOf(linked) \in Events
  BY DEF NewsOf, Events
<1>2. Len(t) = Len(s) + 1 /\ Len(s) \in Nat /\ t[Len(s) + 1] = NewsOf(linked)
  BY <1>1
<1> HIDE DEF t
<1>3. \A j \in 1..Len(t) : j > Len(s) + 1 => t[j] = "other"
  BY <1>2
<1>4. Len(s) + 1 \in 1..Len(t)
  BY <1>2
<1> QED BY <1>2, <1>3, <1>4 DEF Latest, t

LEMMA LatestReceived ==
    ASSUME NEW s \in Seq(Events), s # <<>>, NEW before \in BOOLEAN, NEW linked \in BOOLEAN,
           Latest(s, before, linked)
    PROVE Latest(Tail(s), News(Head(s), before), linked)
<1> DEFINE t == Tail(s)
<1>1. /\ Len(s) \in Nat /\ Len(s) >= 1 /\ Len(t) = Len(s) - 1
      /\ \A j \in 1..Len(t) : t[j] = s[j + 1] /\ j + 1 \in 1..Len(s)
      /\ Head(s) = s[1] /\ 1 \in 1..Len(s)
  OBVIOUS
<1> HIDE DEF t
<1>2. CASE \E i \in 1..Len(s) :
              s[i] = NewsOf(linked) /\ \A j \in 1..Len(s) : j > i => s[j] = "other"
  <2>1. PICK i \in 1..Len(s) :
              s[i] = NewsOf(linked) /\ \A j \in 1..Len(s) : j > i => s[j] = "other"
    BY <1>2
  <2>2. CASE i = 1
    <3>1. \A j \in 1..Len(t) : t[j] = "other"
      BY <1>1, <2>1, <2>2
    <3>2. News(Head(s), before) = linked
      BY <1>1, <2>1, <2>2 DEF News, NewsOf
    <3> QED BY <3>1, <3>2 DEF Latest, t
  <2>3. CASE i > 1
    <3>1. i - 1 \in 1..Len(t) /\ t[i - 1] = NewsOf(linked)
      <4>1. i - 1 \in 1..Len(t)
        BY <1>1, <2>3
      <4>2. (i - 1) + 1 = i
        OBVIOUS
      <4> QED BY <1>1, <2>1, <4>1, <4>2
    <3>2. \A j \in 1..Len(t) : j > i - 1 => t[j] = "other"
      <4> SUFFICES ASSUME NEW j \in 1..Len(t), j > i - 1 PROVE t[j] = "other"
        OBVIOUS
      <4>1. j + 1 > i
        OBVIOUS
      <4> QED BY <1>1, <2>1, <4>1
    <3> QED BY <3>1, <3>2 DEF Latest, t
  <2> QED BY <2>2, <2>3
<1>3. CASE before = linked /\ \A j \in 1..Len(s) : s[j] = "other"
  <2>1. \A j \in 1..Len(t) : t[j] = "other"
    BY <1>1, <1>3
  <2>2. News(Head(s), before) = linked
    BY <1>1, <1>3 DEF News
  <2> QED BY <2>1, <2>2 DEF Latest, t
<1> QED BY <1>2, <1>3 DEF Latest

\* phone has changed and the news is not out yet.
Pending == work["library"] = <<Tell(NewsOf(device))>>

WordInv ==
    ~asked /\ ~Pending =>
        \A c \in Channels : told[c] => Latest(buffer[c], heard[c], phone)

\* A step that leaves the link and the handlers as they are.
LEMMA WordKept ==
    ASSUME WordInv, ~asked, UNCHANGED <<work, device, phone>>,
           ASSUME ~Pending, \A c \in Channels : told[c] => Latest(buffer[c], heard[c], phone),
                  NEW c \in Channels, told'[c]
           PROVE  Latest(buffer'[c], heard'[c], phone)
    PROVE WordInv'
<1>1. Pending' <=> Pending
  BY DEF Pending, NewsOf
<1>2. CASE ~Pending
  <2>1. \A c \in Channels : told[c] => Latest(buffer[c], heard[c], phone)
    BY <1>2 DEF WordInv
  <2>2. \A c \in Channels : told'[c] => Latest(buffer'[c], heard'[c], phone)
    BY <1>2, <2>1
  <2> QED BY <2>2 DEF WordInv, Latest, NewsOf
<1>3. CASE Pending
  BY <1>1, <1>3 DEF WordInv
<1> QED BY <1>2, <1>3

LEMMA WordStep ==
    ASSUME TypeOK, HandlersInv, WordInv, [Next]_vars
    PROVE WordInv'
<1> SUFFICES ASSUME ~asked' PROVE WordInv'
  BY DEF WordInv
<1>1. ~asked
  BY DEF Next, vars, PairSuccess, Connected, LoggedOut, Logout, OtherNews, Starts, HandlerStep,
         SetPhone, Publish, Deliver, Published, Open, Greet, Join, Write, WriteFails, Leave, link
<1>2. /\ work \in [Publishers -> Seq(Steps)] /\ device \in BOOLEAN /\ phone \in BOOLEAN
      /\ buffer \in [Channels -> Seq(Events)]
      /\ heard \in [Channels -> BOOLEAN]
      /\ told \in [Channels -> BOOLEAN]
  BY DEF TypeOK, Events
<1>3. HandlersInv'
  BY HandlersStep
<1>4. ASSUME UNCHANGED <<phone, buffer, heard, told>>, ~Pending PROVE WordInv'
  BY <1>1, <1>4 DEF WordInv, Latest, NewsOf
<1>5. CASE PairSuccess \/ Connected \/ LoggedOut \/ OtherNews
  <2>1. UNCHANGED <<phone, buffer, heard, told>>
    BY <1>5 DEF PairSuccess, Connected, LoggedOut, OtherNews, Starts
  <2>2. CASE PairSuccess \/ Connected \/ LoggedOut
    <3>1. work["library"] = <<>>
      BY <2>2 DEF PairSuccess, Connected, LoggedOut, Starts, Idle
    <3> QED BY <2>1, <3>1, <1>4, OneStepWork DEF Pending
  <2>3. CASE OtherNews
    <3>1. work'["library"] = work["library"] /\ UNCHANGED device
      BY <1>2, <2>3 DEF OtherNews, Starts
    <3>2. Pending' <=> Pending
      BY <3>1 DEF Pending, NewsOf
    <3> QED BY <1>1, <2>1, <3>2 DEF WordInv, Latest, NewsOf
  <2> QED BY <1>5, <2>2, <2>3
<1>6. ASSUME NEW h \in Publishers, SetPhone(h) PROVE WordInv'
  <2>1. h = "library" /\ work[h] = <<Set(device), Tell(NewsOf(device))>>
    BY <1>1, <1>6, AboutTo DEF SetPhone
  <2>2. UNCHANGED device /\ work'["library"] = <<Tell(NewsOf(device))>>
    BY <1>2, <1>6, <2>1, OneStepWork DEF SetPhone
  <2>3. Pending'
    BY <2>2 DEF Pending, NewsOf
  <2> QED BY <2>3 DEF WordInv
<1>7. ASSUME NEW h \in Publishers, Publish(h) PROVE WordInv'
  <2>1. \/ h = "library" /\ work[h] = <<Tell(NewsOf(device))>>
        \/ h = "others" /\ work[h] = <<Tell("other")>>
    BY <1>1, <1>7, AboutTo DEF Publish
  <2>2. UNCHANGED <<device, phone, buffer, heard>>
    BY <1>7 DEF Publish, CopySubs, link, ws
  <2>3. CASE h = "library"
    <3>1. Head(work[h]).event # "other"
      BY <1>2, <2>1, <2>3, OneStepWork, Kinds DEF NewsOf
    <3>2. \A c \in Channels : told'[c] = FALSE
      BY <1>7, <3>1 DEF Publish
    <3> QED BY <3>2 DEF WordInv
  <2>4. CASE h = "others"
    <3>1. Head(work[h]).event = "other"
      BY <2>1, <2>4, OneStepWork, Kinds
    <3>2. UNCHANGED told /\ work'["library"] = work["library"]
      BY <1>2, <1>7, <2>4, <3>1, Names DEF Publish
    <3>3. Pending' <=> Pending
      BY <2>2, <3>2 DEF Pending, NewsOf
    <3> QED BY <1>1, <2>2, <3>2, <3>3 DEF WordInv, Latest, NewsOf
  <2> QED BY <2>1, <2>3, <2>4
<1>8. ASSUME NEW h \in Publishers, NEW c \in Channels, Deliver(h, c) PROVE WordInv'
  <2>1. \/ h = "library" /\ work[h] = <<Send(NewsOf(device))>> /\ phone = device
        \/ h = "others" /\ work[h] = <<Send("other")>>
    BY <1>1, <1>8, AboutTo DEF Deliver
  <2>2. UNCHANGED <<work, device, phone, heard>>
    BY <1>8 DEF Deliver, link, ws
  <2>3. /\ buffer' = IF Full(c) THEN buffer
                     ELSE [buffer EXCEPT ![c] = Append(buffer[c], Head(work[h]).event)]
        /\ told' = IF Head(work[h]).event = "other" \/ Full(c) THEN told
                   ELSE [told EXCEPT ![c] = TRUE]
    BY <1>8 DEF Deliver, Offer
  <2>4. ASSUME ~Pending, \A d \in Channels : told[d] => Latest(buffer[d], heard[d], phone),
               NEW d \in Channels, told'[d]
        PROVE  Latest(buffer'[d], heard'[d], phone)
    <3>1. CASE Full(c) \/ d # c
      <4>1. buffer'[d] = buffer[d] /\ told'[d] = told[d] /\ heard'[d] = heard[d]
        BY <1>2, <2>2, <2>3, <3>1
      <4> QED BY <2>4, <4>1
    <3>2. CASE ~Full(c) /\ d = c /\ h = "library"
      <4>1. Head(work[h]).event = NewsOf(phone)
        BY <2>1, <3>2, OneStepWork, Kinds
      <4>2. buffer'[d] = Append(buffer[d], NewsOf(phone)) /\ heard'[d] = heard[d]
        BY <1>2, <2>2, <2>3, <3>2, <4>1
      <4> QED BY <1>2, <4>2, LatestNews
    <3>3. CASE ~Full(c) /\ d = c /\ h = "others"
      <4>1. Head(work[h]).event = "other"
        BY <2>1, <3>3, OneStepWork, Kinds
      <4>2. buffer'[d] = Append(buffer[d], "other") /\ told'[d] = told[d] /\ heard'[d] = heard[d]
        BY <1>2, <2>2, <2>3, <3>3, <4>1
      <4>3. Latest(buffer[d], heard[d], phone)
        BY <2>4, <4>2
      <4> QED BY <1>2, <4>2, <4>3, LatestOther
    <3> QED BY <2>1, <3>1, <3>2, <3>3
  <2> QED BY <1>1, <2>2, <2>4, WordKept
<1>9. ASSUME NEW h \in Publishers, Published(h) PROVE WordInv'
  <2>1. \/ h = "library" /\ work[h] = <<Send(NewsOf(device))>>
        \/ h = "others" /\ work[h] = <<Send("other")>>
    BY <1>1, <1>9, AboutTo DEF Published
  <2>2. UNCHANGED <<device, phone, buffer, heard, told>>
    BY <1>9 DEF Published, bus, link, ws
  <2>3. CASE h = "library"
    <3>1. Tell(NewsOf(device)) # Send(NewsOf(device))
      BY Kinds
    <3>2. ~Pending
      BY <2>1, <2>3, <3>1, OneStepWork DEF Pending
    <3> QED BY <2>2, <3>2, <1>4
  <2>4. CASE h = "others"
    <3>1. work'["library"] = work["library"]
      BY <1>2, <1>9, <2>4, Names DEF Published
    <3>2. Pending' <=> Pending
      BY <2>2, <3>1 DEF Pending, NewsOf
    <3> QED BY <1>1, <2>2, <3>2 DEF WordInv, Latest, NewsOf
  <2> QED BY <2>1, <2>3, <2>4
<1>10. ASSUME NEW c \in Channels, Open(c) PROVE WordInv'
  <2>1. UNCHANGED <<work, device, phone, buffer, told>> /\ heard' = [heard EXCEPT ![c] = phone]
    BY <1>10 DEF Open, bus, link
  <2>2. ASSUME \A d \in Channels : told[d] => Latest(buffer[d], heard[d], phone),
               NEW d \in Channels, told'[d]
        PROVE  Latest(buffer'[d], heard'[d], phone)
    <3>1. Latest(buffer[d], heard[d], phone)
      BY <2>1, <2>2
    <3>2. heard'[d] = phone \/ heard'[d] = heard[d]
      BY <1>2, <2>1
    <3> QED BY <2>1, <3>1, <3>2 DEF Latest
  <2> QED BY <1>1, <2>1, <2>2, WordKept
<1>11. ASSUME NEW c \in Channels, Greet(c) \/ Join(c) \/ WriteFails(c) \/ Leave(c)
       PROVE WordInv'
  <2>1. UNCHANGED <<work, device, phone>>
        /\ \A d \in Channels :
              told'[d] => told[d] /\ buffer'[d] = buffer[d] /\ heard'[d] = heard[d]
    <3>1. CASE Greet(c)
      BY <1>2, <3>1 DEF Greet, Return, bus, link
    <3>2. CASE Join(c)
      BY <1>2, <3>2 DEF Join, Subscribe, link
    <3>3. CASE WriteFails(c)
      BY <1>2, <3>3 DEF WriteFails, Return, link
    <3>4. CASE Leave(c)
      BY <3>4 DEF Leave, bus, link
    <3> QED BY <1>11, <3>1, <3>2, <3>3, <3>4
  <2> QED BY <1>1, <2>1, WordKept
<1>12. ASSUME NEW c \in Channels, Write(c) PROVE WordInv'
  <2>1. /\ UNCHANGED <<work, device, phone, told>>
        /\ buffer[c] # <<>>
        /\ buffer' = [buffer EXCEPT ![c] = Tail(buffer[c])]
        /\ heard' = [heard EXCEPT ![c] = News(Head(buffer[c]), heard[c])]
    BY <1>12 DEF Write, Receive, link
  <2>2. ASSUME \A d \in Channels : told[d] => Latest(buffer[d], heard[d], phone),
               NEW d \in Channels, told'[d]
        PROVE  Latest(buffer'[d], heard'[d], phone)
    <3>1. Latest(buffer[d], heard[d], phone)
      BY <2>1, <2>2
    <3>2. CASE d = c
      <4>1. buffer'[d] = Tail(buffer[d]) /\ heard'[d] = News(Head(buffer[d]), heard[d])
        BY <1>2, <2>1, <3>2
      <4> QED BY <1>2, <2>1, <3>1, <3>2, <4>1, LatestReceived
    <3>3. CASE d # c
      BY <1>2, <2>1, <3>1, <3>3
    <3> QED BY <3>2, <3>3
  <2> QED BY <1>1, <2>1, <2>2, WordKept
<1>13. CASE UNCHANGED vars
  <2>1. UNCHANGED <<work, device, phone, buffer, heard, told>>
    BY <1>13 DEF vars
  <2> QED BY <1>1, <2>1, WordKept
<1>14. CASE Logout
  BY <1>14 DEF Logout, WordInv
<1> QED
  BY <1>5, <1>6, <1>7, <1>8, <1>9, <1>10, <1>11, <1>12, <1>13, <1>14 DEF Next, HandlerStep

\* Any number of sessions, channels of any size: the latest news of the link
\* that a channel took is what its session ends up telling the app.
THEOREM LastWordKept == Spec => []LastWord
<1>1. Init => WordInv
  BY DEF Init, WordInv
<1>2. TypeOK /\ HandlersInv /\ WordInv /\ [Next]_vars => WordInv'
  BY WordStep
<1>3. TypeOK /\ HandlersInv /\ [Next]_vars => HandlersInv'
  BY HandlersStep
<1>4. WordInv => LastWord
  <2> SUFFICES ASSUME WordInv, ~asked, AtRest, NEW c \in Channels, Drained(c), told[c]
               PROVE heard[c] = phone
    BY DEF LastWord
  <2>1. work["library"] = <<>>
    BY Names DEF AtRest, Idle
  <2>2. ~Pending
    BY <2>1, OneStepWork DEF Pending
  <2>3. Latest(<<>>, heard[c], phone)
    BY <2>2 DEF WordInv, Drained
  <2>4. Len(<<>>) = 0
    OBVIOUS
  <2> QED BY <2>3, <2>4 DEF Latest
<1> QED BY <1>1, <1>2, <1>3, <1>4, HandlersStart, TypeCorrect, PTL DEF Spec

--------------------------------------------------------------------------------
(***************************************************************************)
(* How a session gets out of touch. InTouch, what the comment in ws.go     *)
(* promises, fails (run sessions_gap); this is the complement of that:     *)
(* without /logout there are two ways for a session to lose what the app   *)
(* has to be told, and no other step of anybody makes it do so.            *)
(***************************************************************************)

\* The latest news is on its way to c: not published yet, or not delivered to c.
Owed(c) ==
    \/ Pending
    \/ work["library"] = <<Send(NewsOf(device))>> /\ c \in sending["library"]

\* The app will have been told how the link stands, once c is drained and the
\* handlers rest.
UpToDate(c) ==
    CASE stage[c] = "none" -> TRUE
      [] stage[c] = "stream" -> Owed(c) \/ Latest(buffer[c], heard[c], phone)
      [] OTHER -> heard[c] = phone

\* The link changes between the snapshot and the subscription,
InTheGap(c) == stage[c] \in {"snapshot", "greeted"} /\ phone' # phone

\* or the channel is full when the news comes.
Overflows(c) == Full(c) /\ c \in sending["library"] /\ c \notin sending'["library"]

KeepsUp ==
    \A c \in Channels :
        ~asked' /\ UpToDate(c) => UpToDate(c)' \/ InTheGap(c) \/ Overflows(c)

\* A session in its main loop is subscribed.
Subscribed == \A c \in Channels : stage[c] = "stream" => c \in subs

LEMMA SubscribedStep ==
    ASSUME TypeOK, Subscribed, [Next]_vars
    PROVE  Subscribed'
<1> USE DEF Subscribed, TypeOK
<1>1. ASSUME UNCHANGED <<subs, stage>> PROVE Subscribed'
  BY <1>1
<1>2. ASSUME NEW h \in Publishers, HandlerStep(h) PROVE UNCHANGED <<subs, stage>>
  BY <1>2 DEF HandlerStep, SetPhone, Publish, CopySubs, Deliver, Offer, Published, bus, ws
<1>3. ASSUME NEW c \in Channels, Open(c) \/ Greet(c) PROVE Subscribed'
  BY <1>3 DEF Open, Greet, Return, bus
<1>4. ASSUME NEW c \in Channels, Join(c) PROVE Subscribed'
  BY <1>4 DEF Join, Subscribe
<1>5. ASSUME NEW c \in Channels, WriteFails(c) PROVE Subscribed'
  BY <1>5 DEF WriteFails, Return, Unsubscribe
<1> QED
  BY <1>1, <1>2, <1>3, <1>4, <1>5
  DEF Next, PairSuccess, Connected, LoggedOut, Logout, OtherNews, Starts, Write, Leave, bus, vars

LEMMA KeepsUpStep ==
    ASSUME TypeOK, HandlersInv, Subscribed, [Next]_vars
    PROVE  KeepsUp
<1> SUFFICES ASSUME NEW c \in Channels, ~asked', UpToDate(c), ~InTheGap(c), ~Overflows(c)
             PROVE  UpToDate(c)'
  BY DEF KeepsUp
<1>1. ~asked
  BY DEF Next, vars, PairSuccess, Connected, LoggedOut, Logout, OtherNews, Starts, HandlerStep,
         SetPhone, Publish, Deliver, Published, Open, Greet, Join, Write, WriteFails, Leave, link
<1>2. /\ work \in [Publishers -> Seq(Steps)] /\ sending \in [Publishers -> SUBSET Channels]
      /\ device \in BOOLEAN /\ phone \in BOOLEAN
      /\ buffer \in [Channels -> Seq(Events)]
      /\ heard \in [Channels -> BOOLEAN]
      /\ stage \in [Channels -> {"none", "snapshot", "greeted", "stream"}]
  BY DEF TypeOK, Events
\* Nothing happens to c, and what it is owed it stays owed.
<1>3. ASSUME stage'[c] = stage[c], heard'[c] = heard[c], buffer'[c] = buffer[c], phone' = phone,
             Owed(c) => Owed(c)'
      PROVE  UpToDate(c)'
  BY <1>3 DEF UpToDate, Latest, NewsOf
<1>4. CASE PairSuccess \/ Connected \/ LoggedOut
  <2>1. work["library"] = <<>>
    BY <1>4 DEF PairSuccess, Connected, LoggedOut, Starts, Idle
  <2>2. ~Owed(c)
    BY <2>1, OneStepWork DEF Owed, Pending
  <2> QED BY <1>3, <1>4, <2>2 DEF PairSuccess, Connected, LoggedOut, Starts
<1>5. CASE OtherNews
  <2>1. work'["library"] = work["library"] /\ UNCHANGED <<device, sending, phone, stage, heard, buffer>>
    BY <1>2, <1>5 DEF OtherNews, Starts
  <2> QED BY <1>3, <2>1 DEF Owed, Pending, NewsOf
<1>6. ASSUME NEW h \in Publishers, SetPhone(h) PROVE UpToDate(c)'
  <2>1. h = "library" /\ work[h] = <<Set(device), Tell(NewsOf(device))>>
    BY <1>1, <1>6, AboutTo DEF SetPhone
  <2>2. UNCHANGED <<device, stage, heard>> /\ work'["library"] = <<Tell(NewsOf(device))>>
    BY <1>2, <1>6, <2>1, OneStepWork DEF SetPhone
  <2>3. Owed(c)'
    BY <2>2 DEF Owed, Pending, NewsOf
  <2>4. stage[c] \in {"snapshot", "greeted"} => phone' = phone
    BY DEF InTheGap
  <2> QED BY <1>2, <2>2, <2>3, <2>4 DEF UpToDate
<1>7. ASSUME NEW h \in Publishers, Publish(h) PROVE UpToDate(c)'
  <2>1. \/ h = "library" /\ work[h] = <<Tell(NewsOf(device))>> /\ phone = device
        \/ h = "others" /\ work[h] = <<Tell("other")>>
    BY <1>1, <1>7, AboutTo DEF Publish
  <2>2. /\ UNCHANGED <<device, phone, stage, heard, buffer>>
        /\ work' = [work EXCEPT ![h] = <<Send(Head(work[h]).event)>> \o Tail(work[h])]
        /\ sending' = [sending EXCEPT ![h] = subs]
    BY <1>7 DEF Publish, CopySubs, link, ws
  <2>3. CASE h = "library"
    <3>0. work[h] = <<Tell(NewsOf(device))>>
      BY <2>1, <2>3
    <3>1. Head(work[h]).event = NewsOf(device) /\ Tail(work[h]) = <<>>
      BY <3>0, OneStepWork, Kinds
    <3>2. <<Send(NewsOf(device))>> \o <<>> = <<Send(NewsOf(device))>>
      OBVIOUS
    <3>3. work'["library"] = <<Send(NewsOf(device))>> /\ sending'["library"] = subs
      BY <1>2, <2>2, <2>3, <3>1, <3>2
    <3>4. stage[c] = "stream" => Owed(c)'
      BY <2>2, <3>3 DEF Subscribed, Owed, NewsOf
    <3> QED BY <1>2, <2>2, <3>4 DEF UpToDate
  <2>4. CASE h = "others"
    <3>1. work'["library"] = work["library"] /\ sending'["library"] = sending["library"]
      BY <1>2, <2>2, <2>4, Names
    <3> QED BY <1>3, <2>2, <3>1 DEF Owed, Pending, NewsOf
  <2> QED BY <2>1, <2>3, <2>4
<1>8. ASSUME NEW h \in Publishers, NEW d \in Channels, Deliver(h, d) PROVE UpToDate(c)'
  <2>1. \/ h = "library" /\ work[h] = <<Send(NewsOf(device))>> /\ phone = device
        \/ h = "others" /\ work[h] = <<Send("other")>>
    BY <1>1, <1>8, AboutTo DEF Deliver
  <2>2. UNCHANGED <<device, phone, stage, heard, work>>
    BY <1>8 DEF Deliver, link, ws
  <2>3. /\ d \in sending[h]
        /\ sending' = [sending EXCEPT ![h] = @ \ {d}]
        /\ buffer' = IF Full(d) THEN buffer
                     ELSE [buffer EXCEPT ![d] = Append(buffer[d], Head(work[h]).event)]
    BY <1>8 DEF Deliver, Offer
  <2>4. CASE d # c
    <3>1. buffer'[c] = buffer[c] /\ (c \in sending["library"] => c \in sending'["library"])
      BY <1>2, <2>3, <2>4, Names
    <3> QED BY <1>3, <2>2, <3>1 DEF Owed, Pending, NewsOf
  <2>5. CASE d = c /\ h = "library"
    <3>1. ~Full(c)
      BY <1>2, <2>3, <2>5, Names DEF Overflows
    <3>2. Head(work[h]).event = NewsOf(phone)
      BY <2>1, <2>5, OneStepWork, Kinds DEF NewsOf
    <3>3. buffer'[c] = Append(buffer[c], NewsOf(phone))
      BY <1>2, <2>3, <2>5, <3>1, <3>2
    <3>4. Latest(buffer'[c], heard'[c], phone)
      BY <1>2, <3>3, LatestNews
    <3> QED BY <1>2, <2>2, <3>4 DEF UpToDate, Latest, NewsOf
  <2>6. CASE d = c /\ h = "others"
    <3>1. sending'["library"] = sending["library"]
      BY <1>2, <2>3, <2>6, Names
    <3>2. Owed(c) => Owed(c)'
      BY <2>2, <3>1 DEF Owed, Pending, NewsOf
    <3>3. CASE Full(c) \/ Owed(c)
      BY <1>2, <1>3, <2>2, <2>3, <2>6, <3>2, <3>3 DEF UpToDate
    <3>4. CASE ~Full(c) /\ ~Owed(c)
      <4>1. Head(work[h]).event = "other"
        BY <2>1, <2>6, OneStepWork, Kinds
      <4>2. buffer'[c] = Append(buffer[c], "other") /\ heard'[c] = heard[c]
        BY <1>2, <2>2, <2>3, <2>6, <3>4, <4>1
      <4>3. stage[c] = "stream" => Latest(buffer'[c], heard'[c], phone)
        BY <1>2, <3>4, <4>2, LatestOther DEF UpToDate
      <4> QED BY <1>2, <2>2, <4>3 DEF UpToDate, Latest, NewsOf
    <3> QED BY <3>3, <3>4
  <2> QED BY <2>1, <2>4, <2>5, <2>6
<1>9. ASSUME NEW h \in Publishers, Published(h) PROVE UpToDate(c)'
  <2>1. \/ h = "library" /\ work[h] = <<Send(NewsOf(device))>>
        \/ h = "others" /\ work[h] = <<Send("other")>>
    BY <1>1, <1>9, AboutTo DEF Published
  <2>2. UNCHANGED <<device, phone, buffer, heard, stage, sending>>
    BY <1>9 DEF Published, bus, link, ws
  <2>3. CASE h = "library"
    <3>1. Tell(NewsOf(device)) # Send(NewsOf(device))
      BY Kinds
    <3>2. sending["library"] = {}
      BY <1>9, <2>3 DEF Published
    <3>3. ~Owed(c)
      BY <2>1, <2>3, <3>1, <3>2, OneStepWork DEF Owed, Pending
    <3> QED BY <1>3, <2>2, <3>3
  <2>4. CASE h = "others"
    <3>1. work'["library"] = work["library"]
      BY <1>2, <1>9, <2>4, Names DEF Published
    <3> QED BY <1>3, <2>2, <3>1 DEF Owed, Pending, NewsOf
  <2> QED BY <2>1, <2>3, <2>4
<1>10. ASSUME NEW d \in Channels,
              Open(d) \/ Greet(d) \/ Join(d) \/ Write(d) \/ WriteFails(d) \/ Leave(d)
       PROVE  UpToDate(c)'
  <2>1. UNCHANGED <<work, device, phone, sending>>
    BY <1>10 DEF Open, Greet, Join, Subscribe, Write, WriteFails, Unsubscribe, Leave, bus, link
  <2>2. Owed(c) => Owed(c)'
    BY <2>1 DEF Owed, Pending, NewsOf
  <2>3. CASE d # c
    <3>1. stage'[c] = stage[c] /\ heard'[c] = heard[c] /\ buffer'[c] = buffer[c]
      BY <1>2, <1>10, <2>3
      DEF Open, Greet, Return, Join, Subscribe, Write, Receive, WriteFails, Leave, bus
    <3> QED BY <1>3, <2>1, <2>2, <3>1
  <2>4. CASE Open(c)
    BY <1>2, <2>4 DEF Open, UpToDate, link
  <2>5. CASE Greet(c)
    BY <1>2, <2>1, <2>5 DEF Greet, Return, UpToDate
  <2>6. CASE Join(c)
    <3>1. heard'[c] = phone' /\ buffer'[c] = <<>>
      BY <1>2, <2>6 DEF Join, Subscribe, UpToDate, link
    <3>2. Len(<<>>) = 0
      OBVIOUS
    <3>3. Latest(buffer'[c], heard'[c], phone')
      BY <3>1, <3>2 DEF Latest
    <3> QED BY <1>2, <2>6, <3>3 DEF Join, UpToDate, Latest, NewsOf
  <2>7. CASE Write(c)
    <3>1. stage[c] = "stream" /\ stage' = stage
      BY <2>7 DEF Write
    <3>2. CASE Owed(c)
      BY <2>2, <3>1, <3>2 DEF UpToDate
    <3>3. CASE Latest(buffer[c], heard[c], phone)
      <4>1. /\ buffer[c] # <<>>
            /\ buffer'[c] = Tail(buffer[c]) /\ heard'[c] = News(Head(buffer[c]), heard[c])
        BY <1>2, <2>7 DEF Write, Receive
      <4>2. Latest(buffer'[c], heard'[c], phone)
        BY <1>2, <3>3, <4>1, LatestReceived
      <4> QED BY <2>1, <3>1, <4>2 DEF UpToDate, Latest, NewsOf
    <3> QED BY <3>1, <3>2, <3>3 DEF UpToDate
  <2>8. CASE WriteFails(c)
    BY <1>2, <2>8 DEF WriteFails, Return, UpToDate
  <2>9. CASE Leave(c)
    BY <1>3, <2>1, <2>2, <2>9 DEF Leave, bus
  <2> QED BY <1>10, <2>3, <2>4, <2>5, <2>6, <2>7, <2>8, <2>9
<1>11. CASE Logout
  BY <1>11 DEF Logout
<1>12. CASE UNCHANGED vars
  BY <1>3, <1>12 DEF vars, Owed, Pending, NewsOf
<1> QED
  BY <1>4, <1>5, <1>6, <1>7, <1>8, <1>9, <1>10, <1>11, <1>12 DEF Next, HandlerStep

\* What up to date means to the app.
LEMMA UpToDateTold ==
    ASSUME NEW c \in Channels, UpToDate(c), AtRest, Drained(c)
    PROVE  heard[c] = phone
<1>1. work["library"] = <<>>
  BY Names DEF AtRest, Idle
<1>2. Latest(<<>>, heard[c], phone)
  BY <1>1, OneStepWork DEF UpToDate, Drained, Owed, Pending
<1>3. Len(<<>>) = 0
  OBVIOUS
<1> QED BY <1>2, <1>3 DEF Latest

\* Any number of sessions of any capacity: while nobody logs out by request, a
\* session that has told the app how the link stands, or has the news coming, goes
\* on so through every step, but for a change of the link between its snapshot
\* and its subscription, and for news that find its channel full.
THEOREM OnlyGapAndOverflowLose == Spec => [][KeepsUp]_vars
<1>1. Init => Subscribed
  BY DEF Init, Subscribed
<1>2. TypeOK /\ Subscribed /\ [Next]_vars => Subscribed'
  BY SubscribedStep
<1>3. TypeOK /\ HandlersInv /\ [Next]_vars => HandlersInv'
  BY HandlersStep
<1>4. TypeOK /\ HandlersInv /\ Subscribed /\ [Next]_vars => [KeepsUp]_vars
  BY KeepsUpStep
<1> QED BY <1>1, <1>2, <1>3, <1>4, HandlersStart, TypeCorrect, PTL DEF Spec

--------------------------------------------------------------------------------
(***************************************************************************)
(* Publish waits for nobody. NeverBlocked, which is about ENABLED, and     *)
(* that a handler ends, which is liveness, are out of the provers' reach;  *)
(* this is what they rest on: a handler always has a step whose guards     *)
(* hold, its own steps bring it nearer to its end, and nobody else's step, *)
(* the app's or another publisher's, gives it anything to do.              *)
(***************************************************************************)

\* The guards of one of the handler's steps hold.
CanGoOn(h) ==
    \/ Doing(h, "set") \/ Doing(h, "tell")
    \/ Doing(h, "send") /\ (sending[h] = {} \/ \E c \in Channels : c \in sending[h])

\* The handler has a step less to do, has copied the subscribers, or has one
\* subscriber less to serve.
NearerItsEnd(h) ==
    \/ work'[h] = Tail(work[h])
    \/ Doing(h, "tell") /\ Head(work'[h]).do = "send" /\ Tail(work'[h]) = Tail(work[h])
    \/ /\ work'[h] = work[h]
       /\ sending'[h] \subseteq sending[h] /\ sending'[h] # sending[h]

LeftAlone(h) == work'[h] = work[h] /\ sending'[h] = sending[h]

\* A handler that has begun goes on to its end on its own.
WaitFree ==
    \A h \in Publishers : ~Idle(h) =>
        /\ CanGoOn(h)
        /\ IF HandlerStep(h) THEN NearerItsEnd(h) ELSE LeftAlone(h)

\* A step of a handler.
LEMMA OwnStep ==
    ASSUME TypeOK, NEW h \in Publishers, HandlerStep(h)
    PROVE  /\ NearerItsEnd(h)
           /\ \A g \in Publishers \ {h} : LeftAlone(g)
<1>1. work \in [Publishers -> Seq(Steps)] /\ sending \in [Publishers -> SUBSET Channels]
  BY DEF TypeOK
<1>2. CASE SetPhone(h) \/ Published(h)
  BY <1>1, <1>2 DEF SetPhone, Published, bus, NearerItsEnd, LeftAlone
<1>3. CASE Publish(h)
  <2>1. Tail(work[h]) \in Seq(Steps) /\ Send(Head(work[h]).event) \in Steps
    BY <1>3, TypeSplit, WorkShrinks, EventTyped DEF Publish, Doing
  <2> DEFINE s == <<Send(Head(work[h]).event)>> \o Tail(work[h])
  <2>2. Head(s) = Send(Head(work[h]).event) /\ Tail(s) = Tail(work[h])
    BY <2>1
  <2>3. work' = [work EXCEPT ![h] = s]
    BY <1>3 DEF Publish
  <2> HIDE DEF s
  <2>4. Head(s).do = "send" /\ work'[h] = s
    BY <1>1, <2>2, <2>3, Kinds
  <2>5. NearerItsEnd(h)
    BY <1>3, <2>2, <2>4 DEF Publish, NearerItsEnd
  <2> QED BY <1>1, <1>3, <2>3, <2>5 DEF Publish, CopySubs, LeftAlone
<1>4. ASSUME NEW c \in Channels, Deliver(h, c)
      PROVE NearerItsEnd(h) /\ \A g \in Publishers \ {h} : LeftAlone(g)
  BY <1>1, <1>4 DEF Deliver, Offer, NearerItsEnd, LeftAlone
<1> QED BY <1>2, <1>3, <1>4 DEF HandlerStep

\* A step of the library, of the app or of a WebSocket session: the handlers that
\* are under way do not notice.
LEMMA OtherStep ==
    ASSUME TypeOK, [Next]_vars, ~\E g \in Publishers : HandlerStep(g),
           NEW h \in Publishers, ~Idle(h)
    PROVE  LeftAlone(h)
<1>1. work \in [Publishers -> Seq(Steps)]
  BY DEF TypeOK
<1>2. ASSUME NEW g \in Publishers, NEW steps, Starts(g, steps) PROVE LeftAlone(h)
  BY <1>1, <1>2 DEF Starts, Idle, LeftAlone
<1>3. CASE PairSuccess \/ Connected \/ LoggedOut \/ Logout \/ OtherNews
  BY <1>2, <1>3, Names DEF PairSuccess, Connected, LoggedOut, Logout, OtherNews
<1>4. ASSUME NEW c \in Channels,
             Open(c) \/ Greet(c) \/ Join(c) \/ Write(c) \/ WriteFails(c) \/ Leave(c)
      PROVE LeftAlone(h)
  BY <1>4 DEF Open, Greet, Join, Subscribe, Write, WriteFails, Unsubscribe, Leave, bus, LeftAlone
<1>5. CASE UNCHANGED vars
  BY <1>5 DEF vars, LeftAlone
<1> QED BY <1>3, <1>4, <1>5 DEF Next

\* Any number of sessions, however slow or gone, and however small their buffers: a
\* handler of the library or of /logout that publishes can always take its next step,
\* has finitely many of them, and nobody adds to them.
THEOREM PublishersWaitFree == Spec => [][WaitFree]_vars
<1>1. TypeOK /\ [Next]_vars => [WaitFree]_vars
  <2> SUFFICES ASSUME TypeOK, [Next]_vars, NEW h \in Publishers, ~Idle(h)
               PROVE  /\ CanGoOn(h)
                      /\ IF HandlerStep(h) THEN NearerItsEnd(h) ELSE LeftAlone(h)
    BY DEF WaitFree
  <2>1. CanGoOn(h)
    <3>1. Head(work[h]).do \in {"set", "tell", "send"}
      BY TypeSplit, WorkShrinks DEF Steps
    <3>2. sending[h] \subseteq Channels
      BY DEF TypeOK
    <3> QED BY <3>1, <3>2 DEF CanGoOn, Doing
  <2>2. CASE HandlerStep(h)
    BY <2>1, <2>2, OwnStep
  <2>3. CASE ~HandlerStep(h)
    <3>1. ASSUME NEW g \in Publishers, HandlerStep(g) PROVE LeftAlone(h)
      <4>1. CASE g = h
        BY <2>3, <3>1, <4>1
      <4>2. CASE g # h
        BY <3>1, <4>2, OwnStep
      <4> QED BY <4>1, <4>2
    <3>2. ASSUME ~\E g \in Publishers : HandlerStep(g) PROVE LeftAlone(h)
      BY <3>2, OtherStep
    <3>3. LeftAlone(h)
      BY <3>1, <3>2
    <3> QED BY <2>1, <2>3, <3>3
  <2> QED BY <2>2, <2>3
<1> QED BY <1>1, TypeCorrect, PTL DEF Spec

================================================================================
