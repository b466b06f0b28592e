----------------------------- MODULE LinkingProofs ------------------------------
(***************************************************************************)
(* Proofs about Linking, for any number of QR streams, requests, logouts   *)
(* and dropped connections.                                                *)
(***************************************************************************)
EXTENDS Linking, TLAPS

USE NamesAssumption DEF None, Background

--------------------------------------------------------------------------------
(* Types *)

Item == {"code", "timeout"}
Places == [who : Callers, at : {"restart", "dial", "await", "failed", "phone"}]

LibraryOK ==
    /\ device \in BOOLEAN /\ socket \in BOOLEAN
    /\ stream \in [Slots -> {"closed", "open", "offering", "ending"}]
    /\ items \in [Slots -> Seq(Item)]
    /\ drops \in 0..MaxDrops
ClientOK ==
    /\ ctx \in [Slots -> Callers \cup {"ended"}]
    /\ reader \in [Slots -> {None, "reading", "waiting"}]
    /\ qrCh \in Slots \cup {None} /\ cancelQR \in Slots \cup {None}
    /\ qr \in Slots \cup {None, "stale"}
CallsOK ==
    /\ waiting \in [Callers -> Nat]
    /\ inside \subseteq Places
    /\ requests \in 0..MaxRequests
MishapOK == mishap \in {None, "failed", "bare", "torn"}

Types == LibraryOK /\ ClientOK /\ CallsOK /\ MishapOK

LEMMA TypesAreTypeOK == Types <=> TypeOK
BY DEF Item, Types, LibraryOK, ClientOK, CallsOK, MishapOK, TypeOK, Places

LEMMA ItemsTyped ==
    /\ <<>> \in Seq(Item) /\ <<"code">> \in Seq(Item) /\ <<"timeout">> \in Seq(Item)
    /\ \A q \in Seq(Item) : Append(q, "timeout") \in Seq(Item)
    /\ \A q \in Seq(Item) : q # <<>> => Tail(q) \in Seq(Item)
BY DEF Item

LEMMA TypesInit == Init => Types
<1> SUFFICES ASSUME Init PROVE Types
  OBVIOUS
<1> DEFINE first == CHOOSE s \in Slots : TRUE
<1>1. first \in Slots
  OBVIOUS
<1>2. LibraryOK
  <2>1. stream \in [Slots -> {"closed", "open", "offering", "ending"}]
    BY DEF Init
  <2>2. items \in [Slots -> Seq(Item)]
    <3>1. items = [s \in Slots |-> <<>>]
      BY DEF Init
    <3> QED BY <3>1, ItemsTyped
  <2>3. device \in BOOLEAN /\ socket \in BOOLEAN /\ drops = 0
    BY DEF Init
  <2> QED BY <2>1, <2>2, <2>3 DEF LibraryOK
<1>3. ctx \in [Slots -> Callers \cup {"ended"}]
  BY DEF Init, Callers
<1>4. qrCh \in Slots \cup {None}
  BY <1>1 DEF Init
<1>5. ClientOK
  <2>1. reader \in [Slots -> {None, "reading", "waiting"}]
    BY DEF Init
  <2>2. cancelQR = qrCh /\ qr = None
    BY DEF Init
  <2> QED BY <1>3, <1>4, <2>1, <2>2 DEF ClientOK
<1>6. CallsOK /\ MishapOK
  <2>1. waiting = [c \in Callers |-> 0] /\ inside = {} /\ requests = 0 /\ mishap = None
    BY DEF Init
  <2> QED BY <2>1 DEF CallsOK, MishapOK
<1> QED BY <1>2, <1>5, <1>6 DEF Types

\* The callers' moves in and out of pairMu.
LEMMA EnqueueTyped ==
    ASSUME CallsOK, NEW c \in Callers, Enqueue(c), requests' \in 0..MaxRequests
    PROVE CallsOK'
BY DEF CallsOK, Enqueue

LEMMA GoTyped ==
    ASSUME CallsOK, NEW e \in inside, NEW at \in {"dial", "await", "failed", "phone"},
           Go(e, at)
    PROVE CallsOK'
<1>1. [e EXCEPT !.at = at] \in Places
  BY DEF CallsOK, Places
<1> QED BY <1>1 DEF CallsOK, Go

LEMMA WithoutContextTyped ==
    ASSUME ClientOK, NEW c
    PROVE WithoutContext(c) \in [Slots -> Callers \cup {"ended"}]
BY DEF ClientOK, WithoutContext

LEMMA EnterTyped ==
    ASSUME Types, NEW c \in Callers, NEW at \in {"restart", "dial", "phone"}, Enter(c, at)
    PROVE Types'
<1>1. LibraryOK' /\ ClientOK' /\ MishapOK'
  BY DEF Types, LibraryOK, ClientOK, MishapOK, Enter, library, client
<1>2. [who |-> c, at |-> at] \in Places
  BY DEF Places
<1>3. CallsOK'
  BY <1>2 DEF Types, CallsOK, Enter
<1> QED BY <1>1, <1>3 DEF Types

LEMMA TurnedAwayTyped ==
    ASSUME Types, NEW c \in Callers, TurnedAway(c)
    PROVE Types'
<1>1. LibraryOK' /\ MishapOK' /\ CallsOK'
  BY DEF Types, LibraryOK, MishapOK, CallsOK, TurnedAway, library
<1>2. ClientOK'
  BY WithoutContextTyped DEF Types, ClientOK, TurnedAway
<1> QED BY <1>1, <1>2 DEF Types

LEMMA StartQRTyped ==
    ASSUME Types, NEW c \in Callers, NEW s \in Slots,
           NEW contexts \in [Slots -> Callers \cup {"ended"}], StartQR(c, s, contexts)
    PROVE /\ ClientOK'
          /\ stream' \in [Slots -> {"closed", "open", "offering", "ending"}]
BY DEF Types, LibraryOK, ClientOK, StartQR

LEMMA TypesStep == Types /\ [Next]_vars => Types'
<1> SUFFICES ASSUME Types, [Next]_vars PROVE Types'
  OBVIOUS
<1> USE DEF Types
<1>1. ASSUME NEW s \in Slots, Offer(s) PROVE Types'
  BY <1>1, ItemsTyped DEF Offer, LibraryOK, ClientOK, CallsOK, MishapOK, client, calls
<1>2. ASSUME NEW s \in Slots, RunOut(s) PROVE Types'
  BY <1>2, ItemsTyped DEF RunOut, LibraryOK, ClientOK, CallsOK, MishapOK, client, calls
<1>3. ASSUME NEW s \in Slots, ContextEnds(s) PROVE Types'
  BY <1>3 DEF ContextEnds, LibraryOK, ClientOK, CallsOK, MishapOK, client, calls
<1>4. ASSUME NEW s \in Slots, Disconnects(s) PROVE Types'
  BY <1>4 DEF Disconnects, LibraryOK, ClientOK, CallsOK, MishapOK, client, calls
<1>5. ASSUME NEW s \in Slots, Show(s) PROVE Types'
  <2>1. LibraryOK'
    BY <1>5 DEF Show, LibraryOK
  <2>2. ClientOK'
    BY <1>5 DEF Show, ClientOK
  <2> QED BY <1>5, <2>1, <2>2 DEF Show, CallsOK, MishapOK, calls
<1>6. ASSUME NEW s \in Slots, StreamClosed(s) PROVE Types'
  BY <1>6 DEF StreamClosed, LibraryOK, ClientOK, CallsOK, MishapOK, library, calls
<1>7. ASSUME NEW s \in Slots, WaitForTeardown(s) PROVE Types'
  <2>1. LibraryOK' /\ ClientOK' /\ MishapOK'
    BY <1>7 DEF WaitForTeardown, LibraryOK, ClientOK, MishapOK, library
  <2>2. CallsOK'
    BY <1>7, EnqueueTyped DEF WaitForTeardown, CallsOK, Callers
  <2> QED BY <2>1, <2>2
<1>8. CASE Drop
  <2>1. stream' \in [Slots -> {"closed", "open", "offering", "ending"}]
    BY <1>8 DEF Drop, LibraryOK
  <2>2. items' \in [Slots -> Seq(Item)]
    BY <1>8, ItemsTyped DEF Drop, LibraryOK
  <2>3. drops' \in 0..MaxDrops /\ device' \in BOOLEAN /\ socket' \in BOOLEAN
    <3>1. drops' \in 0..MaxDrops
      BY <1>8 DEF Drop, LibraryOK
    <3>2. device' \in BOOLEAN /\ socket' \in BOOLEAN
      BY <1>8 DEF Drop, LibraryOK
    <3> QED BY <3>1, <3>2
  <2> QED BY <1>8, <2>1, <2>2, <2>3
        DEF Drop, LibraryOK, ClientOK, CallsOK, MishapOK, client, calls
<1>9. CASE Reconnect
  BY <1>9 DEF Reconnect, LibraryOK, ClientOK, CallsOK, MishapOK, client, calls
<1>10. CASE PairSuccess
  <2>1. stream' \in [Slots -> {"closed", "open", "offering", "ending"}]
    BY <1>10 DEF PairSuccess, LibraryOK
  <2> QED BY <1>10, <2>1
        DEF PairSuccess, LibraryOK, ClientOK, CallsOK, MishapOK, client, calls
<1>11. CASE Logout
  <2>1. LibraryOK' /\ ClientOK' /\ MishapOK'
    BY <1>11 DEF Logout, LibraryOK, ClientOK, MishapOK, client
  <2>2. CallsOK'
    BY <1>11, EnqueueTyped DEF Logout, CallsOK, Callers
  <2> QED BY <2>1, <2>2
<1>12. CASE LoggedOut
  <2>1. LibraryOK' /\ ClientOK' /\ MishapOK'
    BY <1>12 DEF LoggedOut, LibraryOK, ClientOK, MishapOK
  <2>2. CallsOK'
    BY <1>12, EnqueueTyped DEF LoggedOut, CallsOK, Callers
  <2> QED BY <2>1, <2>2
<1>13. ASSUME NEW c \in Callers, Request(c) PROVE Types'
  <2>1. LibraryOK' /\ ClientOK' /\ MishapOK'
    BY <1>13 DEF Request, LibraryOK, ClientOK, MishapOK, library, client
  <2>2. requests' \in 0..MaxRequests
    BY <1>13 DEF Request, CallsOK
  <2>3. CallsOK'
    BY <1>13, <2>2, EnqueueTyped DEF Request
  <2> QED BY <2>1, <2>3
<1>14. ASSUME NEW c \in Callers, StartPairing(c) PROVE Types'
  BY <1>14, EnterTyped, TurnedAwayTyped DEF StartPairing
<1>15. ASSUME NEW c \in Callers, PairCode(c) PROVE Types'
  BY <1>15, EnterTyped, TurnedAwayTyped DEF PairCode
<1>16. ASSUME NEW e \in inside, NEW s \in Slots, Restart(e, s) PROVE Types'
  <2>1. e.who \in Callers
    BY DEF CallsOK, Places
  <2>2. Cancelled \in [Slots -> Callers \cup {"ended"}]
    BY DEF Cancelled, ClientOK
  <2>3. /\ ClientOK'
        /\ stream' \in [Slots -> {"closed", "open", "offering", "ending"}]
    BY <1>16, <2>1, <2>2, StartQRTyped DEF Restart
  <2>4. CallsOK'
    BY <1>16, GoTyped DEF Restart
  <2> QED BY <1>16, <2>3, <2>4 DEF Restart, LibraryOK, MishapOK
<1>17. ASSUME NEW e \in inside, Dial(e) PROVE Types'
  <2>1. ClientOK'
    BY <1>17, WithoutContextTyped DEF Dial, Return, ClientOK
  <2> QED BY <1>17, <2>1 DEF Dial, Return, LibraryOK, CallsOK, MishapOK
<1>18. ASSUME NEW e \in inside, DialForCode(e) PROVE Types'
  <2>1. e.who \in Callers
    BY DEF CallsOK, Places
  <2>2. /\ ClientOK'
        /\ stream' \in [Slots -> {"closed", "open", "offering", "ending"}]
    <3>1. CASE qrCh = None
      BY <1>18, <2>1, <3>1, StartQRTyped DEF DialForCode, ClientOK
    <3>2. CASE qrCh # None
      BY <1>18, <3>2 DEF DialForCode, ClientOK, LibraryOK
    <3> QED BY <3>1, <3>2
  <2>3. CallsOK'
    BY <1>18, GoTyped DEF DialForCode
  <2> QED BY <1>18, <2>2, <2>3 DEF DialForCode, LibraryOK, MishapOK
<1>19. ASSUME NEW e \in inside, AwaitItem(e) PROVE Types'
  <2>1. items' \in [Slots -> Seq(Item)]
    <3>1. CASE items[qrCh] = <<>>
      BY <1>19, <3>1 DEF AwaitItem, LibraryOK
    <3>2. CASE items[qrCh] # <<>>
      <4>1. \A s \in Slots : items'[s] = IF s = qrCh THEN Tail(items[s]) ELSE items[s]
        BY <1>19, <3>2 DEF AwaitItem, LibraryOK
      <4>2. \A s \in Slots : items'[s] \in Seq(Item)
        BY <3>2, <4>1, ItemsTyped DEF LibraryOK
      <4> QED BY <1>19, <3>2, <4>2 DEF AwaitItem, LibraryOK
    <3> QED BY <3>1, <3>2
  <2>2. CallsOK'
    BY <1>19, GoTyped DEF AwaitItem
  <2> QED BY <1>19, <2>1, <2>2 DEF AwaitItem, LibraryOK, ClientOK, MishapOK, client
<1>20. ASSUME NEW e \in inside, CodeReturned(e) PROVE Types'
  <2>1. ClientOK'
    BY <1>20, WithoutContextTyped DEF CodeReturned, Return, ClientOK
  <2> QED BY <1>20, <2>1 DEF CodeReturned, Return, LibraryOK, CallsOK, MishapOK, library
<1>21. CASE UNCHANGED vars
  BY <1>21 DEF vars, library, client, calls, LibraryOK, ClientOK, CallsOK, MishapOK
<1> HIDE DEF Types
<1> QED
  BY <1>1, <1>2, <1>3, <1>4, <1>5, <1>6, <1>7, <1>8, <1>9, <1>10, <1>11, <1>12, <1>13,
     <1>14, <1>15, <1>16, <1>17, <1>18, <1>19, <1>20, <1>21
  DEF Next

\* Any number of streams, requests and logouts: every variable has its type.
THEOREM TypeCorrect == Spec => []TypeOK
<1> QED BY TypesInit, TypesStep, TypesAreTypeOK, PTL DEF Spec

--------------------------------------------------------------------------------
(* One stream *)

\* OneStream is inductive with this: WAClient.cancelQR belongs to qrCh.
OneInv == OneStream /\ cancelQR = qrCh

\* Steps that open no stream and take contexts away at most.
LEMMA NoNewStream ==
    ASSUME OneInv, UNCHANGED <<qrCh, cancelQR>>,
           \A s \in Slots : Running(s)' => Running(s),
           \A s \in Slots : ctx'[s] = "background" => ctx[s] = "background"
    PROVE OneInv'
BY DEF OneInv, OneStream

LEMMA ContextsEnd ==
    ASSUME ClientOK, NEW c
    PROVE \A s \in Slots : /\ WithoutContext(c)[s] = "background" => ctx[s] = "background"
                          /\ ctx[s] = "background" => WithoutContext(c)[s] = "background"
BY DEF WithoutContext, ClientOK

\* What StartQR makes of the streams, when it is called with these contexts.
LEMMA StartQRStreams ==
    ASSUME Types, NEW c, NEW s \in Slots, NEW contexts \in [Slots -> Callers \cup {"ended"}],
           StartQR(c, s, contexts)
    PROVE /\ qrCh' = s /\ cancelQR' = s
          /\ \A r \in Slots : r # s => stream'[r] = stream[r] /\ ctx'[r] = contexts[r]
BY DEF StartQR, Types, LibraryOK, ClientOK

LEMMA OneStep == Types /\ OneInv /\ [Next]_vars => OneInv'
<1> SUFFICES ASSUME Types, OneInv, [Next]_vars PROVE OneInv'
  OBVIOUS
<1> USE DEF Types
<1>1. CASE UNCHANGED <<stream, ctx, qrCh, cancelQR>>
  BY <1>1, NoNewStream DEF Running
<1>2. ASSUME NEW s \in Slots, Offer(s) \/ RunOut(s) \/ ContextEnds(s) \/ Disconnects(s)
      PROVE OneInv'
  <2>1. UNCHANGED client
    BY <1>2 DEF Offer, RunOut, ContextEnds, Disconnects
  <2>2. \A r \in Slots : Running(r)' => Running(r)
    BY <1>2 DEF Offer, RunOut, ContextEnds, Disconnects, Running, LibraryOK
  <2> QED BY <2>1, <2>2, NoNewStream DEF client
<1>3. CASE Drop
  <2>1. \A r \in Slots : Running(r)' => Running(r)
    BY <1>3 DEF Drop, Running
  <2> QED BY <1>3, <2>1, NoNewStream DEF Drop, client
<1>4. CASE PairSuccess
  <2>1. \A r \in Slots : Running(r)' => Running(r)
    BY <1>4 DEF PairSuccess, Running
  <2> QED BY <1>4, <2>1, NoNewStream DEF PairSuccess, client
<1>5. ASSUME NEW c, ctx' = WithoutContext(c), UNCHANGED <<stream, qrCh, cancelQR>>
       PROVE OneInv'
  <2>1. \A s \in Slots : ctx'[s] = "background" => ctx[s] = "background"
    BY <1>5 DEF WithoutContext
  <2>2. \A s \in Slots : Running(s)' => Running(s)
    BY <1>5 DEF Running
  <2> QED BY <1>5, <2>1, <2>2, NoNewStream
<1>6. ASSUME NEW c \in Callers, TurnedAway(c) PROVE OneInv'
  <2>1. ctx' = WithoutContext(c) /\ UNCHANGED <<stream, qrCh, cancelQR>>
    BY <1>6 DEF TurnedAway, library
  <2> QED BY <1>5, <2>1
<1>7. ASSUME NEW c \in Callers, StartPairing(c) \/ PairCode(c) PROVE OneInv'
  <2>1. TurnedAway(c) \/ UNCHANGED <<stream, ctx, qrCh, cancelQR>>
    BY <1>7 DEF StartPairing, PairCode, Enter, library, client
  <2> QED BY <1>1, <1>6, <2>1
<1>8. ASSUME NEW e \in inside, NEW s \in Slots, Restart(e, s) PROVE OneInv'
  <2>1. Cancelled \in [Slots -> Callers \cup {"ended"}]
    BY DEF Cancelled, ClientOK
  <2>2. \A r \in Slots : Running(r) => Cancelled[r] # "background"
    BY DEF Cancelled, OneInv, OneStream, ClientOK
  <2>3. /\ qrCh' = s /\ cancelQR' = s
        /\ \A r \in Slots : r # s => stream'[r] = stream[r] /\ ctx'[r] = Cancelled[r]
    BY <1>8, <2>1, StartQRStreams DEF Restart
  <2> QED BY <2>2, <2>3 DEF OneInv, OneStream, Running
<1>9. ASSUME NEW e \in inside, Dial(e) PROVE OneInv'
  <2>1. ctx' = WithoutContext(e.who) /\ UNCHANGED <<stream, qrCh, cancelQR>>
    BY <1>9 DEF Dial, Return
  <2> QED BY <1>5, <2>1
<1>10. ASSUME NEW e \in inside, DialForCode(e) PROVE OneInv'
  <2>1. CASE qrCh # None
    BY <1>1, <1>10, <2>1 DEF DialForCode
  <2>2. CASE qrCh = None
    <3>1. PICK s \in Slots : StartQR(e.who, s, ctx)
      BY <1>10, <2>2 DEF DialForCode
    <3>2. /\ qrCh' = s /\ cancelQR' = s
          /\ \A r \in Slots : r # s => stream'[r] = stream[r] /\ ctx'[r] = ctx[r]
      BY <3>1, StartQRStreams DEF ClientOK
    <3> QED BY <2>2, <3>2 DEF OneInv, OneStream, Running
  <2> QED BY <2>1, <2>2
<1>11. ASSUME NEW e \in inside, CodeReturned(e) PROVE OneInv'
  <2>1. ctx' = WithoutContext(e.who) /\ UNCHANGED <<stream, qrCh, cancelQR>>
    BY <1>11 DEF CodeReturned, Return, library
  <2> QED BY <1>5, <2>1
<1> QED
  BY <1>1, <1>2, <1>3, <1>4, <1>7, <1>8, <1>9, <1>10, <1>11
  DEF Next, Show, StreamClosed, WaitForTeardown, Reconnect, Logout, LoggedOut, Request,
      AwaitItem, vars, library, client

\* Any number of streams and callers: at most one stream runs with a context that
\* does not end, and it is the one the client knows.
THEOREM AtMostOneStream == Spec => []OneStream
<1>1. Init => OneInv
  BY DEF Init, OneInv, OneStream, Running
<1>2. OneInv => OneStream
  BY DEF OneInv
<1> QED BY <1>1, <1>2, OneStep, TypesInit, TypesStep, PTL DEF Spec

--------------------------------------------------------------------------------
(* The live stream *)

\* pairMu lets one caller in, and what StartPairing has seen before it takes the
\* old stream down still holds when it does.
MutexInv ==
    /\ \A e, f \in inside : e = f
    /\ \A e \in inside : e.at = "restart" => qrCh = None \/ (~socket /\ ~device)

\* Outside pairMu: the socket of an account that is not linked does not come up.
LEMMA Outside ==
    ASSUME MutexInv, UNCHANGED <<inside, qrCh>>,
           ~socket /\ ~device => ~socket' /\ ~device'
    PROVE MutexInv'
BY DEF MutexInv

\* The one caller leaves pairMu or goes on.
LEMMA GoesOn ==
    ASSUME Types, MutexInv, NEW e \in inside,
           \/ inside' = inside \ {e}
           \/ \E at \in {"dial", "await", "failed", "phone"} :
                inside' = (inside \ {e}) \cup {[e EXCEPT !.at = at]}
    PROVE MutexInv'
<1>1. inside \ {e} = {}
  BY DEF MutexInv
<1>2. e \in Places
  BY DEF Types, CallsOK
<1>3. CASE inside' = inside \ {e}
  BY <1>1, <1>3 DEF MutexInv
<1>4. ASSUME NEW at \in {"dial", "await", "failed", "phone"},
             inside' = (inside \ {e}) \cup {[e EXCEPT !.at = at]}
      PROVE MutexInv'
  <2>1. inside' = {[e EXCEPT !.at = at]}
    BY <1>1, <1>4
  <2>2. [e EXCEPT !.at = at].at = at
    BY <1>2 DEF Places
  <2> QED BY <2>1, <2>2 DEF MutexInv
<1> QED BY <1>3, <1>4

LEMMA MutexStep == Types /\ MutexInv /\ [Next]_vars => MutexInv'
<1> SUFFICES ASSUME Types, MutexInv, [Next]_vars PROVE MutexInv'
  OBVIOUS
<1>1. CASE UNCHANGED <<inside, qrCh, socket, device>>
  BY <1>1, Outside
<1>2. ASSUME NEW s \in Slots, Offer(s) \/ RunOut(s) \/ ContextEnds(s) \/ Disconnects(s)
      PROVE MutexInv'
  BY <1>2, Outside DEF Offer, RunOut, ContextEnds, Disconnects, client, calls
<1>3. CASE Drop \/ Reconnect \/ PairSuccess
  BY <1>3, Outside DEF Drop, Reconnect, PairSuccess, client, calls
<1>4. CASE Logout \/ LoggedOut
  BY <1>4, Outside DEF Logout, LoggedOut, Enqueue, client
<1>5. ASSUME NEW c \in Callers, TurnedAway(c) PROVE MutexInv'
  BY <1>1, <1>5 DEF TurnedAway, library
<1>6. ASSUME NEW c \in Callers, NEW at, Enter(c, at),
             at = "restart" => qrCh = None \/ (~socket /\ ~device)
      PROVE MutexInv'
  <2>1. inside' = {[who |-> c, at |-> at]} /\ UNCHANGED <<qrCh, socket, device>>
    BY <1>6 DEF Enter, Free, library, client
  <2> QED BY <1>6, <2>1 DEF MutexInv
<1>7. ASSUME NEW c \in Callers, StartPairing(c) PROVE MutexInv'
  <2>1. CASE Pairing
    BY <1>5, <1>7, <2>1 DEF StartPairing
  <2>2. CASE ~Pairing
    BY <1>6, <1>7, <2>2 DEF StartPairing, Pairing
  <2> QED BY <2>1, <2>2
<1>8. ASSUME NEW c \in Callers, PairCode(c) PROVE MutexInv'
  BY <1>5, <1>6, <1>8 DEF PairCode
<1>9. ASSUME NEW e \in inside, NEW s \in Slots, Restart(e, s) PROVE MutexInv'
  BY <1>9, GoesOn DEF Restart, Go
<1>10. ASSUME NEW e \in inside, Dial(e) \/ CodeReturned(e) PROVE MutexInv'
  BY <1>10, GoesOn DEF Dial, CodeReturned, Return
<1>11. ASSUME NEW e \in inside, DialForCode(e) \/ AwaitItem(e) PROVE MutexInv'
  BY <1>11, GoesOn DEF DialForCode, AwaitItem, Go
<1> QED
  BY <1>1, <1>2, <1>3, <1>4, <1>7, <1>8, <1>9, <1>10, <1>11
  DEF Next, Show, StreamClosed, WaitForTeardown, Request, Enqueue, vars, library, client,
      calls

LEMMA AliveKept ==
    ASSUME Types, MutexInv, [Next]_vars, NEW s \in Slots, Alive(s), ~RunOut(s)
    PROVE ctx'[s] = "background" /\ stream'[s] # "ending"
<1> DEFINE Goal == ctx'[s] = "background" /\ stream'[s] # "ending"
<1> USE DEF Alive, Running
<1>1. CASE UNCHANGED <<stream, ctx>>
  BY <1>1
<1>2. ASSUME NEW r \in Slots, Offer(r) \/ RunOut(r) \/ ContextEnds(r) \/ Disconnects(r)
      PROVE Goal
  <2>1. UNCHANGED ctx
    BY <1>2 DEF Offer, RunOut, ContextEnds, Disconnects, client
  <2>2. CASE r = s
    BY <1>2, <2>1, <2>2 DEF Offer, ContextEnds, Disconnects, Types, LibraryOK
  <2>3. CASE r # s
    BY <1>2, <2>1, <2>3 DEF Offer, RunOut, ContextEnds, Disconnects, Types, LibraryOK
  <2> QED BY <2>2, <2>3
<1>3. CASE Drop
  BY <1>3 DEF Drop, client
<1>4. CASE PairSuccess
  BY <1>4 DEF PairSuccess, client
<1>5. ASSUME NEW c \in Callers, TurnedAway(c) PROVE Goal
  BY <1>5, ContextsEnd DEF TurnedAway, library, Types
<1>6. ASSUME NEW c \in Callers, StartPairing(c) \/ PairCode(c) PROVE Goal
  <2>1. TurnedAway(c) \/ UNCHANGED <<stream, ctx>>
    BY <1>6 DEF StartPairing, PairCode, Enter, library, client
  <2> QED BY <1>1, <1>5, <2>1
<1>7. ASSUME NEW e \in inside, NEW r \in Slots, Restart(e, r) PROVE FALSE
  BY <1>7 DEF Restart, MutexInv
<1>8. ASSUME NEW e \in inside, Dial(e) \/ CodeReturned(e) PROVE Goal
  BY <1>8, ContextsEnd DEF Dial, CodeReturned, Return, library, Types
<1>9. ASSUME NEW e \in inside, DialForCode(e) PROVE Goal
  <2>1. UNCHANGED <<stream, ctx>>
    BY <1>9 DEF DialForCode
  <2> QED BY <1>1, <2>1
<1> QED
  BY <1>1, <1>2, <1>3, <1>4, <1>6, <1>7, <1>8, <1>9
  DEF Next, Show, StreamClosed, WaitForTeardown, Reconnect, Logout, LoggedOut, Request,
      AwaitItem, vars, library, client

\* Any number of callers: no step of theirs ends the context of a live stream or
\* makes the library close it.
THEOREM NobodyTakesItDown == Spec => LiveStreamKept
<1>1. Init => MutexInv
  BY DEF Init, MutexInv
<1>2. Types /\ MutexInv /\ [Next]_vars => [KeepsLiveStream]_vars
  BY AliveKept DEF KeepsLiveStream
<1> QED BY <1>1, <1>2, MutexStep, TypesInit, TypesStep, PTL DEF Spec, LiveStreamKept

--------------------------------------------------------------------------------
(* Pairing goes on *)

\* What will put a code on show: a stream the library still serves or ends, the
\* goroutine of one that has ended, a call of StartPairing that waits.
Pending ==
    \/ \E s \in Slots : Running(s) /\ (socket \/ ctx[s] = "ended")
    \/ \E s \in Slots : reader[s] # None /\ ~Running(s)
    \/ waiting[Background] > 0

\* Without an account, and unless something went wrong with the latest dial, pairing
\* never comes to rest: what CodeComesBack needs of every state.
PairingGoesOn == ~device /\ mishap = None => Pending \/ inside # {}

ReadersFollow == \A s \in Slots : Running(s) => reader[s] = "reading"

\* Until it has dialled, who holds pairMu keeps what it has seen, and StartPairing
\* the stream it has opened.
BeforeDial ==
    \A e \in inside : e.at \in {"restart", "dial"} =>
        /\ ~socket /\ ~device
        /\ e.at = "dial" /\ e.who \notin Phones =>
              qrCh \in Slots /\ stream[qrCh] = "open" /\ ctx[qrCh] = e.who

NeverBare == ~device /\ qrCh = None => ~socket

Attended(s) == Running(s) \/ (stream[s] = "ending" /\ reader[s] # None)
Connected == ~device /\ socket /\ mishap = None => \E s \in Slots : Attended(s)

GoingOn ==
    ~device /\ mishap = None =>
        Pending \/ \E e \in inside : e.at \in {"restart", "dial"}

PairInv == ReadersFollow /\ BeforeDial /\ NeverBare /\ Connected /\ GoingOn

LEMMA PairInit == Init => PairInv
BY DEF Init, PairInv, ReadersFollow, BeforeDial, NeverBare, Connected, Attended, GoingOn,
       Pending, Running

\* On a connected socket something is pending.
LEMMA ConnectedPending ==
    ASSUME PairInv, ~device, socket, mishap = None
    PROVE Pending
BY DEF PairInv, Connected, Attended, Pending, Running

\* The library moves on: streams open no more, and what closes has a reader.
LEMMA LibraryGoesOn ==
    ASSUME Types, MutexInv, PairInv,
           \/ \E s \in Slots : Offer(s) \/ RunOut(s) \/ ContextEnds(s) \/ Disconnects(s)
           \/ Drop \/ Reconnect \/ PairSuccess
    PROVE PairInv'
<1> USE DEF Types, LibraryOK, ClientOK, Running
<1>1. ASSUME NEW s \in Slots, Offer(s) PROVE PairInv'
  <2>1. \A r \in Slots : Running(r)' <=> Running(r)
    BY <1>1 DEF Offer
  <2>2. \A r \in Slots : Attended(r)' <=> Attended(r)
    BY <1>1 DEF Offer, Attended, client
  <2>3. Pending' <=> Pending
    BY <1>1, <2>1 DEF Offer, Pending, client, calls
  <2>4. BeforeDial'
    BY <1>1 DEF Offer, PairInv, BeforeDial, client, calls
  <2> QED
    BY <1>1, <2>1, <2>2, <2>3, <2>4
    DEF Offer, PairInv, ReadersFollow, NeverBare, Connected, GoingOn, client, calls
<1>2. ASSUME NEW s \in Slots, RunOut(s) \/ ContextEnds(s) PROVE PairInv'
  <2>1. \A r \in Slots : r # s => stream'[r] = stream[r]
    BY <1>2 DEF RunOut, ContextEnds
  <2>2. Running(s) /\ stream'[s] = "ending" /\ reader[s] = "reading"
    BY <1>2 DEF RunOut, ContextEnds, PairInv, ReadersFollow
  <2>3. UNCHANGED <<device, socket, mishap, client, calls>>
    BY <1>2 DEF RunOut, ContextEnds
  <2>4. BeforeDial'
    BY <1>2, <2>1, <2>2, <2>3
    DEF RunOut, ContextEnds, PairInv, BeforeDial, client, calls, CallsOK, Places, Callers
  <2>5. Pending' /\ (\E r \in Slots : Attended(r)')
    BY <2>2, <2>3 DEF Pending, Attended, client
  <2> QED
    BY <2>1, <2>2, <2>3, <2>4, <2>5
    DEF PairInv, ReadersFollow, NeverBare, Connected, GoingOn, client
<1>3. ASSUME NEW s \in Slots, Disconnects(s) PROVE PairInv'
  <2>1. /\ \A r \in Slots : Running(r)' <=> Running(r)
        /\ socket' = FALSE /\ UNCHANGED <<device, client, calls>>
    BY <1>3 DEF Disconnects
  <2>2. ReadersFollow' /\ NeverBare' /\ Connected'
    BY <2>1 DEF PairInv, ReadersFollow, NeverBare, Connected, client
  <2>3. BeforeDial'
    BY <1>3, <2>1 DEF Disconnects, PairInv, BeforeDial, client, calls
  <2>4. GoingOn'
    <3>1. CASE ~socket
      BY <1>3, <2>1, <3>1 DEF Disconnects, PairInv, GoingOn, Pending, client, calls
    <3>2. CASE socket /\ mishap' = None /\ ~device
      <4>1. mishap = None /\ \A r \in Slots : ~Running(r)
        BY <1>3, <3>2 DEF Disconnects
      <4>2. PICK r \in Slots : Attended(r)
        BY <3>2, <4>1 DEF PairInv, Connected
      <4>3. reader[r] # None /\ ~Running(r)
        BY <4>1, <4>2 DEF Attended
      <4> QED BY <2>1, <4>3 DEF GoingOn, Pending, client
    <3> QED BY <2>1, <3>1, <3>2 DEF GoingOn
  <2> QED BY <2>2, <2>3, <2>4 DEF PairInv
<1>4. CASE Drop
  <2>1. \A r \in Slots : ~Running(r)'
    BY <1>4 DEF Drop
  <2>2. socket /\ ~socket' /\ UNCHANGED <<device, mishap, client, calls>>
    BY <1>4 DEF Drop
  <2>3. \A e \in inside : e.at \notin {"restart", "dial"}
    BY <2>2 DEF PairInv, BeforeDial
  <2>4. ~device /\ mishap = None => Pending'
    <3> SUFFICES ASSUME ~device, mishap = None PROVE Pending'
      OBVIOUS
    <3>1. PICK r \in Slots : Attended(r)
      BY <2>2 DEF PairInv, Connected
    <3>2. reader[r] # None
      BY <3>1 DEF Attended, PairInv, ReadersFollow
    <3> QED BY <2>1, <2>2, <3>2 DEF Pending, client
  <2> QED
    BY <2>1, <2>2, <2>3, <2>4
    DEF PairInv, ReadersFollow, BeforeDial, NeverBare, Connected, GoingOn, client, calls
<1>5. CASE Reconnect \/ PairSuccess
  <2>1. device' /\ UNCHANGED <<client, calls>>
    BY <1>5 DEF Reconnect, PairSuccess
  <2>2. \A r \in Slots : Running(r)' => Running(r)
    BY <1>5 DEF Reconnect, PairSuccess
  <2>3. \A e \in inside : e.at \notin {"restart", "dial"}
    BY <1>5 DEF Reconnect, PairSuccess, PairInv, BeforeDial
  <2> QED
    BY <2>1, <2>2, <2>3
    DEF PairInv, ReadersFollow, BeforeDial, NeverBare, Connected, GoingOn, client, calls
<1> QED BY <1>1, <1>2, <1>3, <1>4, <1>5

\* A goroutine that stops reading waits, and one that stops waiting asks for pairMu.
LEMMA GoroutineGoesOn ==
    ASSUME Types, PairInv,
           NEW s \in Slots, Show(s) \/ StreamClosed(s) \/ WaitForTeardown(s)
    PROVE PairInv'
<1> USE DEF Types, LibraryOK, ClientOK
<1>1. CASE Show(s)
  BY <1>1
  DEF Show, PairInv, ReadersFollow, BeforeDial, NeverBare, Connected, Attended, GoingOn,
      Pending, Running, calls
<1>2. CASE StreamClosed(s)
  <2>1. /\ ~Running(s) /\ \A r \in Slots : r # s => reader'[r] = reader[r]
        /\ ~device => reader'[s] = "waiting"
        /\ UNCHANGED <<library, ctx, qrCh, cancelQR, qr, calls, mishap>>
    BY <1>2 DEF StreamClosed
  <2>2. \A r \in Slots : Running(r)' <=> Running(r)
    BY <2>1 DEF Running, library
  <2>3. ~device => \A r \in Slots : Attended(r) => Attended(r)'
    BY <2>1, <2>2 DEF Attended, library
  <2>4. ~device => Pending'
    BY <2>1, <2>2 DEF Pending
  <2>5. BeforeDial'
    BY <2>1 DEF PairInv, BeforeDial, library, calls
  <2> QED
    BY <2>1, <2>2, <2>3, <2>4, <2>5
    DEF PairInv, ReadersFollow, NeverBare, Connected, GoingOn, library
<1>3. CASE WaitForTeardown(s)
  <2>1. /\ reader[s] = "waiting" /\ \A r \in Slots : r # s => reader'[r] = reader[r]
        /\ socket => \A r \in Slots : stream[r] # "ending"
        /\ UNCHANGED <<library, ctx, qrCh, cancelQR, qr, inside, mishap>>
    BY <1>3 DEF WaitForTeardown, Enqueue
  <2>2. ~Running(s) /\ \A r \in Slots : Running(r)' <=> Running(r)
    BY <2>1 DEF Running, library, PairInv, ReadersFollow
  <2>3. Pending'
    BY <1>3 DEF WaitForTeardown, Enqueue, Pending, CallsOK, Callers
  <2>4. BeforeDial'
    BY <2>1 DEF PairInv, BeforeDial, library
  <2> QED
    BY <2>1, <2>2, <2>3, <2>4
    DEF PairInv, ReadersFollow, NeverBare, Connected, Attended, GoingOn, library
<1> QED BY <1>1, <1>2, <1>3

\* A request or a logout: the calls that wait become more.
LEMMA AskedGoesOn ==
    ASSUME Types, PairInv,
           Logout \/ LoggedOut \/ \E c \in Callers : Request(c)
    PROVE PairInv'
<1> USE DEF Types, LibraryOK, ClientOK, CallsOK
<1>1. CASE Logout \/ LoggedOut
  <2>1. Pending'
    BY <1>1 DEF Logout, LoggedOut, Enqueue, Pending, Callers
  <2>2. /\ UNCHANGED <<stream, reader, qrCh, ctx, inside, mishap>>
        /\ socket' => socket /\ device' = device
        /\ device' => device
    BY <1>1 DEF Logout, LoggedOut, Enqueue, client
  <2> QED
    BY <2>1, <2>2
    DEF PairInv, ReadersFollow, BeforeDial, NeverBare, Connected, Attended, GoingOn, Running
<1>2. ASSUME NEW c \in Callers, Request(c) PROVE PairInv'
  <2>1. waiting'[Background] = waiting[Background]
    BY <1>2 DEF Request, Enqueue, Callers
  <2>2. UNCHANGED <<library, client, inside, mishap>>
    BY <1>2 DEF Request, Enqueue
  <2> QED
    BY <2>1, <2>2
    DEF PairInv, ReadersFollow, BeforeDial, NeverBare, Connected, Attended, GoingOn, Running,
        Pending, library, client
<1> QED BY <1>1, <1>2

\* A call that is turned away has found an account or a live connection.
LEMMA TurnedAwayGoesOn ==
    ASSUME Types, PairInv, NEW c \in Callers, TurnedAway(c),
           device \/ socket
    PROVE PairInv'
<1> USE DEF Types, LibraryOK, ClientOK
<1>1. inside' = {} /\ UNCHANGED <<library, reader, qrCh, cancelQR, qr, mishap>>
  BY DEF TurnedAway, Free
<1>2. \A s \in Slots : (Running(s)' <=> Running(s)) /\ (Attended(s)' <=> Attended(s))
  BY <1>1 DEF Running, Attended, library
<1>3. Connected' /\ ReadersFollow' /\ BeforeDial' /\ NeverBare'
  BY <1>1, <1>2 DEF PairInv, Connected, ReadersFollow, BeforeDial, NeverBare, library
<1>4. ~device /\ mishap = None => Pending'
  BY <1>1, <1>2, <1>3 DEF Connected, Attended, Pending, Running, library
<1> QED BY <1>1, <1>3, <1>4 DEF PairInv, GoingOn, library

\* A call that gets pairMu dials, unless there is a socket already.
LEMMA EnterGoesOn ==
    ASSUME Types, PairInv, NEW c \in Callers, NEW at, Enter(c, at),
           \/ at = "restart" /\ ~socket /\ ~device
           \/ at = "dial" /\ ~socket /\ ~device /\ c \in Phones
           \/ at = "phone" /\ c \in Phones
    PROVE PairInv'
<1> USE DEF Types, CallsOK
<1>1. inside = {} /\ inside' = {[who |-> c, at |-> at]} /\ UNCHANGED <<library, client, mishap>>
  BY DEF Enter, Free
<1>2. at = "phone" => waiting'[Background] = waiting[Background]
  BY DEF Enter, Callers
<1>3. at = "phone" => (Pending' <=> Pending)
  BY <1>1, <1>2 DEF Pending, Running, library, client
<1>4. GoingOn'
  BY <1>1, <1>3 DEF PairInv, GoingOn, library
<1>5. BeforeDial'
  BY <1>1 DEF BeforeDial, library
<1> QED
  BY <1>1, <1>4, <1>5
  DEF PairInv, ReadersFollow, NeverBare, Connected, Attended, Running, library, client

\* The holder of pairMu at its place.
LEMMA AtPlace ==
    ASSUME Types, MutexInv, NEW e \in inside, NEW at, Go(e, at)
    PROVE inside' = {[who |-> e.who, at |-> at]}
<1>1. e \in Places /\ inside \ {e} = {}
  BY DEF Types, CallsOK, MutexInv
<1>2. [e EXCEPT !.at = at] = [who |-> e.who, at |-> at]
  BY <1>1 DEF Places
<1> QED BY <1>1, <1>2 DEF Go

\* What StartQR makes of the slot it takes.
LEMMA StartQROpens ==
    ASSUME Types, NEW c \in Callers, NEW s \in Slots,
           NEW contexts \in [Slots -> Callers \cup {"ended"}], StartQR(c, s, contexts)
    PROVE /\ qrCh' = s /\ stream'[s] = "open" /\ ctx'[s] = c /\ reader'[s] = "reading"
          /\ \A r \in Slots : r # s => stream'[r] = stream[r] /\ reader'[r] = reader[r]
BY DEF StartQR, Types, LibraryOK, ClientOK

\* StartPairing opens the stream it is going to dial for.
LEMMA RestartGoesOn ==
    ASSUME Types, MutexInv, PairInv, NEW e \in inside, NEW s \in Slots, Restart(e, s)
    PROVE PairInv'
<1>1. e.who \in Callers
  BY DEF Types, CallsOK, Places
<1>2. Cancelled \in [Slots -> Callers \cup {"ended"}]
  BY DEF Cancelled, Types, ClientOK
<1>3. /\ qrCh' = s /\ stream'[s] = "open" /\ ctx'[s] = e.who /\ reader'[s] = "reading"
      /\ \A r \in Slots : r # s => stream'[r] = stream[r] /\ reader'[r] = reader[r]
  BY <1>1, <1>2, StartQROpens DEF Restart
<1>4. inside' = {[who |-> e.who, at |-> "dial"]}
  BY AtPlace DEF Restart
<1>5. ~socket' /\ ~device'
  BY DEF Restart, PairInv, BeforeDial
<1>6. ReadersFollow'
  BY <1>3 DEF PairInv, ReadersFollow, Running
<1>7. BeforeDial' /\ NeverBare' /\ Connected' /\ GoingOn'
  BY <1>3, <1>4, <1>5 DEF BeforeDial, NeverBare, Connected, GoingOn
<1> QED BY <1>6, <1>7 DEF PairInv

\* The holder of pairMu returns: the rest is left as it is, but for contexts that end.
LEMMA ReturnGoesOn ==
    ASSUME Types, MutexInv, PairInv, NEW e \in inside, Return(e),
           UNCHANGED <<device, stream, reader, qrCh>>,
           \/ UNCHANGED <<socket, mishap>> /\ e.at \notin {"restart", "dial"}
           \/ Dial(e)
    PROVE PairInv'
<1> USE DEF Types, LibraryOK, ClientOK
<1>1. inside' = {} /\ UNCHANGED waiting
  BY DEF Return, MutexInv
<1>2. \A s \in Slots : (Running(s)' <=> Running(s)) /\ (Attended(s)' <=> Attended(s))
  BY DEF Running, Attended
<1>3. ReadersFollow' /\ BeforeDial'
  BY <1>1, <1>2 DEF PairInv, ReadersFollow, BeforeDial
<1>4. CASE UNCHANGED <<socket, mishap>> /\ e.at \notin {"restart", "dial"}
  <2>1. Connected' /\ NeverBare'
    BY <1>2, <1>4 DEF PairInv, Connected, NeverBare
  <2>2. \A f \in inside : f.at \notin {"restart", "dial"}
    BY <1>4 DEF MutexInv
  <2>3. \A s \in Slots : ctx[s] = "ended" => ctx'[s] = "ended"
    BY DEF Return, WithoutContext
  <2>4. Pending => Pending'
    BY <1>1, <1>2, <1>4, <2>3 DEF Pending
  <2>5. GoingOn'
    BY <1>4, <2>2, <2>4 DEF PairInv, GoingOn
  <2> QED BY <1>3, <2>1, <2>5 DEF PairInv
<1>5. CASE Dial(e)
  <2>1. qrCh \in Slots /\ stream[qrCh] = "open"
    BY <1>5 DEF Dial, PairInv, BeforeDial
  <2>2. Running(qrCh)'
    BY <2>1 DEF Running
  <2>3. mishap' = None => socket'
    BY <1>5 DEF Dial
  <2>4. NeverBare' /\ Connected' /\ GoingOn'
    BY <2>1, <2>2, <2>3 DEF NeverBare, Connected, Attended, GoingOn, Pending
  <2> QED BY <1>3, <2>4 DEF PairInv
<1> QED BY <1>4, <1>5

\* PairCode has dialled; without a stream of its own that is a mishap.
LEMMA DialForCodeGoesOn ==
    ASSUME Types, MutexInv, PairInv, NEW e \in inside, DialForCode(e)
    PROVE PairInv'
<1>1. e.who \in Callers
  BY DEF Types, CallsOK, Places
<1>2. PICK at \in {"await", "failed"} : Go(e, at)
  BY DEF DialForCode
<1>3. BeforeDial'
  BY <1>2, AtPlace DEF BeforeDial
<1>4. CASE qrCh # None
  <2>1. UNCHANGED <<stream, reader, qrCh, device>> /\ mishap' # None
    BY <1>4 DEF DialForCode
  <2> QED
    BY <1>3, <1>4, <2>1
    DEF PairInv, ReadersFollow, NeverBare, Connected, GoingOn, Running
<1>5. CASE qrCh = None
  <2>1. PICK s \in Slots : StartQR(e.who, s, ctx)
    BY <1>5 DEF DialForCode
  <2>2. /\ qrCh' = s /\ stream'[s] = "open" /\ reader'[s] = "reading"
        /\ \A r \in Slots : r # s => stream'[r] = stream[r] /\ reader'[r] = reader[r]
    BY <1>1, <2>1, StartQROpens DEF Types, ClientOK
  <2>3. mishap' = None => socket'
    BY DEF DialForCode
  <2>4. ReadersFollow'
    BY <2>2 DEF PairInv, ReadersFollow, Running
  <2>5. NeverBare' /\ Connected' /\ GoingOn'
    BY <2>2, <2>3 DEF NeverBare, Connected, Attended, GoingOn, Pending, Running
  <2> QED BY <1>3, <2>4, <2>5 DEF PairInv
<1> QED BY <1>4, <1>5

LEMMA AwaitItemGoesOn ==
    ASSUME Types, MutexInv, PairInv, NEW e \in inside, AwaitItem(e)
    PROVE PairInv'
<1>1. inside' = {[who |-> e.who, at |-> "phone"]}
  BY AtPlace DEF AwaitItem
<1>2. \A f \in inside : f.at \notin {"restart", "dial"}
  BY DEF AwaitItem, MutexInv
<1>3. UNCHANGED <<device, socket, stream, client, waiting, mishap>>
  BY DEF AwaitItem, Go
<1>4. GoingOn'
  BY <1>2, <1>3 DEF PairInv, GoingOn, Pending, Running, client
<1> QED
  BY <1>1, <1>3, <1>4
  DEF PairInv, ReadersFollow, BeforeDial, NeverBare, Connected, Attended, Running, client

LEMMA PairStep == Types /\ MutexInv /\ PairInv /\ [Next]_vars => PairInv'
<1> SUFFICES ASSUME Types, MutexInv, PairInv, [Next]_vars PROVE PairInv'
  OBVIOUS
<1>1. ASSUME NEW c \in Callers, StartPairing(c) PROVE PairInv'
  <2>1. CASE Pairing
    BY <1>1, <2>1, TurnedAwayGoesOn DEF StartPairing, Pairing
  <2>2. CASE ~Pairing
    <3>1. ~device /\ ~socket
      BY <2>2 DEF Pairing, PairInv, NeverBare
    <3> QED BY <1>1, <2>2, <3>1, EnterGoesOn DEF StartPairing
  <2> QED BY <2>1, <2>2
<1>2. ASSUME NEW c \in Callers, PairCode(c) PROVE PairInv'
  <2>1. CASE device
    BY <1>2, <2>1, TurnedAwayGoesOn DEF PairCode
  <2>2. CASE ~device /\ socket
    BY <1>2, <2>2, EnterGoesOn DEF PairCode
  <2>3. CASE ~device /\ ~socket
    BY <1>2, <2>3, EnterGoesOn DEF PairCode
  <2> QED BY <2>1, <2>2, <2>3
<1>3. ASSUME NEW e \in inside, Dial(e) \/ CodeReturned(e) PROVE PairInv'
  BY <1>3, ReturnGoesOn DEF Dial, CodeReturned, library
<1>4. CASE UNCHANGED vars
  BY <1>4
  DEF PairInv, ReadersFollow, BeforeDial, NeverBare, Connected, Attended, GoingOn, Pending,
      Running, vars, library, client, calls
<1> QED
  BY <1>1, <1>2, <1>3, <1>4, LibraryGoesOn, GoroutineGoesOn, AskedGoesOn, RestartGoesOn,
     DialForCodeGoesOn, AwaitItemGoesOn
  DEF Next

\* Any number of streams and callers: an account that is not linked is never left
\* without a stream on a connected socket, a goroutine about to restart pairing or a
\* call that does it, unless the latest dial failed, was made without a stream, or was
\* undone by a late Disconnect (client.go, startQR and StartPairing).
THEOREM PairingNeverRests == Spec => []PairingGoesOn
<1>1. Init => MutexInv
  BY DEF Init, MutexInv
<1>2. PairInv => PairingGoesOn
  BY DEF PairInv, GoingOn, PairingGoesOn
<1> QED BY <1>1, <1>2, PairInit, PairStep, MutexStep, TypesInit, TypesStep, PTL DEF Spec


================================================================================
