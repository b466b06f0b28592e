------------------------------ MODULE CallsProofs ------------------------------
(***************************************************************************)
(* Proofs about Calls, for any number of calls and any cap on the history. *)
(***************************************************************************)
EXTENDS Calls, TLAPS

USE CallsAssumption

Entry == [id : Calls, missed : BOOLEAN]

--------------------------------------------------------------------------------
(* What AddCall and MarkCallAnswered make of the history *)

LEMMA AddCallEffect ==
    ASSUME history \in Seq(Entry), Len(history) <= MaxCalls,
           NEW c \in Calls, NEW missed \in BOOLEAN, AddCall(c, missed)
    PROVE /\ history' \in Seq(Entry)
          /\ Len(history') <= MaxCalls
          /\ \A i \in 1..Len(history') :
                \/ history'[i] = [id |-> c, missed |-> missed]
                \/ \E j \in 1..Len(history) : history'[i] = history[j]
<1> DEFINE entry == [id |-> c, missed |-> missed]
           longer == Append(history, entry)
<1>1. entry \in Entry
  BY DEF Entry
<1> HIDE DEF entry
<1>2. CASE Recorded(c)
  <2>1. history' = [i \in DOMAIN history |->
                      IF history[i].id = c THEN entry ELSE history[i]]
    BY <1>2 DEF AddCall, entry
  <2>2. DOMAIN history = 1..Len(history)
    OBVIOUS
  <2>3. history' = [i \in 1..Len(history) |->
                      IF history[i].id = c THEN entry ELSE history[i]]
    BY <2>1, <2>2
  <2>4. \A i \in 1..Len(history) : history[i] \in Entry
    OBVIOUS
  <2>5. history' \in Seq(Entry) /\ Len(history') = Len(history)
    BY <2>3, <2>4, <1>1
  <2> QED BY <2>3, <2>5 DEF entry
<1>3. CASE ~Recorded(c)
  <2>1. /\ longer \in Seq(Entry)
        /\ Len(longer) = Len(history) + 1
        /\ \A i \in 1..Len(history) : longer[i] = history[i]
        /\ longer[Len(history) + 1] = entry
    BY <1>1
  <2>2. history' = IF Len(longer) > MaxCalls THEN Tail(longer) ELSE longer
    BY <1>3 DEF AddCall, entry
  <2> HIDE DEF longer
  <2>3. CASE Len(longer) > MaxCalls
    <3>1. /\ Tail(longer) \in Seq(Entry)
          /\ Len(Tail(longer)) = Len(history)
          /\ \A i \in 1..Len(history) : Tail(longer)[i] = longer[i + 1]
      BY <2>1
    <3>2. ASSUME NEW i \in 1..Len(history)
          PROVE history'[i] = entry \/ \E j \in 1..Len(history) : history'[i] = history[j]
      <4>1. history'[i] = longer[i + 1]
        BY <2>2, <2>3, <3>1
      <4>2. CASE i = Len(history)
        BY <4>1, <4>2, <2>1
      <4>3. CASE i < Len(history)
        <5>1. i + 1 \in 1..Len(history)
          BY <4>3
        <5> QED BY <4>1, <5>1, <2>1
      <4>4. i = Len(history) \/ i < Len(history)
        OBVIOUS
      <4> QED BY <4>2, <4>3, <4>4
    <3> QED BY <2>2, <2>3, <3>1, <3>2 DEF entry
  <2>4. CASE ~(Len(longer) > MaxCalls)
    <3>1. \A i \in 1..Len(longer) : i \in 1..Len(history) \/ i = Len(history) + 1
      BY <2>1
    <3> QED BY <2>1, <2>2, <2>4, <3>1 DEF entry
  <2> QED BY <2>3, <2>4
<1> QED BY <1>2, <1>3

LEMMA MarkEffect ==
    ASSUME history \in Seq(Entry), NEW c \in Calls, MarkCallAnswered(c)
    PROVE /\ history' \in Seq(Entry)
          /\ Len(history') = Len(history)
          /\ \A i \in 1..Len(history) :
                /\ history'[i].id = history[i].id
                /\ history[i].id = c => ~history'[i].missed
                /\ history[i].id # c => history'[i] = history[i]
<1>1. DOMAIN history = 1..Len(history) /\ \A i \in 1..Len(history) : history[i] \in Entry
  OBVIOUS
<1> DEFINE answered(i) == [history[i] EXCEPT !.missed = FALSE]
<1>2. \A i \in 1..Len(history) :
        /\ answered(i) \in Entry
        /\ answered(i).id = history[i].id
        /\ answered(i).missed = FALSE
  BY <1>1 DEF Entry
<1>3. history' = [i \in 1..Len(history) |->
                    IF history[i].id = c THEN answered(i) ELSE history[i]]
  BY <1>1 DEF MarkCallAnswered
<1> HIDE DEF answered
<1>4. history' \in Seq(Entry) /\ Len(history') = Len(history)
  BY <1>1, <1>2, <1>3
<1>5. \A i \in 1..Len(history) :
        history'[i] = IF history[i].id = c THEN answered(i) ELSE history[i]
  BY <1>3
<1> QED BY <1>2, <1>4, <1>5

--------------------------------------------------------------------------------
(* Types *)

\* TypeOK without the history.
StateOK ==
    /\ engine \in [Calls -> {"none", "ringing", "live", "ended"}]
    /\ offer \in [Incoming -> {"none", "stored", "recorded", "told"}]
    /\ incoming \in SUBSET Incoming
    /\ setup \in [Calls -> {"none", "taken", "placed", "failed", "attached",
                            "registered", "recorded", "announced"}]
    /\ reject \in [Incoming -> {"none", "taken", "done"}]
    /\ relays \in SUBSET Calls
    /\ running \in SUBSET Calls
    /\ ender \in [Calls -> {"unset", "set", "stop", "remove", "done"}]
    /\ hangup \in [Calls -> {"none", "stop", "end", "done"}]

LEMMA TypeSplit == TypeOK <=> StateOK /\ history \in Seq(Entry) /\ Len(history) <= MaxCalls
BY DEF TypeOK, StateOK, Entry

LEMMA HistoryTyped ==
    ASSUME TypeOK, [Next]_vars
    PROVE history' \in Seq(Entry) /\ Len(history') <= MaxCalls
<1>1. history \in Seq(Entry) /\ Len(history) <= MaxCalls
  BY TypeSplit
<1>2. ASSUME NEW c \in Incoming, RecordOffer(c)
      PROVE history' \in Seq(Entry) /\ Len(history') <= MaxCalls
  <2>1. c \in Calls /\ AddCall(c, TRUE)
    BY <1>2 DEF RecordOffer, Calls
  <2> QED BY <1>1, <2>1, AddCallEffect
<1>3. ASSUME NEW c \in Calls, RecordCall(c)
      PROVE history' \in Seq(Entry) /\ Len(history') <= MaxCalls
  <2>1. AddCall(c, FALSE) \/ MarkCallAnswered(c)
    BY <1>3 DEF RecordCall
  <2>2. CASE AddCall(c, FALSE)
    BY <1>1, <2>2, AddCallEffect
  <2>3. CASE MarkCallAnswered(c)
    BY <1>1, <2>3, MarkEffect
  <2> QED BY <2>1, <2>2, <2>3
<1>4. ASSUME NEW c \in Incoming,
             StoreOffer(c) \/ TellOffer(c) \/ TakeToAccept(c) \/ TakeToReject(c) \/ Reject(c)
      PROVE UNCHANGED history
  BY <1>4 DEF StoreOffer, TellOffer, TakeToAccept, TakeToReject, Reject
<1>5. ASSUME NEW c \in Outgoing, PlaceCall(c) PROVE UNCHANGED history
  BY <1>5 DEF PlaceCall
<1>6. ASSUME NEW c \in Calls,
             \/ PeerEnds(c) \/ Answer(c) \/ AttachMedia(c) \/ Register(c) \/ Announce(c)
             \/ Unregister(c) \/ StopRelay(c) \/ HangUp(c) \/ OnEndStops(c) \/ OnEndRemoves(c)
      PROVE UNCHANGED history
  BY <1>6 DEF PeerEnds, Answer, AttachMedia, Register, Announce, Unregister, StopRelay,
              HangUp, OnEndStops, OnEndRemoves
<1>7. CASE UNCHANGED vars
  BY <1>1, <1>7 DEF vars
<1>8. UNCHANGED history \/ (history' \in Seq(Entry) /\ Len(history') <= MaxCalls)
  BY <1>2, <1>3, <1>4, <1>5, <1>6, <1>7 DEF Next
<1> QED BY <1>1, <1>8

LEMMA StateTyped ==
    ASSUME StateOK, [Next]_vars
    PROVE StateOK'
<1> USE DEF StateOK, Calls
<1>1. ASSUME NEW c \in Incoming, StoreOffer(c) PROVE StateOK'
  BY <1>1 DEF StoreOffer
<1>2. ASSUME NEW c \in Incoming, RecordOffer(c) PROVE StateOK'
  BY <1>2 DEF RecordOffer
<1>3. ASSUME NEW c \in Incoming, TellOffer(c) PROVE StateOK'
  BY <1>3 DEF TellOffer
<1>4. ASSUME NEW c \in Incoming, Reject(c) PROVE StateOK'
  BY <1>4 DEF Reject, Ends, Fires
<1>5. ASSUME NEW c \in Incoming, TakeToAccept(c) PROVE StateOK'
  BY <1>5 DEF TakeToAccept, Take
<1>6. ASSUME NEW c \in Incoming, TakeToReject(c) PROVE StateOK'
  BY <1>6 DEF TakeToReject, Take
<1>7. ASSUME NEW c \in Outgoing, PlaceCall(c) PROVE StateOK'
  BY <1>7 DEF PlaceCall
<1>8. ASSUME NEW c \in Calls, PeerEnds(c) PROVE StateOK'
  BY <1>8 DEF PeerEnds, Ends, Fires
<1>9. ASSUME NEW c \in Calls, HangUp(c) PROVE StateOK'
  BY <1>9 DEF HangUp, Ends, Fires
<1>10. ASSUME NEW c \in Calls, Answer(c) PROVE StateOK'
  BY <1>10 DEF Answer
<1>11. ASSUME NEW c \in Calls, AttachMedia(c) PROVE StateOK'
  BY <1>11 DEF AttachMedia
<1>12. ASSUME NEW c \in Calls, Register(c) PROVE StateOK'
  BY <1>12 DEF Register
<1>13. ASSUME NEW c \in Calls, RecordCall(c) PROVE StateOK'
  BY <1>13 DEF RecordCall
<1>14. ASSUME NEW c \in Calls, Announce(c) PROVE StateOK'
  BY <1>14 DEF Announce
<1>15. ASSUME NEW c \in Calls, Unregister(c) PROVE StateOK'
  BY <1>15 DEF Unregister
<1>16. ASSUME NEW c \in Calls, StopRelay(c) PROVE StateOK'
  BY <1>16 DEF StopRelay
<1>17. ASSUME NEW c \in Calls, OnEndStops(c) PROVE StateOK'
  BY <1>17 DEF OnEndStops
<1>18. ASSUME NEW c \in Calls, OnEndRemoves(c) PROVE StateOK'
  BY <1>18 DEF OnEndRemoves
<1>19. CASE UNCHANGED vars
  BY <1>19 DEF vars
<1> QED BY <1>1, <1>2, <1>3, <1>4, <1>5, <1>6, <1>7, <1>8, <1>9, <1>10,
     <1>11, <1>12, <1>13, <1>14, <1>15, <1>16, <1>17, <1>18, <1>19 DEF Next

\* Every variable keeps its type and the call history never exceeds maxCalls.
THEOREM TypeCorrect == Spec => []TypeOK
<1>1. Init => TypeOK
  BY DEF Init, TypeOK
<1>2. TypeOK /\ [Next]_vars => TypeOK'
  <2> SUFFICES ASSUME TypeOK, [Next]_vars PROVE TypeOK'
    OBVIOUS
  <2>1. StateOK' /\ history' \in Seq(Entry) /\ Len(history') <= MaxCalls
    BY TypeSplit, HistoryTyped, StateTyped
  <2> QED BY <2>1 DEF TypeOK, StateOK, Entry
<1> QED BY <1>1, <1>2, PTL DEF Spec

--------------------------------------------------------------------------------
(* Verdicts *)

\* Nobody has touched a call that the engine has not offered, or that the app
\* has not been told of.
Untouched ==
    \A c \in Incoming :
        /\ engine[c] = "none" => offer[c] = "none"
        /\ offer[c] # "told" => setup[c] = "none" /\ reject[c] = "none"

VerdictInv == StateOK /\ Untouched /\ OneVerdict

LEMMA VerdictStep ==
    ASSUME VerdictInv, [Next]_vars
    PROVE VerdictInv'
<1> USE DEF VerdictInv, Untouched, OneVerdict, StateOK, Calls
<1>1. ASSUME NEW c \in Incoming, StoreOffer(c) PROVE Untouched' /\ OneVerdict'
  BY <1>1 DEF StoreOffer
<1>2. ASSUME NEW c \in Incoming, RecordOffer(c) PROVE Untouched' /\ OneVerdict'
  BY <1>2 DEF RecordOffer
<1>3. ASSUME NEW c \in Incoming, TellOffer(c) PROVE Untouched' /\ OneVerdict'
  BY <1>3 DEF TellOffer
<1>4. ASSUME NEW c \in Incoming, Reject(c) PROVE Untouched' /\ OneVerdict'
  BY <1>4 DEF Reject, Ends, Fires
<1>5. ASSUME NEW c \in Incoming, TakeToAccept(c) PROVE Untouched' /\ OneVerdict'
  BY <1>5 DEF TakeToAccept, Take
<1>6. ASSUME NEW c \in Incoming, TakeToReject(c) PROVE Untouched' /\ OneVerdict'
  BY <1>6 DEF TakeToReject, Take
<1>7. ASSUME NEW c \in Outgoing, PlaceCall(c) PROVE Untouched' /\ OneVerdict'
  BY <1>7 DEF PlaceCall
<1>8. ASSUME NEW c \in Calls, PeerEnds(c) PROVE Untouched' /\ OneVerdict'
  BY <1>8 DEF PeerEnds, Ends, Fires
<1>9. ASSUME NEW c \in Calls, HangUp(c) PROVE Untouched' /\ OneVerdict'
  BY <1>9 DEF HangUp, Ends, Fires
<1>10. ASSUME NEW c \in Calls, Answer(c) PROVE Untouched' /\ OneVerdict'
  BY <1>10 DEF Answer
<1>11. ASSUME NEW c \in Calls, AttachMedia(c) PROVE Untouched' /\ OneVerdict'
  BY <1>11 DEF AttachMedia
<1>12. ASSUME NEW c \in Calls, Register(c) PROVE Untouched' /\ OneVerdict'
  BY <1>12 DEF Register
<1>13. ASSUME NEW c \in Calls, RecordCall(c) PROVE Untouched' /\ OneVerdict'
  BY <1>13 DEF RecordCall
<1>14. ASSUME NEW c \in Calls, Announce(c) PROVE Untouched' /\ OneVerdict'
  BY <1>14 DEF Announce
<1>15. ASSUME NEW c \in Calls, Unregister(c) PROVE Untouched' /\ OneVerdict'
  BY <1>15 DEF Unregister
<1>16. ASSUME NEW c \in Calls, StopRelay(c) PROVE Untouched' /\ OneVerdict'
  BY <1>16 DEF StopRelay
<1>17. ASSUME NEW c \in Calls, OnEndStops(c) PROVE Untouched' /\ OneVerdict'
  BY <1>17 DEF OnEndStops
<1>18. ASSUME NEW c \in Calls, OnEndRemoves(c) PROVE Untouched' /\ OneVerdict'
  BY <1>18 DEF OnEndRemoves
<1>19. CASE UNCHANGED vars
  BY <1>19 DEF vars
<1>20. Untouched' /\ OneVerdict'
  BY <1>1, <1>2, <1>3, <1>4, <1>5, <1>6, <1>7, <1>8, <1>9, <1>10,
     <1>11, <1>12, <1>13, <1>14, <1>15, <1>16, <1>17, <1>18, <1>19 DEF Next
<1>21. StateOK'
  BY StateTyped
<1> QED BY <1>20, <1>21

\* Whatever requests race for an incoming call, it gets at most one verdict.
THEOREM SingleVerdict == Spec => []OneVerdict
<1>1. Init => VerdictInv
  BY DEF Init, VerdictInv, StateOK, Untouched, OneVerdict, Calls
<1>2. VerdictInv /\ [Next]_vars => VerdictInv'
  BY VerdictStep
<1>3. VerdictInv => OneVerdict
  BY DEF VerdictInv
<1> QED BY <1>1, <1>2, <1>3, PTL DEF Spec

--------------------------------------------------------------------------------
(* The missed mark *)

Answered(c) == setup[c] \in {"recorded", "announced"}

MarkInv ==
    /\ VerdictInv
    /\ history \in Seq(Entry)
    /\ Len(history) <= MaxCalls
    /\ MissedMeansUnanswered

\* MissedMeansUnanswered says the same of every entry.
MarkRight(entry) == entry.id \in Incoming => (entry.missed <=> ~Answered(entry.id))

LEMMA MarkRightIsMissed ==
    ASSUME history \in Seq(Entry)
    PROVE MissedMeansUnanswered <=> \A i \in 1..Len(history) : MarkRight(history[i])
<1>1. DOMAIN history = 1..Len(history) /\ \A i \in 1..Len(history) : history[i] \in Entry
  OBVIOUS
<1>2. \A i \in 1..Len(history) : history[i].missed \in BOOLEAN
  BY <1>1 DEF Entry
<1> QED BY <1>1, <1>2 DEF MissedMeansUnanswered, MarkRight, Answered

LEMMA MarkRightIsMissedNext ==
    ASSUME history' \in Seq(Entry), \A i \in 1..Len(history') : MarkRight(history[i])'
    PROVE MissedMeansUnanswered'
<1>1. DOMAIN history' = 1..Len(history') /\ \A i \in 1..Len(history') : history'[i] \in Entry
  OBVIOUS
<1>2. \A i \in 1..Len(history') : history'[i].missed \in BOOLEAN
  BY <1>1 DEF Entry
<1> QED BY <1>1, <1>2 DEF MissedMeansUnanswered, MarkRight, Answered

LEMMA MarkStep ==
    ASSUME MarkInv, [Next]_vars
    PROVE MissedMeansUnanswered'
<1> DEFINE Kept == UNCHANGED history /\ \A c \in Incoming : Answered(c)' <=> Answered(c)
<1>1. /\ StateOK /\ history \in Seq(Entry) /\ Len(history) <= MaxCalls
      /\ DOMAIN history = 1..Len(history)
      /\ \A i \in 1..Len(history) : history[i] \in Entry
      /\ \A i \in 1..Len(history) : MarkRight(history[i])
  <2>1. StateOK /\ history \in Seq(Entry) /\ Len(history) <= MaxCalls /\ MissedMeansUnanswered
    BY DEF MarkInv, VerdictInv
  <2> QED BY <2>1, MarkRightIsMissed
<1>2. ASSUME NEW c \in Incoming, RecordOffer(c) PROVE MissedMeansUnanswered'
  <2>1. setup[c] = "none" /\ UNCHANGED setup /\ AddCall(c, TRUE) /\ c \in Calls
    BY <1>2 DEF RecordOffer, MarkInv, VerdictInv, Untouched, Calls
  <2>2. /\ history' \in Seq(Entry)
        /\ \A i \in 1..Len(history') :
              \/ history'[i] = [id |-> c, missed |-> TRUE]
              \/ \E j \in 1..Len(history) : history'[i] = history[j]
    BY <1>1, <2>1, AddCallEffect
  <2>3. \A i \in 1..Len(history') : MarkRight(history[i])'
    BY <1>1, <2>1, <2>2 DEF MarkRight, Answered
  <2> QED BY <2>2, <2>3, MarkRightIsMissedNext
<1>3. ASSUME NEW c \in Outgoing, RecordCall(c) PROVE MissedMeansUnanswered'
  <2>1. setup' = [setup EXCEPT ![c] = "recorded"] /\ AddCall(c, FALSE)
    BY <1>3 DEF RecordCall
  <2>2. c \in Calls /\ c \notin Incoming
    BY DEF Calls
  <2>3. /\ history' \in Seq(Entry)
        /\ \A i \in 1..Len(history') :
              \/ history'[i] = [id |-> c, missed |-> FALSE]
              \/ \E j \in 1..Len(history) : history'[i] = history[j]
    BY <1>1, <2>1, <2>2, AddCallEffect
  <2>4. \A d \in Incoming : setup'[d] = setup[d]
    BY <1>1, <2>1, <2>2 DEF StateOK, Calls
  <2>5. \A i \in 1..Len(history') : MarkRight(history[i])'
    BY <1>1, <2>2, <2>3, <2>4 DEF MarkRight, Answered
  <2> QED BY <2>3, <2>5, MarkRightIsMissedNext
<1>4. ASSUME NEW c \in Calls, c \notin Outgoing, RecordCall(c) PROVE MissedMeansUnanswered'
  <2>1. setup' = [setup EXCEPT ![c] = "recorded"] /\ MarkCallAnswered(c) /\ c \in Incoming
    BY <1>4 DEF RecordCall, Calls
  <2>2. /\ history' \in Seq(Entry)
        /\ Len(history') = Len(history)
        /\ \A i \in 1..Len(history) :
              /\ history'[i].id = history[i].id
              /\ history[i].id = c => ~history'[i].missed
              /\ history[i].id # c => history'[i] = history[i]
    BY <1>1, <2>1, MarkEffect
  <2>3. setup'[c] = "recorded" /\ \A d \in Incoming \ {c} : setup'[d] = setup[d]
    BY <1>1, <2>1 DEF StateOK, Calls
  <2>4. ASSUME NEW i \in 1..Len(history) PROVE MarkRight(history[i])'
    <3>1. CASE history[i].id = c
      BY <2>2, <2>3, <3>1 DEF MarkRight, Answered
    <3>2. CASE history[i].id # c
      BY <1>1, <2>2, <2>3, <3>2 DEF MarkRight, Answered
    <3> QED BY <3>1, <3>2
  <2> QED BY <2>2, <2>4, MarkRightIsMissedNext
<1>5. ASSUME Kept PROVE MissedMeansUnanswered'
  <2>1. \A i \in 1..Len(history') : MarkRight(history[i])'
    BY <1>1, <1>5 DEF MarkRight, Entry
  <2> QED BY <1>1, <1>5, <2>1, MarkRightIsMissedNext
<1>6. ASSUME NEW c \in Incoming,
             StoreOffer(c) \/ TellOffer(c) \/ TakeToReject(c) \/ Reject(c)
      PROVE Kept
  BY <1>6 DEF StoreOffer, TellOffer, TakeToReject, Reject, Answered
<1>7. ASSUME NEW c \in Incoming, TakeToAccept(c) PROVE Kept
  BY <1>1, <1>7 DEF TakeToAccept, StateOK, Answered, Calls
<1>8. ASSUME NEW c \in Outgoing, PlaceCall(c) PROVE Kept
  BY <1>1, <1>8 DEF PlaceCall, StateOK, Answered, Calls
<1>9. ASSUME NEW c \in Calls, Answer(c) PROVE Kept
  BY <1>1, <1>9 DEF Answer, StateOK, Answered, Calls
<1>10. ASSUME NEW c \in Calls, AttachMedia(c) PROVE Kept
  BY <1>1, <1>10 DEF AttachMedia, StateOK, Answered, Calls
<1>11. ASSUME NEW c \in Calls, Register(c) PROVE Kept
  BY <1>1, <1>11 DEF Register, StateOK, Answered, Calls
<1>12. ASSUME NEW c \in Calls, Announce(c) PROVE Kept
  BY <1>1, <1>12 DEF Announce, StateOK, Answered, Calls
<1>13. ASSUME NEW c \in Calls,
              \/ PeerEnds(c) \/ Unregister(c) \/ StopRelay(c) \/ HangUp(c)
              \/ OnEndStops(c) \/ OnEndRemoves(c)
       PROVE Kept
  BY <1>13 DEF PeerEnds, Unregister, StopRelay, HangUp, OnEndStops, OnEndRemoves, Answered
<1>14. CASE UNCHANGED vars
  <2>1. Kept
    BY <1>14 DEF vars, Answered
  <2> QED BY <1>5, <2>1
<1> HIDE DEF Kept
<1> QED
  BY <1>2, <1>3, <1>4, <1>5, <1>6, <1>7, <1>8, <1>9, <1>10, <1>11, <1>12, <1>13, <1>14
  DEF Next, Calls

\* The history tells answered from missed calls, whatever its length.
THEOREM MissedHonest == Spec => []MissedMeansUnanswered
<1>1. Init => MarkInv
  BY DEF Init, MarkInv, VerdictInv, StateOK, Untouched, OneVerdict, MissedMeansUnanswered, Calls
<1>2. MarkInv /\ [Next]_vars => MarkInv'
  <2> SUFFICES ASSUME MarkInv, [Next]_vars PROVE MarkInv'
    OBVIOUS
  <2>1. VerdictInv'
    BY VerdictStep DEF MarkInv
  <2>2. TypeOK
    BY TypeSplit DEF MarkInv, VerdictInv
  <2> QED BY <2>1, <2>2, HistoryTyped, MarkStep DEF MarkInv
<1>3. MarkInv => MissedMeansUnanswered
  BY DEF MarkInv
<1> QED BY <1>1, <1>2, <1>3, PTL DEF Spec

--------------------------------------------------------------------------------
(* The call book *)

BookStage == [c \in Incoming |-> Stage(c)]
BookEntries == {e \in {history[i] : i \in DOMAIN history} : e.id \in Incoming}

\* Offers that are not recorded yet are pending; a verdict leaves the map.
Offered ==
    \A c \in Incoming :
        /\ c \in incoming => offer[c] # "none"
        /\ offer[c] \in {"stored", "recorded"} => c \in incoming

LEMMA OfferedStep ==
    ASSUME VerdictInv, Offered, [Next]_vars
    PROVE Offered'
<1> USE DEF VerdictInv, Untouched, Offered, StateOK, Calls
<1>1. ASSUME NEW c \in Incoming, StoreOffer(c) PROVE Offered'
  BY <1>1 DEF StoreOffer
<1>2. ASSUME NEW c \in Incoming, RecordOffer(c) PROVE Offered'
  BY <1>2 DEF RecordOffer
<1>3. ASSUME NEW c \in Incoming, TellOffer(c) PROVE Offered'
  BY <1>3 DEF TellOffer
<1>4. ASSUME NEW c \in Incoming, TakeToAccept(c) PROVE Offered'
  BY <1>4 DEF TakeToAccept, Take
<1>5. ASSUME NEW c \in Incoming, TakeToReject(c) PROVE Offered'
  BY <1>5 DEF TakeToReject, Take
<1>6. ASSUME UNCHANGED <<offer, incoming>> PROVE Offered'
  BY <1>6
<1>7. ASSUME NEW c \in Incoming, Reject(c) PROVE UNCHANGED <<offer, incoming>>
  BY <1>7 DEF Reject
<1>8. ASSUME NEW c \in Outgoing, PlaceCall(c) PROVE UNCHANGED <<offer, incoming>>
  BY <1>8 DEF PlaceCall
<1>9. ASSUME NEW c \in Calls,
             \/ PeerEnds(c) \/ Answer(c) \/ AttachMedia(c) \/ Register(c) \/ RecordCall(c)
             \/ Announce(c) \/ Unregister(c) \/ StopRelay(c) \/ HangUp(c)
             \/ OnEndStops(c) \/ OnEndRemoves(c)
      PROVE UNCHANGED <<offer, incoming>>
  BY <1>9 DEF PeerEnds, Answer, AttachMedia, Register, RecordCall, Announce, Unregister,
              StopRelay, HangUp, OnEndStops, OnEndRemoves
<1>10. CASE UNCHANGED vars
  BY <1>10 DEF vars
<1> QED
  BY <1>1, <1>2, <1>3, <1>4, <1>5, <1>6, <1>7, <1>8, <1>9, <1>10 DEF Next

\* The stage of a call depends on setup, reject and incoming at it only.
LEMMA StageKept ==
    ASSUME NEW c \in Incoming,
           setup'[c] = "none" <=> setup[c] = "none",
           reject'[c] = "none" <=> reject[c] = "none",
           c \in incoming' <=> c \in incoming
    PROVE Stage(c)' = Stage(c)
BY DEF Stage

LEMMA BookStep ==
    ASSUME MarkInv, Offered, [Next]_vars
    PROVE [Book!Next]_<<BookStage, BookEntries>>
<1> USE DEF VerdictInv, StateOK, Calls
<1>0. /\ StateOK /\ Untouched /\ OneVerdict
      /\ history \in Seq(Entry) /\ Len(history) <= MaxCalls
      /\ DOMAIN history = 1..Len(history)
      /\ \A i \in 1..Len(history) : history[i] \in Entry
  BY DEF MarkInv
<1>A. ASSUME UNCHANGED history PROVE BookEntries' = BookEntries
  BY <1>A DEF BookEntries
<1>B. ASSUME \A c \in Incoming : Stage(c)' = Stage(c) PROVE BookStage' = BookStage
  BY <1>B, Zenon DEF BookStage
<1>C. ASSUME NEW c \in Incoming, NEW s, Stage(c)' = s,
             \A d \in Incoming \ {c} : Stage(d)' = Stage(d)
      PROVE BookStage' = [BookStage EXCEPT ![c] = s]
  BY <1>C DEF BookStage
<1>1. ASSUME NEW c \in Incoming, StoreOffer(c) PROVE Book!Ring(c)
  <2>1. Stage(c) = "unknown" /\ Stage(c)' = "pending"
    BY <1>0, <1>1 DEF StoreOffer, Stage, Untouched, Offered
  <2>2. \A d \in Incoming \ {c} : Stage(d)' = Stage(d)
    BY <1>1, StageKept DEF StoreOffer
  <2>3. BookStage' = [BookStage EXCEPT ![c] = "pending"] /\ BookEntries' = BookEntries
    BY <1>1, <1>A, <1>C, <2>1, <2>2 DEF StoreOffer
  <2> QED BY <2>1, <2>3 DEF Book!Ring, BookStage, BookEntries
<1>2. ASSUME NEW c \in Incoming, RecordOffer(c) PROVE Book!Log(c)
  <2>1. Stage(c) = "pending" /\ AddCall(c, TRUE) /\ c \in Calls
    BY <1>0, <1>2 DEF RecordOffer, Stage, Untouched, Offered
  <2>2. \A d \in Incoming : Stage(d)' = Stage(d)
    BY <1>2, StageKept DEF RecordOffer
  <2>3. /\ history' \in Seq(Entry)
        /\ \A i \in 1..Len(history') :
              \/ history'[i] = [id |-> c, missed |-> TRUE]
              \/ \E j \in 1..Len(history) : history'[i] = history[j]
    BY <1>0, <2>1, AddCallEffect
  <2>4. BookEntries' \subseteq BookEntries \cup {Book!Missed(c)}
    <3> SUFFICES ASSUME NEW i \in 1..Len(history'), history'[i].id \in Incoming,
                        history'[i] # Book!Missed(c)
                 PROVE  history'[i] \in BookEntries
      BY <2>3 DEF BookEntries
    <3>1. PICK j \in 1..Len(history) : history'[i] = history[j]
      BY <2>3 DEF Book!Missed
    <3> QED BY <1>0, <3>1 DEF BookEntries
  <2> QED BY <1>B, <2>1, <2>2, <2>4 DEF Book!Log, BookStage, BookEntries
<1>3. ASSUME NEW c \in Incoming, TakeToAccept(c) \/ TakeToReject(c) PROVE Book!Decide(c)
  <2>1. /\ Stage(c) = "pending"
        /\ Stage(c)' \in {"accepted", "rejected"}
    BY <1>0, <1>3 DEF TakeToAccept, TakeToReject, Take, Stage, OneVerdict
  <2>2. \A d \in Incoming \ {c} : Stage(d)' = Stage(d)
    BY <1>0, <1>3, StageKept DEF TakeToAccept, TakeToReject, Take
  <2>3. BookStage' = [BookStage EXCEPT ![c] = Stage(c)'] /\ BookEntries' = BookEntries
    BY <1>3, <1>A, <1>C, <2>2 DEF TakeToAccept, TakeToReject
  <2> QED BY <2>1, <2>3 DEF Book!Decide, BookStage, BookEntries
<1>4. ASSUME NEW c \in Incoming, RecordCall(c) PROVE Book!MarkAnswered(c)
  <2>1. setup[c] = "registered" /\ MarkCallAnswered(c) /\ c \in Calls
    BY <1>4, CallsAssumption DEF RecordCall
  <2>2. \A d \in Incoming : Stage(d)' = Stage(d)
    BY <1>0, <1>4, StageKept DEF RecordCall
  <2>3. /\ DOMAIN history' = DOMAIN history
        /\ \A i \in DOMAIN history :
              history'[i] = IF history[i].id = c THEN Book!Answered(history[i]) ELSE history[i]
    BY <2>1 DEF MarkCallAnswered, Book!Answered
  <2>4. \A i \in DOMAIN history : history'[i].id = history[i].id
    BY <1>0, <2>3 DEF Book!Answered, Entry
  <2>5. BookEntries' = {IF e.id = c THEN Book!Answered(e) ELSE e : e \in BookEntries}
    BY <2>3, <2>4 DEF BookEntries
  <2>6. Stage(c) = "accepted"
    BY <2>1 DEF Stage
  <2> QED BY <1>B, <2>2, <2>5, <2>6 DEF Book!MarkAnswered, BookStage, BookEntries
<1>5. ASSUME NEW c \in Outgoing, RecordCall(c) PROVE Book!FallOff
  <2>1. AddCall(c, FALSE) /\ c \in Calls /\ c \notin Incoming
    BY <1>5, CallsAssumption DEF RecordCall
  <2>2. \A d \in Incoming : Stage(d)' = Stage(d)
    BY <1>0, <1>5, <2>1, StageKept DEF RecordCall
  <2>3. /\ history' \in Seq(Entry)
        /\ \A i \in 1..Len(history') :
              \/ history'[i] = [id |-> c, missed |-> FALSE]
              \/ \E j \in 1..Len(history) : history'[i] = history[j]
    BY <1>0, <2>1, AddCallEffect
  <2>4. BookEntries' \subseteq BookEntries
    <3> SUFFICES ASSUME NEW i \in 1..Len(history'), history'[i].id \in Incoming
                 PROVE  history'[i] \in BookEntries
      BY <2>3 DEF BookEntries
    <3>1. PICK j \in 1..Len(history) : history'[i] = history[j]
      BY <2>1, <2>3
    <3> QED BY <1>0, <3>1 DEF BookEntries
  <2> QED BY <1>B, <2>2, <2>4 DEF Book!FallOff, BookStage, BookEntries
<1>6. ASSUME NEW c \in Incoming, TellOffer(c) \/ Reject(c)
      PROVE UNCHANGED <<BookStage, BookEntries>>
  <2>1. \A d \in Incoming : Stage(d)' = Stage(d)
    BY <1>0, <1>6, StageKept DEF TellOffer, Reject
  <2> QED BY <1>6, <1>A, <1>B, <2>1 DEF TellOffer, Reject
<1>7. ASSUME NEW c \in Outgoing, PlaceCall(c) PROVE UNCHANGED <<BookStage, BookEntries>>
  <2>1. \A d \in Incoming : Stage(d)' = Stage(d)
    BY <1>0, <1>7, CallsAssumption, StageKept DEF PlaceCall
  <2> QED BY <1>7, <1>A, <1>B, <2>1 DEF PlaceCall
<1>8. ASSUME NEW c \in Calls,
             Answer(c) \/ AttachMedia(c) \/ Register(c) \/ Announce(c)
      PROVE UNCHANGED <<BookStage, BookEntries>>
  <2>1. /\ UNCHANGED <<history, reject, incoming>>
        /\ setup[c] # "none" /\ setup'[c] # "none"
        /\ \A d \in Calls \ {c} : setup'[d] = setup[d]
    BY <1>0, <1>8 DEF Answer, AttachMedia, Register, Announce
  <2>2. \A d \in Incoming : Stage(d)' = Stage(d)
    BY <2>1, StageKept
  <2> QED BY <1>A, <1>B, <2>1, <2>2
<1>9. ASSUME NEW c \in Calls,
             \/ PeerEnds(c) \/ Unregister(c) \/ StopRelay(c) \/ HangUp(c)
             \/ OnEndStops(c) \/ OnEndRemoves(c)
      PROVE UNCHANGED <<BookStage, BookEntries>>
  <2>1. UNCHANGED <<history, setup, reject, incoming>>
    BY <1>9 DEF PeerEnds, Unregister, StopRelay, HangUp, OnEndStops, OnEndRemoves
  <2>2. \A d \in Incoming : Stage(d)' = Stage(d)
    BY <2>1, StageKept
  <2> QED BY <1>A, <1>B, <2>1, <2>2
<1>10. CASE UNCHANGED vars
  <2>1. UNCHANGED <<history, setup, reject, incoming>>
    BY <1>10 DEF vars
  <2>2. \A d \in Incoming : Stage(d)' = Stage(d)
    BY <2>1, StageKept
  <2> QED BY <1>A, <1>B, <2>1, <2>2
<1> QED
  BY <1>1, <1>2, <1>3, <1>4, <1>5, <1>6, <1>7, <1>8, <1>9, <1>10
  DEF Next, Book!Next

\* The registry and the capped history implement the call book: one final
\* verdict per call, a missed mark that only an accept takes away.
THEOREM ImplementsCallBook == Spec => KeepsBook
<1>1. Init => Book!Init
  BY DEF Init, Book!Init, Stage, Calls
<1>2. Init => MarkInv /\ Offered
  BY DEF Init, MarkInv, VerdictInv, StateOK, Untouched, OneVerdict,
         MissedMeansUnanswered, Offered, Calls
<1>3. MarkInv /\ Offered /\ [Next]_vars => (MarkInv /\ Offered)'
  <2> SUFFICES ASSUME MarkInv, Offered, [Next]_vars PROVE MarkInv' /\ Offered'
    OBVIOUS
  <2>1. VerdictInv' /\ Offered'
    BY VerdictStep, OfferedStep DEF MarkInv
  <2>2. TypeOK
    BY TypeSplit DEF MarkInv, VerdictInv
  <2> QED BY <2>1, <2>2, HistoryTyped, MarkStep DEF MarkInv
<1>4. MarkInv /\ Offered /\ [Next]_vars => [Book!Next]_<<BookStage, BookEntries>>
  BY BookStep
<1> QED BY <1>1, <1>2, <1>3, <1>4, PTL DEF Spec, KeepsBook, Book!Spec, BookStage, BookEntries

--------------------------------------------------------------------------------
(* The end of a call: Hangup and the OnEnd callback tear down the same relay *)

Registered(c) == setup[c] \in {"registered", "recorded", "announced"}
Attached(c) == setup[c] = "attached" \/ Registered(c)

\* The media goroutines run from attachMedia to the first of the two stops.
MediaFollows(c) ==
    /\ Attached(c) <=> ender[c] # "unset"
    /\ c \in running <=> ender[c] \in {"set", "stop"} /\ hangup[c] \in {"none", "stop"}

\* A relay is in the registry from Register to the first of the two removals;
\* only Register, when the callback is done already, puts it there too late.
RegistryFollows(c) ==
    /\ c \in relays => Registered(c) /\ hangup[c] = "none"
    /\ hangup[c] # "none" => Registered(c)
    /\ Registered(c) /\ c \notin relays => hangup[c] # "none" \/ ender[c] = "done"

\* The callback runs, and Hangup returns, when the call has ended.
EngineFollows(c) ==
    /\ setup[c] = "placed" \/ Attached(c) => engine[c] \in {"live", "ended"}
    /\ ender[c] \in {"stop", "remove", "done"} \/ hangup[c] = "done" => engine[c] = "ended"

TearDown == \A c \in Calls : MediaFollows(c) /\ RegistryFollows(c) /\ EngineFollows(c)

LEMMA TearDownStep ==
    ASSUME StateOK, TearDown, [Next]_vars
    PROVE TearDown'
<1> USE DEF TearDown, MediaFollows, RegistryFollows, EngineFollows, Attached, Registered,
            StateOK, Calls
<1>1. ASSUME NEW c \in Incoming, StoreOffer(c) PROVE TearDown'
  BY <1>1 DEF StoreOffer
<1>2. ASSUME NEW c \in Incoming, RecordOffer(c) \/ TellOffer(c) \/ TakeToReject(c)
      PROVE TearDown'
  <2>1. UNCHANGED <<engine, setup, relays, running, ender, hangup>>
    BY <1>2 DEF RecordOffer, TellOffer, TakeToReject
  <2> QED BY <2>1
<1>3. ASSUME NEW c \in Incoming, Reject(c) PROVE TearDown'
  BY <1>3 DEF Reject, Ends, Fires
<1>4. ASSUME NEW c \in Incoming, TakeToAccept(c) PROVE TearDown'
  BY <1>4 DEF TakeToAccept
<1>5. ASSUME NEW c \in Outgoing, PlaceCall(c) PROVE TearDown'
  BY <1>5 DEF PlaceCall
<1>6. ASSUME NEW c \in Calls, PeerEnds(c) PROVE TearDown'
  BY <1>6 DEF PeerEnds, Ends, Fires
<1>7. ASSUME NEW c \in Calls, Answer(c) PROVE TearDown'
  BY <1>7 DEF Answer
<1>8. ASSUME NEW c \in Calls, AttachMedia(c) PROVE TearDown'
  BY <1>8 DEF AttachMedia
<1>9. ASSUME NEW c \in Calls, Register(c) PROVE TearDown'
  BY <1>9 DEF Register
<1>10. ASSUME NEW c \in Calls, RecordCall(c) PROVE TearDown'
  BY <1>10 DEF RecordCall
<1>11. ASSUME NEW c \in Calls, Announce(c) PROVE TearDown'
  BY <1>11 DEF Announce
<1>12. ASSUME NEW c \in Calls, Unregister(c) PROVE TearDown'
  BY <1>12 DEF Unregister
<1>13. ASSUME NEW c \in Calls, StopRelay(c) PROVE TearDown'
  BY <1>13 DEF StopRelay
<1>14. ASSUME NEW c \in Calls, HangUp(c) PROVE TearDown'
  BY <1>14 DEF HangUp, Ends, Fires
<1>15. ASSUME NEW c \in Calls, OnEndStops(c) PROVE TearDown'
  BY <1>15 DEF OnEndStops
<1>16. ASSUME NEW c \in Calls, OnEndRemoves(c) PROVE TearDown'
  BY <1>16 DEF OnEndRemoves
<1>17. CASE UNCHANGED vars
  BY <1>17 DEF vars
<1> QED
  BY <1>1, <1>2, <1>3, <1>4, <1>5, <1>6, <1>7, <1>8, <1>9, <1>10, <1>11, <1>12,
     <1>13, <1>14, <1>15, <1>16, <1>17 DEF Next

\* Until a registered call ends or the user hangs up, it is in the registry with
\* its media running; Hangup leaves neither relay nor media behind, and neither
\* does the callback, except for a relay that was registered after it.
TornDown ==
    \A c \in Calls : Registered(c) =>
        /\ engine[c] # "ended" /\ hangup[c] = "none" => c \in relays /\ c \in running
        /\ hangup[c] \in {"end", "done"} => c \notin relays /\ c \notin running
        /\ ender[c] = "done" => c \notin running

\* A call that has left the registry does not come back, and its media do not
\* start again, whatever Hangup, the callback and the handlers do next.
GoneForGood ==
    \A c \in Calls : Registered(c) =>
        /\ c \notin relays => c \notin relays'
        /\ c \notin running => c \notin running'

\* Hangup and the OnEnd callback, in any interleaving and for any number of
\* calls, tear a call down completely, and not before its time.
THEOREM HangUpAndEndAgree == Spec => [](TornDown) /\ [][GoneForGood]_vars
<1>1. Init => StateOK /\ TearDown
  BY DEF Init, StateOK, TearDown, MediaFollows, RegistryFollows, EngineFollows, Attached,
         Registered, Calls
<1>2. StateOK /\ TearDown /\ [Next]_vars => (StateOK /\ TearDown)'
  BY StateTyped, TearDownStep
<1>3. StateOK /\ TearDown => TornDown
  BY DEF StateOK, TearDown, MediaFollows, RegistryFollows, EngineFollows, Attached, TornDown
<1>4. StateOK /\ [Next]_vars => [GoneForGood]_vars
  <2> SUFFICES ASSUME StateOK, Next PROVE GoneForGood
    BY DEF GoneForGood, vars
  <2> USE DEF GoneForGood, Registered, StateOK, Calls
  <2>1. ASSUME NEW c \in Calls, Register(c) PROVE GoneForGood
    BY <2>1 DEF Register
  <2>2. ASSUME NEW c \in Calls, AttachMedia(c) PROVE GoneForGood
    BY <2>2 DEF AttachMedia
  <2>3. ASSUME relays' \subseteq relays, running' \subseteq running PROVE GoneForGood
    BY <2>3
  <2>4. ASSUME NEW c \in Incoming,
               \/ StoreOffer(c) \/ RecordOffer(c) \/ TellOffer(c)
               \/ TakeToAccept(c) \/ TakeToReject(c) \/ Reject(c)
        PROVE relays' \subseteq relays /\ running' \subseteq running
    BY <2>4 DEF StoreOffer, RecordOffer, TellOffer, TakeToAccept, TakeToReject, Reject
  <2>5. ASSUME NEW c \in Outgoing, PlaceCall(c)
        PROVE relays' \subseteq relays /\ running' \subseteq running
    BY <2>5 DEF PlaceCall
  <2>6. ASSUME NEW c \in Calls,
               \/ PeerEnds(c) \/ Answer(c) \/ RecordCall(c) \/ Announce(c)
               \/ Unregister(c) \/ StopRelay(c) \/ HangUp(c)
               \/ OnEndStops(c) \/ OnEndRemoves(c)
        PROVE relays' \subseteq relays /\ running' \subseteq running
    BY <2>6 DEF PeerEnds, Answer, RecordCall, Announce, Unregister, StopRelay, HangUp,
                OnEndStops, OnEndRemoves
  <2> HIDE DEF GoneForGood
  <2> QED BY <2>1, <2>2, <2>3, <2>4, <2>5, <2>6 DEF Next
<1> QED BY <1>1, <1>2, <1>3, <1>4, PTL DEF Spec

--------------------------------------------------------------------------------
(* The calls that outlive their end *)

\* The call is over, its relay is in the registry, and no callback is under way
\* that would take it out: it stays until the user hangs it up.
Stranded(c) ==
    /\ engine[c] = "ended"
    /\ c \in relays
    /\ ender[c] \notin {"stop", "remove"}

\* A call is stranded by one step only, the Register of a handler that has been
\* overtaken by the end of the call: before that, its callback was registered
\* after the end and the library does not call it, or it has run already.
LateRegister(c) ==
    /\ setup[c] = "attached"
    /\ engine[c] = "ended"
    /\ ender[c] \in {"set", "done"}

StrandedByRegister == \A c \in Calls : Stranded(c)' => Stranded(c) \/ LateRegister(c)

LEMMA StrandedStep ==
    ASSUME StateOK, TearDown, Next, NEW d \in Calls, Stranded(d)'
    PROVE Stranded(d) \/ LateRegister(d)
<1> USE DEF Stranded, LateRegister, TearDown, MediaFollows, RegistryFollows, EngineFollows,
            Attached, Registered, StateOK, Calls
<1>1. ASSUME NEW c \in Calls, Register(c) PROVE Stranded(d) \/ LateRegister(d)
  BY <1>1 DEF Register
<1>2. ASSUME NEW c \in Calls, AttachMedia(c) PROVE Stranded(d) \/ LateRegister(d)
  BY <1>2 DEF AttachMedia
<1>3. ASSUME NEW c \in Calls, PeerEnds(c) \/ HangUp(c)
      PROVE Stranded(d) \/ LateRegister(d)
  BY <1>3 DEF PeerEnds, HangUp, Ends, Fires
<1>4. ASSUME NEW c \in Incoming, Reject(c) PROVE Stranded(d) \/ LateRegister(d)
  BY <1>4 DEF Reject, Ends, Fires
<1>5. ASSUME NEW c \in Incoming, StoreOffer(c) PROVE Stranded(d) \/ LateRegister(d)
  BY <1>5 DEF StoreOffer
<1>6. ASSUME NEW c \in Outgoing, PlaceCall(c) PROVE Stranded(d) \/ LateRegister(d)
  BY <1>6 DEF PlaceCall
<1>7. ASSUME NEW c \in Calls, Answer(c) PROVE Stranded(d) \/ LateRegister(d)
  BY <1>7 DEF Answer
<1>8. ASSUME NEW c \in Calls, OnEndStops(c) \/ OnEndRemoves(c)
      PROVE Stranded(d) \/ LateRegister(d)
  BY <1>8 DEF OnEndStops, OnEndRemoves
<1>9. ASSUME NEW c \in Calls, Unregister(c) PROVE Stranded(d) \/ LateRegister(d)
  BY <1>9 DEF Unregister
<1>10. ASSUME NEW c \in Calls, RecordCall(c) \/ Announce(c) \/ StopRelay(c)
       PROVE Stranded(d) \/ LateRegister(d)
  BY <1>10 DEF RecordCall, Announce, StopRelay
<1>11. ASSUME NEW c \in Incoming,
              RecordOffer(c) \/ TellOffer(c) \/ TakeToAccept(c) \/ TakeToReject(c)
       PROVE Stranded(d) \/ LateRegister(d)
  BY <1>11 DEF RecordOffer, TellOffer, TakeToAccept, TakeToReject
<1> QED
  BY <1>1, <1>2, <1>3, <1>4, <1>5, <1>6, <1>7, <1>8, <1>9, <1>10, <1>11 DEF Next

\* The zombies of EndedCallsLeave come from one race only: a call whose relay is
\* in the registry when it ends has a callback that takes it out.
THEOREM OnlyLateSetupStrands == Spec => [][StrandedByRegister]_vars
<1>1. Init => StateOK /\ TearDown
  BY DEF Init, StateOK, TearDown, MediaFollows, RegistryFollows, EngineFollows, Attached,
         Registered, Calls
<1>2. StateOK /\ TearDown /\ [Next]_vars => (StateOK /\ TearDown)'
  BY StateTyped, TearDownStep
<1>3. StateOK /\ TearDown /\ [Next]_vars => [StrandedByRegister]_vars
  BY StrandedStep DEF StrandedByRegister, vars
<1> QED BY <1>1, <1>2, <1>3, PTL DEF Spec

================================================================================
