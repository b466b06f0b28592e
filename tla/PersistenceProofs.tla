--------------------------- MODULE PersistenceProofs ---------------------------
(***************************************************************************)
(* Proofs about Persistence, for every set of parts, every set of callers  *)
(* of Flush, and every number of changes.                                  *)
(***************************************************************************)
EXTENDS Persistence, TLAPS

\* The empty store is a vector of versions, and so is what a load reads.
LEMMA ZeroTyped == Zero \in Versions
  BY DEF Zero, Versions

LEMMA ContentTyped == TypeOK => Content \in Versions
<1> SUFFICES ASSUME TypeOK PROVE Content \in Versions
  OBVIOUS
<1>1. file.data \in Versions
  BY DEF TypeOK
<1>2. QED
  BY <1>1, ZeroTyped DEF Content

\* Every variable keeps its type, in every execution of the persistence code.
LEMMA InitTyped == Init => TypeOK
<1> SUFFICES ASSUME Init PROVE TypeOK
  OBVIOUS
<1>1. file \in [state : {"missing", "torn", "intact"}, data : Versions]
  BY ZeroTyped DEF Init, Missing
<1>2. /\ snap \in [Sources -> Versions]
      /\ todo \in [Sources -> SUBSET Shared]
      /\ last \in Sources
  BY ZeroTyped DEF Init, Sources
<1>3. QED
  BY <1>1, <1>2, ZeroTyped DEF Init, TypeOK

\* ... and keeps it in every step.
LEMMA NextTyped == TypeOK /\ [Next]_vars => TypeOK'
<1> SUFFICES ASSUME TypeOK, [Next]_vars PROVE TypeOK'
  OBVIOUS
<1> USE DEF TypeOK, Versions, Sources, process, flush
<1>1. ASSUME NEW p \in Parts, Change(p) PROVE TypeOK'
  BY <1>1 DEF Change
<1>2. CASE NeedsFlush
  BY <1>2 DEF NeedsFlush
<1>3. ASSUME NEW f \in Flushers, BeginFlush(f) PROVE TypeOK'
  BY <1>3 DEF BeginFlush
<1>4. ASSUME NEW f \in Flushers, NEW p \in Shared, MarshalPart(f, p) PROVE TypeOK'
  BY <1>4 DEF MarshalPart, Parts
<1>5. ASSUME NEW f \in Flushers, Truncate(f) PROVE TypeOK'
  BY <1>5 DEF Truncate, Torn, Zero
<1>6. ASSUME NEW f \in Flushers, Write(f) PROVE TypeOK'
  BY <1>6 DEF Write, Torn, Zero, Intact, Returned, MixedBy
<1>7. ASSUME NEW f \in Flushers, WriteFails(f) PROVE TypeOK'
  <2>1. file' \in [state : {"missing", "torn", "intact"}, data : Versions]
    BY <1>7, ZeroTyped DEF WriteFails, Torn
  <2>2. mixed' \in [Flushers -> BOOLEAN]
    BY <1>7, Zenon DEF WriteFails, MixedBy
  <2>3. pc' \in [Flushers -> {"idle", "due", "marshal", "write", "done"}]
    BY <1>7 DEF WriteFails, Returned
  <2>4. QED
    BY <1>7, <2>1, <2>2, <2>3 DEF WriteFails
<1>8. CASE Signal
  BY <1>8 DEF Signal
<1>9. ASSUME GoDown PROVE TypeOK'
  BY <1>9 DEF GoDown, Zero
<1>10. ASSUME NEW reset \in BOOLEAN, Start(reset) PROVE TypeOK'
  <2>1. live' \in Versions /\ durable' \in Versions
    BY <1>10, ZeroTyped, ContentTyped DEF Start
  <2>2. file' \in [state : {"missing", "torn", "intact"}, data : Versions]
    BY <1>10, ZeroTyped DEF Start, Missing
  <2>3. snap' \in [Sources -> Versions]
    BY <1>10, <2>1 DEF Start
  <2>4. QED
    BY <1>10, <2>1, <2>2, <2>3 DEF Start
<1>11. CASE UNCHANGED vars
  BY <1>11 DEF vars
<1>12. QED
  BY <1>1, <1>2, <1>3, <1>4, <1>5, <1>6, <1>7, <1>8, <1>9, <1>10, <1>11
     DEF Next, Exit, Crash

THEOREM TypeCorrect == Spec => []TypeOK
  BY InitTyped, NextTyped, PTL DEF Spec

--------------------------------------------------------------------------------

(***************************************************************************)
(* The inductive invariant. SnapshotInWindow and CleanMeansCaptured are    *)
(* not inductive alone: the first needs a lower bound for the parts that   *)
(* are still to be marshalled (LockedBelowLive), the second that a process *)
(* that is down has left no flush and no dirty flag behind (DownIsFresh).  *)
(***************************************************************************)
LockedBelowLive ==
    \A f \in Flushers : InFlight(f) => \A p \in Parts : locked[f][p] <= live[p]

DownIsFresh ==
    phase = "down" => /\ last = "load"
                      /\ ~dirty
                      /\ \A f \in Flushers : pc[f] = "idle"

IInv ==
    /\ TypeOK
    /\ LockedBelowLive
    /\ DownIsFresh
    /\ SnapshotInWindow
    /\ CleanMeansCaptured

LEMMA InitInvariant == Init => IInv
<1> SUFFICES ASSUME Init PROVE IInv
  OBVIOUS
<1>1. TypeOK
  BY InitTyped
<1>2. \A f \in Flushers : ~InFlight(f)
  BY DEF Init, InFlight
<1>3. CleanMeansCaptured
  BY DEF Init, CleanMeansCaptured, Sources, Zero
<1>4. QED
  BY <1>1, <1>2, <1>3 DEF Init, IInv, LockedBelowLive, DownIsFresh, SnapshotInWindow

LEMMA NextInvariant == IInv /\ [Next]_vars => IInv'
<1> SUFFICES ASSUME IInv, [Next]_vars PROVE IInv'
  OBVIOUS
<1>0. TypeOK /\ TypeOK'
  BY NextTyped DEF IInv
<1> USE <1>0
<1> USE DEF IInv, TypeOK, Versions, Sources, process, flush, Up, InFlight,
            LockedBelowLive, DownIsFresh, SnapshotInWindow, CleanMeansCaptured
<1>1. ASSUME NEW p \in Parts, Change(p) PROVE IInv'
  BY <1>1 DEF Change
<1>2. CASE NeedsFlush
  BY <1>2 DEF NeedsFlush
<1>3. ASSUME NEW f \in Flushers, BeginFlush(f) PROVE IInv'
  <2>1. \A p \in Parts : locked'[f][p] = live[p] /\ live'[p] = live[p]
    BY <1>3 DEF BeginFlush
  <2>2. \A p \in Parts \ todo'[f] : snap'[f][p] = live[p]
    BY <1>3 DEF BeginFlush, Parts
  <2>3. \A g \in Flushers : g # f => /\ locked'[g] = locked[g]
                                    /\ snap'[g] = snap[g]
                                    /\ todo'[g] = todo[g]
                                    /\ pc'[g] = pc[g]
    BY <1>3 DEF BeginFlush
  <2>4. LockedBelowLive'
    <3> SUFFICES ASSUME NEW g \in Flushers, InFlight(g)', NEW p \in Parts
                 PROVE  locked'[g][p] <= live'[p]
      OBVIOUS
    <3>1. live[p] \in Nat
      OBVIOUS
    <3>2. CASE g = f
      BY <2>1, <3>1, <3>2
    <3>3. CASE g # f
      BY <2>1, <2>3, <3>3
    <3>4. QED
      BY <3>2, <3>3
  <2>5. SnapshotInWindow'
    <3> SUFFICES ASSUME NEW g \in Flushers, InFlight(g)', NEW p \in Parts \ todo'[g]
                 PROVE  locked'[g][p] <= snap'[g][p] /\ snap'[g][p] <= live'[p]
      OBVIOUS
    <3>1. CASE g = f
      <4>1. locked'[f][p] = live[p] /\ snap'[f][p] = live[p] /\ live'[p] = live[p]
        BY <2>1, <2>2, <3>1
      <4>2. live[p] \in Nat
        OBVIOUS
      <4>3. QED
        BY <3>1, <4>1, <4>2
    <3>2. CASE g # f
      BY <2>1, <2>3, <3>2
    <3>3. QED
      BY <3>1, <3>2
  <2>6. CleanMeansCaptured'
    BY <1>3, <2>2 DEF BeginFlush
  <2>7. QED
    BY <1>3, <2>4, <2>5, <2>6 DEF BeginFlush
<1>4. ASSUME NEW f \in Flushers, NEW p \in Shared, MarshalPart(f, p) PROVE IInv'
  <2>1. /\ \A q \in Parts \ todo'[f] :
              snap'[f][q] = IF q = p THEN live[q] ELSE snap[f][q]
        /\ \A q \in Parts \ todo'[f] : q # p => q \notin todo[f]
    BY <1>4 DEF MarshalPart, Parts
  <2>2. \A g \in Sources : g # f => snap'[g] = snap[g] /\ todo'[g] = todo[g]
    BY <1>4 DEF MarshalPart
  <2>3. LockedBelowLive' /\ DownIsFresh'
    BY <1>4 DEF MarshalPart
  <2>4. SnapshotInWindow'
    BY <1>4, <2>1, <2>2 DEF MarshalPart
  <2>5. CleanMeansCaptured'
    BY <1>4, <2>1, <2>2 DEF MarshalPart
  <2>6. QED
    BY <2>3, <2>4, <2>5
<1>5. ASSUME NEW f \in Flushers, Truncate(f) PROVE IInv'
  BY <1>5 DEF Truncate
<1>6. ASSUME NEW f \in Flushers, Write(f) PROVE IInv'
  BY <1>6 DEF Write, Returned
<1>7. ASSUME NEW f \in Flushers, WriteFails(f) PROVE IInv'
  BY <1>7 DEF WriteFails, Returned
<1>8. CASE Signal
  BY <1>8 DEF Signal
<1>9. ASSUME GoDown PROVE IInv'
  BY <1>9 DEF GoDown
<1>10. ASSUME NEW reset \in BOOLEAN, Start(reset) PROVE IInv'
  BY <1>10 DEF Start
<1>11. CASE UNCHANGED vars
  BY <1>11 DEF vars
<1>12. QED
  BY <1>1, <1>2, <1>3, <1>4, <1>5, <1>6, <1>7, <1>8, <1>9, <1>10, <1>11
     DEF Next, Exit, Crash

\* What Flush promises to save when it clears dirty is in the bytes it writes,
\* for every number of concurrent flushes and any write error.
THEOREM SnapshotsInWindow == Spec => []SnapshotInWindow
<1>1. IInv => SnapshotInWindow
  BY DEF IInv
<1>2. QED
  BY <1>1, InitInvariant, NextInvariant, PTL DEF Spec

\* A change made after Flush's lock section is never taken for a saved one.
THEOREM NothingForgotten == Spec => []CleanMeansCaptured
<1>1. IInv => CleanMeansCaptured
  BY DEF IInv
<1>2. QED
  BY <1>1, InitInvariant, NextInvariant, PTL DEF Spec

--------------------------------------------------------------------------------
(***************************************************************************)
(* A sound flush is the newest one, and nobody else is flushing: nothing   *)
(* is written into the file it truncated, and when it returns the file     *)
(* holds its snapshot, which is what QuietMeansDurable needs to know.      *)
(***************************************************************************)
SettledFile ==
    Up /\ sound /\ (\A f \in Flushers : Resting(f)) =>
        /\ Content = snap[last]
        /\ todo[last] = {}

SoundIsNewest ==
    sound => \A f \in Flushers : /\ InFlight(f) => last = f
                                 /\ pc[f] = "write" => ~mixed[f]

WritingHasAll == \A f \in Flushers : pc[f] = "write" => todo[f] = {}

SoundInv ==
    /\ IInv
    /\ SettledFile
    /\ SoundIsNewest
    /\ WritingHasAll
    /\ todo["load"] = {}

\* The invariant gives the property: with dirty clear the newest snapshot is
\* the store in memory, and at rest it is also what the file holds.
LEMMA SettledIsDurable == SoundInv => QuietMeansDurable
<1> SUFFICES ASSUME SoundInv, Quiet, sound PROVE Content = live
  BY DEF QuietMeansDurable
<1>1. /\ Content = snap[last]
      /\ todo[last] = {}
  BY DEF SoundInv, SettledFile, Quiet
<1>2. \A p \in Parts : snap[last][p] = live[p]
  BY <1>1 DEF SoundInv, IInv, CleanMeansCaptured, Quiet
<1>3. snap[last] \in Versions /\ live \in Versions
  BY DEF SoundInv, IInv, TypeOK
<1>4. QED
  BY <1>1, <1>2, <1>3 DEF Versions

LEMMA SoundInit == Init => SoundInv
<1> SUFFICES ASSUME Init PROVE SoundInv
  OBVIOUS
<1>1. IInv
  BY InitInvariant
<1>2. SettledFile
  BY DEF Init, SettledFile, Content, Missing, Sources
<1>3. QED
  BY <1>1, <1>2 DEF Init, SoundInv, SoundIsNewest, WritingHasAll, InFlight, Sources

LEMMA SoundNext ==
    ASSUME SoundInv, [Next]_vars
    PROVE  SoundInv'
<1>0. IInv /\ IInv' /\ TypeOK /\ TypeOK'
  BY NextInvariant DEF SoundInv, IInv
<1> USE <1>0, FlushersAssumption
<1> USE DEF SoundInv, TypeOK, Sources, process, flush, Up, InFlight, Resting,
            SettledFile, SoundIsNewest, WritingHasAll, Callers
<1>1. ASSUME NEW p \in Parts, Change(p) PROVE SoundInv'
  BY <1>1 DEF Change, Content
<1>2. CASE NeedsFlush
  BY <1>2 DEF NeedsFlush, Content
<1>3. ASSUME NEW f \in Flushers, BeginFlush(f) PROVE SoundInv'
  <2>1. InFlight(f)' /\ last' = f /\ todo'["load"] = todo["load"]
    BY <1>3 DEF BeginFlush
  <2>2. \A g \in Flushers : g # f => pc'[g] = pc[g] /\ todo'[g] = todo[g]
    BY <1>3 DEF BeginFlush
  <2>3. sound' => \A g \in Flushers : g # f => ~InFlight(g)
    BY <1>3 DEF BeginFlush
  <2>4. pc'[f] = "marshal"
    BY <1>3 DEF BeginFlush
  <2>5. QED
    BY <2>1, <2>2, <2>3, <2>4
<1>4. ASSUME NEW f \in Flushers, NEW p \in Shared, MarshalPart(f, p) PROVE SoundInv'
  BY <1>4 DEF MarshalPart
<1>5. ASSUME NEW f \in Flushers, Truncate(f) PROVE SoundInv'
  BY <1>5 DEF Truncate
<1>6. ASSUME NEW f \in Flushers, Write(f) PROVE SoundInv'
  <2>1. todo[f] = {} /\ todo' = todo /\ snap' = snap /\ last' = last /\ sound' = sound
    BY <1>6 DEF Write
  <2>2. \A g \in Flushers : pc'[g] = IF g = f THEN Returned(f) ELSE pc[g]
    BY <1>6 DEF Write
  <2>3. ASSUME sound PROVE \A g \in Flushers : ~InFlight(g)'
    BY <1>6, <2>2, <2>3 DEF Write, Returned
  <2>4. ASSUME sound PROVE file' = Intact(snap[f]) /\ last = f
    BY <1>6, <2>4 DEF Write
  <2>5. SettledFile'
    BY <2>1, <2>4 DEF Content, Intact
  <2>6. SoundIsNewest'
    BY <2>1, <2>3
  <2>7. WritingHasAll'
    BY <2>1, <2>2 DEF Returned
  <2>8. QED
    BY <2>1, <2>5, <2>6, <2>7
<1>7. ASSUME NEW f \in Flushers, WriteFails(f) PROVE SoundInv'
  <2>1. ~sound' /\ todo' = todo
    BY <1>7 DEF WriteFails
  <2>2. \A g \in Flushers : pc'[g] = IF g = f THEN Returned(f) ELSE pc[g]
    BY <1>7 DEF WriteFails
  <2>3. QED
    BY <2>1, <2>2 DEF Returned
<1>8. CASE Signal
  BY <1>8 DEF Signal, Content
<1>9. ASSUME GoDown PROVE SoundInv'
  BY <1>9 DEF GoDown
<1>10. ASSUME NEW reset \in BOOLEAN, Start(reset) PROVE SoundInv'
  <2>1. last = "load" /\ last' = "load"
    BY <1>10 DEF Start, IInv, DownIsFresh
  <2>2. Content' = live'
    BY <1>10 DEF Start, Content, Missing
  <2>3. Content' = snap'[last'] /\ todo'[last'] = {}
    BY <1>10, <2>1, <2>2 DEF Start
  <2>4. QED
    BY <1>10, <2>3 DEF Start, IInv, DownIsFresh
<1>11. CASE UNCHANGED vars
  BY <1>11 DEF vars, Content
<1>12. QED
  BY <1>1, <1>2, <1>3, <1>4, <1>5, <1>6, <1>7, <1>8, <1>9, <1>10, <1>11
     DEF Next, Exit, Crash

\* A store that needs no flush is on disk in full once the newest flush ran
\* alone and succeeded, whatever flushes overlapped or failed before it, and
\* through any crash, restart and -reset.
THEOREM SoundFlushesDurable == Spec => []QuietMeansDurable
<1>1. SoundInv /\ [Next]_vars => SoundInv'
  BY SoundNext
<1>2. QED
  BY <1>1, SoundInit, SettledIsDurable, PTL DEF Spec

\* A flush has everything that memory holds in its snapshot, but for the parts
\* it is still to marshal, and has not returned.
CarriesAll(f) ==
    /\ InFlight(f)
    /\ last = f
    /\ \A p \in Parts \ todo[f] : snap[f][p] = live[p]

\* A change is on disk, on its way there, or the flag asks for it.
NothingStranded ==
    Up /\ sound => dirty \/ Content = live \/ \E f \in Flushers : CarriesAll(f)

\* While the newest flush runs or ran alone and no write has failed since, there
\* is no state in which a change waits for nobody: what EventuallyDurable needs
\* besides the fairness of the flushers.
THEOREM ChangesAreOnTheirWay == Spec => []NothingStranded
<1>1. SoundInv => NothingStranded
  <2> SUFFICES ASSUME SoundInv, Up, sound, ~dirty,
                      \A f \in Flushers : ~CarriesAll(f)
               PROVE Content = live
    BY DEF NothingStranded
  <2>1. ASSUME NEW f \in Flushers, InFlight(f) PROVE FALSE
    <3>1. last = f
      BY <2>1 DEF SoundInv, SoundIsNewest
    <3>2. \A p \in Parts \ todo[f] : snap[f][p] = live[p]
      BY <3>1 DEF SoundInv, IInv, CleanMeansCaptured
    <3> QED BY <2>1, <3>1, <3>2 DEF CarriesAll
  <2>2. \A f \in Flushers : Resting(f)
    BY <2>1 DEF SoundInv, IInv, TypeOK, Resting, InFlight
  <2>3. QuietMeansDurable
    BY SettledIsDurable
  <2> QED BY <2>2, <2>3 DEF QuietMeansDurable, Quiet
<1>2. SoundInv /\ [Next]_vars => SoundInv'
  BY SoundNext
<1>3. QED
  BY <1>1, <1>2, SoundInit, PTL DEF Spec

--------------------------------------------------------------------------------
(* What a restart finds *)

\* history.json never holds more of a part than the running process has: a
\* snapshot is taken from memory, and nothing in memory is ever taken back.
NothingInvented == Up => \A p \in Parts : Content[p] <= live[p]

FileInv == IInv /\ WritingHasAll /\ NothingInvented

LEMMA FileNext ==
    ASSUME FileInv, [Next]_vars
    PROVE  FileInv'
<1>0. IInv /\ IInv' /\ TypeOK /\ TypeOK'
  BY NextInvariant DEF FileInv, IInv
<1>a. /\ live \in Versions /\ live' \in Versions
      /\ Content \in Versions
      /\ \A p \in Parts : Zero[p] = 0
      /\ \A p \in Parts : live[p] \in Nat /\ live'[p] \in Nat /\ Content[p] \in Nat
  BY <1>0, ContentTyped DEF TypeOK, Versions, Zero
<1>b. ASSUME UNCHANGED file PROVE Content' = Content
  BY <1>b DEF Content
<1>c. ASSUME file' = Torn \/ file' = Missing PROVE Content' = Zero
  BY <1>c DEF Content, Torn, Missing
\* The steps that leave the file alone, and take nothing from memory.
<1>d. ASSUME UNCHANGED file, Up', Up, \A p \in Parts : live[p] <= live'[p]
      PROVE  NothingInvented'
  <2>1. \A p \in Parts : Content'[p] = Content[p] /\ Content[p] <= live[p]
    BY <1>b, <1>d DEF FileInv, NothingInvented
  <2> QED BY <1>a, <1>d, <2>1 DEF NothingInvented
\* The steps that leave the file unreadable.
<1>e. ASSUME Content' = Zero PROVE NothingInvented'
  BY <1>a, <1>e DEF NothingInvented
<1> USE <1>0
<1> USE DEF FileInv, WritingHasAll, process, flush
<1>1. ASSUME NEW p \in Parts, Change(p) PROVE WritingHasAll' /\ NothingInvented'
  <2>1. \A q \in Parts : live[q] <= live'[q]
    BY <1>1, <1>a DEF Change, Versions
  <2> QED BY <1>1, <1>d, <2>1 DEF Change, Up
<1>2. CASE NeedsFlush
  <2>1. WritingHasAll'
    BY <1>2 DEF NeedsFlush, TypeOK
  <2> QED BY <1>2, <1>a, <1>d, <2>1 DEF NeedsFlush, Up
<1>3. ASSUME NEW f \in Flushers, BeginFlush(f) PROVE WritingHasAll' /\ NothingInvented'
  <2>1. WritingHasAll'
    BY <1>3 DEF BeginFlush, TypeOK, Sources
  <2> QED BY <1>3, <1>a, <1>d, <2>1 DEF BeginFlush, Up
<1>4. ASSUME NEW f \in Flushers, NEW p \in Shared, MarshalPart(f, p)
      PROVE  WritingHasAll' /\ NothingInvented'
  <2>1. WritingHasAll'
    BY <1>4 DEF MarshalPart, TypeOK, Sources
  <2> QED BY <1>4, <1>a, <1>d, <2>1 DEF MarshalPart, Up
<1>5. ASSUME NEW f \in Flushers, Truncate(f) PROVE WritingHasAll' /\ NothingInvented'
  <2>1. WritingHasAll'
    BY <1>5 DEF Truncate, TypeOK, Sources
  <2> QED BY <1>5, <1>c, <1>e, <2>1 DEF Truncate
<1>6. ASSUME NEW f \in Flushers, Write(f) PROVE WritingHasAll' /\ NothingInvented'
  <2>1. WritingHasAll'
    BY <1>6 DEF Write, Returned, TypeOK, Sources
  <2>2. \A p \in Parts : snap[f][p] <= live[p] /\ live'[p] = live[p]
    BY <1>6 DEF Write, IInv, SnapshotInWindow, InFlight
  <2>3. ASSUME file' = Intact(snap[f]) PROVE NothingInvented'
    BY <2>2, <2>3 DEF NothingInvented, Content, Intact
  <2> QED BY <1>6, <1>c, <1>e, <2>1, <2>3 DEF Write
<1>7. ASSUME NEW f \in Flushers, WriteFails(f) PROVE WritingHasAll' /\ NothingInvented'
  <2>1. WritingHasAll'
    BY <1>7 DEF WriteFails, Returned, TypeOK, Sources
  <2>2. CASE UNCHANGED file
    BY <1>7, <1>a, <1>d, <2>2 DEF WriteFails, Up
  <2> QED BY <1>7, <1>c, <1>e, <2>1, <2>2 DEF WriteFails
<1>8. CASE Signal
  <2>1. WritingHasAll'
    BY <1>8 DEF Signal
  <2> QED BY <1>8, <1>a, <1>d, <2>1 DEF Signal, Up
<1>9. ASSUME GoDown PROVE WritingHasAll' /\ NothingInvented'
  BY <1>9 DEF GoDown, NothingInvented, Up
<1>10. ASSUME NEW reset \in BOOLEAN, Start(reset) PROVE WritingHasAll' /\ NothingInvented'
  <2>1. WritingHasAll'
    BY <1>10 DEF Start, IInv, DownIsFresh
  <2>2. CASE reset
    BY <1>10, <1>c, <1>e, <2>1, <2>2 DEF Start
  <2>3. CASE ~reset
    <3>1. Content' = Content /\ live' = Content
      BY <1>10, <1>b, <2>3 DEF Start
    <3> QED BY <1>a, <2>1, <3>1 DEF NothingInvented
  <2> QED BY <2>2, <2>3
<1>11. CASE UNCHANGED vars
  <2>1. WritingHasAll'
    BY <1>11 DEF vars
  <2>2. Content' = Content /\ live' = live /\ phase' = phase
    BY <1>11, <1>b DEF vars
  <2> QED BY <2>1, <2>2 DEF NothingInvented, Up
<1> QED
  BY <1>1, <1>2, <1>3, <1>4, <1>5, <1>6, <1>7, <1>8, <1>9, <1>10, <1>11
     DEF Next, Exit, Crash

\* However flushes overlap, fail or are cut off by a crash, and across any number
\* of restarts, what the next restart would load is at most as new as memory.
THEOREM FileNeverAhead == Spec => []NothingInvented
<1>1. Init => FileInv
  <2>1. Init => Content = Zero /\ live = Zero
    BY DEF Init, Content, Missing
  <2>2. Init => IInv /\ WritingHasAll
    BY InitInvariant DEF Init, WritingHasAll
  <2> QED BY <2>1, <2>2 DEF FileInv, NothingInvented, Zero
<1>2. FileInv /\ [Next]_vars => FileInv'
  BY FileNext
<1>3. QED
  BY <1>1, <1>2, PTL DEF Spec, FileInv

--------------------------------------------------------------------------------
(***************************************************************************)
(* How what is on disk can be lost. FlushedSurvives, what the README says, *)
(* fails (run persist_crash); this is the complement of that: the only     *)
(* step that takes from the disk what a Flush has put there is the         *)
(* O_TRUNC of a later one, or a write that got mixed up with another's.    *)
(***************************************************************************)

\* What the last Flush that returned had written can be read back.
OnDisk == \A p \in Parts : durable[p] <= Content[p]

\* f's write ends, after another caller has written into the file it truncated.
MixedEnds(f) == pc[f] = "write" /\ mixed[f] /\ pc'[f] # "write"

\* A step keeps on disk what is there, unless it opens the window or ends a
\* mixed write.
KeptOnDisk == OnDisk => OnDisk' \/ \E f \in Flushers : Truncate(f) \/ MixedEnds(f)

\* A write nobody interferes with finds the file as it has truncated it.
WindowIsTorn == \A f \in Flushers : pc[f] = "write" /\ ~mixed[f] => file = Torn

LEMMA WindowStep ==
    ASSUME IInv, WindowIsTorn, [Next]_vars
    PROVE  WindowIsTorn'
<1> USE DEF WindowIsTorn, IInv, TypeOK, process, flush
<1>1. ASSUME NEW p \in Parts, Change(p) PROVE WindowIsTorn'
  BY <1>1 DEF Change
<1>2. CASE NeedsFlush
  BY <1>2 DEF NeedsFlush
<1>3. ASSUME NEW f \in Flushers, BeginFlush(f) PROVE WindowIsTorn'
  BY <1>3 DEF BeginFlush
<1>4. ASSUME NEW f \in Flushers, NEW p \in Shared, MarshalPart(f, p) PROVE WindowIsTorn'
  BY <1>4 DEF MarshalPart
<1>5. ASSUME NEW f \in Flushers, Truncate(f) PROVE WindowIsTorn'
  BY <1>5 DEF Truncate
\* A write, or a write that fails, mixes up the windows that are open.
<1>6. ASSUME NEW f \in Flushers, pc' = [pc EXCEPT ![f] = Returned(f)], mixed' = MixedBy(f)
      PROVE  WindowIsTorn'
  <2> SUFFICES ASSUME NEW g \in Flushers, pc'[g] = "write" PROVE mixed'[g]
    OBVIOUS
  <2>1. g # f /\ pc[g] = "write"
    BY <1>6 DEF Returned
  <2> QED BY <1>6, <2>1 DEF MixedBy
<1>7. ASSUME NEW f \in Flushers, Write(f) PROVE WindowIsTorn'
  BY <1>6, <1>7 DEF Write
<1>8. ASSUME NEW f \in Flushers, WriteFails(f) PROVE WindowIsTorn'
  <2>1. CASE UNCHANGED <<file, mixed>>
    BY <1>8, <2>1 DEF WriteFails, Returned
  <2> QED BY <1>6, <1>8, <2>1 DEF WriteFails
<1>9. CASE Signal
  BY <1>9 DEF Signal
<1>10. CASE GoDown
  BY <1>10 DEF GoDown
<1>11. ASSUME NEW reset \in BOOLEAN, Start(reset) PROVE WindowIsTorn'
  BY <1>11 DEF Start, DownIsFresh
<1>12. CASE UNCHANGED vars
  BY <1>12 DEF vars
<1> QED
  BY <1>1, <1>2, <1>3, <1>4, <1>5, <1>7, <1>8, <1>9, <1>10, <1>11, <1>12
     DEF Next, Exit, Crash

\* A write that is not mixed ends with its snapshot on disk, and one that
\* fails in the open window finds nothing there to lose.
LEMMA DiskStep ==
    ASSUME TypeOK, WindowIsTorn, [Next]_vars
    PROVE  KeptOnDisk
<1> SUFFICES ASSUME OnDisk, ~\E f \in Flushers : Truncate(f) \/ MixedEnds(f)
             PROVE  OnDisk'
  BY DEF KeptOnDisk
<1>a. ASSUME UNCHANGED <<file, durable>> PROVE OnDisk'
  BY <1>a DEF OnDisk, Content
<1> USE DEF process, flush
<1>1. ASSUME NEW f \in Flushers, Write(f) PROVE OnDisk'
  <2>1. ~mixed[f]
    BY <1>1 DEF Write, MixedEnds, Returned, TypeOK
  <2>2. Content' = snap[f] /\ durable' = snap[f]
    BY <1>1, <2>1 DEF Write, Content, Intact
  <2>3. \A p \in Parts : snap[f][p] \in Nat
    BY DEF TypeOK, Versions, Sources
  <2> QED BY <2>2, <2>3 DEF OnDisk
<1>2. ASSUME NEW f \in Flushers, WriteFails(f) PROVE OnDisk'
  <2>1. CASE pc[f] = "write" /\ file' = Torn
    <3>1. ~mixed[f]
      BY <1>2, <2>1 DEF WriteFails, MixedEnds, Returned, TypeOK
    <3>2. file' = file
      BY <2>1, <3>1 DEF WindowIsTorn
    <3> QED BY <1>2, <1>a, <3>2 DEF WriteFails
  <2> QED BY <1>2, <1>a, <2>1 DEF WriteFails
<1>3. ASSUME NEW reset \in BOOLEAN, Start(reset) PROVE OnDisk'
  <2>1. CASE reset
    BY <1>3, <2>1 DEF Start, OnDisk, Content, Missing, Zero
  <2> QED BY <1>3, <1>a, <2>1 DEF Start
<1>4. CASE UNCHANGED <<file, durable>>
  BY <1>4, <1>a
<1> QED
  BY <1>1, <1>2, <1>3, <1>4
     DEF Next, vars, Change, NeedsFlush, BeginFlush, MarshalPart, Signal, Exit, Crash, GoDown

\* However many callers flush at once: crashes, restarts, failed writes and
\* changes leave on disk what a Flush has put there. It is lost by the O_TRUNC
\* of a later Flush, or when two callers write into one file, and only then.
THEOREM OnlyTheWindowLoses == Spec => [][KeptOnDisk]_vars
<1>1. Init => WindowIsTorn
  BY DEF Init, WindowIsTorn
<1>2. IInv /\ WindowIsTorn /\ [Next]_vars => WindowIsTorn'
  BY WindowStep
<1>3. IInv /\ WindowIsTorn /\ [Next]_vars => [KeptOnDisk]_vars
  BY DiskStep DEF IInv
<1> QED BY <1>1, <1>2, <1>3, InitInvariant, NextInvariant, PTL DEF Spec

================================================================================
