------------------------------ MODULE Persistence ------------------------------
(***************************************************************************)
(* How server-go persists its HistoryStore: the goroutines that call       *)
(* HistoryStore.Flush (the 5 s ticker, the end of a history sync, the      *)
(* graceful shutdown), the file history.json, crashes and restarts.        *)
(*                                                                         *)
(* The data is abstracted to one version number per part of the store.     *)
(* Flush takes the store's lock only to build a `snapshot` value and to    *)
(* clear the dirty flag; the marshalling and the write happen outside it.  *)
(* The snapshot copies the phone number and the statuses (Copied) but      *)
(* aliases the live maps of chats and names (Shared), so a shared part has *)
(* the version it has when json.Marshal reaches it.                        *)
(***************************************************************************)
EXTENDS Integers

CONSTANTS
    Copied,       \* parts of the store copied while the lock is held
    Shared,       \* parts only referenced by the snapshot (chats, names)
    Flushers,     \* the callers of Flush that take part
    WriteFaults,  \* whether MkdirAll/WriteFile may fail
    MaxVersion    \* bound: changes made to each part

Callers == {"ticker", "sync", "main"}

ASSUME PartsAssumption == Copied \cap Shared = {}
ASSUME FlushersAssumption == Flushers \subseteq Callers
ASSUME BoundsAssumption == WriteFaults \in BOOLEAN /\ MaxVersion \in Nat

Parts == Copied \cup Shared
Versions == [Parts -> Nat]
Zero == [p \in Parts |-> 0]

\* The origin of the newest snapshot: a flush, or the load at start-up.
Sources == Flushers \cup {"load"}

VARIABLES
    phase,   \* "running", "stopping" (signal received) or "down"
    live,    \* the in-memory store
    dirty,   \* HistoryStore.dirty
    file,    \* history.json: whether it parses, and what it holds
    pc,      \* where each caller is in Flush
    snap,    \* the snapshot each source holds, filled in as it is marshalled
    todo,    \* the shared parts json.Marshal has not reached yet
    mixed,   \* another caller wrote the file since this one truncated it
    locked,  \* history: the store as it was when the caller held the lock
    last,    \* history: the source of the newest snapshot
    sound,   \* history: the newest flush found nobody flushing, no write failed since
    durable  \* history: what the last WriteFile that returned had written

process == <<phase, live, dirty>>
flush == <<pc, snap, todo, mixed, locked, last, sound>>
vars == <<phase, live, dirty, file, pc, snap, todo, mixed, locked, last, sound, durable>>

Up == phase # "down"
Resting(f) == pc[f] \in {"idle", "due", "done"}
InFlight(f) == pc[f] \in {"marshal", "write"}

Missing == [state |-> "missing", data |-> Zero]
Torn == [state |-> "torn", data |-> Zero]
Intact(v) == [state |-> "intact", data |-> v]

\* Mutant of Content: the maps of an empty snapshot are left nil.
ContentNil == IF file.state = "intact" THEN file.data ELSE [p \in {} |-> 0]

\* What NewHistoryStore reads: a file that does not parse is an empty store.
Content == IF file.state = "intact" THEN file.data ELSE Zero

--------------------------------------------------------------------------------

Init ==
    /\ phase = "running"
    /\ live = Zero
    /\ dirty = FALSE
    /\ file = Missing
    /\ pc = [f \in Flushers |-> "idle"]
    /\ snap = [s \in Sources |-> Zero]
    /\ todo = [s \in Sources |-> {}]
    /\ mixed = [f \in Flushers |-> FALSE]
    /\ locked = [f \in Flushers |-> Zero]
    /\ last = "load"
    /\ sound = TRUE
    /\ durable = Zero

\* Mutant of Change: a mutator that forgets `s.dirty = true`.
ChangeUnmarked(p) ==
    /\ Up
    /\ live[p] < MaxVersion
    /\ live' = [live EXCEPT ![p] = @ + 1]
    /\ UNCHANGED <<phase, dirty, file, flush, durable>>

\* Any mutator of the store: it changes one part and sets dirty, all under mu.
Change(p) ==
    /\ Up
    /\ live[p] < MaxVersion
    /\ live' = [live EXCEPT ![p] = @ + 1]
    /\ dirty' = TRUE
    /\ UNCHANGED <<phase, file, flush, durable>>

\* The ticker's `if NeedsFlush()`: a lock section of its own before Flush's.
NeedsFlush ==
    /\ Up
    /\ "ticker" \in Flushers
    /\ pc["ticker"] = "idle"
    /\ dirty
    /\ pc' = [pc EXCEPT !["ticker"] = "due"]
    /\ UNCHANGED <<process, file, snap, todo, mixed, locked, last, sound, durable>>

MayFlush(f) ==
    \/ f = "ticker" /\ pc[f] = "due"
    \/ f = "sync" /\ pc[f] = "idle"
    \/ f = "main" /\ pc[f] = "idle" /\ phase = "stopping"

\* Flush's critical section.
BeginFlush(f) ==
    /\ Up
    /\ MayFlush(f)
    /\ pc' = [pc EXCEPT ![f] = "marshal"]
    /\ snap' = [snap EXCEPT ![f] = [p \in Parts |-> IF p \in Copied THEN live[p] ELSE 0]]
    /\ todo' = [todo EXCEPT ![f] = Shared]
    /\ locked' = [locked EXCEPT ![f] = live]
    /\ last' = f
    /\ sound' = \A g \in Flushers \ {f} : ~InFlight(g)
    /\ dirty' = FALSE
    /\ UNCHANGED <<phase, live, file, mixed, durable>>

\* Mutant of MarshalPart: a part left out of the snapshot literal.
MarshalPartOmitted(f, p) ==
    /\ Up
    /\ pc[f] = "marshal"
    /\ p \in todo[f]
    /\ todo' = [todo EXCEPT ![f] = @ \ {p}]
    /\ UNCHANGED <<process, file, pc, snap, mixed, locked, last, sound, durable>>

\* json.Marshal, running without the lock, reaches shared part p.
MarshalPart(f, p) ==
    /\ Up
    /\ pc[f] = "marshal"
    /\ p \in todo[f]
    /\ snap' = [snap EXCEPT ![f][p] = live[p]]
    /\ todo' = [todo EXCEPT ![f] = @ \ {p}]
    /\ UNCHANGED <<process, file, pc, mixed, locked, last, sound, durable>>

\* Where a caller goes when Flush returns: the shutdown flushes once.
Returned(f) == IF f = "main" THEN "done" ELSE "idle"

\* os.WriteFile opens the file with O_TRUNC: the old content is gone.
Truncate(f) ==
    /\ Up
    /\ pc[f] = "marshal"
    /\ todo[f] = {}
    /\ file' = Torn
    /\ mixed' = [g \in Flushers |-> FALSE]
    /\ pc' = [pc EXCEPT ![f] = "write"]
    /\ UNCHANGED <<process, snap, todo, locked, last, sound, durable>>

\* The callers whose truncated file f writes into under their feet.
MixedBy(f) == [g \in Flushers |-> g # f /\ (mixed[g] \/ pc[g] = "write")]

\* Mutant of Write: dirty is cleared once the file is written, not at the lock.
WriteClearsDirty(f) ==
    /\ Up
    /\ pc[f] = "write"
    /\ \/ file' = Intact(snap[f])
       \/ mixed[f] /\ file # Intact(snap[f]) /\ file' = Torn
    /\ mixed' = MixedBy(f)
    /\ pc' = [pc EXCEPT ![f] = Returned(f)]
    /\ durable' = snap[f]
    /\ dirty' = FALSE
    /\ UNCHANGED <<phase, live, snap, todo, locked, last, sound>>

\* The write at offset 0. Bytes another caller wrote since the truncation are
\* overwritten, and those beyond the end of a shorter snapshot stay: whether
\* the file still parses then depends on the two lengths.
Write(f) ==
    /\ Up
    /\ pc[f] = "write"
    /\ \/ file' = Intact(snap[f])
       \/ mixed[f] /\ file # Intact(snap[f]) /\ file' = Torn
    /\ mixed' = MixedBy(f)
    /\ pc' = [pc EXCEPT ![f] = Returned(f)]
    /\ durable' = snap[f]
    /\ UNCHANGED <<process, snap, todo, locked, last, sound>>

\* The directory or the file cannot be opened, or the write stops half way:
\* Flush discards the error.
WriteFails(f) ==
    /\ Up
    /\ WriteFaults
    /\ \/ pc[f] = "marshal" /\ todo[f] = {} /\ UNCHANGED <<file, mixed>>
       \/ pc[f] = "write" /\ file' = Torn /\ mixed' = MixedBy(f)
    /\ pc' = [pc EXCEPT ![f] = Returned(f)]
    /\ sound' = FALSE
    /\ UNCHANGED <<process, snap, todo, locked, last, durable>>

\* SIGINT or SIGTERM: main goes on to Shutdown and its last Flush.
Signal ==
    /\ phase = "running"
    /\ "main" \in Flushers
    /\ phase' = "stopping"
    /\ UNCHANGED <<live, dirty, file, flush, durable>>

\* The process is gone; only the file is left.
GoDown ==
    /\ phase' = "down"
    /\ live' = Zero
    /\ dirty' = FALSE
    /\ pc' = [f \in Flushers |-> "idle"]
    /\ snap' = [s \in Sources |-> Zero]
    /\ todo' = [s \in Sources |-> {}]
    /\ mixed' = [f \in Flushers |-> FALSE]
    /\ locked' = [f \in Flushers |-> Zero]
    /\ last' = "load"
    /\ sound' = TRUE
    /\ UNCHANGED <<file, durable>>

\* main returns after its Flush, whatever the other goroutines are doing.
Exit ==
    /\ phase = "stopping"
    /\ pc["main"] = "done"
    /\ GoDown

\* A kill, a panic, or the runtime's fatal "concurrent map iteration and map
\* write" when a mutator runs while MarshalPart iterates over a shared map.
Crash ==
    /\ Up
    /\ GoDown

\* A new process, with -reset or without: NewHistoryStore loads the file.
Start(reset) ==
    /\ phase = "down"
    /\ phase' = "running"
    /\ file' = IF reset THEN Missing ELSE file
    /\ live' = IF reset THEN Zero ELSE Content
    /\ snap' = [snap EXCEPT !["load"] = live']
    /\ durable' = IF reset THEN Zero ELSE durable
    /\ UNCHANGED <<dirty, pc, todo, mixed, locked, last, sound>>

\* The steps a flushing goroutine does not wait for anybody to take: a history
\* sync comes when the phone sends one, and then runs its Flush to the end.
FlushStep(f) ==
    \/ f = "ticker" /\ NeedsFlush
    \/ f # "sync" /\ BeginFlush(f)
    \/ \E p \in Shared : MarshalPart(f, p)
    \/ Truncate(f)
    \/ Write(f)

Next ==
    \/ \E p \in Parts : Change(p)
    \/ NeedsFlush
    \/ \E f \in Flushers :
        \/ BeginFlush(f)
        \/ \E p \in Shared : MarshalPart(f, p)
        \/ Truncate(f)
        \/ Write(f)
        \/ WriteFails(f)
    \/ Signal
    \/ Exit
    \/ Crash
    \/ \E reset \in BOOLEAN : Start(reset)

Spec == Init /\ [][Next]_vars

\* The ticker goroutine runs until the process ends, and nothing in Flush
\* waits for anything but the store's mutex.
FairSpec == Spec /\ \A f \in Flushers : WF_vars(FlushStep(f))

--------------------------------------------------------------------------------

TypeOK ==
    /\ phase \in {"running", "stopping", "down"}
    /\ live \in Versions
    /\ dirty \in BOOLEAN
    /\ file \in [state : {"missing", "torn", "intact"}, data : Versions]
    /\ pc \in [Flushers -> {"idle", "due", "marshal", "write", "done"}]
    /\ snap \in [Sources -> Versions]
    /\ todo \in [Sources -> SUBSET Shared]
    /\ mixed \in [Flushers -> BOOLEAN]
    /\ locked \in [Flushers -> Versions]
    /\ last \in Sources
    /\ sound \in BOOLEAN
    /\ durable \in Versions

\* A snapshot is never older than the store was when Flush held the lock, part
\* by part, and never newer than the store is: what Flush promised to save when
\* it cleared dirty is in the bytes it writes, although they are produced after
\* the unlock from maps that keep changing.
SnapshotInWindow ==
    \A f \in Flushers : InFlight(f) =>
        \A p \in Parts \ todo[f] :
            /\ locked[f][p] <= snap[f][p]
            /\ snap[f][p] <= live[p]

\* No change is forgotten: while dirty is clear, the newest snapshot holds
\* every part as it is in memory. A change made between Flush's lock section
\* and its write leaves dirty set, so the ticker comes back for it.
CleanMeansCaptured ==
    Up /\ ~dirty => \A p \in Parts \ todo[last] : snap[last][p] = live[p]

\* With nothing to flush and nobody flushing, a restart would lose nothing.
\* NeedsFlush says this of the store; the code keeps it as long as the newest
\* flush found nobody else flushing and no write has failed since.
Quiet == Up /\ ~dirty /\ \A f \in Flushers : Resting(f)

QuietMeansDurable == Quiet /\ sound => Content = live

\* Every change reaches the disk, unless the process goes down first, two
\* flushes overlap or a write fails: nothing else loses it.
EventuallyDurable ==
    \A p \in Parts : \A v \in 1..MaxVersion :
        (Up /\ live[p] = v) ~> (phase = "down" \/ Content[p] >= v \/ ~sound)

\* What a completed Flush wrote is there after a crash and a restart (README,
\* "live messages survive a crash/restart").
FlushedSurvives ==
    phase = "running" => \A p \in Parts : durable[p] <= live[p]

================================================================================
