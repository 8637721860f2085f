--------------------------- MODULE SessionManager ---------------------------
(***************************************************************************)
(* SessionManager of slangd: one overlay compilation per open document,    *)
(* built in the background, stored in two phases, shared by every request  *)
(* that needs it, and dropped some time after the document is closed.      *)
(*                                                                         *)
(* A strand turn (the code between two suspension points of a coroutine    *)
(* that posted itself to session_strand_) is one action.  The background   *)
(* work of a creation runs on overlay_strand_, one creation at a time in   *)
(* the order of UpdateSession calls.  So does Phase 1: a post to           *)
(* session_strand_ that is awaited by a coroutine of overlay_strand_ is    *)
(* dispatched back to the coroutine's own executor, so that the turns of   *)
(* session_strand_ run between the test of Phase 1 and its store.          *)
(*                                                                         *)
(* The callers (LanguageService) may call any public operation at any      *)
(* time; what they are assumed to do is in the guards named after them.    *)
(***************************************************************************)
EXTENDS Integers, Sequences, FiniteSets

CONSTANTS
    Docs,           \* document URIs
    Versions,       \* LSP document versions
    Contents,       \* document texts
    Requests,       \* requests that wait for a session, one coroutine each
    MaxTasks,       \* bound: session creations started in a behaviour
    MaxPreambles,   \* bound: preambles (the first one and its rebuilds)
    MaxJobs,        \* bound: posted cleanup jobs of one document
    MayThrow,       \* can BuildCompilation or FromCompilation throw?
    ReuseVersions   \* can a reopened document have the version of its last
                    \* opening with another text, or while a creation of that
                    \* version runs that is no longer pending?

ASSUME BoundsAssumption ==
    /\ MaxTasks \in Nat
    /\ MaxPreambles \in Nat \ {0}
    /\ MaxJobs \in Nat

ASSUME EnvironmentAssumption ==
    /\ MayThrow \in BOOLEAN
    /\ ReuseVersions \in BOOLEAN

VARIABLES
    creation,   \* what each StartSessionCreation call captured, in call order
    pc,         \* where the coroutine of each creation is
    cancelled,  \* PendingCreation::cancelled
    ready,      \* the events of PendingCreation that are set
    pending,    \* pending_: the creation each document waits for
    sessions,   \* sessions_: the creation that built the entry, and its phase
    timers,     \* cleanup_timers_
    jobs,       \* cleanup coroutines posted by expired timers, per document
    preamble,   \* preamble_manager_, numbered in order of installation
    active,     \* active_session_tasks_
    drain,      \* tasks_to_await of the InvalidateAllSessions in progress
    rebuild,    \* how far RebuildWorkspace got with its two calls
    request,    \* coroutines suspended in WithSession, WithCompilationState
    asked,      \* history: does the client want a session of the document?
    latest,     \* history: version and text of the last UpdateSession
    late        \* history: creations that stored a session when the test of
                \* Phase 1 no longer held

vars == <<creation, pc, cancelled, ready, pending, sessions, timers, jobs,
          preamble, active, drain, rebuild, request, asked, latest, late>>

taskVars    == <<pc, cancelled, ready>>
timerVars   == <<timers, jobs>>
rebuildVars == <<preamble, active, drain, rebuild>>
historyVars == <<asked, latest, late>>

-----------------------------------------------------------------------------

None  == 0
Tasks == 1 .. MaxTasks

Creation == [doc : Docs, version : Versions, content : Contents,
             preamble : 1 .. MaxPreambles]

PC == {"unused",      \* not created yet
       "queued",      \* waiting for its turn on overlay_strand_
       "building",    \* in BuildCompilation
       "indexing",    \* in SemanticIndex::FromCompilation
       "storing",     \* posted to session_strand_, and from there back
       "checked",     \* passed the test of Phase 1, not stored yet
       "stored",      \* Phase 1 done, on its way to Phase 2
       "returning",   \* returned nullopt, on its way to Phase 2
       "done"}        \* the SharedTask has signalled completion

Events   == {"compilation", "session"}
NoEntry  == [by |-> None, phase |-> "none"]
Entry    == [by : Tasks, phase : {"elaborated", "indexed"}]
Idle     == [state |-> "idle", need |-> "session", on |-> None]
Waiting  == [state : {"waiting"}, need : Events, on : Tasks]
Answered(answer) == [state |-> answer, need |-> "session", on |-> None]

Started      == DOMAIN creation
Unfinished   == {t \in Started : pc[t] # "done"}
Doc(t)       == creation[t].doc
Version(t)   == creation[t].version
Compiles(t)        == pc[t] \in {"building", "indexing"}
OnOverlayStrand(t) == Compiles(t) \/ pc[t] = "checked"

(* Mutant: the threads of the pool, without a strand. *)
OverlayStrandFree_Pool == TRUE
OverlayStrandFree == \A t \in Started : ~OnOverlayStrand(t)
HasSession(d) == sessions[d] # NoEntry

(* pending_ has an entry of this document with this version. *)
PendingVersion(d, v) == pending[d] # None /\ Version(pending[d]) = v

(* A creation that cannot store a session any more. *)
Doomed(t) == cancelled[t] \/ pc[t] = "returning"

(* WithSession needs Phase 2, WithCompilationState is content with Phase 1. *)
Satisfied(d, need) ==
    sessions[d].phase \in
        IF need = "session" THEN {"indexed"} ELSE {"elaborated", "indexed"}

-----------------------------------------------------------------------------

Init ==
    /\ creation = <<>>
    /\ pc = [t \in Tasks |-> "unused"]
    /\ cancelled = [t \in Tasks |-> FALSE]
    /\ ready = [t \in Tasks |-> {}]
    /\ pending = [d \in Docs |-> None]
    /\ sessions = [d \in Docs |-> NoEntry]
    /\ timers = [d \in Docs |-> "none"]
    /\ jobs = [d \in Docs |-> 0]
    /\ preamble = 1
    /\ active = {}
    /\ drain = {}
    /\ rebuild = "idle"
    /\ request = [r \in Requests |-> Idle]
    /\ asked = [d \in Docs |-> "never"]
    /\ latest = [d \in Docs |-> <<>>]
    /\ late = {}

-----------------------------------------------------------------------------
(* The public operations.                                                  *)

(* The client gives the text of a document a new version when it changes, and
   may count from the start again when it reopens the document. *)
OneTextPerOpening(d, v, c) ==
    (/\ asked[d] \notin {"withdrawn", "closed"}
     /\ latest[d] # <<>>
     /\ latest[d][1] = v) => latest[d][2] = c

(* What the caller may ask when ReuseVersions is FALSE: a version names one
   text as long as the manager remembers it, and is asked for again only while
   its creation is pending (not doomed, except by a rebuild that is about to
   erase it) or its session complete. *)
VersionNamesText(d, v, c) ==
    \A t \in Unfinished \cup ({sessions[d].by} \ {None}) :
        Doc(t) = d /\ Version(t) = v =>
            /\ creation[t].content = c
            /\ \/ pending[d] = t /\ (Doomed(t) => rebuild = "draining")
               \/ t \notin Unfinished /\ sessions[d].phase = "indexed"

StartSessionCreation(d, v, c) ==
    LET t == Len(creation) + 1 IN
    /\ t \in Tasks
    /\ creation' = Append(creation, [doc |-> d, version |-> v, content |-> c,
                                     preamble |-> preamble])
    /\ pc' = [pc EXCEPT ![t] = "queued"]
    /\ active' = active \cup {t}
    /\ pending' = [pending EXCEPT ![d] = t]

(* The timer of an earlier closing no longer matters.  Mutant: it is
   cancelled, but stays registered. *)
ForgetTimer_CancelOnly(d) == timers' = [timers EXCEPT ![d] = "stopped"]
ForgetTimer(d) == timers' = [timers EXCEPT ![d] = "none"]

(* Mutant: the URI alone decides. *)
StoredVersion_Any(d, v) == HasSession(d)
StoredVersion(d, v) == HasSession(d) /\ Version(sessions[d].by) = v

(* A stored session or a pending creation of the same version is kept; any
   other one is dropped, the pending one being told to stop. *)
UpdateSession(d, v, c) ==
    /\ OneTextPerOpening(d, v, c)
    /\ ReuseVersions \/ VersionNamesText(d, v, c)
    /\ ForgetTimer(d)
    /\ asked' = [asked EXCEPT ![d] = "wanted"]
    /\ latest' = [latest EXCEPT ![d] = <<v, c>>]
    /\ IF StoredVersion(d, v)
         THEN UNCHANGED <<creation, taskVars, pending, sessions, active>>
         ELSE /\ sessions' = [sessions EXCEPT ![d] = NoEntry]
              /\ IF PendingVersion(d, v)
                   THEN UNCHANGED <<creation, taskVars, pending, active>>
                   ELSE /\ cancelled' = [t \in Tasks |->
                                           cancelled[t] \/ t = pending[d]]
                        /\ StartSessionCreation(d, v, c)
                        /\ UNCHANGED ready
    /\ UNCHANGED <<jobs, preamble, drain, rebuild, request, late>>

(* One turn for one URI of the vector; the loop over several is this step
   repeated. *)
InvalidateSessions(d) ==
    /\ cancelled' = [t \in Tasks |-> cancelled[t] \/ t = pending[d]]
    /\ ForgetTimer(d)
    /\ sessions' = [sessions EXCEPT ![d] = NoEntry]
    /\ pending' = [pending EXCEPT ![d] = None]
    /\ asked' = [asked EXCEPT ![d] = "never"]
    /\ UNCHANGED <<creation, pc, ready, jobs, rebuildVars, request, latest, late>>

(* Called when the document is closed, before ScheduleCleanup. *)
CancelPendingSession(d) ==
    /\ cancelled' = [t \in Tasks |-> cancelled[t] \/ t = pending[d]]
    /\ pending' = [pending EXCEPT ![d] = None]
    /\ asked' = [asked EXCEPT ![d] = IF @ = "closed" THEN @ ELSE "withdrawn"]
    /\ UNCHANGED <<creation, pc, ready, sessions, timerVars, rebuildVars,
                   request, latest, late>>

(* OnDocumentClosed has cancelled the pending creation just before. *)
ScheduleCleanup(d) ==
    /\ asked[d] \in {"withdrawn", "closed"}
    /\ timers' = [timers EXCEPT ![d] = "armed"]
    /\ asked' = [asked EXCEPT ![d] = "closed"]
    /\ UNCHANGED <<creation, taskVars, pending, sessions, jobs, rebuildVars,
                   request, latest, late>>

(* The wait ends without error: from here cancel() comes too late. *)
TimerExpires(d) ==
    /\ timers[d] = "armed"
    /\ jobs[d] < MaxJobs
    /\ timers' = [timers EXCEPT ![d] = "expired"]
    /\ jobs' = [jobs EXCEPT ![d] = @ + 1]
    /\ UNCHANGED <<creation, taskVars, pending, sessions, rebuildVars,
                   request, historyVars>>

(* Mutant: the timer is erased and the session forgotten about. *)
CleanupJob_KeepsSession(d) ==
    /\ jobs[d] > 0
    /\ jobs' = [jobs EXCEPT ![d] = @ - 1]
    /\ timers' = [timers EXCEPT ![d] = "none"]
    /\ UNCHANGED <<creation, taskVars, pending, sessions, rebuildVars,
                   request, historyVars>>

(* The cleanup coroutine only looks whether some timer is registered. *)
CleanupJob(d) ==
    /\ jobs[d] > 0
    /\ jobs' = [jobs EXCEPT ![d] = @ - 1]
    /\ IF timers[d] # "none"
         THEN /\ sessions' = [sessions EXCEPT ![d] = NoEntry]
              /\ timers' = [timers EXCEPT ![d] = "none"]
         ELSE UNCHANGED <<sessions, timers>>
    /\ UNCHANGED <<creation, taskVars, pending, rebuildVars, request,
                   historyVars>>

(* RebuildWorkspace swaps the preamble, then invalidates; its rebuild state
   keeps a second rebuild from starting in between. *)
UpdatePreambleManager ==
    /\ rebuild = "idle"
    /\ preamble < MaxPreambles
    /\ preamble' = preamble + 1
    /\ rebuild' = "swapped"
    /\ UNCHANGED <<creation, taskVars, pending, sessions, timerVars, active,
                   drain, request, historyVars>>

(* First turn of InvalidateAllSessions: cancel, and take the tasks. *)
InvalidateAllSessions ==
    /\ rebuild = "swapped"
    /\ rebuild' = "draining"
    /\ cancelled' = [t \in Tasks |->
                       cancelled[t] \/ \E d \in Docs : pending[d] = t]
    /\ timers' = [d \in Docs |->
                    IF timers[d] = "armed" THEN "stopped" ELSE timers[d]]
    /\ drain' = active
    /\ active' = {}
    /\ UNCHANGED <<creation, pc, ready, pending, sessions, jobs, preamble,
                   request, historyVars>>

(* Mutant: the tasks are taken, and not waited for. *)
Drained_NoWait == TRUE
Drained == \A t \in drain : pc[t] = "done"

(* Last turn: every awaited task is done, so the maps can be cleared. *)
SessionsDrained ==
    /\ rebuild = "draining"
    /\ Drained
    /\ rebuild' = "idle"
    /\ drain' = {}
    /\ sessions' = [d \in Docs |-> NoEntry]
    /\ pending' = [d \in Docs |-> None]
    /\ timers' = [d \in Docs |-> "none"]
    /\ asked' = [d \in Docs |-> IF asked[d] = "wanted" THEN "never"
                                ELSE asked[d]]
    /\ UNCHANGED <<creation, taskVars, jobs, preamble, active, request,
                   latest, late>>

-----------------------------------------------------------------------------
(* The coroutine of a creation.                                            *)

Goto(t, label) == pc' = [pc EXCEPT ![t] = label]

otherThanTask == <<creation, cancelled, pending, sessions, timerVars,
                   rebuildVars, request, latest, late>>

(* The first cancellation check, when overlay_strand_ is free. *)
StartBuild(t) ==
    /\ pc[t] = "queued"
    /\ OverlayStrandFree
    /\ \A u \in Started : u < t => pc[u] # "queued"
    /\ Goto(t, IF cancelled[t] THEN "returning" ELSE "building")
    /\ UNCHANGED <<otherThanTask, ready, asked>>

(* The second check, after BuildCompilation. *)
Built(t) ==
    /\ pc[t] = "building"
    /\ Goto(t, IF cancelled[t] THEN "returning" ELSE "indexing")
    /\ UNCHANGED <<otherThanTask, ready, asked>>

Indexed(t) ==
    /\ pc[t] = "indexing"
    /\ Goto(t, "storing")
    /\ UNCHANGED <<otherThanTask, ready, asked>>

(* The client cannot expect a session of a text that does not index. *)
GiveUp(t) ==
    asked' = [asked EXCEPT ![Doc(t)] =
                IF @ = "wanted" /\ latest[Doc(t)][1] = Version(t)
                  THEN "never" ELSE @]

IndexingFails(t) ==
    /\ pc[t] = "indexing"
    /\ Goto(t, "returning")
    /\ GiveUp(t)
    /\ UNCHANGED <<otherThanTask, ready>>

(* The exception leaves both coroutines; SharedTask catches it and signals.
   Mutant: it does not. *)
Throws_Uncaught(t) ==
    /\ MayThrow
    /\ Compiles(t)
    /\ Goto(t, "unwound")
    /\ GiveUp(t)
    /\ UNCHANGED <<otherThanTask, ready>>

Throws(t) ==
    /\ MayThrow
    /\ Compiles(t)
    /\ Goto(t, "done")
    /\ GiveUp(t)
    /\ UNCHANGED <<otherThanTask, ready>>

(* Phase 1 looks at the entry of pending_, which need not be its own.  Mutant:
   a session that is there is taken for a newer one. *)
MayStore_IfNone(t) ==
    /\ PendingVersion(Doc(t), Version(t)) /\ ~cancelled[pending[Doc(t)]]
    /\ ~HasSession(Doc(t))

MayStore(t) ==
    PendingVersion(Doc(t), Version(t)) /\ ~cancelled[pending[Doc(t)]]

(* The test, when the creations before this one have had theirs and
   overlay_strand_ is free. *)
Phase1(t) ==
    /\ pc[t] = "storing"
    /\ OverlayStrandFree
    /\ \A u \in Started : u < t => pc[u] # "storing"
    /\ Goto(t, IF MayStore(t) THEN "checked" ELSE "returning")
    /\ UNCHANGED <<otherThanTask, ready, asked>>

(* The store, and the hook, whatever the turns of session_strand_ have done
   since the test. *)
Phase1Store(t) ==
    /\ pc[t] = "checked"
    /\ sessions' = [sessions EXCEPT
                      ![Doc(t)] = [by |-> t, phase |-> "elaborated"]]
    /\ ready' = [ready EXCEPT ![t] = @ \cup {"compilation"}]
    /\ late' = IF MayStore(t) THEN late ELSE late \cup {t}
    /\ Goto(t, "stored")
    /\ UNCHANGED <<creation, cancelled, pending, timerVars, rebuildVars,
                   request, asked, latest>>

(* Phase 2 signals both kinds of waiters whatever became of the creation. *)
Phase2Turn(t, upgrade, erase) ==
    LET d == Doc(t) IN
    /\ pc[t] \in {"stored", "returning"}
    /\ Goto(t, "done")
    /\ ready' = [ready EXCEPT ![t] = Events]
    /\ pending' = [pending EXCEPT ![d] = IF erase THEN None ELSE @]
    /\ sessions' = IF upgrade
                     THEN [sessions EXCEPT
                             ![d] = [by |-> @.by, phase |-> "indexed"]]
                     ELSE sessions
    /\ UNCHANGED <<creation, cancelled, timerVars, rebuildVars, request,
                   historyVars>>

(* Mutants: the entry of any version is taken for its own; a failed creation
   leaves its entry behind; the entry of sessions_ is upgraded without a look at
   either map; a failed creation never gets here. *)
Phase2_AnyVersion(t) ==
    LET mine == pending[Doc(t)] # None IN
    Phase2Turn(t, pc[t] = "stored" /\ mine /\ HasSession(Doc(t)), mine)

Phase2_KeepsFailed(t) ==
    LET mine == pc[t] = "stored" /\ PendingVersion(Doc(t), Version(t)) IN
    Phase2Turn(t, mine /\ HasSession(Doc(t)), mine)

Phase2_Blindly(t) ==
    Phase2Turn(t, pc[t] = "stored", PendingVersion(Doc(t), Version(t)))

Phase2_StoredOnly(t) ==
    LET mine == PendingVersion(Doc(t), Version(t)) IN
    pc[t] = "stored" /\ Phase2Turn(t, mine /\ HasSession(Doc(t)), mine)

(* Phase 2 upgrades the stored entry, and erases the entry of pending_ that
   has its version, its own or not. *)
Phase2(t) ==
    LET mine == PendingVersion(Doc(t), Version(t)) IN
    Phase2Turn(t, pc[t] = "stored" /\ mine /\ HasSession(Doc(t)), mine)

-----------------------------------------------------------------------------
(* WithSession and WithCompilationState.                                   *)

(* The callback runs on a stored session, or the coroutine waits for a
   creation if there is one to wait for. *)
Reply(r, d, need, on) ==
    /\ request' = [request EXCEPT ![r] =
                     IF Satisfied(d, need) THEN Answered("served")
                     ELSE IF on # None
                       THEN [state |-> "waiting", need |-> need, on |-> on]
                       ELSE Answered("notFound")]
    /\ UNCHANGED <<creation, taskVars, pending, sessions, timerVars,
                   rebuildVars, historyVars>>

(* Mutant: only stored sessions are looked at. *)
Ask_StoredOnly(r, d, need) ==
    request[r].state # "waiting" /\ Reply(r, d, need, None)

Ask(r, d, need) ==
    request[r].state # "waiting" /\ Reply(r, d, need, pending[d])

WakeUp(r) ==
    /\ request[r].state = "waiting"
    /\ request[r].need \in ready[request[r].on]
    /\ Reply(r, Doc(request[r].on), request[r].need, None)

-----------------------------------------------------------------------------

Call ==
    \/ \E d \in Docs, v \in Versions, c \in Contents : UpdateSession(d, v, c)
    \/ \E d \in Docs : \/ CancelPendingSession(d)
                       \/ ScheduleCleanup(d)
                       \/ InvalidateSessions(d)
    \/ UpdatePreambleManager
    \/ \E r \in Requests, d \in Docs, need \in Events : Ask(r, d, need)

Step(t) ==
    \/ StartBuild(t) \/ Built(t) \/ Indexed(t) \/ IndexingFails(t)
    \/ Throws(t) \/ Phase1(t) \/ Phase1Store(t) \/ Phase2(t)

Cleanup(d) == TimerExpires(d) \/ CleanupJob(d)

Next ==
    \/ Call
    \/ \E t \in Started : Step(t)
    \/ \E d \in Docs : Cleanup(d)
    \/ InvalidateAllSessions
    \/ SessionsDrained
    \/ \E r \in Requests : WakeUp(r)

Spec == Init /\ [][Next]_vars

(* What is scheduled runs: posted turns, the overlay strand, the timers, and
   the second half of a rebuild.  No caller has to call anything. *)
Fairness ==
    /\ \A t \in Tasks : WF_vars(t \in Started /\ Step(t))
    /\ \A d \in Docs : WF_vars(TimerExpires(d)) /\ WF_vars(CleanupJob(d))
    /\ WF_vars(InvalidateAllSessions)
    /\ WF_vars(SessionsDrained)
    /\ \A r \in Requests : WF_vars(WakeUp(r))

FairSpec == Spec /\ Fairness

-----------------------------------------------------------------------------
(* Properties.                                                             *)

(* The parts of the type invariant. *)
CreationsOK ==
    /\ creation \in Seq(Creation)
    /\ Len(creation) <= MaxTasks
    /\ pc \in [Tasks -> PC]
    /\ \A t \in Tasks : pc[t] = "unused" <=> t > Len(creation)
    /\ cancelled \in [Tasks -> BOOLEAN]
    /\ ready \in [Tasks -> SUBSET Events]

StoreOK ==
    /\ pending \in [Docs -> {None} \cup Started]
    /\ sessions \in [Docs -> {NoEntry} \cup Entry]
    /\ \A d \in Docs :
          /\ HasSession(d) => /\ sessions[d].by \in Started
                             /\ Doc(sessions[d].by) = d
          /\ pending[d] # None => Doc(pending[d]) = d

CleanupOK ==
    /\ timers \in [Docs -> {"none", "armed", "stopped", "expired"}]
    /\ jobs \in [Docs -> 0 .. MaxJobs]

RebuildOK ==
    /\ preamble \in 1 .. MaxPreambles
    /\ active \subseteq Started
    /\ drain \subseteq Started
    /\ rebuild \in {"idle", "swapped", "draining"}

ClientOK ==
    /\ request \in [Requests -> Waiting \cup
                       {Idle, Answered("served"), Answered("notFound")}]
    /\ \A r \in Requests :
          request[r].state = "waiting" => request[r].on \in Started
    /\ asked \in [Docs -> {"never", "wanted", "withdrawn", "closed"}]
    /\ latest \in [Docs -> {<<>>} \cup (Versions \X Contents)]
    /\ late \subseteq Started

(* Types, and the bounds of the counters: the cleanup coroutines that run
   are those that timers have posted. *)
TypeOK == CreationsOK /\ StoreOK /\ CleanupOK /\ RebuildOK /\ ClientOK

(* What a document has, stored or on the way, is of the text UpdateSession was
   last called with, although the code compares versions only ("No content
   hashing").  A session of an older text is a late one of which only Phase 1
   is done: WithSession serves no text that has been replaced, but
   WithCompilationState may. *)
ContentCurrent ==
    \A d \in Docs :
        /\ pending[d] # None =>
              latest[d] = <<Version(pending[d]), creation[pending[d]].content>>
        /\ HasSession(d) =>
              LET by == sessions[d].by IN
              \/ latest[d] = <<Version(by), creation[by].content>>
              \/ by \in late /\ sessions[d].phase = "elaborated"

(* The entry of pending_ is a creation that still runs and, unless
   InvalidateAllSessions is under way, has not been cancelled.  An entry that
   stays behind would answer every later UpdateSession of its version. *)
PendingInFlight ==
    \A d \in Docs :
        pending[d] # None =>
            /\ pending[d] \in Unfinished
            /\ cancelled[pending[d]] => rebuild = "draining"

(* No update is lost: as long as the client wants a session of the document,
   a creation that runs is pending or the session is complete. *)
NothingLost ==
    \A d \in Docs :
        asked[d] = "wanted" /\ rebuild # "draining" =>
            pending[d] \in Unfinished \/ sessions[d].phase = "indexed"

(* The preambles kept alive by stored sessions and by creations that run:
   between rebuilds the current one only, in a rebuild that and the last. *)
PreamblesHeld ==
    {creation[t].preamble :
        t \in Unfinished \cup {sessions[d].by : d \in {e \in Docs : HasSession(e)}}}

OldPreambleReleased ==
    PreamblesHeld \subseteq
        IF rebuild = "idle" THEN {preamble} ELSE {preamble - 1, preamble}

(* Only documents the client has closed can lose their session to a cleanup
   timer: reopening disarms a timer even if its callback is already posted. *)
CleanupOnlyIfClosed ==
    \A d \in Docs : timers[d] # "none" => asked[d] = "closed"

(* A closed document cannot keep its session: a timer is armed, or its job is
   posted, or the rebuild under way will clear the map.  Only what is stored
   late, when the job may have run, can stay. *)
ClosedIsDoomed ==
    \A d \in Docs :
        asked[d] = "closed" /\ HasSession(d) /\ sessions[d].by \notin late =>
            \/ timers[d] = "armed"
            \/ timers[d] # "none" /\ jobs[d] > 0
            \/ rebuild = "draining"

(* A cancelled creation never stores its session, so none of its hooks
   publishes diagnostics of a text the client has withdrawn ("Check if still
   current before storing").  The store is not in the turn of the check. *)
CancelledNeverStores ==
    [][\A t \in Tasks :
          pc'[t] = "stored" /\ pc[t] # "stored" => ~cancelled[t]]_vars

(* A session never takes the place of one that a later UpdateSession has
   started, however late it is stored: overlay_strand_ gives the newer creation
   its turn only when the older one has stored. *)
NewestStaysStored ==
    [][\A d \in Docs :
          HasSession(d) /\ HasSession(d)' => sessions[d].by <= sessions'[d].by]_vars

(* A request is told "Session not found" only if the client no longer wants
   the document, or a rebuild or a newer version is in progress. *)
NotFoundOnlyIfUnwanted ==
    [][\A r \in Requests, d \in Docs :
          /\ request'[r] = Answered("notFound")
          /\ \/ \E need \in Events : Ask(r, d, need)
             \/ request[r].on # None /\ d = Doc(request[r].on)
                   /\ WakeUp(r) /\ pending[d] = None
          => asked[d] # "wanted" \/ rebuild = "draining"]_vars

(* The abstract store: a document's creation is its entry of pending_, and its
   session has the text and the preamble of the creation that built it. *)
CreationOf(d) ==
    IF pending[d] = None THEN [number |-> None, preamble |-> 0]
    ELSE [number |-> pending[d], preamble |-> creation[pending[d]].preamble]

SessionOf(d) ==
    IF ~HasSession(d) THEN [text |-> <<>>, preamble |-> 0, phase |-> "none"]
    ELSE LET built == creation[sessions[d].by] IN
         [text |-> <<built.version, built.content>>,
          preamble |-> built.preamble, phase |-> sessions[d].phase]

RequestOf(r) ==
    LET q == request[r] IN
    [state |-> q.state, need |-> q.need, number |-> q.on,
     doc |-> IF q.state = "waiting" THEN Doc(q.on) ELSE <<>>]

Store == INSTANCE SessionStore
            WITH Texts <- Versions \X Contents, text <- latest, wish <- asked,
                 started <- Len(creation),
                 creating <- [d \in Docs |-> CreationOf(d)],
                 session <- [d \in Docs |-> SessionOf(d)],
                 request <- [r \in Requests |-> RequestOf(r)]

(* However creations, their cancellation, cleanup timers, rebuilds and requests
   interleave, the manager is a store with one creation and one session per
   document, of the text last asked for; a creation that was replaced leaves at
   most a passing trace, and a request is sent away only when what it waits for
   is over (UpdateSession, StartSessionCreation, InvalidateAllSessions,
   WithSession). *)
ImplementsStore == Store!Spec

(* Every request that waits for a session is answered in the end: served, or
   told that there is none. *)
RequestsAnswered ==
    \A r \in Requests :
        request[r].state = "waiting" ~> request[r].state # "waiting"

(* InvalidateAllSessions ends whatever the creations it waits for were doing,
   so a workspace rebuild never blocks. *)
RebuildEnds == rebuild # "idle" ~> rebuild = "idle"

(* The session of a closed document is released in the end, unless it was
   stored late. *)
ClosedIsFreed ==
    \A d \in Docs :
        asked[d] = "closed" /\ HasSession(d) /\ sessions[d].by \notin late
            ~> asked[d] # "closed" \/ ~HasSession(d)

(* A session stored late makes way in the end for that of the text the client
   wants: diagnostics and symbols of a replaced text do not stay. *)
LateIsReplaced ==
    \A d \in Docs :
        HasSession(d) /\ sessions[d].by \in late
            ~> \/ asked[d] # "wanted"
               \/ ~HasSession(d) \/ sessions[d].by \notin late

=============================================================================
