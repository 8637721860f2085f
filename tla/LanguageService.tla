--------------------------- MODULE LanguageService ---------------------------
(***************************************************************************)
(* LanguageService of slangd: handlers of document and file events, the    *)
(* debounced rebuild of one session and the rebuild of the workspace, over *)
(* the state of the open documents and the sessions of SessionManager.     *)
(*                                                                         *)
(* Every handler is a coroutine on the one thread of the io_context.  It   *)
(* suspends where it awaits workspace_ready_ or posts itself to a strand,  *)
(* so what is left of it is an entry of one of four queues, each served    *)
(* in order; between the queues the order is open.  A turn takes the       *)
(* oldest entry and runs the coroutine to its next suspension.  SessionM-  *)
(* anager is represented by what its operations do to the session of a     *)
(* document, whatever the phase.                                           *)
(***************************************************************************)
EXTENDS Integers, FiniteSets, SequencesExt

CONSTANTS
    Docs,           \* document URIs
    Revised,        \* bound: the other documents are opened, no more
    MaxVersion,     \* bound: versions of a document, over all its openings
    MaxChanges,     \* bound: file events and configuration changes
    MaxSaves,       \* bound: saves of a document
    MaxMessages,    \* bound: versions, saves and events of all kinds together
    CleanClose      \* does the client close a document only when none of
                    \* its updates is on the way to the session?

ASSUME BoundsAssumption ==
    /\ MaxVersion \in Nat \ {0} /\ MaxChanges \in Nat /\ MaxSaves \in Nat
    /\ MaxMessages \in Nat
    /\ Revised \subseteq Docs

ASSUME ClientAssumption == CleanClose \in BOOLEAN

VARIABLES
    client,     \* the client: is the document open, its version, its saves
    ready,      \* workspace_ready_
    waiting,    \* coroutines that await workspace_ready_
    docQ,       \* the strand of DocumentStateManager
    sessionQ,   \* session_strand_
    layoutQ,    \* the strand of ProjectLayoutService
    documents,  \* documents_: the version of each document, 0 if it has none
    armed,      \* documents whose session_rebuild_timers_ entry runs
    due,        \* expired timers whose callback is posted
    rebuildState, \* session_rebuild_state_
    session,    \* sessions_ and pending_ of SessionManager
    cleaning,   \* documents with a cleanup timer
    layout,     \* the changes that have reached ProjectLayoutService
    workspace,  \* RebuildWorkspace: its state, position and what it works on
    timer,      \* workspace_rebuild_timer_
    preamble    \* the layout from which SessionManager's preamble was built

vars == <<client, ready, waiting, docQ, sessionQ, layoutQ, documents, armed,
          due, rebuildState, session, cleaning, layout, workspace, timer,
          preamble>>

eventVars   == <<ready, waiting>>
docVars     == <<docQ, documents>>
rebuildVars == <<armed, due, rebuildState>>
storeVars   == <<session, cleaning, preamble>>
sessionVars == <<sessionQ, session, cleaning, preamble>>
layoutVars  == <<layoutQ, layout, workspace, timer>>

-----------------------------------------------------------------------------

NoSession == [version |-> 0, preamble |-> 0, built |-> FALSE]
HasSession(d) == session[d] # NoSession
IsOpen(d) == client[d].open
Version(d) == client[d].version

(* Entries of the queues name the handler, its document and the version that
   it carries. *)
Entry(handler, d, v) == <<handler, d, v>>
Workspace(step)      == <<step>>

(* What the file watcher reports: a file created or deleted, a file modified,
   a configuration file. *)
FileEvents == {"listed", "modified", "config"}

(* Is an entry of one of these handlers, for d, in the queue? *)
Queued(q, handlers, d) ==
    \E i \in DOMAIN q :
        Len(q[i]) = 3 /\ q[i][1] \in handlers /\ q[i][2] = d

Init ==
    /\ client = [d \in Docs |-> [open |-> FALSE, version |-> 0, saves |-> 0]]
    /\ ready = FALSE
    /\ waiting = <<>>
    /\ docQ = <<>>
    /\ sessionQ = <<>>
    /\ layoutQ = <<>>
    /\ documents = [d \in Docs |-> 0]
    /\ armed = {}
    /\ due = {}
    /\ rebuildState = [d \in Docs |-> "idle"]
    /\ session = [d \in Docs |-> NoSession]
    /\ cleaning = {}
    /\ layout = 0
    /\ workspace = [state |-> "idle", at |-> "none", layout |-> 0, todo |-> {}]
    /\ timer = [armed |-> FALSE, due |-> FALSE]
    /\ preamble = 0

-----------------------------------------------------------------------------
(* What the client sends; each handler runs to its first suspension.       *)

(* Events of the file watcher that have been sent and not applied. *)
EventsUnderWay ==
    Cardinality({i \in DOMAIN waiting : Len(waiting[i]) = 1}) + Len(layoutQ)

MayStillSend ==
    MaxMessages > layout + EventsUnderWay
                  + FoldFunction(LAMBDA c, n : c.version + c.saves + n, 0, client)

MayRevise(d) ==
    /\ MayStillSend
    /\ Version(d) < IF d \in Revised THEN MaxVersion ELSE 1

DidOpen(d) ==
    /\ ~IsOpen(d)
    /\ MayRevise(d)
    /\ client' = [client EXCEPT ![d].open = TRUE, ![d].version = @ + 1]
    /\ docQ' = Append(docQ, Entry("open", d, Version(d) + 1))
    /\ UNCHANGED <<eventVars, documents, rebuildVars, sessionVars,
                   layoutVars>>

(* The io_context has one thread and runs what is posted in order: the first
   turn of an opening precedes the next message about the document. *)
OpeningStored(d) == ~Queued(docQ, {"open"}, d)

DidChange(d) ==
    /\ IsOpen(d)
    /\ OpeningStored(d)
    /\ MayRevise(d)
    /\ client' = [client EXCEPT ![d].version = @ + 1]
    /\ waiting' = Append(waiting, Entry("change", d, Version(d) + 1))
    /\ UNCHANGED <<ready, docVars, rebuildVars, sessionVars, layoutVars>>

DidSave(d) ==
    /\ IsOpen(d)
    /\ OpeningStored(d)
    /\ d \in Revised /\ client[d].saves < MaxSaves /\ MayStillSend
    /\ client' = [client EXCEPT ![d].saves = @ + 1]
    /\ waiting' = Append(waiting, Entry("save", d, 0))
    /\ UNCHANGED <<ready, docVars, rebuildVars, sessionVars, layoutVars>>

(* A handler, or a rebuild, that will call UpdateSession for the document, or
   store it again, after a close that comes now. *)
UpdateOnTheWay(d) ==
    \/ Queued(waiting, {"open", "change"}, d)
    \/ Queued(docQ, {"save", "rebuild", "get"}, d)

(* CancelPendingSession and ScheduleCleanup.  Mutant: a close cancels what is
   pending and leaves the stored session alone. *)
CloseTurns_CancelOnly(d) == <<Entry("cancel", d, 0)>>

CloseTurns(d) == <<Entry("cancel", d, 0), Entry("cleanup", d, 0)>>

(* The handler never suspends; the coroutines it spawns are posted to their
   strands before it returns. *)
DidClose(d) ==
    /\ d \in Revised /\ IsOpen(d)
    /\ OpeningStored(d)
    /\ CleanClose => ~UpdateOnTheWay(d)
    /\ client' = [client EXCEPT ![d].open = FALSE]
    /\ IF ready
         THEN /\ armed' = armed \ {d}
              /\ rebuildState' = [rebuildState EXCEPT ![d] = "idle"]
              /\ sessionQ' = sessionQ \o CloseTurns(d)
              /\ docQ' = Append(docQ, Entry("remove", d, 0))
         ELSE UNCHANGED <<armed, rebuildState, sessionQ, docQ>>
    /\ UNCHANGED <<eventVars, documents, due, storeVars, layoutVars>>

DidChangeWatchedFiles(kind) ==
    /\ layout + EventsUnderWay < MaxChanges /\ MayStillSend
    /\ waiting' = Append(waiting, Workspace(kind))
    /\ UNCHANGED <<client, ready, docVars, rebuildVars, sessionVars,
                   layoutVars>>

-----------------------------------------------------------------------------
(* Coroutines that have awaited workspace_ready_.                          *)

InitializeWorkspace ==
    /\ ~ready
    /\ ready' = TRUE
    /\ UNCHANGED <<client, waiting, docVars, rebuildVars, sessionVars,
                   layoutVars>>

(* Mutant: the event wakes the last of its waiters first. *)
Resumes_LastFirst(entry) ==
    /\ ready
    /\ waiting # <<>>
    /\ entry = Last(waiting)
    /\ waiting' = Front(waiting)

Resumes(entry) ==
    /\ ready
    /\ waiting # <<>>
    /\ entry = Head(waiting)
    /\ waiting' = Tail(waiting)

ResumeOpened(d, v) ==
    /\ Resumes(Entry("open", d, v))
    /\ sessionQ' = Append(sessionQ, Entry("update", d, v))
    /\ UNCHANGED <<client, ready, docVars, rebuildVars, storeVars,
                   layoutVars>>

ResumeChanged(d, v) ==
    /\ Resumes(Entry("change", d, v))
    /\ docQ' = Append(docQ, Entry("change", d, v))
    /\ UNCHANGED <<client, ready, documents, rebuildVars, sessionVars,
                   layoutVars>>

(* A save takes priority over the debounced rebuild. *)
ResumeSaved(d) ==
    /\ Resumes(Entry("save", d, 0))
    /\ armed' = armed \ {d}
    /\ docQ' = Append(docQ, Entry("save", d, 0))
    /\ UNCHANGED <<client, ready, documents, due, rebuildState, sessionVars,
                   layoutVars>>

-----------------------------------------------------------------------------
(* RebuildSessionWithDiagnostics and its timer.                            *)

TimerExpires(d) ==
    /\ d \in armed
    /\ d \notin due
    /\ armed' = armed \ {d}
    /\ due' = due \cup {d}
    /\ UNCHANGED <<client, eventVars, docVars, rebuildState, sessionVars,
                   layoutVars>>

(* The first segment: one rebuild at a time, the next is marked. *)
RebuildSession(d) ==
    IF rebuildState[d] = "idle"
      THEN /\ rebuildState' = [rebuildState EXCEPT ![d] = "inProgress"]
           /\ docQ' = Append(docQ, Entry("rebuild", d, 0))
      ELSE /\ rebuildState' = [rebuildState EXCEPT ![d] = "pendingNext"]
           /\ UNCHANGED docQ

TimerCallback(d) ==
    /\ d \in due
    /\ due' = due \ {d}
    /\ RebuildSession(d)
    /\ UNCHANGED <<client, eventVars, documents, armed, sessionVars,
                   layoutVars>>

(* Mutant: the mark is erased and nothing started. *)
FinishRebuild_ForgetsPending(d) ==
    /\ rebuildState' = [rebuildState EXCEPT ![d] = "idle"]
    /\ UNCHANGED docQ

(* The last segment: a marked rebuild starts at once. *)
FinishRebuild(d) ==
    IF rebuildState[d] = "pendingNext"
      THEN /\ rebuildState' = [rebuildState EXCEPT ![d] = "inProgress"]
           /\ docQ' = Append(docQ, Entry("rebuild", d, 0))
      ELSE /\ rebuildState' = [rebuildState EXCEPT ![d] = "idle"]
           /\ UNCHANGED docQ

-----------------------------------------------------------------------------
(* RebuildWorkspace.                                                       *)

(* Called with the layout that CreateFromProjectLayout is going to read.
   Mutant: a call during a rebuild is dropped. *)
RebuildWorkspace_Drops(l) ==
    workspace' = IF workspace.state = "idle"
                   THEN [workspace EXCEPT !.state = "inProgress",
                                          !.at = "building", !.layout = l]
                   ELSE workspace

RebuildWorkspace(l) ==
    workspace' = IF workspace.state = "idle"
                   THEN [workspace EXCEPT !.state = "inProgress",
                                          !.at = "building", !.layout = l]
                   ELSE [workspace EXCEPT !.state = "pendingNext"]

ScheduleWorkspaceRebuild == timer' = [timer EXCEPT !.armed = TRUE]

(* A modified file leaves the layout as it is: only the debounce starts. *)
ResumeWatchedFiles(kind) ==
    /\ Resumes(Workspace(kind))
    /\ IF kind = "modified"
         THEN /\ layout' = layout + 1
              /\ ScheduleWorkspaceRebuild
              /\ UNCHANGED layoutQ
         ELSE /\ layoutQ' = Append(layoutQ, kind)
              /\ UNCHANGED <<layout, timer>>
    /\ UNCHANGED <<client, ready, docVars, rebuildVars, sessionVars,
                   workspace>>

(* AddFile or RemoveFile, then the debounce; a configuration change rebuilds
   at once. *)
LayoutTurn(kind) ==
    /\ layoutQ # <<>>
    /\ kind = Head(layoutQ)
    /\ layoutQ' = Tail(layoutQ)
    /\ layout' = layout + 1
    /\ IF kind = "config"
         THEN RebuildWorkspace(layout + 1) /\ UNCHANGED timer
         ELSE ScheduleWorkspaceRebuild /\ UNCHANGED workspace
    /\ UNCHANGED <<client, eventVars, docVars, rebuildVars, sessionVars>>

WorkspaceTimerExpires ==
    /\ timer.armed
    /\ ~timer.due
    /\ timer' = [armed |-> FALSE, due |-> TRUE]
    /\ UNCHANGED <<client, eventVars, docVars, rebuildVars, sessionVars,
                   layoutQ, layout, workspace>>

WorkspaceTimerCallback ==
    /\ timer.due
    /\ timer' = [timer EXCEPT !.due = FALSE]
    /\ RebuildWorkspace(layout)
    /\ UNCHANGED <<client, eventVars, docVars, rebuildVars, sessionVars,
                   layoutQ, layout>>

PreambleBuilt ==
    /\ workspace.at = "building"
    /\ workspace' = [workspace EXCEPT !.at = "swapping"]
    /\ sessionQ' = Append(sessionQ, Workspace("swap"))
    /\ UNCHANGED <<client, eventVars, docVars, rebuildVars, storeVars,
                   layoutQ, layout, timer>>

(* The tasks that InvalidateAllSessions awaits are done: it clears the maps,
   and RebuildWorkspace asks for the open documents.  Mutant: it clears what
   is not built. *)
SessionsDrained_KeepsBuilt ==
    /\ workspace.at = "draining"
    /\ session' = [d \in Docs |-> IF session[d].built THEN session[d]
                                  ELSE NoSession]
    /\ cleaning' = {}
    /\ workspace' = [workspace EXCEPT !.at = "visiting"]
    /\ docQ' = Append(docQ, Workspace("uris"))
    /\ UNCHANGED <<client, eventVars, documents, rebuildVars, sessionQ,
                   preamble, layoutQ, layout, timer>>

SessionsDrained ==
    /\ workspace.at = "draining"
    /\ session' = [d \in Docs |-> NoSession]
    /\ cleaning' = {}
    /\ workspace' = [workspace EXCEPT !.at = "visiting"]
    /\ docQ' = Append(docQ, Workspace("uris"))
    /\ UNCHANGED <<client, eventVars, documents, rebuildVars, sessionQ,
                   preamble, layoutQ, layout, timer>>

(* The end: a marked rebuild is scheduled.  Mutant: its mark stays. *)
EndRebuild_MarkStays ==
    /\ workspace' = [workspace EXCEPT !.at = "none", !.todo = {},
                       !.state = IF @ = "pendingNext" THEN @ ELSE "idle"]
    /\ IF workspace.state = "pendingNext"
         THEN ScheduleWorkspaceRebuild
         ELSE UNCHANGED timer

EndRebuild ==
    /\ workspace' = [workspace EXCEPT !.at = "none", !.todo = {},
                                      !.state = "idle"]
    /\ IF workspace.state = "pendingNext"
         THEN ScheduleWorkspaceRebuild
         ELSE UNCHANGED timer

(* The loop over the open documents; the documents strand continues with q. *)
Visit(todo, q) ==
    \/ \E d \in todo :
          /\ workspace' = [workspace EXCEPT !.todo = todo \ {d}]
          /\ docQ' = Append(q, Entry("get", d, 0))
          /\ UNCHANGED timer
    \/ /\ todo = {}
       /\ docQ' = q
       /\ EndRebuild

-----------------------------------------------------------------------------
(* Turns of the strand of DocumentStateManager.                            *)

DocRuns(entry) == docQ # <<>> /\ entry = Head(docQ)

StoreOpened(d, v) ==
    /\ DocRuns(Entry("open", d, v))
    /\ documents' = [documents EXCEPT ![d] = v]
    /\ docQ' = Tail(docQ)
    /\ waiting' = Append(waiting, Entry("open", d, v))
    /\ UNCHANGED <<client, ready, rebuildVars, sessionVars, layoutVars>>

(* ScheduleSessionRebuild restarts the timer. *)
StoreChanged(d, v) ==
    /\ DocRuns(Entry("change", d, v))
    /\ documents' = [documents EXCEPT ![d] = v]
    /\ docQ' = Tail(docQ)
    /\ armed' = armed \cup {d}
    /\ UNCHANGED <<client, eventVars, due, rebuildState, sessionVars,
                   layoutVars>>

RemoveDocument(d) ==
    /\ DocRuns(Entry("remove", d, 0))
    /\ documents' = [documents EXCEPT ![d] = 0]
    /\ docQ' = Tail(docQ)
    /\ UNCHANGED <<client, eventVars, rebuildVars, sessionVars, layoutVars>>

GetSaved(d) ==
    /\ DocRuns(Entry("save", d, 0))
    /\ docQ' = Tail(docQ)
    /\ sessionQ' = IF documents[d] = 0 THEN sessionQ
                   ELSE Append(sessionQ, Entry("update", d, documents[d]))
    /\ UNCHANGED <<client, eventVars, documents, rebuildVars, storeVars,
                   layoutVars>>

GetForRebuild(d) ==
    /\ DocRuns(Entry("rebuild", d, 0))
    /\ docQ' = Tail(docQ)
    /\ IF documents[d] = 0
         THEN /\ rebuildState' = [rebuildState EXCEPT ![d] = "idle"]
              /\ UNCHANGED sessionQ
         ELSE /\ sessionQ' = Append(sessionQ,
                                    Entry("rebuild", d, documents[d]))
              /\ UNCHANGED rebuildState
    /\ UNCHANGED <<client, eventVars, documents, armed, due, storeVars,
                   layoutVars>>

GetAllUris ==
    /\ DocRuns(Workspace("uris"))
    /\ Visit({d \in Docs : documents[d] # 0}, Tail(docQ))
    /\ UNCHANGED <<client, eventVars, documents, rebuildVars, sessionVars,
                   layoutQ, layout>>

(* A document that is gone meanwhile is skipped. *)
GetVisited(d) ==
    /\ DocRuns(Entry("get", d, 0))
    /\ IF documents[d] = 0
         THEN Visit(workspace.todo, Tail(docQ)) /\ UNCHANGED sessionQ
         ELSE /\ sessionQ' = Append(sessionQ, Entry("visit", d, documents[d]))
              /\ docQ' = Tail(docQ)
              /\ UNCHANGED <<workspace, timer>>
    /\ UNCHANGED <<client, eventVars, documents, rebuildVars, storeVars,
                   layoutQ, layout>>

-----------------------------------------------------------------------------
(* Turns of session_strand_, and the work of SessionManager.               *)

SessionRuns(entry) ==
    /\ sessionQ # <<>>
    /\ entry = Head(sessionQ)

(* The session of the version is kept, any other one is replaced. *)
UpdateSession(d, v) ==
    /\ cleaning' = cleaning \ {d}
    /\ session' = IF session[d].version = v THEN session
                  ELSE [session EXCEPT ![d] = [version |-> v,
                                               preamble |-> preamble,
                                               built |-> FALSE]]
    /\ UNCHANGED preamble

UpdateTurn(d, v) ==
    /\ SessionRuns(Entry("update", d, v))
    /\ sessionQ' = Tail(sessionQ)
    /\ UpdateSession(d, v)
    /\ UNCHANGED <<client, eventVars, docVars, rebuildVars, layoutVars>>

RebuildTurn(d, v) ==
    /\ SessionRuns(Entry("rebuild", d, v))
    /\ sessionQ' = Tail(sessionQ)
    /\ UpdateSession(d, v)
    /\ FinishRebuild(d)
    /\ UNCHANGED <<client, eventVars, documents, armed, due, layoutVars>>

VisitTurn(d, v) ==
    /\ SessionRuns(Entry("visit", d, v))
    /\ sessionQ' = Tail(sessionQ)
    /\ UpdateSession(d, v)
    /\ Visit(workspace.todo, docQ)
    /\ UNCHANGED <<client, eventVars, documents, rebuildVars, layoutQ,
                   layout>>

(* CancelPendingSession drops what is not built. *)
CancelTurn(d) ==
    /\ SessionRuns(Entry("cancel", d, 0))
    /\ sessionQ' = Tail(sessionQ)
    /\ session' = IF session[d].built THEN session
                  ELSE [session EXCEPT ![d] = NoSession]
    /\ UNCHANGED <<client, eventVars, docVars, rebuildVars, cleaning,
                   preamble, layoutVars>>

(* ScheduleCleanup. *)
CleanupTurn(d) ==
    /\ SessionRuns(Entry("cleanup", d, 0))
    /\ sessionQ' = Tail(sessionQ)
    /\ cleaning' = cleaning \cup {d}
    /\ UNCHANGED <<client, eventVars, docVars, rebuildVars, session, preamble,
                   layoutVars>>

SwapTurn ==
    /\ SessionRuns(Workspace("swap"))
    /\ preamble' = workspace.layout
    /\ sessionQ' = Append(Tail(sessionQ), Workspace("invalidate"))
    /\ UNCHANGED <<client, eventVars, docVars, rebuildVars, session, cleaning,
                   layoutVars>>

(* InvalidateAllSessions cancels what is not built and the cleanup timers,
   and waits for the creations. *)
InvalidateTurn ==
    /\ SessionRuns(Workspace("invalidate"))
    /\ sessionQ' = Tail(sessionQ)
    /\ session' = [d \in Docs |-> IF session[d].built THEN session[d]
                                  ELSE NoSession]
    /\ cleaning' = {}
    /\ workspace' = [workspace EXCEPT !.at = "draining"]
    /\ UNCHANGED <<client, eventVars, docVars, rebuildVars, preamble, layoutQ,
                   layout, timer>>

CleanupExpires(d) ==
    /\ d \in cleaning
    /\ cleaning' = cleaning \ {d}
    /\ session' = [session EXCEPT ![d] = NoSession]
    /\ UNCHANGED <<client, eventVars, docVars, rebuildVars, sessionQ,
                   preamble, layoutVars>>

SessionBuilt(d) ==
    /\ HasSession(d)
    /\ ~session[d].built
    /\ session' = [session EXCEPT ![d].built = TRUE]
    /\ UNCHANGED <<client, eventVars, docVars, rebuildVars, sessionQ,
                   cleaning, preamble, layoutVars>>

-----------------------------------------------------------------------------

Versions == 1 .. MaxVersion

Client ==
    \/ \E d \in Docs : DidOpen(d) \/ DidChange(d) \/ DidSave(d) \/ DidClose(d)
    \/ \E kind \in FileEvents : DidChangeWatchedFiles(kind)

Resume ==
    \/ \E d \in Docs, v \in Versions : ResumeOpened(d, v) \/ ResumeChanged(d, v)
    \/ \E d \in Docs : ResumeSaved(d)
    \/ \E kind \in FileEvents : ResumeWatchedFiles(kind)

DocTurn ==
    \/ \E d \in Docs, v \in Versions : StoreOpened(d, v) \/ StoreChanged(d, v)
    \/ \E d \in Docs : \/ RemoveDocument(d) \/ GetSaved(d) \/ GetForRebuild(d)
                       \/ GetVisited(d)
    \/ GetAllUris

SessionTurn ==
    \/ \E d \in Docs, v \in Versions : \/ UpdateTurn(d, v) \/ RebuildTurn(d, v)
                                       \/ VisitTurn(d, v)
    \/ \E d \in Docs : CancelTurn(d) \/ CleanupTurn(d)
    \/ SwapTurn
    \/ InvalidateTurn

RebuildStep ==
    PreambleBuilt \/ SessionsDrained \/ WorkspaceTimerCallback

Next ==
    \/ Client
    \/ InitializeWorkspace
    \/ Resume
    \/ DocTurn
    \/ SessionTurn
    \/ \E kind \in {"listed", "config"} : LayoutTurn(kind)
    \/ \E d \in Docs : \/ TimerExpires(d) \/ TimerCallback(d)
                       \/ CleanupExpires(d) \/ SessionBuilt(d)
    \/ WorkspaceTimerExpires
    \/ RebuildStep

Spec == Init /\ [][Next]_vars

(* The executor runs what is posted, timers expire, builds and drains end.
   The client does what it likes. *)
Fairness ==
    /\ WF_vars(InitializeWorkspace)
    /\ WF_vars(Resume)
    /\ WF_vars(DocTurn)
    /\ WF_vars(SessionTurn)
    /\ WF_vars(\E kind \in {"listed", "config"} : LayoutTurn(kind))
    /\ \A d \in Docs :
          /\ WF_vars(TimerExpires(d)) /\ WF_vars(TimerCallback(d))
          /\ WF_vars(CleanupExpires(d)) /\ WF_vars(SessionBuilt(d))
    /\ WF_vars(WorkspaceTimerExpires)
    /\ WF_vars(RebuildStep)

FairSpec == Spec /\ Fairness

-----------------------------------------------------------------------------
(* Properties.                                                             *)

Entries(versioned, others, steps) ==
    (versioned \X Docs \X Versions) \cup (others \X Docs \X {0})
        \cup {Workspace(step) : step \in steps}

WaitEntries    == Entries({"open", "change"}, {"save"}, FileEvents)
DocEntries     == Entries({"open", "change"}, {"save", "remove", "rebuild", "get"},
                          {"uris"})
SessionEntries == Entries({"update", "rebuild", "visit"}, {"cancel", "cleanup"},
                          {"swap", "invalidate"})
LayoutEntries  == {"listed", "config"}

(* Types: every queue holds entries of the handlers that it serves, so none
   is ever blocked by its head; RebuildWorkspace is idle or at one of its
   suspension points; and a preamble is made from a layout that has existed. *)
TypeOK ==
    /\ client \in [Docs -> [open : BOOLEAN, version : 0 .. MaxVersion,
                            saves : 0 .. MaxSaves]]
    /\ ready \in BOOLEAN
    /\ waiting \in Seq(WaitEntries) /\ docQ \in Seq(DocEntries)
    /\ sessionQ \in Seq(SessionEntries) /\ layoutQ \in Seq(LayoutEntries)
    /\ documents \in [Docs -> 0 .. MaxVersion]
    /\ armed \subseteq Docs /\ due \subseteq Docs /\ cleaning \subseteq Docs
    /\ rebuildState \in [Docs -> {"idle", "inProgress", "pendingNext"}]
    /\ session \in [Docs -> [version : 0 .. MaxVersion,
                             preamble : 0 .. layout, built : BOOLEAN]]
    /\ layout \in 0 .. MaxChanges
    /\ timer \in [armed : BOOLEAN, due : BOOLEAN]
    /\ preamble \in 0 .. layout
    /\ workspace \in [state : {"idle", "inProgress", "pendingNext"},
                      at : {"none", "building", "swapping", "draining", "visiting"},
                      layout : 0 .. layout, todo : SUBSET Docs]
    /\ workspace.state = "idle" <=> workspace.at = "none"

(* The session of a document is never replaced by that of an older version:
   the handlers that read the document state and call UpdateSession later,
   and OnDocumentOpened, which calls it with what it was given, never
   overtake each other (RebuildWorkspace, OnDocumentSaved, OnDocumentOpened
   and RebuildSessionWithDiagnostics). *)
NewestVersionWins ==
    [][\A d \in Docs :
          HasSession(d) /\ HasSession(d)'
              => session[d].version <= session[d]'.version]_vars

(* A change that the preamble lacks is never forgotten: the rebuild that runs
   reads it, or one is due after it, by the debounce timer, its callback or the
   mark (RebuildWorkspace reads the layout once, and a change may come at each
   of its suspensions; workspace_rebuild_state_, workspace_rebuild_timer_). *)
ReloadIsDue ==
    preamble # layout =>
        \/ timer.armed \/ timer.due
        \/ workspace.state = "pendingNext"
        \/ workspace.at \in {"building", "swapping"} /\ workspace.layout = layout

(* A session from an earlier preamble lives only while RebuildWorkspace goes
   from the swap to the end of InvalidateAllSessions: what creates a session
   meanwhile, an opening, a save or a rebuild, takes the new preamble
   (SwapPreambleAndInvalidate and UpdateSession of SessionManager). *)
OldSessionsGo ==
    \A d \in Docs :
        HasSession(d) /\ session[d].preamble # preamble
            => workspace.at \in {"swapping", "draining"}

(* Does the queue hold an entry of one of the handlers, for version v of d? *)
Carries(q, handlers, d, v) == \E h \in handlers : Contains(q, Entry(h, d, v))

(* Will the text that is stored be read, and given to UpdateSession? *)
ReadDue(d) ==
    \/ d \in armed \cup due
    \/ rebuildState[d] = "pendingNext"
    \/ Carries(docQ, {"save", "rebuild", "get"}, d, 0)
    \/ workspace.at \in {"building", "swapping", "draining"}
    \/ Contains(docQ, Workspace("uris"))
    \/ d \in workspace.todo

(* The last change of an open document is never lost: it is in the session, on
   its way there, on its way to the document state, or stored with a reader to
   come.  It passes through three queues, a debounce that a save cancels, a
   rebuild that may run already, and a workspace rebuild that drops all
   sessions (OnDocumentChanged, OnDocumentSaved, RebuildSessionWithDiagnostics,
   RebuildWorkspace). *)
LatestTextIsDue ==
    \A d \in Docs :
        IsOpen(d) =>
            \/ session[d].version = Version(d)
            \/ Carries(sessionQ, {"update", "rebuild", "visit"}, d, Version(d))
            \/ Carries(docQ, {"open", "change"}, d, Version(d))
            \/ Carries(waiting, {"open", "change"}, d, Version(d))
            \/ documents[d] = Version(d) /\ ReadDue(d)

(* What is left of a closed document is on its way out: its state has a removal
   in the queue, and its session, also one that an update makes after the close,
   a cleanup, a timer or the rebuild that drops it (OnDocumentClosed,
   UpdateSession and InvalidateAllSessions, which erase cleanup timers). *)
ClosedIsLeaving ==
    \A d \in Docs :
        ~IsOpen(d) =>
            /\ documents[d] # 0 => Contains(docQ, Entry("remove", d, 0))
            /\ HasSession(d) => \/ Contains(sessionQ, Entry("cleanup", d, 0))
                               \/ d \in cleaning
                               \/ workspace.at = "draining"

(* Once the client has gone quiet, an open document has the session of its
   last version, and keeps it, and of a closed one nothing is kept, neither
   session nor state: no debounce, save, rebuild mark or workspace rebuild loses
   the last change, and no update that was on the way brings a document back
   (OnDocumentChanged, OnDocumentClosed, session_rebuild_timers_,
   session_rebuild_state_). *)
DocumentsSettle ==
    \A d \in Docs :
        <>[](IF IsOpen(d) THEN session[d].version = Version(d)
                          ELSE ~HasSession(d) /\ documents[d] = 0)

(* The part of it for closed documents: no update that was on the way creates
   a session after CancelPendingSession and ScheduleCleanup, or disarms the
   cleanup timer, and no late change stores a text (OnDocumentClosed). *)
ClosedIsForgotten ==
    \A d \in Docs :
        <>[](~IsOpen(d) => ~HasSession(d) /\ documents[d] = 0)

(* Every change on disk is in the preamble in the end, also those reported
   while a rebuild runs, and RebuildWorkspace comes to its end: no chain of marks
   and timers starts it for ever, and with OldSessionsGo the sessions of the open
   documents are those of the last preamble (workspace_rebuild_state_,
   workspace_rebuild_timer_). *)
ChangesReachPreamble ==
    <>[](preamble = layout /\ workspace.at = "none")

=============================================================================
