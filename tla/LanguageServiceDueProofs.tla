----------------------- MODULE LanguageServiceDueProofs -----------------------
(***************************************************************************)
(* What LanguageService still has to do is never forgotten: theorems about *)
(* changes on disk, the sessions of an old preamble, the last text of an   *)
(* open document and the rest of a closed one, for every set of documents  *)
(* and every bound on what the client sends.                               *)
(***************************************************************************)
EXTENDS LanguageServiceProofs

\* Is the turn of InvalidateAllSessions in the queue?
Invalidating(q) == ~Lacks(q, {"invalidate"})

\* The layout of the preamble that is current when the rebuild has ended.
Source == IF workspace.at = "none" THEN preamble ELSE workspace.layout

\* Nothing is between the change and its rebuild but what ends in one.
ChangesAreDue ==
    Source # layout => timer.armed \/ timer.due \/ workspace.state = "pendingNext"

\* Behind the swap the preamble is the one that the rebuild has made.
SwapIsDone ==
    Invalidating(sessionQ) \/ workspace.at \in {"draining", "visiting"}
        => preamble = workspace.layout

\* Sessions from before the swap wait for InvalidateAllSessions.
OldAreDoomed ==
    \A d \in Docs :
        HasSession(d) /\ session[d].preamble # preamble
            => Invalidating(sessionQ) \/ workspace.at = "draining"

RebuildInv == ChangesAreDue /\ SwapIsDone /\ OldAreDoomed

-----------------------------------------------------------------------------
\* The turn of InvalidateAllSessions among other entries.

\* What the other handlers do to the queue leaves it there, and adds none.
LEMMA InvalidateStays ==
    ASSUME NEW S, NEW q \in Seq(S)
    PROVE  /\ \A e \in S : e[1] # "invalidate"
                 => (Invalidating(Append(q, e)) <=> Invalidating(q))
           /\ \A e \in S : e[1] = "invalidate" => Invalidating(Append(q, e))
           /\ q # <<>> /\ Head(q)[1] # "invalidate"
                 => (Invalidating(Tail(q)) <=> Invalidating(q))
  <1>1. ASSUME NEW e \in S
        PROVE  /\ e[1] # "invalidate" => (Invalidating(Append(q, e)) <=> Invalidating(q))
               /\ e[1] = "invalidate" => Invalidating(Append(q, e))
    <2> DEFINE r == Append(q, e)
    <2>1. /\ Len(q) \in Nat /\ Len(r) = Len(q) + 1 /\ r[Len(q) + 1] = e
          /\ \A i \in 1 .. Len(q) : i \in 1 .. Len(r) /\ r[i] = q[i]
          /\ \A i \in 1 .. Len(r) : i \in 1 .. Len(q) \/ i = Len(q) + 1
      BY AppendFacts
    <2>2. Len(q) + 1 \in 1 .. Len(r)
      BY <2>1
    <2> HIDE DEF r
    <2>3. /\ e[1] # "invalidate" => (Invalidating(r) <=> Invalidating(q))
          /\ e[1] = "invalidate" => Invalidating(r)
      BY <2>1, <2>2 DEF Invalidating, Lacks
    <2> QED
      BY <2>3 DEF r
  <1>2. ASSUME q # <<>>, Head(q)[1] # "invalidate"
        PROVE  Invalidating(Tail(q)) <=> Invalidating(q)
    <2> DEFINE r == Tail(q)
    <2>1. /\ Head(q) = q[1]
          /\ \A i \in 1 .. Len(r) : i + 1 \in 1 .. Len(q) /\ r[i] = q[i + 1]
          /\ \A i \in 1 .. Len(q) : i # 1 => i - 1 \in 1 .. Len(r) /\ r[i - 1] = q[i]
      BY <1>2, TailFacts
    <2> HIDE DEF r
    <2>2. Lacks(q, {"invalidate"}) => Lacks(r, {"invalidate"})
      BY <2>1 DEF Lacks
    <2>3. Lacks(r, {"invalidate"}) => Lacks(q, {"invalidate"})
      BY <1>2, <2>1 DEF Lacks
    <2> QED
      BY <2>2, <2>3 DEF Invalidating, r
  <1> QED
    BY <1>1, <1>2

\* The turns of a close are none of InvalidateAllSessions.
LEMMA CloseIsNoInvalidate ==
    ASSUME QueueTypes, NEW d \in Docs
    PROVE  Invalidating(sessionQ \o CloseTurns(d)) <=> Invalidating(sessionQ)
  <1> DEFINE c == Entry("cancel", d, 0)
             e == Entry("cleanup", d, 0)
  <1>1. /\ c \in SessionEntries /\ e \in SessionEntries
        /\ sessionQ \in Seq(SessionEntries)
    BY EntryTypes DEF QueueTypes
  <1>2. c[1] # "invalidate" /\ e[1] # "invalidate"
    BY DEF Entry
  <1>3. CloseTurns(d) = <<c, e>>
    BY DEF CloseTurns
  <1> HIDE DEF c, e
  <1>4. /\ sessionQ \o <<c, e>> = Append(Append(sessionQ, c), e)
        /\ Append(sessionQ, c) \in Seq(SessionEntries)
    BY <1>1
  <1>5. Invalidating(Append(sessionQ, c)) <=> Invalidating(sessionQ)
    BY <1>1, <1>2, InvalidateStays
  <1>6. Invalidating(Append(Append(sessionQ, c), e)) <=> Invalidating(Append(sessionQ, c))
    BY <1>1, <1>2, <1>4, InvalidateStays
  <1> QED
    BY <1>3, <1>4, <1>5, <1>6

\* Where InvalidateAllSessions is queued the rebuild has swapped.
LEMMA InvalidatingIsSwapping ==
    ASSUME TokenInv, Invalidating(sessionQ)
    PROVE  workspace.at = "swapping"
  BY DEF TokenInv, Invalidating, Lacks, SwapSteps

-----------------------------------------------------------------------------
\* What a step does to the sessions and to the rebuild.

\* A session is kept, dropped, or made from the current preamble.
SessionsFollow ==
    \A d \in Docs :
        HasSession(d)' => \/ HasSession(d) /\ session'[d].preamble = session[d].preamble
                          \/ session'[d].preamble = preamble

\* UpdateSession, and every way in which the handlers drop sessions.
LEMMA SessionSteps ==
    ASSUME LayoutTypes
    PROVE  /\ UNCHANGED session => SessionsFollow
           /\ \A d \in Docs, v \in Versions : UpdateSession(d, v) => SessionsFollow
           /\ \A d \in Docs : session' = [session EXCEPT ![d] = NoSession] => SessionsFollow
           /\ \A d \in Docs : HasSession(d) /\ session' = [session EXCEPT ![d].built = TRUE]
                 => SessionsFollow
           /\ session' = [d \in Docs |-> IF session[d].built THEN session[d] ELSE NoSession]
                 => SessionsFollow
           /\ session' = [d \in Docs |-> NoSession] => \A d \in Docs : ~HasSession(d)'
  <1>1. session \in [Docs -> [version : 0 .. MaxVersion, preamble : 0 .. layout, built : BOOLEAN]]
    BY DEF LayoutTypes
  <1>2. UNCHANGED session => SessionsFollow
    BY DEF SessionsFollow, HasSession
  <1>3. ASSUME NEW d \in Docs, NEW v \in Versions, UpdateSession(d, v)
        PROVE  SessionsFollow
    <2>1. CASE session[d].version = v
      BY <1>2, <1>3, <2>1 DEF UpdateSession
    <2>2. CASE session[d].version # v
      BY <1>1, <1>3, <2>2 DEF UpdateSession, SessionsFollow, HasSession
    <2> QED
      BY <2>1, <2>2
  <1>4. ASSUME NEW d \in Docs, session' = [session EXCEPT ![d] = NoSession]
        PROVE  SessionsFollow
    BY <1>1, <1>4 DEF SessionsFollow, HasSession
  <1>5. ASSUME NEW d \in Docs, HasSession(d), session' = [session EXCEPT ![d].built = TRUE]
        PROVE  SessionsFollow
    <2> SUFFICES ASSUME NEW c \in Docs, HasSession(c)'
                 PROVE  HasSession(c) /\ session'[c].preamble = session[c].preamble
      BY DEF SessionsFollow
    <2>1. CASE c = d
      BY <1>1, <1>5, <2>1
    <2>2. CASE c # d
      BY <1>1, <1>5, <2>2 DEF HasSession
    <2> QED
      BY <2>1, <2>2
  <1>6. ASSUME session' = [d \in Docs |-> IF session[d].built THEN session[d] ELSE NoSession]
        PROVE  SessionsFollow
    BY <1>6 DEF SessionsFollow, HasSession
  <1>7. ASSUME session' = [d \in Docs |-> NoSession], NEW d \in Docs
        PROVE  ~HasSession(d)'
    BY <1>7 DEF HasSession
  <1> QED
    BY <1>2, <1>3, <1>4, <1>5, <1>6, <1>7

\* A step that leaves the layout, the preamble and the rebuild alone.
LEMMA Unmoved ==
    ASSUME RebuildInv, UNCHANGED <<layout, workspace, timer, preamble>>, SessionsFollow,
           Invalidating(sessionQ') <=> Invalidating(sessionQ)
    PROVE  RebuildInv'
  <1>1. ChangesAreDue'
    BY DEF RebuildInv, ChangesAreDue, Source
  <1>2. SwapIsDone'
    BY DEF RebuildInv, SwapIsDone
  <1>3. OldAreDoomed'
    BY DEF RebuildInv, OldAreDoomed, SessionsFollow
  <1> QED
    BY <1>1, <1>2, <1>3 DEF RebuildInv

\* The loop over the open documents goes on or ends; the debounce follows a
\* rebuild that is marked.
LEMMA VisitMoves ==
    ASSUME LayoutTypes, TokenInv, RebuildInv, workspace.at = "visiting",
           NEW todo, NEW q, Visit(todo, q),
           UNCHANGED <<layout, preamble>>, SessionsFollow,
           Invalidating(sessionQ') <=> Invalidating(sessionQ)
    PROVE  RebuildInv'
  <1>1. ~Invalidating(sessionQ)
    BY InvalidatingIsSwapping
  <1>2. preamble = workspace.layout /\ Source = preamble
    BY DEF RebuildInv, SwapIsDone, Source
  <1>3. OldAreDoomed'
    BY <1>1 DEF RebuildInv, OldAreDoomed, SessionsFollow
  <1>4. CASE \E d \in todo : workspace' = [workspace EXCEPT !.todo = todo \ {d}] /\ UNCHANGED timer
    <2>1. /\ workspace'.at = workspace.at /\ workspace'.layout = workspace.layout
          /\ workspace'.state = workspace.state /\ timer' = timer
      BY <1>4 DEF LayoutTypes
    <2> QED
      BY <1>1, <1>2, <1>3, <2>1 DEF RebuildInv, ChangesAreDue, SwapIsDone, Source
  <1>5. CASE EndRebuild
    <2>1. workspace'.at = "none" /\ workspace.state = "pendingNext" => timer'.armed
      BY <1>5 DEF EndRebuild, ScheduleWorkspaceRebuild, LayoutTypes
    <2>2. workspace'.at = "none" /\ Source' = preamble'
      BY <1>5 DEF EndRebuild, LayoutTypes, Source
    <2>3. workspace.state # "pendingNext" => timer' = timer
      BY <1>5 DEF EndRebuild
    <2>4. ChangesAreDue'
      BY <1>2, <2>1, <2>2, <2>3 DEF RebuildInv, ChangesAreDue
    <2>5. SwapIsDone'
      BY <1>1, <2>2 DEF SwapIsDone
    <2> QED
      BY <1>3, <2>4, <2>5 DEF RebuildInv
  <1> QED
    BY <1>4, <1>5 DEF Visit

\* A rebuild starts, or is marked.
LEMMA RebuildStarts ==
    ASSUME LayoutTypes, TokenInv, RebuildInv, RebuildWorkspace(layout'),
           UNCHANGED <<session, sessionQ, preamble>>
    PROVE  RebuildInv'
  <1>1. CASE workspace.state = "idle"
    <2>1. /\ workspace.at = "none" /\ workspace'.at = "building"
          /\ workspace'.layout = layout'
      BY <1>1 DEF RebuildWorkspace, LayoutTypes
    <2>2. ~Invalidating(sessionQ)
      BY <2>1, InvalidatingIsSwapping
    <2> QED
      BY <2>1, <2>2 DEF RebuildInv, ChangesAreDue, SwapIsDone, OldAreDoomed, Source, HasSession
  <1>2. CASE workspace.state # "idle"
    <2>1. /\ workspace'.at = workspace.at /\ workspace'.layout = workspace.layout
          /\ workspace'.state = "pendingNext"
      BY <1>2 DEF RebuildWorkspace, LayoutTypes
    <2> QED
      BY <2>1 DEF RebuildInv, ChangesAreDue, SwapIsDone, OldAreDoomed, HasSession
  <1> QED
    BY <1>1, <1>2

\* A change of the layout, or of the timer, whose debounce is due after it.
LEMMA DebounceStarts ==
    ASSUME RebuildInv, timer'.armed \/ timer'.due,
           UNCHANGED <<session, sessionQ, preamble, workspace>>
    PROVE  RebuildInv'
  BY DEF RebuildInv, ChangesAreDue, SwapIsDone, OldAreDoomed, HasSession

-----------------------------------------------------------------------------
\* The step of the invariant, by the queue or the timer that makes it.

\* The client, the event and the strand of the documents.
LEMMA DocumentsKeepRebuild ==
    ASSUME QueueTypes, DocumentTypes, LayoutTypes, TokenInv, RebuildInv,
           Client \/ InitializeWorkspace \/ Resume \/ DocTurn
    PROVE  RebuildInv'
  <1> USE DEF storeVars, sessionVars, layoutVars, docVars, eventVars
  <1>1. sessionQ \in Seq(SessionEntries)
    BY DEF QueueTypes
  <1>2. UNCHANGED session => SessionsFollow
    BY SessionSteps
  <1>3. ASSUME UNCHANGED <<session, layout, workspace, timer, preamble, sessionQ>>
        PROVE  RebuildInv'
    BY <1>2, <1>3, Unmoved
  <1>4. ASSUME NEW d \in Docs, NEW v \in Versions, NEW h \in {"update", "rebuild", "visit"},
               sessionQ' = Append(sessionQ, Entry(h, d, v)),
               UNCHANGED <<session, layout, workspace, timer, preamble>>
        PROVE  RebuildInv'
    <2>1. Entry(h, d, v) \in SessionEntries /\ Entry(h, d, v)[1] # "invalidate"
      BY EntryTypes DEF Entry
    <2>2. Invalidating(sessionQ') <=> Invalidating(sessionQ)
      BY <1>1, <1>4, <2>1, InvalidateStays
    <2> QED
      BY <1>2, <1>4, <2>2, Unmoved
  <1>5. ASSUME NEW d \in Docs, DidOpen(d) \/ DidChange(d) \/ DidSave(d)
        PROVE  RebuildInv'
    BY <1>3, <1>5 DEF DidOpen, DidChange, DidSave
  <1>6. ASSUME NEW d \in Docs, DidClose(d)  PROVE RebuildInv'
    <2>1. Invalidating(sessionQ') <=> Invalidating(sessionQ)
      BY <1>6, CloseIsNoInvalidate DEF DidClose
    <2>2. UNCHANGED <<session, layout, workspace, timer, preamble>>
      BY <1>6 DEF DidClose
    <2> QED
      BY <1>2, <2>1, <2>2, Unmoved
  <1>7. ASSUME InitializeWorkspace \/ \E kind \in FileEvents : DidChangeWatchedFiles(kind)
        PROVE  RebuildInv'
    BY <1>3, <1>7 DEF InitializeWorkspace, DidChangeWatchedFiles
  <1>8. ASSUME NEW d \in Docs, NEW v \in Versions, ResumeOpened(d, v) \/ ResumeChanged(d, v)
        PROVE  RebuildInv'
    BY <1>3, <1>4, <1>8 DEF ResumeOpened, ResumeChanged
  <1>9. ASSUME NEW d \in Docs, ResumeSaved(d)  PROVE RebuildInv'
    BY <1>3, <1>9 DEF ResumeSaved
  <1>10. ASSUME NEW kind \in FileEvents, ResumeWatchedFiles(kind)  PROVE RebuildInv'
    <2>1. CASE kind = "modified"
      <3>1. timer'.armed
        BY <1>10, <2>1 DEF ResumeWatchedFiles, ScheduleWorkspaceRebuild, LayoutTypes
      <3> QED
        BY <1>10, <3>1, DebounceStarts DEF ResumeWatchedFiles
    <2>2. CASE kind # "modified"
      BY <1>3, <1>10, <2>2 DEF ResumeWatchedFiles
    <2> QED
      BY <2>1, <2>2
  <1>11. ASSUME NEW d \in Docs, NEW v \in Versions, StoreOpened(d, v) \/ StoreChanged(d, v)
         PROVE  RebuildInv'
    BY <1>3, <1>11 DEF StoreOpened, StoreChanged
  <1>12. ASSUME NEW d \in Docs, RemoveDocument(d) \/ GetSaved(d) \/ GetForRebuild(d)
         PROVE  RebuildInv'
    BY <1>3, <1>4, <1>12, VersionTypes DEF RemoveDocument, GetSaved, GetForRebuild
  <1>13. ASSUME NEW e, DocRuns(e), e[1] \in VisitSteps  PROVE workspace.at = "visiting"
    BY <1>13, TailTokens DEF DocRuns, QueueTypes, TokenInv
  <1>14. ASSUME NEW d \in Docs, GetVisited(d)  PROVE RebuildInv'
    <2>1. workspace.at = "visiting"
      BY <1>13, <1>14 DEF GetVisited, Entry, VisitSteps
    <2>2. CASE documents[d] = 0
      BY <1>2, <1>14, <2>1, <2>2, VisitMoves DEF GetVisited
    <2>3. CASE documents[d] # 0
      BY <1>4, <1>14, <2>3, VersionTypes DEF GetVisited
    <2> QED
      BY <2>2, <2>3
  <1>15. ASSUME GetAllUris  PROVE RebuildInv'
    <2>1. workspace.at = "visiting"
      BY <1>13, <1>15 DEF GetAllUris, Workspace, VisitSteps
    <2> QED
      BY <1>2, <1>15, <2>1, VisitMoves DEF GetAllUris
  <1> QED
    BY <1>5, <1>6, <1>7, <1>8, <1>9, <1>10, <1>11, <1>12, <1>14, <1>15
    DEF Client, Resume, DocTurn

\* The session strand: the swap, the invalidation, and what runs between them.
LEMMA SessionsKeepRebuild ==
    ASSUME QueueTypes, DocumentTypes, LayoutTypes, TokenInv, RebuildInv, SessionTurn
    PROVE  RebuildInv'
  <1> USE DEF storeVars, sessionVars, layoutVars, docVars, eventVars
  <1>1. sessionQ \in Seq(SessionEntries)
    BY DEF QueueTypes
  <1>2. ASSUME NEW d, NEW v, NEW h \in {"update", "rebuild", "visit", "cancel", "cleanup"},
               SessionRuns(Entry(h, d, v)), sessionQ' = Tail(sessionQ)
        PROVE  Invalidating(sessionQ') <=> Invalidating(sessionQ)
    <2>1. Entry(h, d, v)[1] # "invalidate"
      BY DEF Entry
    <2> QED
      BY <1>1, <1>2, <2>1, InvalidateStays DEF SessionRuns
  <1>3. ASSUME NEW d \in Docs, NEW v \in Versions, UpdateTurn(d, v) \/ RebuildTurn(d, v)
        PROVE  RebuildInv'
    <2>1. Invalidating(sessionQ') <=> Invalidating(sessionQ)
      BY <1>2, <1>3 DEF UpdateTurn, RebuildTurn
    <2>2. SessionsFollow /\ UNCHANGED <<layout, workspace, timer, preamble>>
      BY <1>3, SessionSteps DEF UpdateTurn, RebuildTurn, UpdateSession
    <2> QED
      BY <2>1, <2>2, Unmoved
  <1>4. ASSUME NEW d \in Docs, NEW v \in Versions, VisitTurn(d, v)  PROVE RebuildInv'
    <2>1. Invalidating(sessionQ') <=> Invalidating(sessionQ)
      BY <1>2, <1>4 DEF VisitTurn
    <2>2. SessionsFollow /\ UNCHANGED <<layout, preamble>>
      BY <1>4, SessionSteps DEF VisitTurn, UpdateSession
    <2>3. workspace.at = "visiting"
      BY <1>4, TailTokens DEF VisitTurn, SessionRuns, Entry, VisitSteps, QueueTypes, TokenInv
    <2> QED
      BY <1>4, <2>1, <2>2, <2>3, VisitMoves DEF VisitTurn
  <1>5. ASSUME NEW d \in Docs, CancelTurn(d) \/ CleanupTurn(d)  PROVE RebuildInv'
    <2>1. Invalidating(sessionQ') <=> Invalidating(sessionQ)
      BY <1>2, <1>5 DEF CancelTurn, CleanupTurn
    <2>2. SessionsFollow
      BY <1>5, SessionSteps DEF CancelTurn, CleanupTurn
    <2> QED
      BY <1>5, <2>1, <2>2, Unmoved DEF CancelTurn, CleanupTurn
  <1>6. ASSUME SwapTurn  PROVE RebuildInv'
    <2>1. workspace.at = "swapping"
      BY <1>6, TailTokens DEF SwapTurn, SessionRuns, Workspace, SwapSteps, QueueTypes, TokenInv
    <2>2. Invalidating(sessionQ')
      <3>1. Workspace("invalidate") \in SessionEntries /\ Workspace("invalidate")[1] = "invalidate"
        BY StepTypes DEF Workspace
      <3>2. Tail(sessionQ) \in Seq(SessionEntries)
        BY <1>1, <1>6 DEF SwapTurn, SessionRuns
      <3> QED
        BY <1>6, <3>1, <3>2, InvalidateStays DEF SwapTurn
    <2> QED
      BY <1>6, <2>1, <2>2
      DEF SwapTurn, RebuildInv, ChangesAreDue, SwapIsDone, OldAreDoomed, Source
  <1>7. ASSUME InvalidateTurn  PROVE RebuildInv'
    <2>1. Invalidating(sessionQ)
      <3>1. Head(sessionQ)[1] \in {"invalidate"} /\ sessionQ # <<>>
        BY <1>7 DEF InvalidateTurn, SessionRuns, Workspace
      <3> QED
        BY <1>1, <3>1, TailTokens DEF Invalidating
    <2>2. preamble = workspace.layout /\ workspace.at = "swapping"
      BY <2>1, InvalidatingIsSwapping DEF RebuildInv, SwapIsDone
    <2>3. /\ workspace'.at = "draining" /\ workspace'.layout = workspace.layout
          /\ workspace'.state = workspace.state
      BY <1>7 DEF InvalidateTurn, LayoutTypes
    <2> QED
      BY <1>7, <2>2, <2>3
      DEF InvalidateTurn, RebuildInv, ChangesAreDue, SwapIsDone, OldAreDoomed, Source
  <1> QED
    BY <1>3, <1>4, <1>5, <1>6, <1>7 DEF SessionTurn

\* Every action.
LEMMA RebuildInvStep ==
    ASSUME TypeInv, RebuildInv, Next
    PROVE  RebuildInv'
  <1> USE DEF storeVars, sessionVars, layoutVars, docVars, eventVars, TypeInv
  <1>1. UNCHANGED session => SessionsFollow
    BY SessionSteps
  <1>2. ASSUME NEW kind \in {"listed", "config"}, LayoutTurn(kind)  PROVE RebuildInv'
    <2>1. CASE kind = "config"
      BY <1>2, <2>1, RebuildStarts DEF LayoutTurn
    <2>2. CASE kind # "config"
      <3>1. timer'.armed
        BY <1>2, <2>2 DEF LayoutTurn, ScheduleWorkspaceRebuild, LayoutTypes
      <3> QED
        BY <1>2, <2>2, <3>1, DebounceStarts DEF LayoutTurn
    <2> QED
      BY <2>1, <2>2
  <1>3. ASSUME NEW d \in Docs, TimerExpires(d) \/ TimerCallback(d)  PROVE RebuildInv'
    BY <1>1, <1>3, Unmoved DEF TimerExpires, TimerCallback
  <1>4. ASSUME NEW d \in Docs, CleanupExpires(d) \/ SessionBuilt(d)  PROVE RebuildInv'
    BY <1>4, SessionSteps, Unmoved DEF CleanupExpires, SessionBuilt
  <1>5. ASSUME WorkspaceTimerExpires  PROVE RebuildInv'
    <2>1. timer'.due
      BY <1>5 DEF WorkspaceTimerExpires
    <2> QED
      BY <1>5, <2>1, DebounceStarts DEF WorkspaceTimerExpires
  <1>6. ASSUME WorkspaceTimerCallback  PROVE RebuildInv'
    BY <1>6, RebuildStarts DEF WorkspaceTimerCallback
  <1>7. ASSUME PreambleBuilt  PROVE RebuildInv'
    <2>1. ~Invalidating(sessionQ)
      BY <1>7, InvalidatingIsSwapping DEF PreambleBuilt
    <2>2. ~Invalidating(sessionQ')
      <3>1. Workspace("swap") \in SessionEntries /\ Workspace("swap")[1] # "invalidate"
        BY StepTypes DEF Workspace
      <3> QED
        BY <1>7, <2>1, <3>1, InvalidateStays DEF PreambleBuilt, QueueTypes
    <2>3. /\ workspace.at = "building" /\ workspace'.at = "swapping"
          /\ workspace'.layout = workspace.layout /\ workspace'.state = workspace.state
      BY <1>7 DEF PreambleBuilt, LayoutTypes
    <2> QED
      BY <1>7, <2>1, <2>2, <2>3
      DEF PreambleBuilt, RebuildInv, ChangesAreDue, SwapIsDone, OldAreDoomed, Source, HasSession
  <1>8. ASSUME SessionsDrained  PROVE RebuildInv'
    <2>1. \A d \in Docs : ~HasSession(d)'
      BY <1>8, SessionSteps DEF SessionsDrained
    <2>2. /\ workspace.at = "draining" /\ workspace'.at = "visiting"
          /\ workspace'.layout = workspace.layout /\ workspace'.state = workspace.state
      BY <1>8 DEF SessionsDrained, LayoutTypes
    <2> QED
      BY <1>8, <2>1, <2>2
      DEF SessionsDrained, RebuildInv, ChangesAreDue, SwapIsDone, OldAreDoomed, Source
  <1> QED
    BY <1>2, <1>3, <1>4, <1>5, <1>6, <1>7, <1>8, DocumentsKeepRebuild, SessionsKeepRebuild
    DEF Next, RebuildStep

\* The invariant of RebuildWorkspace, on top of the types.
LEMMA RebuildInvHolds == Spec => [](TypeInv /\ RebuildInv)
  <1>1. Init => RebuildInv
    <2> SUFFICES ASSUME Init  PROVE RebuildInv
      OBVIOUS
    <2>1. ~Invalidating(sessionQ)
      BY DEF Init, Invalidating, Lacks
    <2> QED
      BY <2>1 DEF Init, RebuildInv, ChangesAreDue, SwapIsDone, OldAreDoomed, Source, HasSession
  <1>2. TypeInv /\ RebuildInv /\ [Next]_vars => RebuildInv'
    <2> SUFFICES ASSUME TypeInv, RebuildInv, [Next]_vars  PROVE RebuildInv'
      OBVIOUS
    <2>1. CASE Next
      BY <2>1, RebuildInvStep
    <2>2. CASE UNCHANGED vars
      BY <2>2 DEF vars, RebuildInv, ChangesAreDue, SwapIsDone, OldAreDoomed, Source, HasSession,
                  Invalidating, Lacks
    <2> QED
      BY <2>1, <2>2
  <1> QED
    BY <1>1, <1>2, TypeInvHolds, PTL DEF Spec

-----------------------------------------------------------------------------
\* What it gives.

\* ReloadIsDue: the debounce timer, its callback, the mark of RebuildWorkspace or
\* the rebuild that runs carries every change that the preamble lacks, for any
\* number of changes and any interleaving of them with rebuilds.
THEOREM NoChangeIsForgotten == Spec => []ReloadIsDue
  <1>1. TypeInv /\ RebuildInv => ReloadIsDue
    <2> SUFFICES ASSUME TypeInv, RebuildInv, preamble # layout,
                        ~timer.armed, ~timer.due, workspace.state # "pendingNext"
                 PROVE  workspace.at \in {"building", "swapping"} /\ workspace.layout = layout
      BY DEF ReloadIsDue
    <2>1. Source = layout
      BY DEF RebuildInv, ChangesAreDue
    <2>2. workspace.at # "none" /\ workspace.layout = layout
      BY <2>1 DEF Source
    <2>3. workspace.at \notin {"draining", "visiting"}
      BY <2>2 DEF RebuildInv, SwapIsDone
    <2> QED
      BY <2>2, <2>3 DEF TypeInv, LayoutTypes
  <1> QED
    BY <1>1, RebuildInvHolds, PTL

\* OldSessionsGo: between rebuilds every session, of any number of documents, is
\* from the current preamble; InvalidateAllSessions leaves none behind, and no
\* handler that runs meanwhile makes one from the old preamble.
THEOREM OldSessionsAreDoomed == Spec => []OldSessionsGo
  <1>1. TypeInv /\ RebuildInv => OldSessionsGo
    <2> SUFFICES ASSUME TypeInv, RebuildInv, NEW d \in Docs,
                        HasSession(d), session[d].preamble # preamble
                 PROVE  workspace.at \in {"swapping", "draining"}
      BY DEF OldSessionsGo
    <2>1. Invalidating(sessionQ) \/ workspace.at = "draining"
      BY DEF RebuildInv, OldAreDoomed
    <2> QED
      BY <2>1, InvalidatingIsSwapping DEF TypeInv
  <1> QED
    BY <1>1, RebuildInvHolds, PTL

-----------------------------------------------------------------------------
\* The entries of a queue, and their order.

\* Behind every x there is a y; every x is ahead of every y.
Follows(q, x, y) ==
    \A i \in 1 .. Len(q) : q[i] = x => \E j \in 1 .. Len(q) : i < j /\ q[j] = y
Ahead(q, x, y) ==
    \A i, j \in 1 .. Len(q) : q[i] = x /\ q[j] = y => i < j

\* Queue r is q with e behind it.
Adds(q, e, r) ==
    /\ \A x : Contains(r, x) <=> Contains(q, x) \/ x = e
    /\ \A x, y : x # e /\ (Follows(q, x, y) \/ y = e) => Follows(r, x, y)
    /\ \A x, y : x # e /\ Ahead(q, x, y) => Ahead(r, x, y)

\* Queue r is q without e, its oldest entry.
Takes(q, e, r) ==
    /\ \A x : Contains(q, x) <=> Contains(r, x) \/ x = e
    /\ \A x, y : Follows(q, x, y) => Follows(r, x, y) /\ (x = e => Contains(r, y))
    /\ \A x, y : Ahead(q, x, y) => Ahead(r, x, y) /\ (y = e => ~Contains(q, x))

\* A queue to which a handler adds.
LEMMA QueueAdds ==
    ASSUME NEW S, NEW q \in Seq(S), NEW e \in S
    PROVE  Adds(q, e, Append(q, e))
  <1> DEFINE r == Append(q, e)
  <1>1. /\ Len(q) \in Nat /\ Len(r) = Len(q) + 1 /\ r[Len(q) + 1] = e
        /\ \A i \in 1 .. Len(q) : i \in 1 .. Len(r) /\ r[i] = q[i]
        /\ \A i \in 1 .. Len(r) : i \in 1 .. Len(q) \/ i = Len(q) + 1
    BY AppendFacts
  <1>2. Len(q) + 1 \in 1 .. Len(r) /\ \A i \in 1 .. Len(q) : i < Len(q) + 1
    BY <1>1
  <1> HIDE DEF r
  <1>3. \A x : Contains(r, x) <=> Contains(q, x) \/ x = e
    BY <1>1, <1>2 DEF Contains
  <1>4. ASSUME NEW x, NEW y, x # e, Follows(q, x, y) \/ y = e
        PROVE  Follows(r, x, y)
    BY <1>1, <1>2, <1>4 DEF Follows
  <1>5. ASSUME NEW x, NEW y, x # e, Ahead(q, x, y)
        PROVE  Ahead(r, x, y)
    BY <1>1, <1>2, <1>5 DEF Ahead
  <1> QED
    BY <1>3, <1>4, <1>5 DEF Adds, r

\* A queue that runs its oldest entry.
LEMMA QueueTakes ==
    ASSUME NEW S, NEW q \in Seq(S), q # <<>>
    PROVE  Takes(q, Head(q), Tail(q))
  <1> DEFINE r == Tail(q)
             e == Head(q)
  <1>1. /\ e = q[1] /\ 1 \in 1 .. Len(q) /\ Len(q) \in Nat
        /\ \A i \in 1 .. Len(r) :
              i + 1 \in 1 .. Len(q) /\ r[i] = q[i + 1] /\ 1 < i + 1
        /\ \A i \in 1 .. Len(q) :
              i # 1 => i - 1 \in 1 .. Len(r) /\ r[i - 1] = q[i]
    BY TailFacts
  <1>2. /\ \A i \in 1 .. Len(r) : i \in Int
        /\ \A i \in 1 .. Len(q) : i \in Int /\ 1 <= i
    BY <1>1
  <1> HIDE DEF r, e
  <1>3. \A x : Contains(q, x) <=> Contains(r, x) \/ x = e
    BY <1>1 DEF Contains
  <1>4. ASSUME NEW x, NEW y, Follows(q, x, y)
        PROVE  Follows(r, x, y) /\ (x = e => Contains(r, y))
    <2>1. ASSUME NEW i \in 1 .. Len(r), r[i] = x
          PROVE  \E j \in 1 .. Len(r) : i < j /\ r[j] = y
      <3>1. PICK j \in 1 .. Len(q) : i + 1 < j /\ q[j] = y
        BY <1>1, <1>4, <2>1 DEF Follows
      <3>2. j - 1 \in 1 .. Len(r) /\ r[j - 1] = y /\ i < j - 1
        BY <1>1, <1>2, <3>1
      <3> QED
        BY <3>2
    <2>2. ASSUME x = e  PROVE Contains(r, y)
      <3>1. PICK j \in 1 .. Len(q) : 1 < j /\ q[j] = y
        BY <1>1, <1>4, <2>2 DEF Follows
      <3> QED
        BY <1>1, <1>2, <3>1 DEF Contains
    <2> QED
      BY <2>1, <2>2 DEF Follows
  <1>5. ASSUME NEW x, NEW y, Ahead(q, x, y)
        PROVE  Ahead(r, x, y) /\ (y = e => ~Contains(q, x))
    <2>1. ASSUME NEW i \in 1 .. Len(r), NEW j \in 1 .. Len(r), r[i] = x, r[j] = y
          PROVE  i < j
      <3>1. i + 1 < j + 1
        BY <1>1, <1>5, <2>1 DEF Ahead
      <3> QED
        BY <1>2, <3>1
    <2>2. ASSUME y = e, NEW i \in 1 .. Len(q), q[i] = x  PROVE FALSE
      <3>1. i < 1
        BY <1>1, <1>5, <2>2 DEF Ahead
      <3> QED
        BY <1>2, <3>1
    <2> QED
      BY <2>1, <2>2 DEF Ahead, Contains
  <1> QED
    BY <1>3, <1>4, <1>5 DEF Takes, r, e

\* Order among entries that are not there.
LEMMA OrderOfNone ==
    /\ \A q, x, y : ~Contains(q, x) => Follows(q, x, y) /\ Ahead(q, x, y)
    /\ \A q, x, y : ~Contains(q, y) => Ahead(q, x, y)
    /\ \A q, x, y : Follows(q, x, y) /\ ~Contains(q, y) => ~Contains(q, x)
  BY DEF Follows, Ahead, Contains

\* Entries are told apart by their handler, their document and their version.
LEMMA EntryIs ==
    /\ \A h, g, c, d, v, u : Entry(h, d, v) = Entry(g, c, u) <=> h = g /\ d = c /\ v = u
    /\ \A h, d, v, step : Entry(h, d, v) # Workspace(step)
    /\ \A step, other : Workspace(step) = Workspace(other) <=> step = other
  BY DEF Entry, Workspace

\* What the turns do to the three queues.
LEMMA QueueSteps ==
    ASSUME QueueTypes
    PROVE  /\ \A e \in WaitEntries : Adds(waiting, e, Append(waiting, e))
           /\ \A e \in DocEntries : Adds(docQ, e, Append(docQ, e))
           /\ \A e \in SessionEntries : Adds(sessionQ, e, Append(sessionQ, e))
           /\ waiting # <<>> => Takes(waiting, Head(waiting), Tail(waiting))
           /\ docQ # <<>> => /\ Takes(docQ, Head(docQ), Tail(docQ))
                             /\ \A e \in DocEntries :
                                   Adds(Tail(docQ), e, Append(Tail(docQ), e))
           /\ sessionQ # <<>> => /\ Takes(sessionQ, Head(sessionQ), Tail(sessionQ))
                                 /\ \A e \in SessionEntries :
                                       Adds(Tail(sessionQ), e, Append(Tail(sessionQ), e))
  <1>1. /\ waiting \in Seq(WaitEntries) /\ docQ \in Seq(DocEntries)
        /\ sessionQ \in Seq(SessionEntries)
    BY DEF QueueTypes
  <1>2. /\ docQ # <<>> => Tail(docQ) \in Seq(DocEntries)
        /\ sessionQ # <<>> => Tail(sessionQ) \in Seq(SessionEntries)
    BY <1>1
  <1> QED
    BY <1>1, <1>2, QueueAdds, QueueTakes

\* What a guard says of a queue.
LEMMA QueuedIs ==
    ASSUME NEW S, NEW q \in Seq(S), NEW handlers, NEW d, ~Queued(q, handlers, d)
    PROVE  \A h \in handlers : \A v : ~Contains(q, Entry(h, d, v))
  <1> SUFFICES ASSUME NEW h \in handlers, NEW v, NEW i \in 1 .. Len(q), q[i] = Entry(h, d, v)
               PROVE  FALSE
    BY DEF Contains
  <1>1. DOMAIN q = 1 .. Len(q)
    OBVIOUS
  <1>2. Len(q[i]) = 3 /\ q[i][1] = h /\ q[i][2] = d
    BY DEF Entry
  <1> QED
    BY <1>1, <1>2 DEF Queued

\* The versions that the entries of a document carry.
LEMMA VersionFacts ==
    ASSUME NEW c \in Docs, VersionsOf(c)
    PROVE  /\ session[c].version <= Version(c) /\ documents[c] <= Version(c)
           /\ \A h \in Updates : \A v : Contains(sessionQ, Entry(h, c, v))
                 => v \in Nat /\ session[c].version <= v /\ v <= Version(c)
           /\ \A h \in Stores : \A v : Contains(docQ, Entry(h, c, v))
                 => v \in Nat /\ documents[c] <= v /\ v <= Version(c)
           /\ \A h \in Stores : \A v : Contains(waiting, Entry(h, c, v))
                 => v \in Nat /\ v <= Version(c) /\ IsOpen(c)
           /\ \A v : Contains(docQ, Entry("open", c, v)) => IsOpen(c)
  <1>1. \A h, hs, v : h \in hs => Of(Entry(h, c, v), hs, c) /\ Entry(h, c, v)[3] = v
    BY DEF Of, Entry
  <1> USE DEF VersionsOf, Flow, Pipeline, Openings
  <1>2. ASSUME NEW h \in Updates, NEW v, Contains(sessionQ, Entry(h, c, v))
        PROVE  v \in Nat /\ session[c].version <= v /\ v <= Version(c)
    BY <1>1, <1>2 DEF Contains, Numbered, Below, Above
  <1>3. ASSUME NEW h \in Stores, NEW v, Contains(docQ, Entry(h, c, v))
        PROVE  v \in Nat /\ documents[c] <= v /\ v <= Version(c)
    BY <1>1, <1>3 DEF Contains, Numbered, Below, Above
  <1>4. ASSUME NEW h \in Stores, NEW v, Contains(waiting, Entry(h, c, v))
        PROVE  v \in Nat /\ v <= Version(c) /\ IsOpen(c)
    BY <1>1, <1>4 DEF Contains, Numbered, Below, Above, None
  <1>5. ASSUME NEW v, Contains(docQ, Entry("open", c, v))  PROVE IsOpen(c)
    BY <1>1, <1>5 DEF Contains
  <1> QED
    BY <1>2, <1>3, <1>4, <1>5

-----------------------------------------------------------------------------
\* The state of a document: its last version is stored or on its way, no
\* removal comes after it, and after a close nothing is read any more.

Readers == {"save", "rebuild", "get"}

Coming(c) ==
    \/ Carries(docQ, Stores, c, Version(c))
    \/ Contains(waiting, Entry("change", c, Version(c)))

OpenState(c) ==
    /\ Version(c) # 0
    /\ documents[c] # Version(c) => Coming(c)
    /\ Follows(docQ, Entry("remove", c, 0), Entry("open", c, Version(c)))
    /\ ~ready => \E v \in Versions : \/ Contains(docQ, Entry("open", c, v))
                                     \/ Contains(waiting, Entry("open", c, v))

ClosedState(c) ==
    /\ documents[c] # 0 => Contains(docQ, Entry("remove", c, 0))
    /\ \A v \in Versions : Follows(docQ, Entry("change", c, v), Entry("remove", c, 0))
    /\ \A h \in Readers : Ahead(docQ, Entry("remove", c, 0), Entry(h, c, 0))

DocumentInv(c) == IF IsOpen(c) THEN OpenState(c) ELSE ClosedState(c)

\* The entries of c in a queue that matter here are in the next one.
StoresKept(q, r, c) ==
    /\ \A h \in {"open", "change", "remove"} : \A v :
          Contains(q, Entry(h, c, v)) => Contains(r, Entry(h, c, v))
    /\ \A v : Follows(q, Entry("remove", c, 0), Entry("open", c, v))
                 => Follows(r, Entry("remove", c, 0), Entry("open", c, v))
    /\ \A v : Follows(q, Entry("change", c, v), Entry("remove", c, 0))
                 => Follows(r, Entry("change", c, v), Entry("remove", c, 0))
    /\ \A h \in Readers : Ahead(q, Entry("remove", c, 0), Entry(h, c, 0))
                             => Ahead(r, Entry("remove", c, 0), Entry(h, c, 0))

ChangesStay(c) ==
    \A v : Contains(waiting, Entry("change", c, v)) => Contains(waiting', Entry("change", c, v))

\* The entries that neither store nor remove c.
Apart(e, c) ==
    \/ \E h \in {"open", "change", "save", "remove", "rebuild", "get"} : \E d, v :
          e = Entry(h, d, v) /\ (d # c \/ h \in Readers)
    \/ \E step : e = Workspace(step)

\* Adding and taking such entries keeps those of c.
LEMMA StoresAreKept ==
    ASSUME NEW c
    PROVE  /\ \A q : StoresKept(q, q, c)
           /\ \A q, r, t : StoresKept(q, r, c) /\ StoresKept(r, t, c) => StoresKept(q, t, c)
           /\ \A q, r, e : Apart(e, c) /\ (Adds(q, e, r) \/ Takes(q, e, r)) => StoresKept(q, r, c)
  <1>1. \A q : StoresKept(q, q, c)
    BY DEF StoresKept
  <1>2. \A q, r, t : StoresKept(q, r, c) /\ StoresKept(r, t, c) => StoresKept(q, t, c)
    BY DEF StoresKept
  <1>3. ASSUME NEW q, NEW r, NEW e, Apart(e, c)
        PROVE  /\ Adds(q, e, r) => StoresKept(q, r, c)
               /\ Takes(q, e, r) => StoresKept(q, r, c)
    <2>1. \A h \in {"open", "change", "remove"} : \A v : e # Entry(h, c, v)
      BY <1>3, EntryIs DEF Apart, Readers
    <2>2. Adds(q, e, r) => StoresKept(q, r, c)
      BY <2>1 DEF Adds, StoresKept
    <2>3. Takes(q, e, r) => StoresKept(q, r, c)
      BY <2>1 DEF Takes, StoresKept
    <2> QED
      BY <2>2, <2>3
  <1> QED
    BY <1>1, <1>2, <1>3

\* A step that keeps the entries of c, its state and what the client did.
LEMMA DocumentStays ==
    ASSUME NEW c \in Docs, DocumentInv(c),
           StoresKept(docQ, docQ', c), StoresKept(waiting, waiting', c) \/ ready,
           ChangesStay(c),
           IsOpen(c)' = IsOpen(c), Version(c)' = Version(c), documents'[c] = documents[c],
           ready => ready'
    PROVE  DocumentInv(c)'
  <1>1. CASE IsOpen(c)
    <2>1. OpenState(c)
      BY <1>1 DEF DocumentInv
    <2>2. Coming(c) => Coming(c)'
      BY DEF Coming, Carries, Stores, StoresKept, ChangesStay
    <2>3. Follows(docQ', Entry("remove", c, 0), Entry("open", c, Version(c)'))
      BY <2>1 DEF OpenState, StoresKept
    <2>4. ~ready' => \E v \in Versions : \/ Contains(docQ', Entry("open", c, v))
                                         \/ Contains(waiting', Entry("open", c, v))
      BY <2>1 DEF OpenState, StoresKept
    <2>5. OpenState(c)'
      BY <2>1, <2>2, <2>3, <2>4 DEF OpenState
    <2> QED
      BY <1>1, <2>5 DEF DocumentInv
  <1>2. CASE ~IsOpen(c)
    <2>1. ClosedState(c)
      BY <1>2 DEF DocumentInv
    <2>2. ClosedState(c)'
      BY <2>1 DEF ClosedState, StoresKept
    <2> QED
      BY <1>2, <2>2 DEF DocumentInv
  <1> QED
    BY <1>1, <1>2

\* The entries that the turns handle, for c and for other documents.
LEMMA EntriesApart ==
    ASSUME NEW c
    PROVE  /\ \A d, v : \A h \in {"open", "change", "remove"} : d # c => Apart(Entry(h, d, v), c)
           /\ \A d, v : \A h \in Readers : Apart(Entry(h, d, v), c)
           /\ \A step : Apart(Workspace(step), c)
  BY DEF Apart, Readers

\* What the handlers of documents leave of the entries of c.
LEMMA DocumentQueues ==
    ASSUME QueueTypes, DocumentTypes, LayoutTypes, NEW c \in Docs
    PROVE  /\ \A d \in Docs, h \in Readers :
                 StoresKept(docQ, Append(docQ, Entry(h, d, 0)), c)
           /\ StoresKept(docQ, Append(docQ, Workspace("uris")), c)
           /\ \A e : Apart(e, c) /\ DocRuns(e) => StoresKept(docQ, Tail(docQ), c)
           /\ \A todo \in SUBSET Docs : Visit(todo, docQ) => StoresKept(docQ, docQ', c)
           /\ \A e : \A todo \in SUBSET Docs :
                 Apart(e, c) /\ DocRuns(e) /\ Visit(todo, Tail(docQ)) => StoresKept(docQ, docQ', c)
  <1>1. ASSUME NEW d \in Docs, NEW h \in Readers
        PROVE  StoresKept(docQ, Append(docQ, Entry(h, d, 0)), c)
    <2>1. Entry(h, d, 0) \in DocEntries
      BY EntryTypes DEF Readers
    <2> QED
      BY <2>1, QueueSteps, EntriesApart, StoresAreKept
  <1>2. StoresKept(docQ, Append(docQ, Workspace("uris")), c)
    BY StepTypes, QueueSteps, EntriesApart, StoresAreKept
  <1>3. ASSUME NEW e, Apart(e, c), DocRuns(e)  PROVE StoresKept(docQ, Tail(docQ), c)
    BY <1>3, QueueSteps, StoresAreKept DEF DocRuns
  <1>4. ASSUME NEW todo \in SUBSET Docs, Visit(todo, docQ)  PROVE StoresKept(docQ, docQ', c)
    BY <1>1, <1>4, StoresAreKept DEF Visit, Readers
  <1>5. ASSUME NEW e, NEW todo \in SUBSET Docs, Apart(e, c), DocRuns(e), Visit(todo, Tail(docQ))
        PROVE  StoresKept(docQ, docQ', c)
    <2>1. ASSUME NEW d \in todo  PROVE StoresKept(Tail(docQ), Append(Tail(docQ), Entry("get", d, 0)), c)
      <3>1. Entry("get", d, 0) \in DocEntries
        BY EntryTypes
      <3>2. Adds(Tail(docQ), Entry("get", d, 0), Append(Tail(docQ), Entry("get", d, 0)))
        BY <1>5, <3>1, QueueSteps DEF DocRuns
      <3>3. Apart(Entry("get", d, 0), c)
        BY EntriesApart DEF Readers
      <3> QED
        BY <3>2, <3>3, StoresAreKept
    <2>2. StoresKept(docQ, Tail(docQ), c)
      BY <1>3, <1>5
    <2> QED
      BY <1>5, <2>1, <2>2, StoresAreKept DEF Visit
  <1> QED
    BY <1>1, <1>2, <1>3, <1>4, <1>5

\* A close comes when the workspace is ready and nothing is left to update.
LEMMA CloseIsReady ==
    ASSUME CleanClose, QueueTypes, NEW c \in Docs, DocumentInv(c), DidClose(c)
    PROVE  /\ ready
           /\ \A v : ~Contains(docQ, Entry("open", c, v)) /\ ~Contains(waiting, Entry("open", c, v))
           /\ \A h \in Readers : ~Contains(docQ, Entry(h, c, 0))
  <1>1. /\ \A v : ~Contains(docQ, Entry("open", c, v))
        /\ \A v : ~Contains(waiting, Entry("open", c, v))
        /\ \A h \in Readers : ~Contains(docQ, Entry(h, c, 0))
    BY QueuedIs DEF DidClose, OpeningStored, UpdateOnTheWay, QueueTypes, Readers
  <1>2. OpenState(c)
    BY DEF DidClose, DocumentInv
  <1> QED
    BY <1>1, <1>2 DEF OpenState

\* The messages of the client.
LEMMA ClientKeepsDocument ==
    ASSUME CleanClose, TypeInv, NEW c \in Docs, VersionsOf(c), DocumentInv(c), Client
    PROVE  DocumentInv(c)'
  <1> USE DEF TypeInv
  <1>1. /\ client \in [Docs -> [open : BOOLEAN, version : 0 .. MaxVersion, saves : 0 .. MaxSaves]]
        /\ MaxVersion \in Nat
    BY BoundsAssumption DEF DocumentTypes
  <1>2. ASSUME NEW d \in Docs, d # c, DidOpen(d) \/ DidChange(d) \/ DidSave(d) \/ DidClose(d)
        PROVE  IsOpen(c)' = IsOpen(c) /\ Version(c)' = Version(c)
    BY <1>1, <1>2 DEF DidOpen, DidChange, DidSave, DidClose, IsOpen, Version
  <1>3. StoresKept(docQ, docQ, c) /\ StoresKept(waiting, waiting, c)
    BY StoresAreKept
  <1>4. waiting' = waiting => ChangesStay(c)
    BY DEF ChangesStay
  <1>5. ASSUME NEW e \in WaitEntries, Apart(e, c), waiting' = Append(waiting, e)
        PROVE  StoresKept(waiting, waiting', c) /\ ChangesStay(c)
    BY <1>5, QueueSteps, StoresAreKept DEF StoresKept, ChangesStay
  <1>6. ASSUME NEW d \in Docs, DidOpen(d)  PROVE DocumentInv(c)'
    <2> DEFINE e == Entry("open", d, Version(d) + 1)
    <2>1. e \in DocEntries /\ Version(d) + 1 \in Versions
      BY <1>6, VersionTypes, EntryTypes DEF DidOpen
    <2>2. Adds(docQ, e, docQ')
      BY <1>6, <2>1, QueueSteps DEF DidOpen
    <2>3. UNCHANGED <<ready, waiting, documents>>
      BY <1>6 DEF DidOpen, eventVars
    <2>4. CASE d # c
      <3>1. StoresKept(docQ, docQ', c)
        BY <2>2, <2>4, EntriesApart, StoresAreKept
      <3> QED
        BY <1>2, <1>3, <1>4, <1>6, <2>3, <2>4, <3>1, DocumentStays
    <2>5. CASE d = c
      <3>1. IsOpen(c)' /\ Version(c)' = Version(c) + 1
        BY <1>1, <1>6, <2>5 DEF DidOpen, IsOpen, Version
      <3>2. Contains(docQ', Entry("open", c, Version(c)'))
        BY <2>2, <2>5, <3>1 DEF Adds
      <3>3. Follows(docQ', Entry("remove", c, 0), Entry("open", c, Version(c)'))
        BY <2>2, <2>5, <3>1, EntryIs DEF Adds
      <3>4. Version(c)' # 0
        BY <2>1, <2>5, <3>1 DEF Versions
      <3>5. OpenState(c)'
        BY <2>1, <2>5, <3>1, <3>2, <3>3, <3>4 DEF OpenState, Coming, Carries, Stores
      <3> QED
        BY <3>1, <3>5 DEF DocumentInv
    <2> QED
      BY <2>4, <2>5
  <1>7. ASSUME NEW d \in Docs, DidChange(d)  PROVE DocumentInv(c)'
    <2> DEFINE e == Entry("change", d, Version(d) + 1)
    <2>1. e \in WaitEntries /\ Version(d) + 1 \in Versions
      BY <1>7, VersionTypes, EntryTypes DEF DidChange
    <2>2. Adds(waiting, e, waiting')
      BY <1>7, <2>1, QueueSteps DEF DidChange
    <2>3. UNCHANGED <<ready, docQ, documents>>
      BY <1>7 DEF DidChange, docVars
    <2>4. CASE d # c
      <3>1. StoresKept(waiting, waiting', c) /\ ChangesStay(c)
        BY <1>5, <1>7, <2>1, <2>4, EntriesApart DEF DidChange
      <3> QED
        BY <1>2, <1>3, <1>7, <2>3, <2>4, <3>1, DocumentStays
    <2>5. CASE d = c
      <3>1. IsOpen(c) /\ IsOpen(c)' /\ Version(c)' = Version(c) + 1
        BY <1>1, <1>7, <2>5 DEF DidChange, IsOpen, Version
      <3>2. \A v : ~Contains(docQ, Entry("open", c, v))
        BY <1>7, <2>5, QueuedIs DEF DidChange, OpeningStored, QueueTypes
      <3>3. Follows(docQ', Entry("remove", c, 0), Entry("open", c, Version(c)'))
        <4>1. ~Contains(docQ, Entry("remove", c, 0))
          BY <3>1, <3>2, OrderOfNone DEF DocumentInv, OpenState
        <4> QED
          BY <2>3, <4>1, OrderOfNone
      <3>4. Contains(waiting', Entry("change", c, Version(c)'))
        BY <2>2, <2>5, <3>1 DEF Adds
      <3>5. Version(c)' # 0
        BY <2>1, <2>5, <3>1 DEF Versions
      <3>6. ~ready' => \E v \in Versions : \/ Contains(docQ', Entry("open", c, v))
                                           \/ Contains(waiting', Entry("open", c, v))
        BY <2>2, <2>3, <3>1 DEF DocumentInv, OpenState, Adds
      <3>7. OpenState(c)'
        BY <3>3, <3>4, <3>5, <3>6 DEF OpenState, Coming
      <3> QED
        BY <3>1, <3>7 DEF DocumentInv
    <2> QED
      BY <2>4, <2>5
  <1>8. ASSUME NEW d \in Docs, DidSave(d)  PROVE DocumentInv(c)'
    <2>1. StoresKept(waiting, waiting', c) /\ ChangesStay(c)
      BY <1>5, <1>8, EntryTypes, EntriesApart DEF DidSave, Readers
    <2>2. IsOpen(c)' = IsOpen(c) /\ Version(c)' = Version(c)
      BY <1>1, <1>8 DEF DidSave, IsOpen, Version
    <2>3. UNCHANGED <<ready, docQ, documents>>
      BY <1>8 DEF DidSave, docVars
    <2> QED
      BY <1>3, <2>1, <2>2, <2>3, DocumentStays
  <1>9. ASSUME NEW d \in Docs, DidClose(d)  PROVE DocumentInv(c)'
    <2> DEFINE e == Entry("remove", d, 0)
    <2>1. e \in DocEntries
      BY EntryTypes
    <2>2. ready => Adds(docQ, e, docQ')
      BY <1>9, <2>1, QueueSteps DEF DidClose
    <2>3. UNCHANGED <<ready, waiting, documents>> /\ (~ready => docQ' = docQ)
      BY <1>9 DEF DidClose, eventVars
    <2>4. CASE d # c
      <3>1. StoresKept(docQ, docQ', c)
        BY <1>3, <2>2, <2>3, <2>4, EntriesApart, StoresAreKept
      <3> QED
        BY <1>2, <1>3, <1>4, <1>9, <2>3, <2>4, <3>1, DocumentStays
    <2>5. CASE d = c
      <3>1. IsOpen(c) /\ ~IsOpen(c)'
        BY <1>1, <1>9, <2>5 DEF DidClose, IsOpen
      <3>2. \A h \in Readers : ~Contains(docQ, Entry(h, c, 0))
        BY <1>9, <2>5, CloseIsReady
      <3>3. ready
        BY <1>9, <2>5, CloseIsReady
      <3>4. Contains(docQ', Entry("remove", c, 0))
        BY <2>2, <2>5, <3>3 DEF Adds
      <3>5. \A v : Follows(docQ', Entry("change", c, v), Entry("remove", c, 0))
        BY <2>2, <2>5, <3>3, EntryIs DEF Adds
      <3>6. \A h \in Readers : Ahead(docQ', Entry("remove", c, 0), Entry(h, c, 0))
        <4>1. \A h \in Readers : ~Contains(docQ', Entry(h, c, 0))
          BY <2>2, <2>5, <3>2, <3>3, EntryIs DEF Adds, Readers
        <4> QED
          BY <4>1, OrderOfNone
      <3> QED
        BY <3>1, <3>4, <3>5, <3>6 DEF DocumentInv, ClosedState
    <2> QED
      BY <2>4, <2>5
  <1>10. ASSUME NEW kind \in FileEvents, DidChangeWatchedFiles(kind)  PROVE DocumentInv(c)'
    <2>1. StoresKept(waiting, waiting', c) /\ ChangesStay(c)
      BY <1>5, <1>10, StepTypes, EntriesApart DEF DidChangeWatchedFiles
    <2>2. UNCHANGED <<ready, docQ, documents, client>>
      BY <1>10 DEF DidChangeWatchedFiles, docVars
    <2> QED
      BY <1>3, <2>1, <2>2, DocumentStays DEF IsOpen, Version
  <1> QED
    BY <1>6, <1>7, <1>8, <1>9, <1>10 DEF Client

\* The waiters of workspace_ready_.
LEMMA ResumeKeepsDocument ==
    ASSUME TypeInv, NEW c \in Docs, VersionsOf(c), DocumentInv(c),
           InitializeWorkspace \/ Resume
    PROVE  DocumentInv(c)'
  <1> USE DEF TypeInv
  <1>1. StoresKept(docQ, docQ, c)
    BY StoresAreKept
  <1>2. UNCHANGED client => IsOpen(c)' = IsOpen(c) /\ Version(c)' = Version(c)
    BY DEF IsOpen, Version
  <1>3. ASSUME NEW e, Resumes(e)
        PROVE  Takes(waiting, e, waiting') /\ ready
    BY <1>3, QueueSteps DEF Resumes
  <1>4. ASSUME NEW e, Resumes(e), \A v : e # Entry("change", c, v)
        PROVE  ChangesStay(c)
    BY <1>3, <1>4 DEF Takes, ChangesStay
  <1>5. ASSUME InitializeWorkspace  PROVE DocumentInv(c)'
    <2>1. UNCHANGED <<client, docQ, waiting, documents>> /\ ready'
      BY <1>5 DEF InitializeWorkspace, docVars
    <2>2. ChangesStay(c) /\ StoresKept(waiting, waiting', c)
      BY <2>1, StoresAreKept DEF ChangesStay
    <2> QED
      BY <1>1, <1>2, <2>1, <2>2, DocumentStays
  <1>6. ASSUME NEW d \in Docs, NEW v \in Versions, ResumeOpened(d, v)  PROVE DocumentInv(c)'
    <2>1. UNCHANGED <<client, ready, docQ, documents>>
      BY <1>6 DEF ResumeOpened, docVars
    <2>2. ChangesStay(c) /\ ready
      BY <1>3, <1>4, <1>6, EntryIs DEF ResumeOpened
    <2> QED
      BY <1>1, <1>2, <2>1, <2>2, DocumentStays
  <1>7. ASSUME NEW d \in Docs, NEW v \in Versions, ResumeChanged(d, v)  PROVE DocumentInv(c)'
    <2> DEFINE e == Entry("change", d, v)
    <2>1. UNCHANGED <<client, ready, documents>>
      BY <1>7 DEF ResumeChanged
    <2>2. Adds(docQ, e, docQ')
      BY <1>7, EntryTypes, QueueSteps DEF ResumeChanged
    <2>3. Takes(waiting, e, waiting') /\ ready
      BY <1>3, <1>7 DEF ResumeChanged
    <2>4. CASE d # c
      <3>1. StoresKept(docQ, docQ', c)
        BY <2>2, <2>4, EntriesApart, StoresAreKept
      <3>2. ChangesStay(c)
        BY <2>3, <2>4, EntryIs DEF Takes, ChangesStay
      <3> QED
        BY <1>2, <2>1, <2>3, <3>1, <3>2, DocumentStays
    <2>5. CASE d = c
      <3>1. IsOpen(c)
        BY <2>3, <2>5, VersionFacts DEF Takes, Stores
      <3>2. OpenState(c)
        BY <3>1 DEF DocumentInv
      <3>3. Coming(c) => Coming(c)'
        <4>1. Version(c)' = Version(c)
          BY <1>2, <2>1
        <4>2. Carries(docQ, Stores, c, Version(c)) => Carries(docQ', Stores, c, Version(c))
          BY <2>2 DEF Adds, Carries
        <4>3. Contains(waiting, Entry("change", c, Version(c)))
                 => \/ Contains(waiting', Entry("change", c, Version(c)))
                    \/ Contains(docQ', Entry("change", c, Version(c)))
          BY <2>2, <2>3 DEF Adds, Takes
        <4> QED
          BY <4>1, <4>2, <4>3 DEF Coming, Carries, Stores
      <3>4. Follows(docQ', Entry("remove", c, 0), Entry("open", c, Version(c)))
        BY <2>2, <3>2, EntryIs DEF Adds, OpenState
      <3>5. OpenState(c)'
        BY <1>2, <2>1, <2>3, <3>2, <3>3, <3>4 DEF OpenState
      <3> QED
        BY <1>2, <2>1, <3>1, <3>5 DEF DocumentInv
    <2> QED
      BY <2>4, <2>5
  <1>8. ASSUME NEW d \in Docs, ResumeSaved(d)  PROVE DocumentInv(c)'
    <2>1. UNCHANGED <<client, ready, documents>>
      BY <1>8 DEF ResumeSaved
    <2>2. StoresKept(docQ, docQ', c)
      BY <1>8, DocumentQueues DEF ResumeSaved, Readers
    <2>3. ChangesStay(c) /\ ready
      BY <1>3, <1>4, <1>8, EntryIs DEF ResumeSaved
    <2> QED
      BY <1>2, <2>1, <2>2, <2>3, DocumentStays
  <1>9. ASSUME NEW kind \in FileEvents, ResumeWatchedFiles(kind)  PROVE DocumentInv(c)'
    <2>1. UNCHANGED <<client, ready, docQ, documents>>
      BY <1>9 DEF ResumeWatchedFiles, docVars
    <2>2. ChangesStay(c) /\ ready
      BY <1>3, <1>4, <1>9, EntryIs DEF ResumeWatchedFiles
    <2> QED
      BY <1>1, <1>2, <2>1, <2>2, DocumentStays
  <1> QED
    BY <1>5, <1>6, <1>7, <1>8, <1>9 DEF Resume

\* The strand of DocumentStateManager.
LEMMA DocTurnKeepsDocument ==
    ASSUME TypeInv, NEW c \in Docs, VersionsOf(c), DocumentInv(c), DocTurn
    PROVE  DocumentInv(c)'
  <1> USE DEF TypeInv
  <1>1. documents \in [Docs -> 0 .. MaxVersion] /\ client \in [Docs -> [open : BOOLEAN,
           version : 0 .. MaxVersion, saves : 0 .. MaxSaves]]
    BY DEF DocumentTypes
  <1>2. UNCHANGED client => IsOpen(c)' = IsOpen(c) /\ Version(c)' = Version(c)
    BY DEF IsOpen, Version
  <1>3. ASSUME NEW e, DocRuns(e), docQ' = Tail(docQ)  PROVE Takes(docQ, e, docQ')
    BY <1>3, QueueSteps DEF DocRuns
  <1>4. ASSUME UNCHANGED <<client, ready, waiting>>, documents'[c] = documents[c],
               StoresKept(docQ, docQ', c)
        PROVE  DocumentInv(c)'
    <2>1. ChangesStay(c) /\ StoresKept(waiting, waiting', c)
      BY <1>4, StoresAreKept DEF ChangesStay
    <2> QED
      BY <1>2, <1>4, <2>1, DocumentStays
  <1>5. ASSUME NEW v \in Versions, NEW h \in Stores,
               Takes(docQ, Entry(h, c, v), docQ'), UNCHANGED client, ChangesStay(c), OpenState(c)
        PROVE  v # Version(c) => Coming(c)'
    <2> SUFFICES ASSUME v # Version(c)  PROVE Coming(c)'
      OBVIOUS
    <2>1. documents[c] <= v /\ v <= Version(c) /\ v \in Nat /\ documents[c] \in Nat
          /\ Version(c) \in Nat
      BY <1>1, <1>5, VersionFacts DEF Takes, Version
    <2>2. documents[c] # Version(c)
      BY <2>1
    <2>3. Coming(c)
      BY <1>5, <2>2 DEF OpenState
    <2>4. Carries(docQ, Stores, c, Version(c)) => Carries(docQ', Stores, c, Version(c))
      BY <1>5, EntryIs DEF Takes, Carries
    <2> QED
      BY <1>2, <1>5, <2>3, <2>4 DEF Coming, ChangesStay
  <1>6. ASSUME NEW d \in Docs, NEW v \in Versions, StoreOpened(d, v)  PROVE DocumentInv(c)'
    <2> DEFINE e == Entry("open", d, v)
    <2>1. UNCHANGED <<client, ready>>
      BY <1>6 DEF StoreOpened
    <2>2. Takes(docQ, e, docQ')
      BY <1>3, <1>6 DEF StoreOpened
    <2>3. Adds(waiting, e, waiting')
      BY <1>6, EntryTypes, QueueSteps DEF StoreOpened
    <2>4. ChangesStay(c)
      BY <2>3 DEF Adds, ChangesStay
    <2>5. CASE d # c
      <3>1. StoresKept(docQ, docQ', c) /\ StoresKept(waiting, waiting', c)
        BY <2>2, <2>3, <2>5, EntriesApart, StoresAreKept
      <3>2. documents'[c] = documents[c]
        BY <1>1, <1>6, <2>5 DEF StoreOpened
      <3> QED
        BY <1>2, <2>1, <2>4, <3>1, <3>2, DocumentStays
    <2>6. CASE d = c
      <3>1. IsOpen(c)
        BY <2>2, <2>6, VersionFacts DEF Takes
      <3>2. OpenState(c)
        BY <3>1 DEF DocumentInv
      <3>3. v # Version(c) => Coming(c)'
        BY <1>5, <2>1, <2>2, <2>4, <2>6, <3>2 DEF Stores
      <3>4. documents'[c] = v
        BY <1>1, <1>6, <2>6 DEF StoreOpened
      <3>5. Follows(docQ', Entry("remove", c, 0), Entry("open", c, Version(c)))
        BY <2>2, <3>2 DEF Takes, OpenState
      <3>6. Contains(waiting', Entry("open", c, v))
        BY <2>3, <2>6 DEF Adds
      <3>7. OpenState(c)'
        BY <1>2, <2>1, <3>2, <3>3, <3>4, <3>5, <3>6 DEF OpenState
      <3> QED
        BY <1>2, <2>1, <3>1, <3>7 DEF DocumentInv
    <2> QED
      BY <2>5, <2>6
  <1>7. ASSUME NEW d \in Docs, NEW v \in Versions, StoreChanged(d, v)  PROVE DocumentInv(c)'
    <2> DEFINE e == Entry("change", d, v)
    <2>1. UNCHANGED <<client, ready, waiting>>
      BY <1>7 DEF StoreChanged, eventVars
    <2>2. Takes(docQ, e, docQ')
      BY <1>3, <1>7 DEF StoreChanged
    <2>3. CASE d # c
      <3>1. StoresKept(docQ, docQ', c)
        BY <2>2, <2>3, EntriesApart, StoresAreKept
      <3>2. documents'[c] = documents[c]
        BY <1>1, <1>7, <2>3 DEF StoreChanged
      <3> QED
        BY <1>4, <2>1, <3>1, <3>2
    <2>4. CASE d = c /\ IsOpen(c)
      <3>1. OpenState(c)
        BY <2>4 DEF DocumentInv
      <3>2. v # Version(c) => Coming(c)'
        BY <1>5, <2>1, <2>2, <2>4, <3>1 DEF Stores, ChangesStay
      <3>3. documents'[c] = v
        BY <1>1, <1>7, <2>4 DEF StoreChanged
      <3>4. Follows(docQ', Entry("remove", c, 0), Entry("open", c, Version(c)))
        BY <2>2, <3>1 DEF Takes, OpenState
      <3>5. \A u : Contains(docQ, Entry("open", c, u)) => Contains(docQ', Entry("open", c, u))
        BY <2>2, EntryIs DEF Takes
      <3>6. OpenState(c)'
        BY <1>2, <2>1, <3>1, <3>2, <3>3, <3>4, <3>5 DEF OpenState
      <3> QED
        BY <1>2, <2>1, <2>4, <3>6 DEF DocumentInv
    <2>5. CASE d = c /\ ~IsOpen(c)
      <3>1. ClosedState(c)
        BY <2>5 DEF DocumentInv
      <3>2. Contains(docQ', Entry("remove", c, 0))
        BY <2>2, <2>5, <3>1 DEF Takes, ClosedState
      <3>3. ClosedState(c)'
        BY <2>2, <3>1, <3>2 DEF Takes, ClosedState
      <3> QED
        BY <1>2, <2>1, <2>5, <3>3 DEF DocumentInv
    <2> QED
      BY <2>3, <2>4, <2>5
  <1>8. ASSUME NEW d \in Docs, RemoveDocument(d)  PROVE DocumentInv(c)'
    <2> DEFINE e == Entry("remove", d, 0)
    <2>1. UNCHANGED <<client, ready, waiting>>
      BY <1>8 DEF RemoveDocument, eventVars
    <2>2. Takes(docQ, e, docQ')
      BY <1>3, <1>8 DEF RemoveDocument
    <2>3. CASE d # c
      <3>1. StoresKept(docQ, docQ', c)
        BY <2>2, <2>3, EntriesApart, StoresAreKept
      <3>2. documents'[c] = documents[c]
        BY <1>1, <1>8, <2>3 DEF RemoveDocument
      <3> QED
        BY <1>4, <2>1, <3>1, <3>2
    <2>4. CASE d = c /\ IsOpen(c)
      <3>1. OpenState(c)
        BY <2>4 DEF DocumentInv
      <3>2. Contains(docQ', Entry("open", c, Version(c)))
        BY <2>2, <2>4, <3>1 DEF Takes, OpenState
      <3>3. Coming(c)'
        BY <1>2, <2>1, <3>2 DEF Coming, Carries, Stores
      <3>4. Follows(docQ', Entry("remove", c, 0), Entry("open", c, Version(c)))
        BY <2>2, <3>1 DEF Takes, OpenState
      <3>5. \A u : Contains(docQ, Entry("open", c, u)) => Contains(docQ', Entry("open", c, u))
        BY <2>2, EntryIs DEF Takes
      <3>6. OpenState(c)'
        BY <1>2, <2>1, <3>1, <3>3, <3>4, <3>5 DEF OpenState
      <3> QED
        BY <1>2, <2>1, <2>4, <3>6 DEF DocumentInv
    <2>5. CASE d = c /\ ~IsOpen(c)
      <3>1. documents'[c] = 0
        BY <1>1, <1>8, <2>5 DEF RemoveDocument
      <3>2. ClosedState(c)'
        BY <2>2, <2>5, <3>1 DEF Takes, DocumentInv, ClosedState
      <3> QED
        BY <1>2, <2>1, <2>5, <3>2 DEF DocumentInv
    <2> QED
      BY <2>3, <2>4, <2>5
  <1>9. ASSUME NEW d \in Docs, GetSaved(d) \/ GetForRebuild(d)  PROVE DocumentInv(c)'
    <2>1. StoresKept(docQ, docQ', c)
      BY <1>9, DocumentQueues, EntriesApart DEF GetSaved, GetForRebuild, Readers
    <2>2. UNCHANGED <<client, ready, waiting, documents>>
      BY <1>9 DEF GetSaved, GetForRebuild, eventVars
    <2> QED
      BY <1>4, <2>1, <2>2
  <1>10. ASSUME NEW d \in Docs, GetVisited(d)  PROVE DocumentInv(c)'
    <2>1. Apart(Entry("get", d, 0), c) /\ DocRuns(Entry("get", d, 0))
      BY <1>10, EntriesApart DEF GetVisited, Readers
    <2>2. workspace.todo \in SUBSET Docs
      BY DEF LayoutTypes
    <2>3. StoresKept(docQ, docQ', c)
      BY <1>10, <2>1, <2>2, DocumentQueues DEF GetVisited
    <2>4. UNCHANGED <<client, ready, waiting, documents>>
      BY <1>10 DEF GetVisited, eventVars
    <2> QED
      BY <1>4, <2>3, <2>4
  <1>11. ASSUME GetAllUris  PROVE DocumentInv(c)'
    <2>1. Apart(Workspace("uris"), c)
      BY EntriesApart
    <2>2. {d \in Docs : documents[d] # 0} \in SUBSET Docs
      OBVIOUS
    <2>3. StoresKept(docQ, docQ', c)
      BY <1>11, <2>1, <2>2, DocumentQueues DEF GetAllUris
    <2>4. UNCHANGED <<client, ready, waiting, documents>>
      BY <1>11 DEF GetAllUris, eventVars
    <2> QED
      BY <1>4, <2>3, <2>4
  <1> QED
    BY <1>6, <1>7, <1>8, <1>9, <1>10, <1>11 DEF DocTurn

\* Every action.
LEMMA DocumentInvStep ==
    ASSUME CleanClose, TypeInv, NEW c \in Docs, VersionsOf(c), DocumentInv(c), Next
    PROVE  DocumentInv(c)'
  <1> USE DEF TypeInv, eventVars, docVars, rebuildVars, storeVars, sessionVars, layoutVars
  <1>1. ASSUME UNCHANGED <<client, ready, waiting, documents>>, StoresKept(docQ, docQ', c)
        PROVE  DocumentInv(c)'
    <2>1. ChangesStay(c) /\ StoresKept(waiting, waiting', c)
      BY <1>1, StoresAreKept DEF ChangesStay
    <2> QED
      BY <1>1, <2>1, DocumentStays DEF IsOpen, Version
  <1>2. StoresKept(docQ, docQ, c)
    BY StoresAreKept
  <1>3. \A d \in Docs : StoresKept(docQ, Append(docQ, Entry("rebuild", d, 0)), c)
    BY DocumentQueues DEF Readers
  <1>4. ASSUME SessionTurn  PROVE DocumentInv(c)'
    <2>1. ASSUME NEW d \in Docs, NEW v \in Versions, RebuildTurn(d, v)
          PROVE  DocumentInv(c)'
      BY <1>1, <1>2, <1>3, <2>1 DEF RebuildTurn, FinishRebuild
    <2>2. ASSUME NEW d \in Docs, NEW v \in Versions, VisitTurn(d, v)
          PROVE  DocumentInv(c)'
      <3>1. workspace.todo \in SUBSET Docs
        BY DEF LayoutTypes
      <3>2. StoresKept(docQ, docQ', c)
        BY <2>2, <3>1, DocumentQueues DEF VisitTurn
      <3> QED
        BY <1>1, <2>2, <3>2 DEF VisitTurn
    <2>3. ASSUME NEW d \in Docs, NEW v \in Versions, UpdateTurn(d, v)
          PROVE  DocumentInv(c)'
      BY <1>1, <1>2, <2>3 DEF UpdateTurn
    <2>4. ASSUME NEW d \in Docs, CancelTurn(d) \/ CleanupTurn(d)
          PROVE  DocumentInv(c)'
      BY <1>1, <1>2, <2>4 DEF CancelTurn, CleanupTurn
    <2>5. ASSUME SwapTurn \/ InvalidateTurn  PROVE DocumentInv(c)'
      BY <1>1, <1>2, <2>5 DEF SwapTurn, InvalidateTurn
    <2> QED
      BY <1>4, <2>1, <2>2, <2>3, <2>4, <2>5 DEF SessionTurn
  <1>5. ASSUME NEW kind \in {"listed", "config"}, LayoutTurn(kind)  PROVE DocumentInv(c)'
    BY <1>1, <1>2, <1>5 DEF LayoutTurn
  <1>6. ASSUME NEW d \in Docs, TimerExpires(d) \/ CleanupExpires(d) \/ SessionBuilt(d)
        PROVE  DocumentInv(c)'
    BY <1>1, <1>2, <1>6 DEF TimerExpires, CleanupExpires, SessionBuilt
  <1>7. ASSUME NEW d \in Docs, TimerCallback(d)  PROVE DocumentInv(c)'
    BY <1>1, <1>2, <1>3, <1>7 DEF TimerCallback, RebuildSession
  <1>8. ASSUME WorkspaceTimerExpires \/ WorkspaceTimerCallback \/ PreambleBuilt
        PROVE  DocumentInv(c)'
    BY <1>1, <1>2, <1>8 DEF WorkspaceTimerExpires, WorkspaceTimerCallback, PreambleBuilt
  <1>9. ASSUME SessionsDrained  PROVE DocumentInv(c)'
    <2>1. StoresKept(docQ, docQ', c)
      BY <1>9, DocumentQueues DEF SessionsDrained
    <2> QED
      BY <1>1, <1>9, <2>1 DEF SessionsDrained
  <1> QED
    BY <1>4, <1>5, <1>6, <1>7, <1>8, <1>9, ClientKeepsDocument, ResumeKeepsDocument,
       DocTurnKeepsDocument
    DEF Next, RebuildStep

-----------------------------------------------------------------------------
\* The session of a document: what a close left for it comes before the session
\* of the last opening, and after the sessions of what was closed.

Ends == {"cancel", "cleanup"}

OpenSession(c) ==
    /\ \A h \in Ends : Contains(sessionQ, Entry(h, c, 0)) => session[c].version # Version(c)
    /\ c \in cleaning => session[c].version # Version(c)
    /\ \A h \in Ends, u \in Updates :
          Ahead(sessionQ, Entry(h, c, 0), Entry(u, c, Version(c)))

ClosedSession(c) ==
    /\ HasSession(c) => \/ Contains(sessionQ, Entry("cleanup", c, 0))
                        \/ c \in cleaning \/ workspace.at = "draining"
    /\ \A u \in Updates, v \in Versions :
          Follows(sessionQ, Entry(u, c, v), Entry("cleanup", c, 0))

SessionInv(c) == IF IsOpen(c) THEN OpenSession(c) ELSE ClosedSession(c)

\* What a close left is as it was, and where it was.
EndsKept(q, r, c) ==
    /\ \A h \in Ends : Contains(r, Entry(h, c, 0)) <=> Contains(q, Entry(h, c, 0))
    /\ \A h \in Ends, u \in Updates : \A v :
          Ahead(q, Entry(h, c, 0), Entry(u, c, v)) => Ahead(r, Entry(h, c, 0), Entry(u, c, v))
CleanupsKept(q, r, c) ==
    \A u \in Updates : \A v :
        Follows(q, Entry(u, c, v), Entry("cleanup", c, 0))
            => Follows(r, Entry(u, c, v), Entry("cleanup", c, 0))

\* An entry that is none of a close of c, and none that updates its session.
NoEnd(e, c)    == \A h \in Ends : \A v : e # Entry(h, c, v)
NoUpdate(e, c) == \A u \in Updates : \A v : e # Entry(u, c, v)

\* Adding and taking such entries keeps what a close left.
LEMMA EndsAreKept ==
    ASSUME NEW c
    PROVE  /\ \A q : EndsKept(q, q, c) /\ CleanupsKept(q, q, c)
           /\ \A q, r, t : EndsKept(q, r, c) /\ EndsKept(r, t, c) => EndsKept(q, t, c)
           /\ \A q, r, t : CleanupsKept(q, r, c) /\ CleanupsKept(r, t, c) => CleanupsKept(q, t, c)
           /\ \A q, r, e : NoEnd(e, c) /\ (Adds(q, e, r) \/ Takes(q, e, r)) => EndsKept(q, r, c)
           /\ \A q, r, e : NoUpdate(e, c) /\ Adds(q, e, r) => CleanupsKept(q, r, c)
           /\ \A q, r, e : Takes(q, e, r) => CleanupsKept(q, r, c)
  <1>1. ASSUME NEW q, NEW r, NEW e, NoEnd(e, c)
        PROVE  /\ Adds(q, e, r) => EndsKept(q, r, c)
               /\ Takes(q, e, r) => EndsKept(q, r, c)
    BY <1>1 DEF NoEnd, Adds, Takes, EndsKept
  <1>2. ASSUME NEW q, NEW r, NEW e
        PROVE  /\ NoUpdate(e, c) /\ Adds(q, e, r) => CleanupsKept(q, r, c)
               /\ Takes(q, e, r) => CleanupsKept(q, r, c)
    BY DEF NoUpdate, Adds, Takes, CleanupsKept
  <1>3. \A q : EndsKept(q, q, c) /\ CleanupsKept(q, q, c)
    BY DEF EndsKept, CleanupsKept
  <1>4. \A q, r, t : EndsKept(q, r, c) /\ EndsKept(r, t, c) => EndsKept(q, t, c)
    BY DEF EndsKept
  <1>5. \A q, r, t : CleanupsKept(q, r, c) /\ CleanupsKept(r, t, c) => CleanupsKept(q, t, c)
    BY DEF CleanupsKept
  <1> QED
    BY <1>1, <1>2, <1>3, <1>4, <1>5

\* The entries that the turns handle.
LEMMA EndsAndUpdates ==
    ASSUME NEW c
    PROVE  /\ \A h, d, v : d # c \/ h \notin Ends => NoEnd(Entry(h, d, v), c)
           /\ \A h, d, v : d # c \/ h \notin Updates => NoUpdate(Entry(h, d, v), c)
           /\ \A step : NoEnd(Workspace(step), c) /\ NoUpdate(Workspace(step), c)
  <1>1. \A h, d, v : d # c \/ h \notin Ends => NoEnd(Entry(h, d, v), c)
    BY EntryIs DEF NoEnd
  <1>2. \A h, d, v : d # c \/ h \notin Updates => NoUpdate(Entry(h, d, v), c)
    BY EntryIs DEF NoUpdate
  <1>3. \A step : NoEnd(Workspace(step), c) /\ NoUpdate(Workspace(step), c)
    BY EntryIs DEF NoEnd, NoUpdate
  <1> QED
    BY <1>1, <1>2, <1>3

\* A session that is as it was for the client, with the same end before it.
SessionSame(c) ==
    /\ session'[c].version = session[c].version
    /\ HasSession(c)' => HasSession(c)
    /\ c \in cleaning' <=> c \in cleaning
    /\ workspace.at = "draining" => workspace'.at = "draining"

\* A step that keeps the session of c or drops it.
LEMMA SessionStays ==
    ASSUME NEW c \in Docs, SessionInv(c), IsOpen(c) => Version(c) # 0,
           EndsKept(sessionQ, sessionQ', c), CleanupsKept(sessionQ, sessionQ', c) \/ IsOpen(c),
           IsOpen(c)' = IsOpen(c), Version(c)' = Version(c),
           SessionSame(c) \/ (session'[c] = NoSession /\ (c \in cleaning' => c \in cleaning))
    PROVE  SessionInv(c)'
  <1>1. CASE IsOpen(c)
    <2>1. OpenSession(c)
      BY <1>1 DEF SessionInv
    <2>2. session'[c].version = Version(c) => session[c].version = Version(c)
      BY <1>1 DEF SessionSame, NoSession
    <2>3. session'[c].version = Version(c) => (c \in cleaning' => c \in cleaning)
      BY DEF SessionSame
    <2>4. OpenSession(c)'
      BY <2>1, <2>2, <2>3 DEF OpenSession, EndsKept
    <2> QED
      BY <1>1, <2>4 DEF SessionInv
  <1>2. CASE ~IsOpen(c)
    <2>1. ClosedSession(c)
      BY <1>2 DEF SessionInv
    <2>2. HasSession(c)' => \/ Contains(sessionQ', Entry("cleanup", c, 0))
                            \/ c \in cleaning' \/ workspace'.at = "draining"
      BY <2>1 DEF ClosedSession, EndsKept, Ends, SessionSame, HasSession
    <2>3. ClosedSession(c)'
      BY <1>2, <2>1, <2>2 DEF ClosedSession, CleanupsKept
    <2> QED
      BY <1>2, <2>3 DEF SessionInv
  <1> QED
    BY <1>1, <1>2

\* What reads the state of c runs only while c is open, or finds nothing.
LEMMA ReadersFindNothing ==
    ASSUME QueueTypes, NEW c \in Docs, DocumentInv(c), NEW h \in Readers,
           DocRuns(Entry(h, c, 0)), documents[c] # 0
    PROVE  IsOpen(c)
  <1> SUFFICES ASSUME ~IsOpen(c)  PROVE FALSE
    OBVIOUS
  <1>1. ClosedState(c)
    BY DEF DocumentInv
  <1>2. Takes(docQ, Entry(h, c, 0), Tail(docQ))
    BY QueueSteps DEF DocRuns
  <1> QED
    BY <1>1, <1>2 DEF ClosedState, Takes

\* What the handlers leave of the session of c.
LEMMA SessionQueues ==
    ASSUME QueueTypes, DocumentTypes, NEW c \in Docs
    PROVE  /\ \A d \in Docs, u \in Updates, v \in Versions :
                 /\ EndsKept(sessionQ, Append(sessionQ, Entry(u, d, v)), c)
                 /\ d # c => CleanupsKept(sessionQ, Append(sessionQ, Entry(u, d, v)), c)
           /\ \A step \in {"swap", "invalidate"} :
                 /\ EndsKept(sessionQ, Append(sessionQ, Workspace(step)), c)
                 /\ CleanupsKept(sessionQ, Append(sessionQ, Workspace(step)), c)
           /\ \A e : SessionRuns(e) => /\ Takes(sessionQ, e, Tail(sessionQ))
                                       /\ CleanupsKept(sessionQ, Tail(sessionQ), c)
           /\ \A e : SessionRuns(e) /\ NoEnd(e, c) => EndsKept(sessionQ, Tail(sessionQ), c)
  <1>1. ASSUME NEW d \in Docs, NEW u \in Updates, NEW v \in Versions
        PROVE  /\ EndsKept(sessionQ, Append(sessionQ, Entry(u, d, v)), c)
               /\ d # c => CleanupsKept(sessionQ, Append(sessionQ, Entry(u, d, v)), c)
    <2>1. Adds(sessionQ, Entry(u, d, v), Append(sessionQ, Entry(u, d, v)))
      BY EntryTypes, QueueSteps DEF Updates
    <2>2. u \notin Ends
      BY DEF Updates, Ends
    <2> QED
      BY <2>1, <2>2, EndsAndUpdates, EndsAreKept
  <1>2. ASSUME NEW step \in {"swap", "invalidate"}
        PROVE  /\ EndsKept(sessionQ, Append(sessionQ, Workspace(step)), c)
               /\ CleanupsKept(sessionQ, Append(sessionQ, Workspace(step)), c)
    <2>1. Adds(sessionQ, Workspace(step), Append(sessionQ, Workspace(step)))
      BY StepTypes, QueueSteps
    <2> QED
      BY <2>1, EndsAndUpdates, EndsAreKept
  <1>3. ASSUME NEW e, SessionRuns(e)
        PROVE  /\ Takes(sessionQ, e, Tail(sessionQ))
               /\ CleanupsKept(sessionQ, Tail(sessionQ), c)
               /\ NoEnd(e, c) => EndsKept(sessionQ, Tail(sessionQ), c)
    BY <1>3, QueueSteps, EndsAreKept DEF SessionRuns
  <1> QED
    BY <1>1, <1>2, <1>3

\* The turns of a close of d are two entries behind the others.
LEMMA CloseAdds ==
    ASSUME QueueTypes, NEW d \in Docs
    PROVE  \E q : /\ Adds(sessionQ, Entry("cancel", d, 0), q)
                  /\ Adds(q, Entry("cleanup", d, 0), sessionQ \o CloseTurns(d))
  <1> DEFINE c == Entry("cancel", d, 0)
             e == Entry("cleanup", d, 0)
             q == Append(sessionQ, c)
  <1>1. /\ c \in SessionEntries /\ e \in SessionEntries
        /\ sessionQ \in Seq(SessionEntries)
    BY EntryTypes DEF QueueTypes
  <1>2. CloseTurns(d) = <<c, e>>
    BY DEF CloseTurns
  <1> HIDE DEF c, e
  <1>3. q \in Seq(SessionEntries) /\ sessionQ \o <<c, e>> = Append(q, e)
    BY <1>1
  <1>4. Adds(sessionQ, c, q) /\ Adds(q, e, Append(q, e))
    BY <1>1, <1>3, QueueAdds
  <1> QED
    BY <1>2, <1>3, <1>4 DEF c, e

\* The messages of the client.
LEMMA ClientKeepsSession ==
    ASSUME CleanClose, TypeInv, NEW c \in Docs, VersionsOf(c), DocumentInv(c), SessionInv(c),
           Client
    PROVE  SessionInv(c)'
  <1> USE DEF TypeInv
  <1>1. /\ client \in [Docs -> [open : BOOLEAN, version : 0 .. MaxVersion, saves : 0 .. MaxSaves]]
        /\ session[c].version \in Nat /\ session[c].version <= Version(c) /\ Version(c) \in Nat
    BY VersionFacts DEF DocumentTypes, LayoutTypes, Version
  <1>2. IsOpen(c) => Version(c) # 0
    BY DEF DocumentInv, OpenState
  <1>3. EndsKept(sessionQ, sessionQ, c) /\ CleanupsKept(sessionQ, sessionQ, c)
    BY EndsAreKept
  <1>4. ASSUME UNCHANGED <<sessionQ, session, cleaning, workspace>>
        PROVE  /\ IsOpen(c)' = IsOpen(c) /\ Version(c)' = Version(c) => SessionInv(c)'
               /\ IsOpen(c)' /\ Version(c)' = Version(c) + 1 => SessionInv(c)'
    <2>1. SessionSame(c)
      BY <1>4 DEF SessionSame, HasSession
    <2>2. ASSUME IsOpen(c)', Version(c)' = Version(c) + 1  PROVE SessionInv(c)'
      <3>1. \A u \in Updates : ~Contains(sessionQ, Entry(u, c, Version(c) + 1))
        BY <1>1, VersionFacts
      <3>2. session'[c].version # Version(c)'
        BY <1>1, <1>4, <2>2
      <3>3. OpenSession(c)'
        BY <1>4, <2>2, <3>1, <3>2, OrderOfNone DEF OpenSession
      <3> QED
        BY <2>2, <3>3 DEF SessionInv
    <2> QED
      BY <1>2, <1>3, <1>4, <2>1, <2>2, SessionStays
  <1>5. ASSUME NEW d \in Docs, DidOpen(d) \/ DidChange(d) \/ DidSave(d)  PROVE SessionInv(c)'
    <2>1. UNCHANGED <<sessionQ, session, cleaning, workspace>>
      BY <1>5 DEF DidOpen, DidChange, DidSave, sessionVars, layoutVars
    <2>2. \/ IsOpen(c)' = IsOpen(c) /\ Version(c)' = Version(c)
          \/ IsOpen(c)' /\ Version(c)' = Version(c) + 1
      <3>1. CASE DidOpen(d)
        BY <1>1, <3>1 DEF DidOpen, IsOpen, Version
      <3>2. CASE DidChange(d)
        BY <1>1, <3>2 DEF DidChange, IsOpen, Version
      <3>3. CASE DidSave(d)
        BY <1>1, <3>3 DEF DidSave, IsOpen, Version
      <3> QED
        BY <1>5, <3>1, <3>2, <3>3
    <2> QED
      BY <1>4, <2>1, <2>2
  <1>6. ASSUME NEW d \in Docs, DidClose(d)  PROVE SessionInv(c)'
    <2>1. UNCHANGED <<session, cleaning, workspace>>
      BY <1>6 DEF DidClose, storeVars, layoutVars
    <2>2. CASE d # c
      <3>1. EndsKept(sessionQ, sessionQ', c) /\ CleanupsKept(sessionQ, sessionQ', c)
        <4>1. PICK q : /\ Adds(sessionQ, Entry("cancel", d, 0), q)
                       /\ Adds(q, Entry("cleanup", d, 0), sessionQ \o CloseTurns(d))
          BY CloseAdds
        <4>2. /\ EndsKept(sessionQ, q, c) /\ EndsKept(q, sessionQ \o CloseTurns(d), c)
              /\ CleanupsKept(sessionQ, q, c) /\ CleanupsKept(q, sessionQ \o CloseTurns(d), c)
          BY <2>2, <4>1, EndsAndUpdates, EndsAreKept
        <4>3. sessionQ' = sessionQ \/ sessionQ' = sessionQ \o CloseTurns(d)
          BY <1>6 DEF DidClose, sessionVars
        <4> QED
          BY <1>3, <4>2, <4>3, EndsAreKept
      <3>2. IsOpen(c)' = IsOpen(c) /\ Version(c)' = Version(c)
        BY <1>1, <1>6, <2>2 DEF DidClose, IsOpen, Version
      <3>3. SessionSame(c)
        BY <2>1 DEF SessionSame, HasSession
      <3> QED
        BY <1>2, <3>1, <3>2, <3>3, SessionStays
    <2>3. CASE d = c
      <3>1. sessionQ' = sessionQ \o CloseTurns(c)
        BY <1>6, <2>3, CloseIsReady DEF DidClose
      <3>2. PICK q : /\ Adds(sessionQ, Entry("cancel", c, 0), q)
                     /\ Adds(q, Entry("cleanup", c, 0), sessionQ')
        BY <3>1, CloseAdds
      <3>3. Contains(sessionQ', Entry("cleanup", c, 0))
        BY <3>2 DEF Adds
      <3>4. \A u \in Updates, v \in Versions :
               Follows(sessionQ', Entry(u, c, v), Entry("cleanup", c, 0))
        BY <3>2, EntryIs DEF Adds, Updates
      <3>5. ~IsOpen(c)'
        BY <1>1, <1>6, <2>3 DEF DidClose, IsOpen
      <3> QED
        BY <3>3, <3>4, <3>5 DEF SessionInv, ClosedSession
    <2> QED
      BY <2>2, <2>3
  <1>7. ASSUME NEW kind \in FileEvents, DidChangeWatchedFiles(kind)  PROVE SessionInv(c)'
    BY <1>4, <1>7 DEF DidChangeWatchedFiles, sessionVars, layoutVars, IsOpen, Version
  <1> QED
    BY <1>5, <1>6, <1>7 DEF Client

\* The waiters and the strand of DocumentStateManager.
LEMMA DocumentsKeepSession ==
    ASSUME TypeInv, NEW c \in Docs, VersionsOf(c), DocumentInv(c), SessionInv(c),
           InitializeWorkspace \/ Resume \/ DocTurn
    PROVE  SessionInv(c)'
  <1> USE DEF TypeInv, sessionVars, storeVars, layoutVars
  <1>1. IsOpen(c) => Version(c) # 0
    BY DEF DocumentInv, OpenState
  <1>2. EndsKept(sessionQ, sessionQ, c) /\ CleanupsKept(sessionQ, sessionQ, c)
    BY EndsAreKept
  <1>3. ASSUME UNCHANGED <<client, session, cleaning>>,
               workspace.at = "draining" => workspace'.at = "draining",
               EndsKept(sessionQ, sessionQ', c),
               CleanupsKept(sessionQ, sessionQ', c) \/ IsOpen(c)
        PROVE  SessionInv(c)'
    <2>1. SessionSame(c)
      BY <1>3 DEF SessionSame, HasSession
    <2> QED
      BY <1>1, <1>3, <2>1, SessionStays DEF IsOpen, Version
  <1>4. ASSUME UNCHANGED <<client, session, cleaning, sessionQ>>,
               workspace.at = "draining" => workspace'.at = "draining"
        PROVE  SessionInv(c)'
    BY <1>2, <1>3, <1>4
  <1>5. ASSUME UNCHANGED <<client, session, cleaning, workspace>>,
               NEW d \in Docs, NEW u \in Updates, NEW v \in Versions, d = c => IsOpen(c),
               sessionQ' = Append(sessionQ, Entry(u, d, v))
        PROVE  SessionInv(c)'
    <2>1. EndsKept(sessionQ, sessionQ', c) /\ (CleanupsKept(sessionQ, sessionQ', c) \/ IsOpen(c))
      BY <1>5, SessionQueues
    <2> QED
      BY <1>3, <1>5, <2>1
  <1>6. ASSUME InitializeWorkspace  PROVE SessionInv(c)'
    BY <1>4, <1>6 DEF InitializeWorkspace
  <1>7. ASSUME NEW d \in Docs, NEW v \in Versions, ResumeOpened(d, v)  PROVE SessionInv(c)'
    <2>1. d = c => IsOpen(c)
      <3>1. Takes(waiting, Entry("open", d, v), Tail(waiting))
        BY <1>7, QueueSteps DEF ResumeOpened, Resumes
      <3> QED
        BY <3>1, VersionFacts DEF Takes, Stores
    <2> QED
      BY <1>5, <1>7, <2>1 DEF ResumeOpened, Updates
  <1>8. ASSUME NEW d \in Docs, NEW v \in Versions, ResumeChanged(d, v)  PROVE SessionInv(c)'
    BY <1>4, <1>8 DEF ResumeChanged
  <1>9. ASSUME NEW d \in Docs, ResumeSaved(d)  PROVE SessionInv(c)'
    BY <1>4, <1>9 DEF ResumeSaved
  <1>10. ASSUME NEW kind \in FileEvents, ResumeWatchedFiles(kind)  PROVE SessionInv(c)'
    BY <1>4, <1>10 DEF ResumeWatchedFiles
  <1>11. ASSUME NEW d \in Docs, NEW v \in Versions, StoreOpened(d, v) \/ StoreChanged(d, v)
         PROVE  SessionInv(c)'
    BY <1>4, <1>11 DEF StoreOpened, StoreChanged
  <1>12. ASSUME NEW d \in Docs, RemoveDocument(d)  PROVE SessionInv(c)'
    BY <1>4, <1>12 DEF RemoveDocument
  <1>13. ASSUME NEW d \in Docs, NEW h \in Readers, DocRuns(Entry(h, d, 0)), documents[d] # 0
         PROVE  documents[d] \in Versions /\ (d = c => IsOpen(c))
    BY <1>13, VersionTypes, ReadersFindNothing
  <1>14. ASSUME NEW d \in Docs, GetSaved(d)  PROVE SessionInv(c)'
    <2>1. CASE documents[d] = 0
      BY <1>4, <1>14, <2>1 DEF GetSaved
    <2>2. CASE documents[d] # 0
      <3>1. documents[d] \in Versions /\ (d = c => IsOpen(c))
        BY <1>13, <1>14, <2>2 DEF GetSaved, Readers
      <3> QED
        BY <1>5, <1>14, <2>2, <3>1 DEF GetSaved, Updates
    <2> QED
      BY <2>1, <2>2
  <1>15. ASSUME NEW d \in Docs, GetForRebuild(d)  PROVE SessionInv(c)'
    <2>1. CASE documents[d] = 0
      BY <1>4, <1>15, <2>1 DEF GetForRebuild
    <2>2. CASE documents[d] # 0
      <3>1. documents[d] \in Versions /\ (d = c => IsOpen(c))
        BY <1>13, <1>15, <2>2 DEF GetForRebuild, Readers
      <3> QED
        BY <1>5, <1>15, <2>2, <3>1 DEF GetForRebuild, Updates
    <2> QED
      BY <2>1, <2>2
  <1>16. ASSUME NEW e, DocRuns(e), e[1] \in VisitSteps  PROVE workspace.at # "draining"
    BY <1>16, TailTokens DEF DocRuns, QueueTypes, TokenInv
  <1>17. ASSUME NEW d \in Docs, GetVisited(d)  PROVE SessionInv(c)'
    <2>1. workspace.at # "draining"
      BY <1>16, <1>17 DEF GetVisited, Entry, VisitSteps
    <2>2. CASE documents[d] = 0
      BY <1>4, <1>17, <2>1, <2>2 DEF GetVisited
    <2>3. CASE documents[d] # 0
      <3>1. documents[d] \in Versions /\ (d = c => IsOpen(c))
        BY <1>13, <1>17, <2>3 DEF GetVisited, Readers
      <3> QED
        BY <1>5, <1>17, <2>3, <3>1 DEF GetVisited, Updates
    <2> QED
      BY <2>2, <2>3
  <1>18. ASSUME GetAllUris  PROVE SessionInv(c)'
    <2>1. workspace.at # "draining"
      BY <1>16, <1>18 DEF GetAllUris, Workspace, VisitSteps
    <2> QED
      BY <1>4, <1>18, <2>1 DEF GetAllUris
  <1> QED
    BY <1>6, <1>7, <1>8, <1>9, <1>10, <1>11, <1>12, <1>14, <1>15, <1>17, <1>18
    DEF Resume, DocTurn

\* The session strand.
LEMMA SessionTurnKeepsSession ==
    ASSUME TypeInv, NEW c \in Docs, VersionsOf(c), DocumentInv(c), SessionInv(c), SessionTurn
    PROVE  SessionInv(c)'
  <1> USE DEF TypeInv, sessionVars, storeVars, layoutVars
  <1>1. IsOpen(c) => Version(c) # 0
    BY DEF DocumentInv, OpenState
  <1>2. session \in [Docs -> [version : 0 .. MaxVersion, preamble : 0 .. layout, built : BOOLEAN]]
    BY DEF LayoutTypes
  <1>3. ASSUME NEW e, SessionRuns(e), NoEnd(e, c), sessionQ' = Tail(sessionQ), UNCHANGED client,
               SessionSame(c) \/ (session'[c] = NoSession /\ (c \in cleaning' => c \in cleaning))
        PROVE  SessionInv(c)'
    <2>1. EndsKept(sessionQ, sessionQ', c) /\ CleanupsKept(sessionQ, sessionQ', c)
      BY <1>3, SessionQueues
    <2> QED
      BY <1>1, <1>3, <2>1, SessionStays DEF IsOpen, Version
  <1>4. ASSUME NEW d \in Docs, NEW v \in Versions, NEW u \in Updates,
               SessionRuns(Entry(u, d, v)), sessionQ' = Tail(sessionQ), UpdateSession(d, v),
               workspace.at = "draining" => workspace'.at = "draining", UNCHANGED client
        PROVE  SessionInv(c)'
    <2> DEFINE e == Entry(u, d, v)
    <2>1. NoEnd(e, c)
      BY EndsAndUpdates DEF Updates, Ends
    <2>2. CASE d # c
      <3>1. SessionSame(c)
        BY <1>2, <1>4, <2>2 DEF SessionSame, UpdateSession, HasSession
      <3> QED
        BY <1>3, <1>4, <2>1, <3>1
    <2>3. CASE d = c
      <3>1. Takes(sessionQ, e, sessionQ')
        BY <1>4, SessionQueues
      <3>2. session'[c].version = v /\ cleaning' = cleaning \ {c}
        BY <1>2, <1>4, <2>3 DEF UpdateSession
      <3>3. ASSUME IsOpen(c)  PROVE OpenSession(c)'
        <4>1. OpenSession(c)
          BY <3>3 DEF SessionInv
        <4>2. ASSUME v = Version(c), NEW h \in Ends  PROVE ~Contains(sessionQ', Entry(h, c, 0))
          BY <2>3, <3>1, <4>1, <4>2 DEF Takes, OpenSession
        <4>3. \A h \in Ends, w \in Updates :
                 Ahead(sessionQ', Entry(h, c, 0), Entry(w, c, Version(c)))
          BY <3>1, <4>1 DEF Takes, OpenSession
        <4> QED
          BY <1>4, <3>2, <4>2, <4>3 DEF OpenSession, Version
      <3>4. ASSUME ~IsOpen(c)  PROVE ClosedSession(c)'
        <4>1. ClosedSession(c)
          BY <3>4 DEF SessionInv
        <4>2. Contains(sessionQ', Entry("cleanup", c, 0))
          BY <2>3, <3>1, <4>1 DEF Takes, ClosedSession
        <4>3. \A w \in Updates, x \in Versions :
                 Follows(sessionQ', Entry(w, c, x), Entry("cleanup", c, 0))
          BY <3>1, <4>1 DEF Takes, ClosedSession
        <4> QED
          BY <4>2, <4>3 DEF ClosedSession
      <3> QED
        BY <1>4, <3>3, <3>4 DEF SessionInv, IsOpen
    <2> QED
      BY <2>2, <2>3
  <1>5. ASSUME NEW d \in Docs, NEW v \in Versions, UpdateTurn(d, v) \/ RebuildTurn(d, v)
        PROVE  SessionInv(c)'
    BY <1>4, <1>5 DEF UpdateTurn, RebuildTurn, Updates
  <1>6. ASSUME NEW d \in Docs, NEW v \in Versions, VisitTurn(d, v)  PROVE SessionInv(c)'
    <2>1. workspace.at # "draining"
      BY <1>6, TailTokens DEF VisitTurn, SessionRuns, Entry, VisitSteps, QueueTypes, TokenInv
    <2> QED
      BY <1>4, <1>6, <2>1 DEF VisitTurn, Updates
  <1>7. ASSUME NEW d \in Docs, CancelTurn(d)  PROVE SessionInv(c)'
    <2>1. Takes(sessionQ, Entry("cancel", d, 0), sessionQ')
      BY <1>7, SessionQueues DEF CancelTurn
    <2>2. UNCHANGED <<client, cleaning, workspace>>
      BY <1>7 DEF CancelTurn
    <2>3. SessionSame(c) \/ session'[c] = NoSession
      BY <1>2, <1>7, <2>2 DEF CancelTurn, SessionSame, HasSession
    <2>4. CASE d # c
      <3>1. NoEnd(Entry("cancel", d, 0), c)
        BY <2>4, EndsAndUpdates
      <3> QED
        BY <1>3, <1>7, <2>2, <2>3, <3>1 DEF CancelTurn
    <2>5. CASE d = c /\ IsOpen(c)
      <3>1. OpenSession(c)
        BY <2>5 DEF SessionInv
      <3>2. session'[c].version # Version(c)
        BY <1>1, <2>1, <2>3, <2>5, <3>1 DEF Takes, OpenSession, SessionSame, NoSession, Ends
      <3>3. \A h \in Ends, u \in Updates :
               Ahead(sessionQ', Entry(h, c, 0), Entry(u, c, Version(c)))
        BY <2>1, <3>1 DEF Takes, OpenSession
      <3>4. OpenSession(c)'
        BY <2>2, <3>2, <3>3 DEF OpenSession, Version
      <3> QED
        BY <2>2, <2>5, <3>4 DEF SessionInv, IsOpen
    <2>6. CASE d = c /\ ~IsOpen(c)
      <3>1. ClosedSession(c)
        BY <2>6 DEF SessionInv
      <3>2. HasSession(c)' => HasSession(c)
        BY <2>3 DEF SessionSame, HasSession
      <3>3. Contains(sessionQ, Entry("cleanup", c, 0)) => Contains(sessionQ', Entry("cleanup", c, 0))
        BY <2>1, EntryIs DEF Takes
      <3>4. ClosedSession(c)'
        BY <2>1, <2>2, <3>1, <3>2, <3>3 DEF ClosedSession, Takes
      <3> QED
        BY <2>2, <2>6, <3>4 DEF SessionInv, IsOpen
    <2> QED
      BY <2>4, <2>5, <2>6
  <1>8. ASSUME NEW d \in Docs, CleanupTurn(d)  PROVE SessionInv(c)'
    <2>1. Takes(sessionQ, Entry("cleanup", d, 0), sessionQ')
      BY <1>8, SessionQueues DEF CleanupTurn
    <2>2. UNCHANGED <<client, session, workspace>> /\ cleaning' = cleaning \cup {d}
      BY <1>8 DEF CleanupTurn
    <2>3. CASE d # c
      <3>1. NoEnd(Entry("cleanup", d, 0), c)
        BY <2>3, EndsAndUpdates
      <3>2. SessionSame(c)
        BY <2>2, <2>3 DEF SessionSame, HasSession
      <3> QED
        BY <1>3, <1>8, <2>2, <3>1, <3>2 DEF CleanupTurn
    <2>4. CASE d = c /\ IsOpen(c)
      <3>1. OpenSession(c)
        BY <2>4 DEF SessionInv
      <3>2. session[c].version # Version(c)
        BY <2>1, <2>4, <3>1 DEF Takes, OpenSession, Ends
      <3>3. \A h \in Ends, u \in Updates :
               Ahead(sessionQ', Entry(h, c, 0), Entry(u, c, Version(c)))
        BY <2>1, <3>1 DEF Takes, OpenSession
      <3>4. OpenSession(c)'
        BY <2>2, <3>2, <3>3 DEF OpenSession, Version
      <3> QED
        BY <2>2, <2>4, <3>4 DEF SessionInv, IsOpen
    <2>5. CASE d = c /\ ~IsOpen(c)
      <3>1. ClosedSession(c)'
        BY <2>1, <2>2, <2>5 DEF SessionInv, ClosedSession, Takes
      <3> QED
        BY <2>2, <2>5, <3>1 DEF SessionInv, IsOpen
    <2> QED
      BY <2>3, <2>4, <2>5
  <1>9. ASSUME SwapTurn  PROVE SessionInv(c)'
    <2> DEFINE e == Workspace("invalidate")
    <2>1. /\ EndsKept(sessionQ, Tail(sessionQ), c) /\ CleanupsKept(sessionQ, Tail(sessionQ), c)
      BY <1>9, EndsAndUpdates, SessionQueues DEF SwapTurn
    <2>2. Adds(Tail(sessionQ), e, sessionQ')
      BY <1>9, StepTypes, QueueSteps DEF SwapTurn, SessionRuns
    <2>3. EndsKept(Tail(sessionQ), sessionQ', c) /\ CleanupsKept(Tail(sessionQ), sessionQ', c)
      BY <2>2, EndsAndUpdates, EndsAreKept
    <2>4. EndsKept(sessionQ, sessionQ', c) /\ CleanupsKept(sessionQ, sessionQ', c)
      BY <2>1, <2>3, EndsAreKept
    <2>5. SessionSame(c) /\ UNCHANGED client
      BY <1>9 DEF SwapTurn, SessionSame, HasSession
    <2> QED
      BY <1>1, <2>4, <2>5, SessionStays DEF IsOpen, Version
  <1>10. ASSUME InvalidateTurn  PROVE SessionInv(c)'
    <2> DEFINE e == Workspace("invalidate")
    <2>1. Takes(sessionQ, e, sessionQ') /\ UNCHANGED client
      BY <1>10, SessionQueues DEF InvalidateTurn
    <2>2. EndsKept(sessionQ, sessionQ', c) /\ CleanupsKept(sessionQ, sessionQ', c)
      BY <2>1, EndsAndUpdates, EndsAreKept
    <2>3. session'[c] \in {session[c], NoSession} /\ cleaning' = {} /\ workspace'.at = "draining"
      BY <1>10 DEF InvalidateTurn, LayoutTypes
    <2>4. ASSUME IsOpen(c)  PROVE OpenSession(c)'
      <3>1. OpenSession(c)
        BY <2>4 DEF SessionInv
      <3>2. session'[c].version = Version(c) => session[c].version = Version(c)
        BY <1>1, <2>3, <2>4 DEF NoSession
      <3> QED
        BY <2>1, <2>2, <2>3, <3>1, <3>2 DEF OpenSession, EndsKept, Version
    <2>5. ASSUME ~IsOpen(c)  PROVE ClosedSession(c)'
      BY <2>2, <2>3, <2>5 DEF SessionInv, ClosedSession, CleanupsKept
    <2> QED
      BY <2>1, <2>4, <2>5 DEF SessionInv, IsOpen
  <1> QED
    BY <1>5, <1>6, <1>7, <1>8, <1>9, <1>10 DEF SessionTurn

\* Every action.
LEMMA SessionInvStep ==
    ASSUME CleanClose, TypeInv, NEW c \in Docs, VersionsOf(c), DocumentInv(c), SessionInv(c), Next
    PROVE  SessionInv(c)'
  <1> USE DEF TypeInv, sessionVars, storeVars, layoutVars
  <1>1. IsOpen(c) => Version(c) # 0
    BY DEF DocumentInv, OpenState
  <1>2. session \in [Docs -> [version : 0 .. MaxVersion, preamble : 0 .. layout, built : BOOLEAN]]
    BY DEF LayoutTypes
  <1>3. EndsKept(sessionQ, sessionQ, c) /\ CleanupsKept(sessionQ, sessionQ, c)
    BY EndsAreKept
  <1>4. ASSUME UNCHANGED <<client, sessionQ>>,
               SessionSame(c) \/ (session'[c] = NoSession /\ (c \in cleaning' => c \in cleaning))
        PROVE  SessionInv(c)'
    BY <1>1, <1>3, <1>4, SessionStays DEF IsOpen, Version
  <1>5. ASSUME UNCHANGED <<client, sessionQ, session, cleaning>>,
               workspace.at = "draining" => workspace'.at = "draining"
        PROVE  SessionInv(c)'
    BY <1>4, <1>5 DEF SessionSame, HasSession
  <1>6. \A l : RebuildWorkspace(l) => (workspace.at = "draining" => workspace'.at = "draining")
    BY DEF RebuildWorkspace, LayoutTypes
  <1>7. ASSUME NEW kind \in {"listed", "config"}, LayoutTurn(kind)  PROVE SessionInv(c)'
    BY <1>5, <1>6, <1>7 DEF LayoutTurn
  <1>8. ASSUME WorkspaceTimerExpires \/ WorkspaceTimerCallback  PROVE SessionInv(c)'
    BY <1>5, <1>6, <1>8 DEF WorkspaceTimerExpires, WorkspaceTimerCallback
  <1>9. ASSUME NEW d \in Docs, TimerExpires(d) \/ TimerCallback(d)  PROVE SessionInv(c)'
    BY <1>5, <1>9 DEF TimerExpires, TimerCallback
  <1>10. ASSUME NEW d \in Docs, CleanupExpires(d)  PROVE SessionInv(c)'
    <2>1. CASE d = c
      BY <1>2, <1>4, <1>10, <2>1 DEF CleanupExpires
    <2>2. CASE d # c
      BY <1>2, <1>4, <1>10, <2>2 DEF CleanupExpires, SessionSame, HasSession
    <2> QED
      BY <2>1, <2>2
  <1>11. ASSUME NEW d \in Docs, SessionBuilt(d)  PROVE SessionInv(c)'
    <2>1. session'[c].version = session[c].version /\ (HasSession(c)' => HasSession(c))
      BY <1>2, <1>11 DEF SessionBuilt, HasSession
    <2> QED
      BY <1>4, <1>11, <2>1 DEF SessionBuilt, SessionSame
  <1>12. ASSUME PreambleBuilt  PROVE SessionInv(c)'
    <2>1. EndsKept(sessionQ, sessionQ', c) /\ CleanupsKept(sessionQ, sessionQ', c)
      BY <1>12, SessionQueues DEF PreambleBuilt
    <2>2. SessionSame(c) /\ UNCHANGED client
      BY <1>12 DEF PreambleBuilt, SessionSame, HasSession
    <2> QED
      BY <1>1, <2>1, <2>2, SessionStays DEF IsOpen, Version
  <1>13. ASSUME SessionsDrained  PROVE SessionInv(c)'
    BY <1>4, <1>13 DEF SessionsDrained
  <1> QED
    BY <1>7, <1>8, <1>9, <1>10, <1>11, <1>12, <1>13, ClientKeepsSession, DocumentsKeepSession,
       SessionTurnKeepsSession
    DEF Next, RebuildStep

\* The state and the session of every document, on top of their versions.
CloseInv(c) == VersionsOf(c) /\ DocumentInv(c) /\ SessionInv(c)

\* Every reachable state.
LEMMA CloseInvHolds ==
    ASSUME CleanClose
    PROVE  Spec => [](TypeInv /\ \A d \in Docs : CloseInv(d))
  <1> DEFINE Ordered == TypeInv /\ \A d \in Docs : VersionsOf(d)
             Inv == \A d \in Docs : DocumentInv(d) /\ SessionInv(d)
  <1>1. Init => Inv
    <2> SUFFICES ASSUME Init, NEW d \in Docs  PROVE DocumentInv(d) /\ SessionInv(d)
      OBVIOUS
    <2>1. \A x : ~Contains(docQ, x) /\ ~Contains(sessionQ, x)
      BY DEF Init, Contains
    <2>2. ~IsOpen(d) /\ documents[d] = 0 /\ ~HasSession(d)
      BY DEF Init, IsOpen, HasSession
    <2> QED
      BY <2>1, <2>2, OrderOfNone DEF DocumentInv, ClosedState, SessionInv, ClosedSession
  <1>2. Ordered /\ Inv /\ [Next]_vars => Inv'
    <2> SUFFICES ASSUME Ordered, Inv, [Next]_vars, NEW d \in Docs
                 PROVE  DocumentInv(d)' /\ SessionInv(d)'
      OBVIOUS
    <2>1. CASE Next
      BY <2>1, DocumentInvStep, SessionInvStep
    <2>2. CASE UNCHANGED vars
      BY <2>2 DEF vars, DocumentInv, OpenState, ClosedState, SessionInv, OpenSession, ClosedSession,
                  Coming, Carries, IsOpen, Version, HasSession
    <2> QED
      BY <2>1, <2>2
  <1>3. Ordered /\ Inv => TypeInv /\ \A d \in Docs : CloseInv(d)
    BY DEF CloseInv
  <1>4. Spec => []Ordered
    BY VersionsHold
  <1> HIDE DEF Ordered, Inv
  <1> QED
    BY <1>1, <1>2, <1>3, <1>4, PTL DEF Spec

\* ClosedIsLeaving, for a client that closes a document only with nothing of it
\* on the way: whatever the handlers of other documents, the rebuilds and the
\* timers do, the removal and the cleanup of a closed document are still to come.
THEOREM ClosedLeaves ==
    ASSUME CleanClose
    PROVE  Spec => []ClosedIsLeaving
  <1>1. (\A d \in Docs : CloseInv(d)) => ClosedIsLeaving
    BY DEF CloseInv, ClosedIsLeaving, DocumentInv, ClosedState, SessionInv, ClosedSession
  <1> QED
    BY <1>1, CloseInvHolds, PTL

-----------------------------------------------------------------------------
\* The last version of an open document: where it is on its way to the session.

Due(c) ==
    \/ session[c].version = Version(c)
    \/ Carries(sessionQ, Updates, c, Version(c))
    \/ Carries(docQ, Stores, c, Version(c))
    \/ Carries(waiting, Stores, c, Version(c))
    \/ documents[c] = Version(c) /\ ReadDue(c)

DueInv(c) == IsOpen(c) => Due(c)

\* A queue that still holds the entries of c, and those of the workspace.
Kept(q, r, c) ==
    /\ \A hs : \A v : Carries(q, hs, c, v) => Carries(r, hs, c, v)
    /\ Contains(q, Workspace("uris")) => Contains(r, Workspace("uris"))

\* Adding an entry keeps them; taking one keeps the others.
LEMMA CarriesFacts ==
    ASSUME NEW c
    PROVE  /\ \A q : Kept(q, q, c)
           /\ \A q, r, t : Kept(q, r, c) /\ Kept(r, t, c) => Kept(q, t, c)
           /\ \A q, e, r : Adds(q, e, r) => Kept(q, r, c)
           /\ \A q, e, r, hs, h, v : Adds(q, e, r) /\ h \in hs /\ e = Entry(h, c, v)
                 => Carries(r, hs, c, v)
           /\ \A q, r, h, d, v : d # c /\ Takes(q, Entry(h, d, v), r) => Kept(q, r, c)
           /\ \A q, r, step : step # "uris" /\ Takes(q, Workspace(step), r) => Kept(q, r, c)
           /\ \A q, r, h, d, u, hs, v : /\ Takes(q, Entry(h, d, u), r)
                                        /\ h \notin hs \/ u # v \/ d # c
                                        /\ Carries(q, hs, c, v)
                 => Carries(r, hs, c, v)
           /\ \A q, r, h, d, u, step : Takes(q, Entry(h, d, u), r) /\ Contains(q, Workspace(step))
                 => Contains(r, Workspace(step))
           /\ \A q, r, step, hs, v : Takes(q, Workspace(step), r) /\ Carries(q, hs, c, v)
                 => Carries(r, hs, c, v)
  <1>1. \A q, e, r, x : Adds(q, e, r) /\ Contains(q, x) => Contains(r, x)
    BY DEF Adds
  <1>2. \A q, e, r : Adds(q, e, r) => Contains(r, e)
    BY DEF Adds
  <1>3. \A q, e, r, x : Takes(q, e, r) /\ x # e /\ Contains(q, x) => Contains(r, x)
    BY DEF Takes
  <1>4. \A q : Kept(q, q, c)
    BY DEF Kept
  <1>5. \A q, r, t : Kept(q, r, c) /\ Kept(r, t, c) => Kept(q, t, c)
    BY DEF Kept
  <1>6. \A q, e, r : Adds(q, e, r) => Kept(q, r, c)
    BY <1>1 DEF Kept, Carries
  <1>7. \A q, e, r, hs, h, v : Adds(q, e, r) /\ h \in hs /\ e = Entry(h, c, v)
           => Carries(r, hs, c, v)
    BY <1>2 DEF Carries
  <1>8. \A q, r, h, d, u, hs, v : /\ Takes(q, Entry(h, d, u), r)
                                  /\ h \notin hs \/ u # v \/ d # c
                                  /\ Carries(q, hs, c, v)
           => Carries(r, hs, c, v)
    BY <1>3, EntryIs DEF Carries
  <1>9. \A q, r, h, d, u, step : Takes(q, Entry(h, d, u), r) /\ Contains(q, Workspace(step))
           => Contains(r, Workspace(step))
    BY <1>3, EntryIs
  <1>10. \A q, r, step, hs, v : Takes(q, Workspace(step), r) /\ Carries(q, hs, c, v)
           => Carries(r, hs, c, v)
    BY <1>3, EntryIs DEF Carries
  <1>11. \A q, r, h, d, v : d # c /\ Takes(q, Entry(h, d, v), r) => Kept(q, r, c)
    BY <1>8, <1>9 DEF Kept
  <1>12. \A q, r, step : step # "uris" /\ Takes(q, Workspace(step), r) => Kept(q, r, c)
    BY <1>3, <1>10, EntryIs DEF Kept
  <1> QED
    BY <1>4, <1>5, <1>6, <1>7, <1>8, <1>9, <1>10, <1>11, <1>12

\* The timers, the mark and the workspace rebuild still lead to a read of c.
TimersKept(c) == c \in armed \cup due => c \in armed' \cup due'
MarkKept(c) == rebuildState[c] = "pendingNext" => rebuildState'[c] = "pendingNext"
WorkspaceKept(c) ==
    /\ workspace.at \in {"building", "swapping", "draining"}
          => workspace'.at \in {"building", "swapping", "draining"}
    /\ c \in workspace.todo => c \in workspace'.todo

\* A step that leaves all of them as they are.
LEMMA ReadStays ==
    ASSUME NEW c, ReadDue(c), TimersKept(c), MarkKept(c), WorkspaceKept(c),
           Carries(docQ, Readers, c, 0) => Carries(docQ', Readers, c, 0),
           Contains(docQ, Workspace("uris")) => Contains(docQ', Workspace("uris"))
    PROVE  ReadDue(c)'
  <1>1. Carries(docQ, Readers, c, 0) <=> Carries(docQ, {"save", "rebuild", "get"}, c, 0)
    BY DEF Readers
  <1>2. Carries(docQ', Readers, c, 0) <=> Carries(docQ', {"save", "rebuild", "get"}, c, 0)
    BY DEF Readers
  <1> QED
    BY <1>1, <1>2 DEF ReadDue, TimersKept, MarkKept, WorkspaceKept, Carries

\* A step that leaves the versions of c where they are.
LEMMA DueStays ==
    ASSUME NEW c, DueInv(c), IsOpen(c)' => IsOpen(c), Version(c)' = Version(c),
           session[c].version = Version(c) => session'[c].version = Version(c),
           Carries(sessionQ, Updates, c, Version(c)) => Carries(sessionQ', Updates, c, Version(c)),
           Carries(docQ, Stores, c, Version(c)) => Carries(docQ', Stores, c, Version(c)),
           Carries(waiting, Stores, c, Version(c)) => Carries(waiting', Stores, c, Version(c)),
           documents'[c] = documents[c],
           IsOpen(c) /\ documents[c] = Version(c) /\ ReadDue(c) => Due(c)'
    PROVE  DueInv(c)'
  <1> SUFFICES ASSUME IsOpen(c)  PROVE Due(c)'
    BY DEF DueInv
  <1>1. CASE session[c].version = Version(c)
    BY <1>1 DEF Due
  <1>2. CASE Carries(sessionQ, Updates, c, Version(c))
    BY <1>2 DEF Due, Carries
  <1>3. CASE Carries(docQ, Stores, c, Version(c))
    BY <1>3 DEF Due, Carries
  <1>4. CASE Carries(waiting, Stores, c, Version(c))
    BY <1>4 DEF Due, Carries
  <1> QED
    BY <1>1, <1>2, <1>3, <1>4 DEF DueInv, Due

\* The loop over the open documents has read c, or comes to it.
LEMMA VisitReads ==
    ASSUME LayoutTypes, QueueTypes, NEW c \in Docs, NEW q \in Seq(DocEntries),
           NEW todo \in SUBSET Docs, Visit(todo, q), ReadDue(c), workspace.at = "visiting",
           UNCHANGED rebuildVars,
           Carries(docQ, Readers, c, 0) => Carries(q, Readers, c, 0),
           \/ Contains(docQ, Workspace("uris")) => Contains(q, Workspace("uris"))
           \/ c \in todo,
           c \in workspace.todo => c \in todo
    PROVE  ReadDue(c)'
  <1>1. CASE \E d \in todo : /\ workspace' = [workspace EXCEPT !.todo = todo \ {d}]
                             /\ docQ' = Append(q, Entry("get", d, 0))
    <2>1. PICK d \in todo : /\ workspace' = [workspace EXCEPT !.todo = todo \ {d}]
                            /\ docQ' = Append(q, Entry("get", d, 0))
      BY <1>1
    <2>2. Adds(q, Entry("get", d, 0), docQ')
      BY <2>1, EntryTypes, QueueAdds
    <2>3. Kept(q, docQ', c)
      BY <2>2, CarriesFacts
    <2>4. c \in workspace'.todo \/ d = c \/ c \notin todo
      BY <2>1 DEF LayoutTypes
    <2>5. d = c => ReadDue(c)'
      BY <2>2 DEF Adds, ReadDue, Carries
    <2>6. c \in workspace'.todo => ReadDue(c)'
      BY DEF ReadDue
    <2>7. CASE c \notin todo
      <3>1. TimersKept(c) /\ MarkKept(c) /\ WorkspaceKept(c)
        BY <2>7 DEF rebuildVars, TimersKept, MarkKept, WorkspaceKept
      <3> QED
        BY <2>3, <2>7, <3>1, ReadStays DEF Kept
    <2> QED
      BY <2>4, <2>5, <2>6, <2>7
  <1>2. CASE todo = {} /\ docQ' = q
    <2>1. TimersKept(c) /\ MarkKept(c) /\ WorkspaceKept(c)
      BY <1>2 DEF rebuildVars, TimersKept, MarkKept, WorkspaceKept
    <2> QED
      BY <1>2, <2>1, ReadStays
  <1> QED
    BY <1>1, <1>2 DEF Visit

\* The turns of the handlers that leave the versions of c alone.
LEMMA DueQueues ==
    ASSUME QueueTypes, DocumentTypes, NEW c \in Docs
    PROVE  /\ \A e \in WaitEntries : Kept(waiting, Append(waiting, e), c)
           /\ \A e \in DocEntries : Kept(docQ, Append(docQ, e), c)
           /\ \A e \in SessionEntries : Kept(sessionQ, Append(sessionQ, e), c)
           /\ \A d \in Docs : Kept(sessionQ, sessionQ \o CloseTurns(d), c)
           /\ \A e : Resumes(e) => Takes(waiting, e, waiting')
           /\ \A e : DocRuns(e) => Takes(docQ, e, Tail(docQ))
           /\ \A e : SessionRuns(e) => Takes(sessionQ, e, Tail(sessionQ))
  <1>1. /\ \A e \in WaitEntries : Kept(waiting, Append(waiting, e), c)
        /\ \A e \in DocEntries : Kept(docQ, Append(docQ, e), c)
        /\ \A e \in SessionEntries : Kept(sessionQ, Append(sessionQ, e), c)
    BY QueueSteps, CarriesFacts
  <1>2. ASSUME NEW d \in Docs  PROVE Kept(sessionQ, sessionQ \o CloseTurns(d), c)
    <2>1. PICK q : /\ Adds(sessionQ, Entry("cancel", d, 0), q)
                   /\ Adds(q, Entry("cleanup", d, 0), sessionQ \o CloseTurns(d))
      BY CloseAdds
    <2> QED
      BY <2>1, CarriesFacts
  <1>3. \A e : Resumes(e) => Takes(waiting, e, waiting')
    BY QueueSteps DEF Resumes
  <1>4. \A e : DocRuns(e) => Takes(docQ, e, Tail(docQ))
    BY QueueSteps DEF DocRuns
  <1>5. \A e : SessionRuns(e) => Takes(sessionQ, e, Tail(sessionQ))
    BY QueueSteps DEF SessionRuns
  <1> QED
    BY <1>1, <1>2, <1>3, <1>4, <1>5

\* The messages of the client.
LEMMA ClientKeepsDue ==
    ASSUME TypeInv, NEW c \in Docs, DueInv(c), Client
    PROVE  DueInv(c)'
  <1> USE DEF TypeInv
  <1>1. client \in [Docs -> [open : BOOLEAN, version : 0 .. MaxVersion, saves : 0 .. MaxSaves]]
    BY DEF DocumentTypes
  <1>2. Kept(sessionQ, sessionQ, c) /\ Kept(waiting, waiting, c) /\ Kept(docQ, docQ, c)
    BY CarriesFacts
  <1>3. ASSUME UNCHANGED <<session, documents, due, rebuildState, workspace>>,
               c \in armed => c \in armed',
               Kept(sessionQ, sessionQ', c), Kept(waiting, waiting', c), Kept(docQ, docQ', c),
               IsOpen(c)' => IsOpen(c), Version(c)' = Version(c)
        PROVE  DueInv(c)'
    <2>1. IsOpen(c) /\ documents[c] = Version(c) /\ ReadDue(c) => Due(c)'
      <3>1. ASSUME rebuildState'[c] = rebuildState[c], ReadDue(c)  PROVE ReadDue(c)'
        <4>1. TimersKept(c) /\ MarkKept(c) /\ WorkspaceKept(c)
          BY <1>3, <3>1 DEF TimersKept, MarkKept, WorkspaceKept
        <4> QED
          BY <1>3, <3>1, <4>1, ReadStays DEF Kept
      <3> QED
        BY <1>3, <3>1 DEF Due
    <2> QED
      BY <1>3, <2>1, DueStays DEF Kept
  <1>4. ASSUME NEW d \in Docs, DidOpen(d)  PROVE DueInv(c)'
    <2>1. Version(d) + 1 \in Versions
      BY <1>4, VersionTypes DEF DidOpen
    <2>2. Adds(docQ, Entry("open", d, Version(d) + 1), docQ')
      BY <1>4, <2>1, EntryTypes, QueueSteps DEF DidOpen
    <2>3. CASE d = c
      <3>1. Version(c)' = Version(c) + 1
        BY <1>1, <1>4, <2>3 DEF DidOpen, Version
      <3>2. Contains(docQ', Entry("open", c, Version(c)'))
        BY <2>2, <2>3, <3>1 DEF Adds
      <3> QED
        BY <3>2 DEF DueInv, Due, Carries, Stores
    <2>4. CASE d # c
      <3>1. Kept(docQ, docQ', c)
        BY <2>2, CarriesFacts
      <3>2. IsOpen(c)' = IsOpen(c) /\ Version(c)' = Version(c)
        BY <1>1, <1>4, <2>4 DEF DidOpen, IsOpen, Version
      <3>3. UNCHANGED <<session, documents, due, rebuildState, workspace, armed, sessionQ, waiting>>
        BY <1>4 DEF DidOpen, eventVars, rebuildVars, sessionVars, layoutVars
      <3> QED
        BY <1>2, <1>3, <3>1, <3>2, <3>3
    <2> QED
      BY <2>3, <2>4
  <1>5. ASSUME NEW d \in Docs, DidChange(d)  PROVE DueInv(c)'
    <2>1. Version(d) + 1 \in Versions
      BY <1>5, VersionTypes DEF DidChange
    <2>2. Adds(waiting, Entry("change", d, Version(d) + 1), waiting')
      BY <1>5, <2>1, EntryTypes, QueueSteps DEF DidChange
    <2>3. CASE d = c
      <3>1. Version(c)' = Version(c) + 1
        BY <1>1, <1>5, <2>3 DEF DidChange, Version
      <3>2. Contains(waiting', Entry("change", c, Version(c)'))
        BY <2>2, <2>3, <3>1 DEF Adds
      <3> QED
        BY <3>2 DEF DueInv, Due, Carries, Stores
    <2>4. CASE d # c
      <3>1. Kept(waiting, waiting', c)
        BY <2>2, CarriesFacts
      <3>2. IsOpen(c)' = IsOpen(c) /\ Version(c)' = Version(c)
        BY <1>1, <1>5, <2>4 DEF DidChange, IsOpen, Version
      <3>3. UNCHANGED <<session, documents, due, rebuildState, workspace, armed, sessionQ, docQ>>
        BY <1>5 DEF DidChange, docVars, rebuildVars, sessionVars, layoutVars
      <3> QED
        BY <1>2, <1>3, <3>1, <3>2, <3>3
    <2> QED
      BY <2>3, <2>4
  <1>6. ASSUME NEW d \in Docs, DidSave(d)  PROVE DueInv(c)'
    <2>1. Kept(waiting, waiting', c)
      BY <1>6, EntryTypes, DueQueues DEF DidSave
    <2>2. IsOpen(c)' = IsOpen(c) /\ Version(c)' = Version(c)
      BY <1>1, <1>6 DEF DidSave, IsOpen, Version
    <2>3. UNCHANGED <<session, documents, due, rebuildState, workspace, armed, sessionQ, docQ>>
      BY <1>6 DEF DidSave, docVars, rebuildVars, sessionVars, layoutVars
    <2> QED
      BY <1>2, <1>3, <2>1, <2>2, <2>3
  <1>7. ASSUME NEW d \in Docs, DidClose(d)  PROVE DueInv(c)'
    <2>1. CASE d = c
      <3>1. ~IsOpen(c)'
        BY <1>1, <1>7, <2>1 DEF DidClose, IsOpen
      <3> QED
        BY <3>1 DEF DueInv
    <2>2. CASE d # c
      <3>1. Kept(docQ, docQ', c) /\ Kept(sessionQ, sessionQ', c)
        BY <1>2, <1>7, EntryTypes, DueQueues DEF DidClose
      <3>2. IsOpen(c)' = IsOpen(c) /\ Version(c)' = Version(c)
        BY <1>1, <1>7, <2>2 DEF DidClose, IsOpen, Version
      <3>3. UNCHANGED <<session, documents, due, workspace, waiting>>
        BY <1>7 DEF DidClose, eventVars, storeVars, layoutVars
      <3>4. (c \in armed => c \in armed') /\ rebuildState'[c] = rebuildState[c]
        BY <1>7, <2>2 DEF DidClose, DocumentTypes
      <3>5. ReadDue(c) => ReadDue(c)'
        <4>1. TimersKept(c) /\ MarkKept(c) /\ WorkspaceKept(c)
          BY <3>3, <3>4 DEF TimersKept, MarkKept, WorkspaceKept
        <4> QED
          BY <3>1, <4>1, ReadStays DEF Kept
      <3>6. IsOpen(c) /\ documents[c] = Version(c) /\ ReadDue(c) => Due(c)'
        BY <3>2, <3>3, <3>5 DEF Due
      <3> QED
        BY <1>2, <3>1, <3>2, <3>3, <3>6, DueStays DEF Kept
    <2> QED
      BY <2>1, <2>2
  <1>8. ASSUME NEW kind \in FileEvents, DidChangeWatchedFiles(kind)  PROVE DueInv(c)'
    <2>1. Kept(waiting, waiting', c)
      BY <1>8, StepTypes, DueQueues DEF DidChangeWatchedFiles
    <2>2. UNCHANGED <<client, session, documents, due, rebuildState, workspace, armed, sessionQ, docQ>>
      BY <1>8 DEF DidChangeWatchedFiles, docVars, rebuildVars, sessionVars, layoutVars
    <2> QED
      BY <1>2, <1>3, <2>1, <2>2 DEF IsOpen, Version
  <1> QED
    BY <1>4, <1>5, <1>6, <1>7, <1>8 DEF Client

\* The waiters of workspace_ready_.
LEMMA ResumeKeepsDue ==
    ASSUME TypeInv, NEW c \in Docs, VersionsOf(c), DueInv(c), InitializeWorkspace \/ Resume
    PROVE  DueInv(c)'
  <1> USE DEF TypeInv
  <1>1. Kept(sessionQ, sessionQ, c) /\ Kept(waiting, waiting, c) /\ Kept(docQ, docQ, c)
    BY CarriesFacts
  <1>2. ASSUME UNCHANGED <<client, session, documents, due, rebuildState, workspace>>,
               c \in armed => c \in armed' \/ Carries(docQ', Readers, c, 0),
               Carries(waiting, Stores, c, Version(c)) => Carries(waiting', Stores, c, Version(c)),
               Kept(sessionQ, sessionQ', c), Kept(docQ, docQ', c)
        PROVE  DueInv(c)'
    <2>1. ASSUME ReadDue(c)  PROVE ReadDue(c)'
      <3>1. CASE Carries(docQ', Readers, c, 0)
        BY <3>1 DEF ReadDue, Readers, Carries
      <3>2. CASE c \in armed => c \in armed'
        <4>1. TimersKept(c) /\ MarkKept(c) /\ WorkspaceKept(c)
          BY <1>2, <3>2 DEF TimersKept, MarkKept, WorkspaceKept
        <4> QED
          BY <1>2, <2>1, <4>1, ReadStays DEF Kept
      <3> QED
        BY <1>2, <3>1, <3>2
    <2>2. IsOpen(c)' = IsOpen(c) /\ Version(c)' = Version(c)
      BY <1>2 DEF IsOpen, Version
    <2>3. IsOpen(c) /\ documents[c] = Version(c) /\ ReadDue(c) => Due(c)'
      BY <1>2, <2>1, <2>2 DEF Due
    <2> QED
      BY <1>2, <2>2, <2>3, DueStays DEF Kept
  <1>3. ASSUME InitializeWorkspace  PROVE DueInv(c)'
    <2>1. UNCHANGED <<client, session, documents, due, rebuildState, workspace, armed, sessionQ,
                      docQ, waiting>>
      BY <1>3 DEF InitializeWorkspace, docVars, rebuildVars, sessionVars, layoutVars
    <2> QED
      BY <1>1, <1>2, <2>1
  <1>4. ASSUME NEW d \in Docs, NEW v \in Versions, ResumeOpened(d, v)  PROVE DueInv(c)'
    <2>1. Takes(waiting, Entry("open", d, v), waiting')
      BY <1>4, DueQueues DEF ResumeOpened
    <2>2. Entry("update", d, v) \in SessionEntries
      BY EntryTypes
    <2>3. Kept(sessionQ, sessionQ', c) /\ Adds(sessionQ, Entry("update", d, v), sessionQ')
      BY <1>4, <2>2, DueQueues, QueueSteps DEF ResumeOpened
    <2>4. UNCHANGED <<client, session, documents, due, rebuildState, workspace, armed, docQ>>
      BY <1>4 DEF ResumeOpened, docVars, rebuildVars, storeVars, layoutVars
    <2>5. CASE d = c /\ v = Version(c)
      <3>1. Carries(sessionQ', Updates, c, Version(c))
        BY <2>3, <2>5, CarriesFacts DEF Updates
      <3> QED
        BY <2>4, <3>1 DEF DueInv, Due, Carries, Version
    <2>6. CASE ~(d = c /\ v = Version(c))
      <3>1. Carries(waiting, Stores, c, Version(c)) => Carries(waiting', Stores, c, Version(c))
        BY <2>1, <2>6, CarriesFacts
      <3> QED
        BY <1>1, <1>2, <2>3, <2>4, <3>1
    <2> QED
      BY <2>5, <2>6
  <1>5. ASSUME NEW d \in Docs, NEW v \in Versions, ResumeChanged(d, v)  PROVE DueInv(c)'
    <2>1. Takes(waiting, Entry("change", d, v), waiting')
      BY <1>5, DueQueues DEF ResumeChanged
    <2>2. Entry("change", d, v) \in DocEntries
      BY EntryTypes
    <2>3. Kept(docQ, docQ', c) /\ Adds(docQ, Entry("change", d, v), docQ')
      BY <1>5, <2>2, DueQueues, QueueSteps DEF ResumeChanged
    <2>4. UNCHANGED <<client, session, documents, due, rebuildState, workspace, armed, sessionQ>>
      BY <1>5 DEF ResumeChanged, rebuildVars, sessionVars, layoutVars
    <2>5. CASE d = c /\ v = Version(c)
      <3>1. Carries(docQ', Stores, c, Version(c))
        BY <2>3, <2>5, CarriesFacts DEF Stores
      <3> QED
        BY <2>4, <3>1 DEF DueInv, Due, Carries, Version
    <2>6. CASE ~(d = c /\ v = Version(c))
      <3>1. Carries(waiting, Stores, c, Version(c)) => Carries(waiting', Stores, c, Version(c))
        BY <2>1, <2>6, CarriesFacts
      <3> QED
        BY <1>1, <1>2, <2>3, <2>4, <3>1
    <2> QED
      BY <2>5, <2>6
  <1>6. ASSUME NEW d \in Docs, ResumeSaved(d)  PROVE DueInv(c)'
    <2>1. Takes(waiting, Entry("save", d, 0), waiting')
      BY <1>6, DueQueues DEF ResumeSaved
    <2>2. Kept(docQ, docQ', c) /\ Adds(docQ, Entry("save", d, 0), docQ')
      BY <1>6, EntryTypes, DueQueues, QueueSteps DEF ResumeSaved
    <2>3. UNCHANGED <<client, session, documents, due, rebuildState, workspace, sessionQ>>
      BY <1>6 DEF ResumeSaved, sessionVars, layoutVars
    <2>4. c \in armed => c \in armed' \/ Carries(docQ', Readers, c, 0)
      <3>1. d = c => Carries(docQ', Readers, c, 0)
        BY <2>2, CarriesFacts DEF Readers
      <3> QED
        BY <1>6, <3>1 DEF ResumeSaved
    <2>5. Carries(waiting, Stores, c, Version(c)) => Carries(waiting', Stores, c, Version(c))
      BY <2>1, CarriesFacts DEF Stores
    <2> QED
      BY <1>1, <1>2, <2>2, <2>3, <2>4, <2>5
  <1>7. ASSUME NEW kind \in FileEvents, ResumeWatchedFiles(kind)  PROVE DueInv(c)'
    <2>1. Takes(waiting, Workspace(kind), waiting')
      BY <1>7, DueQueues DEF ResumeWatchedFiles
    <2>2. Carries(waiting, Stores, c, Version(c)) => Carries(waiting', Stores, c, Version(c))
      BY <2>1, CarriesFacts
    <2>3. UNCHANGED <<client, session, documents, due, rebuildState, workspace, armed, sessionQ, docQ>>
      BY <1>7 DEF ResumeWatchedFiles, docVars, rebuildVars, sessionVars
    <2> QED
      BY <1>1, <1>2, <2>2, <2>3
  <1> QED
    BY <1>3, <1>4, <1>5, <1>6, <1>7 DEF Resume

\* The strand of DocumentStateManager.
LEMMA DocTurnKeepsDue ==
    ASSUME TypeInv, NEW c \in Docs, VersionsOf(c), DocumentInv(c), DueInv(c), DocTurn
    PROVE  DueInv(c)'
  <1> USE DEF TypeInv
  <1>1. /\ documents \in [Docs -> 0 .. MaxVersion]
        /\ rebuildState \in [Docs -> {"idle", "inProgress", "pendingNext"}]
        /\ client \in [Docs -> [open : BOOLEAN, version : 0 .. MaxVersion, saves : 0 .. MaxSaves]]
    BY DEF DocumentTypes
  <1>2. Kept(sessionQ, sessionQ, c) /\ Kept(waiting, waiting, c)
    BY CarriesFacts
  <1>3. IsOpen(c) => Version(c) # 0
    BY DEF DocumentInv, OpenState
  <1>4. ASSUME UNCHANGED <<client, session>>, documents'[c] = documents[c],
               Kept(sessionQ, sessionQ', c), Kept(waiting, waiting', c),
               Carries(docQ, Stores, c, Version(c)) => Carries(docQ', Stores, c, Version(c)),
               IsOpen(c) /\ documents[c] = Version(c) /\ ReadDue(c)
                  => ReadDue(c)' \/ Carries(sessionQ', Updates, c, Version(c))
        PROVE  DueInv(c)'
    <2>1. IsOpen(c)' = IsOpen(c) /\ Version(c)' = Version(c)
      BY <1>4 DEF IsOpen, Version
    <2>2. IsOpen(c) /\ documents[c] = Version(c) /\ ReadDue(c) => Due(c)'
      BY <1>4, <2>1 DEF Due, Carries
    <2> QED
      BY <1>4, <2>1, <2>2, DueStays DEF Kept
  <1>5. ASSUME UNCHANGED <<due, rebuildState, workspace>>, c \in armed => c \in armed',
               Kept(docQ, docQ', c), ReadDue(c)
        PROVE  ReadDue(c)'
    <2>1. TimersKept(c) /\ MarkKept(c) /\ WorkspaceKept(c)
      BY <1>5 DEF TimersKept, MarkKept, WorkspaceKept
    <2> QED
      BY <1>5, <2>1, ReadStays DEF Kept
  <1>6. ASSUME NEW v \in Versions, NEW h \in Stores, Contains(docQ, Entry(h, c, v)),
               IsOpen(c), v # Version(c)
        PROVE  documents[c] # Version(c)
    BY <1>1, <1>6, VersionFacts DEF Version
  <1>7. ASSUME NEW d \in Docs, NEW v \in Versions, StoreOpened(d, v)  PROVE DueInv(c)'
    <2>1. Takes(docQ, Entry("open", d, v), docQ')
      BY <1>7, DueQueues DEF StoreOpened
    <2>2. Entry("open", d, v) \in WaitEntries
      BY EntryTypes
    <2>3. Kept(waiting, waiting', c) /\ Adds(waiting, Entry("open", d, v), waiting')
      BY <1>7, <2>2, DueQueues, QueueSteps DEF StoreOpened
    <2>4. UNCHANGED <<client, session, due, rebuildState, workspace, armed, sessionQ>>
      BY <1>7 DEF StoreOpened, rebuildVars, sessionVars, layoutVars
    <2>5. CASE d = c /\ v = Version(c)
      <3>1. Carries(waiting', Stores, c, Version(c))
        BY <2>3, <2>5, CarriesFacts DEF Stores
      <3> QED
        BY <2>4, <3>1 DEF DueInv, Due, Carries, Version
    <2>6. CASE d = c /\ v # Version(c) /\ IsOpen(c)
      <3>1. documents[c] # Version(c)
        BY <1>6, <2>1, <2>6 DEF Takes, Stores
      <3>2. Carries(docQ, Stores, c, Version(c)) => Carries(docQ', Stores, c, Version(c))
        BY <2>1, <2>6, CarriesFacts
      <3> QED
        BY <2>3, <2>4, <3>1, <3>2 DEF DueInv, Due, Kept, Carries, Version, IsOpen
    <2>7. CASE d # c
      <3>1. Kept(docQ, docQ', c)
        BY <2>1, <2>7, CarriesFacts
      <3>2. documents'[c] = documents[c]
        BY <1>1, <1>7, <2>7 DEF StoreOpened
      <3> QED
        BY <1>2, <1>4, <1>5, <2>3, <2>4, <3>1, <3>2 DEF Kept
    <2>8. CASE ~IsOpen(c)
      BY <2>4, <2>8 DEF DueInv, IsOpen
    <2> QED
      BY <2>5, <2>6, <2>7, <2>8
  <1>8. ASSUME NEW d \in Docs, NEW v \in Versions, StoreChanged(d, v)  PROVE DueInv(c)'
    <2>1. Takes(docQ, Entry("change", d, v), docQ')
      BY <1>8, DueQueues DEF StoreChanged
    <2>2. UNCHANGED <<client, session, due, rebuildState, workspace, waiting, sessionQ>>
      BY <1>8 DEF StoreChanged, eventVars, sessionVars, layoutVars
    <2>3. CASE d = c /\ v = Version(c)
      <3>1. documents'[c] = Version(c) /\ c \in armed'
        BY <1>1, <1>8, <2>3 DEF StoreChanged
      <3> QED
        BY <2>2, <3>1 DEF DueInv, Due, ReadDue, Version
    <2>4. CASE d = c /\ v # Version(c) /\ IsOpen(c)
      <3>1. documents[c] # Version(c)
        BY <1>6, <2>1, <2>4 DEF Takes, Stores
      <3>2. Carries(docQ, Stores, c, Version(c)) => Carries(docQ', Stores, c, Version(c))
        BY <2>1, <2>4, CarriesFacts
      <3> QED
        BY <2>2, <3>1, <3>2 DEF DueInv, Due, Carries, Version, IsOpen
    <2>5. CASE d # c
      <3>1. Kept(docQ, docQ', c)
        BY <2>1, <2>5, CarriesFacts
      <3>2. documents'[c] = documents[c] /\ (c \in armed => c \in armed')
        BY <1>1, <1>8, <2>5 DEF StoreChanged
      <3> QED
        BY <1>2, <1>4, <1>5, <2>2, <3>1, <3>2 DEF Kept
    <2>6. CASE ~IsOpen(c)
      BY <2>2, <2>6 DEF DueInv, IsOpen
    <2> QED
      BY <2>3, <2>4, <2>5, <2>6
  <1>9. ASSUME NEW d \in Docs, RemoveDocument(d)  PROVE DueInv(c)'
    <2>1. Takes(docQ, Entry("remove", d, 0), docQ')
      BY <1>9, DueQueues DEF RemoveDocument
    <2>2. UNCHANGED <<client, session, due, rebuildState, workspace, waiting, sessionQ, armed>>
      BY <1>9 DEF RemoveDocument, eventVars, rebuildVars, sessionVars, layoutVars
    <2>3. CASE d = c
      <3>1. IsOpen(c) => Contains(docQ', Entry("open", c, Version(c)))
        BY <2>1, <2>3 DEF Takes, DocumentInv, OpenState
      <3> QED
        BY <2>2, <3>1 DEF DueInv, Due, Carries, Stores, Version, IsOpen
    <2>4. CASE d # c
      <3>1. Kept(docQ, docQ', c)
        BY <2>1, <2>4, CarriesFacts
      <3>2. documents'[c] = documents[c]
        BY <1>1, <1>9, <2>4 DEF RemoveDocument
      <3> QED
        BY <1>2, <1>4, <1>5, <2>2, <3>1, <3>2 DEF Kept
    <2> QED
      BY <2>3, <2>4
  <1>10. ASSUME NEW d \in Docs, NEW h \in Updates, documents[d] # 0,
                sessionQ' = Append(sessionQ, Entry(h, d, documents[d]))
         PROVE  /\ Kept(sessionQ, sessionQ', c)
                /\ d = c /\ documents[c] = Version(c) => Carries(sessionQ', Updates, c, Version(c))
    <2>1. Entry(h, d, documents[d]) \in SessionEntries
      BY <1>10, EntryTypes, VersionTypes DEF Updates
    <2>2. Adds(sessionQ, Entry(h, d, documents[d]), sessionQ')
      BY <1>10, <2>1, QueueSteps
    <2> QED
      BY <2>2, CarriesFacts
  <1>11. ASSUME NEW d \in Docs, NEW h \in Readers, DocRuns(Entry(h, d, 0))
         PROVE  /\ Takes(docQ, Entry(h, d, 0), Tail(docQ))
                /\ d # c => Kept(docQ, Tail(docQ), c)
                /\ Carries(docQ, Stores, c, Version(c)) => Carries(Tail(docQ), Stores, c, Version(c))
    <2>1. Takes(docQ, Entry(h, d, 0), Tail(docQ))
      BY <1>11, DueQueues
    <2>2. h \notin Stores
      BY DEF Readers, Stores
    <2> QED
      BY <2>1, <2>2, CarriesFacts
  <1>12. ASSUME NEW d \in Docs, GetSaved(d)  PROVE DueInv(c)'
    <2>1. UNCHANGED <<client, session, documents, due, rebuildState, workspace, waiting, armed>>
      BY <1>12 DEF GetSaved, eventVars, rebuildVars, storeVars, layoutVars
    <2>2. /\ docQ' = Tail(docQ) /\ (d # c => Kept(docQ, docQ', c))
          /\ Carries(docQ, Stores, c, Version(c)) => Carries(docQ', Stores, c, Version(c))
      BY <1>11, <1>12 DEF GetSaved, Readers
    <2>3. Kept(sessionQ, sessionQ', c)
      BY <1>2, <1>10, <1>12 DEF GetSaved, Updates
    <2>4. d = c /\ IsOpen(c) /\ documents[c] = Version(c) => Carries(sessionQ', Updates, c, Version(c))
      BY <1>3, <1>10, <1>12 DEF GetSaved, Updates
    <2> QED
      BY <1>2, <1>4, <1>5, <2>1, <2>2, <2>3, <2>4
  <1>13. ASSUME NEW d \in Docs, GetForRebuild(d)  PROVE DueInv(c)'
    <2>1. /\ UNCHANGED <<client, session, documents, due, workspace, waiting, armed>>
          /\ d # c => rebuildState'[c] = rebuildState[c]
      BY <1>1, <1>13 DEF GetForRebuild, eventVars, storeVars, layoutVars
    <2>2. /\ docQ' = Tail(docQ) /\ (d # c => Kept(docQ, docQ', c))
          /\ Carries(docQ, Stores, c, Version(c)) => Carries(docQ', Stores, c, Version(c))
      BY <1>11, <1>13 DEF GetForRebuild, Readers
    <2>3. Kept(sessionQ, sessionQ', c)
      BY <1>2, <1>10, <1>13 DEF GetForRebuild, Updates
    <2>4. d = c /\ IsOpen(c) /\ documents[c] = Version(c) => Carries(sessionQ', Updates, c, Version(c))
      BY <1>3, <1>10, <1>13 DEF GetForRebuild, Updates
    <2>5. d # c /\ ReadDue(c) => ReadDue(c)'
      <3>1. d # c => TimersKept(c) /\ MarkKept(c) /\ WorkspaceKept(c)
        BY <2>1 DEF TimersKept, MarkKept, WorkspaceKept
      <3> QED
        BY <2>2, <3>1, ReadStays DEF Kept
    <2> QED
      BY <1>2, <1>4, <2>1, <2>2, <2>3, <2>4, <2>5
  <1>14. ASSUME NEW e, DocRuns(e), e[1] \in VisitSteps  PROVE workspace.at = "visiting"
    BY <1>14, TailTokens DEF DocRuns, QueueTypes, TokenInv
  <1>15. \A e : DocRuns(e) => Tail(docQ) \in Seq(DocEntries)
    BY DEF DocRuns, QueueTypes
  <1>16. ASSUME NEW q \in Seq(DocEntries), NEW todo, Visit(todo, q), todo \in SUBSET Docs
         PROVE  Carries(q, Stores, c, Version(c)) => Carries(docQ', Stores, c, Version(c))
    <2>1. CASE docQ' = q
      BY <2>1
    <2>2. CASE \E d \in todo : docQ' = Append(q, Entry("get", d, 0))
      <3>1. PICK d \in todo : docQ' = Append(q, Entry("get", d, 0))
        BY <2>2
      <3>2. Adds(q, Entry("get", d, 0), docQ')
        BY <1>16, <3>1, EntryTypes, QueueAdds
      <3> QED
        BY <3>2, CarriesFacts DEF Kept
    <2> QED
      BY <1>16, <2>1, <2>2 DEF Visit
  <1>17. ASSUME NEW d \in Docs, GetVisited(d)  PROVE DueInv(c)'
    <2>1. UNCHANGED <<client, session, documents, waiting>> /\ UNCHANGED rebuildVars
      BY <1>17 DEF GetVisited, eventVars, storeVars
    <2>2. /\ Takes(docQ, Entry("get", d, 0), Tail(docQ)) /\ (d # c => Kept(docQ, Tail(docQ), c))
          /\ Carries(docQ, Stores, c, Version(c)) => Carries(Tail(docQ), Stores, c, Version(c))
      BY <1>11, <1>17 DEF GetVisited, Readers
    <2>3. workspace.at = "visiting" /\ Tail(docQ) \in Seq(DocEntries)
      BY <1>14, <1>15, <1>17 DEF GetVisited, Entry, VisitSteps
    <2>4. CASE documents[d] = 0
      <3>1. Visit(workspace.todo, Tail(docQ)) /\ workspace.todo \in SUBSET Docs
        BY <1>17, <2>4 DEF GetVisited, LayoutTypes
      <3>2. Carries(docQ, Stores, c, Version(c)) => Carries(docQ', Stores, c, Version(c))
        BY <1>16, <2>2, <2>3, <3>1
      <3>3. d # c /\ ReadDue(c) => ReadDue(c)'
        BY <2>1, <2>2, <2>3, <3>1, VisitReads DEF Kept
      <3>4. d = c /\ IsOpen(c) => documents[c] # Version(c)
        BY <1>3, <2>4
      <3>5. sessionQ' = sessionQ
        BY <1>17, <2>4 DEF GetVisited
      <3> QED
        BY <1>2, <1>4, <2>1, <3>2, <3>3, <3>4, <3>5
    <2>5. CASE documents[d] # 0
      <3>1. /\ docQ' = Tail(docQ) /\ UNCHANGED workspace
            /\ sessionQ' = Append(sessionQ, Entry("visit", d, documents[d]))
        BY <1>17, <2>5 DEF GetVisited
      <3>2. /\ Kept(sessionQ, sessionQ', c)
            /\ d = c /\ documents[c] = Version(c) => Carries(sessionQ', Updates, c, Version(c))
        BY <1>10, <2>5, <3>1 DEF Updates
      <3> QED
        BY <1>2, <1>4, <1>5, <2>1, <2>2, <3>1, <3>2 DEF rebuildVars
    <2> QED
      BY <2>4, <2>5
  <1>18. ASSUME GetAllUris  PROVE DueInv(c)'
    <2> DEFINE todo == {d \in Docs : documents[d] # 0}
    <2>1. UNCHANGED <<client, session, documents, waiting, sessionQ>> /\ UNCHANGED rebuildVars
      BY <1>18 DEF GetAllUris, eventVars, sessionVars
    <2>2. Takes(docQ, Workspace("uris"), Tail(docQ))
      BY <1>18, DueQueues DEF GetAllUris
    <2>3. workspace.at = "visiting" /\ Tail(docQ) \in Seq(DocEntries)
      BY <1>14, <1>15, <1>18 DEF GetAllUris, Workspace, VisitSteps
    <2>4. Visit(todo, Tail(docQ)) /\ todo \in SUBSET Docs
      BY <1>18 DEF GetAllUris
    <2>5. \A hs : \A v : Carries(docQ, hs, c, v) => Carries(Tail(docQ), hs, c, v)
      BY <2>2, CarriesFacts
    <2>6. IsOpen(c) /\ documents[c] = Version(c) => c \in todo
      BY <1>3
    <2> HIDE DEF todo
    <2>7. Carries(docQ, Stores, c, Version(c)) => Carries(docQ', Stores, c, Version(c))
      BY <1>16, <2>3, <2>4, <2>5
    <2>8. IsOpen(c) /\ documents[c] = Version(c) /\ ReadDue(c) => ReadDue(c)'
      BY <2>1, <2>3, <2>4, <2>5, <2>6, VisitReads
    <2> QED
      BY <1>2, <1>4, <2>1, <2>7, <2>8
  <1> QED
    BY <1>7, <1>8, <1>9, <1>12, <1>13, <1>17, <1>18 DEF DocTurn

\* The session strand.
LEMMA SessionTurnKeepsDue ==
    ASSUME TypeInv, NEW c \in Docs, VersionsOf(c), DocumentInv(c), SessionInv(c), DueInv(c),
           SessionTurn
    PROVE  DueInv(c)'
  <1> USE DEF TypeInv
  <1>1. /\ session \in [Docs -> [version : 0 .. MaxVersion, preamble : 0 .. layout, built : BOOLEAN]]
        /\ rebuildState \in [Docs -> {"idle", "inProgress", "pendingNext"}]
        /\ client \in [Docs -> [open : BOOLEAN, version : 0 .. MaxVersion, saves : 0 .. MaxSaves]]
        /\ MaxVersion \in Nat
    BY BoundsAssumption DEF LayoutTypes, DocumentTypes
  <1>2. Kept(waiting, waiting, c) /\ Kept(docQ, docQ, c)
    BY CarriesFacts
  <1>3. ASSUME UNCHANGED <<client, documents, waiting>>,
               IsOpen(c) /\ session[c].version = Version(c) => session'[c].version = Version(c),
               IsOpen(c) /\ Carries(sessionQ, Updates, c, Version(c))
                  => \/ Carries(sessionQ', Updates, c, Version(c))
                     \/ session'[c].version = Version(c),
               Carries(docQ, Stores, c, Version(c)) => Carries(docQ', Stores, c, Version(c)),
               IsOpen(c) /\ documents[c] = Version(c) /\ ReadDue(c) => ReadDue(c)'
        PROVE  DueInv(c)'
    <2>1. IsOpen(c)' = IsOpen(c) /\ Version(c)' = Version(c)
      BY <1>3 DEF IsOpen, Version
    <2>2. session'[c].version = Version(c) => Due(c)'
      BY <2>1 DEF Due
    <2>3. IsOpen(c) /\ documents[c] = Version(c) /\ ReadDue(c) => Due(c)'
      BY <1>3, <2>1 DEF Due
    <2>4. CASE session'[c].version = Version(c)
      BY <2>2, <2>4 DEF DueInv
    <2>5. CASE session'[c].version # Version(c)
      BY <1>2, <1>3, <2>1, <2>3, <2>5, DueStays DEF Kept, DueInv
    <2> QED
      BY <2>4, <2>5
  <1>4. ASSUME UNCHANGED <<armed, due>>, MarkKept(c), WorkspaceKept(c), Kept(docQ, docQ', c), ReadDue(c)
        PROVE  ReadDue(c)'
    BY <1>4, ReadStays DEF Kept, TimersKept
  <1>5. ASSUME NEW d \in Docs, NEW v \in Versions, NEW h \in Updates,
               SessionRuns(Entry(h, d, v)), sessionQ' = Tail(sessionQ), UpdateSession(d, v)
        PROVE  /\ IsOpen(c) /\ session[c].version = Version(c) => session'[c].version = Version(c)
               /\ IsOpen(c) /\ Carries(sessionQ, Updates, c, Version(c))
                     => \/ Carries(sessionQ', Updates, c, Version(c))
                        \/ session'[c].version = Version(c)
    <2>1. Takes(sessionQ, Entry(h, d, v), sessionQ')
      BY <1>5, DueQueues
    <2>2. session'[d].version = v /\ (d # c => session'[c] = session[c])
      BY <1>1, <1>5 DEF UpdateSession
    <2>3. d = c /\ session[c].version = Version(c) => v = Version(c)
      <3>1. d = c => session[c].version <= v /\ v <= Version(c)
        BY <1>5, <2>1, VersionFacts DEF Takes
      <3>2. session[c].version \in Nat /\ Version(c) \in Nat /\ v \in Nat
        BY <1>1 DEF Version, Versions
      <3> QED
        BY <3>1, <3>2
    <2>4. v # Version(c) \/ d # c
             => (Carries(sessionQ, Updates, c, Version(c)) => Carries(sessionQ', Updates, c, Version(c)))
      BY <2>1, CarriesFacts
    <2> QED
      BY <2>2, <2>3, <2>4
  <1>6. ASSUME NEW d \in Docs, NEW v \in Versions, UpdateTurn(d, v)  PROVE DueInv(c)'
    <2>1. UNCHANGED <<client, documents, waiting, armed, due, rebuildState, workspace, docQ>>
      BY <1>6 DEF UpdateTurn, eventVars, docVars, rebuildVars, layoutVars
    <2>2. ReadDue(c) => ReadDue(c)'
      BY <1>2, <1>4, <2>1 DEF MarkKept, WorkspaceKept
    <2> QED
      BY <1>3, <1>5, <1>6, <2>1, <2>2 DEF UpdateTurn, Updates
  <1>7. ASSUME NEW d \in Docs, NEW v \in Versions, RebuildTurn(d, v)  PROVE DueInv(c)'
    <2>1. UNCHANGED <<client, documents, waiting, armed, due, workspace>>
      BY <1>7 DEF RebuildTurn, eventVars, layoutVars
    <2>2. FinishRebuild(d)
      BY <1>7 DEF RebuildTurn
    <2>3. Adds(docQ, Entry("rebuild", d, 0), Append(docQ, Entry("rebuild", d, 0)))
      BY EntryTypes, QueueSteps
    <2>4. Kept(docQ, docQ', c)
      <3>1. Kept(docQ, Append(docQ, Entry("rebuild", d, 0)), c)
        BY <2>3, CarriesFacts
      <3>2. docQ' = docQ \/ docQ' = Append(docQ, Entry("rebuild", d, 0))
        BY <2>2 DEF FinishRebuild
      <3> QED
        BY <1>2, <3>1, <3>2
    <2>5. ASSUME ReadDue(c)  PROVE ReadDue(c)'
      <3>1. CASE d = c /\ rebuildState[c] = "pendingNext"
        <4>1. Carries(docQ', Readers, c, 0)
          BY <2>2, <2>3, <3>1, CarriesFacts DEF FinishRebuild, Readers
        <4> QED
          BY <4>1 DEF ReadDue, Readers, Carries
      <3>2. CASE ~(d = c /\ rebuildState[c] = "pendingNext")
        <4>1. MarkKept(c)
          BY <1>1, <2>2, <3>2 DEF FinishRebuild, MarkKept
        <4> QED
          BY <1>4, <2>1, <2>4, <2>5, <4>1 DEF WorkspaceKept
      <3> QED
        BY <3>1, <3>2
    <2> QED
      BY <1>3, <1>5, <1>7, <2>1, <2>4, <2>5 DEF RebuildTurn, Updates, Kept
  <1>8. ASSUME NEW d \in Docs, NEW v \in Versions, VisitTurn(d, v)  PROVE DueInv(c)'
    <2>1. UNCHANGED <<client, documents, waiting>> /\ UNCHANGED rebuildVars
      BY <1>8 DEF VisitTurn, eventVars
    <2>2. workspace.at = "visiting"
      BY <1>8, TailTokens DEF VisitTurn, SessionRuns, Entry, VisitSteps, QueueTypes, TokenInv
    <2>3. /\ Visit(workspace.todo, docQ) /\ workspace.todo \in SUBSET Docs
          /\ docQ \in Seq(DocEntries)
      BY <1>8 DEF VisitTurn, LayoutTypes, QueueTypes
    <2>4. Kept(docQ, docQ', c)
      <3>1. \A e \in Docs : Kept(docQ, Append(docQ, Entry("get", e, 0)), c)
        BY EntryTypes, DueQueues
      <3> QED
        BY <1>2, <2>3, <3>1 DEF Visit
    <2>5. ReadDue(c) => ReadDue(c)'
      BY <2>1, <2>2, <2>3, VisitReads
    <2> QED
      BY <1>3, <1>5, <1>8, <2>1, <2>4, <2>5 DEF VisitTurn, Updates, Kept
  <1>9. ASSUME NEW d \in Docs, CancelTurn(d) \/ CleanupTurn(d)  PROVE DueInv(c)'
    <2>1. UNCHANGED <<client, documents, waiting, armed, due, rebuildState, workspace, docQ>>
      BY <1>9 DEF CancelTurn, CleanupTurn, eventVars, docVars, rebuildVars, layoutVars
    <2>2. ReadDue(c) => ReadDue(c)'
      BY <1>2, <1>4, <2>1 DEF MarkKept, WorkspaceKept
    <2>3. \E h \in Ends : Takes(sessionQ, Entry(h, d, 0), sessionQ')
      BY <1>9, DueQueues DEF CancelTurn, CleanupTurn, Ends
    <2>4. Carries(sessionQ, Updates, c, Version(c)) => Carries(sessionQ', Updates, c, Version(c))
      BY <2>3, CarriesFacts DEF Ends, Updates
    <2>5. IsOpen(c) /\ session[c].version = Version(c) => session'[c].version = Version(c)
      <3>1. d = c /\ IsOpen(c) => session[c].version # Version(c)
        BY <2>3 DEF Takes, SessionInv, OpenSession
      <3>2. d # c => session'[c] = session[c]
        BY <1>1, <1>9 DEF CancelTurn, CleanupTurn
      <3> QED
        BY <3>1, <3>2
    <2> QED
      BY <1>2, <1>3, <2>1, <2>2, <2>4, <2>5
  <1>10. ASSUME SwapTurn  PROVE DueInv(c)'
    <2>1. UNCHANGED <<client, documents, waiting, armed, due, rebuildState, workspace, docQ, session>>
      BY <1>10 DEF SwapTurn, eventVars, docVars, rebuildVars, layoutVars
    <2>2. ReadDue(c) => ReadDue(c)'
      BY <1>2, <1>4, <2>1 DEF MarkKept, WorkspaceKept
    <2>3. Kept(sessionQ, sessionQ', c)
      <3>1. Takes(sessionQ, Workspace("swap"), Tail(sessionQ))
        BY <1>10, DueQueues DEF SwapTurn
      <3>2. Adds(Tail(sessionQ), Workspace("invalidate"), sessionQ')
        BY <1>10, StepTypes, QueueSteps DEF SwapTurn, SessionRuns
      <3> QED
        BY <3>1, <3>2, CarriesFacts
    <2> QED
      BY <1>3, <2>1, <2>2, <2>3 DEF Kept
  <1>11. ASSUME InvalidateTurn  PROVE DueInv(c)'
    <2>1. UNCHANGED <<client, documents, waiting, docQ>>
      BY <1>11 DEF InvalidateTurn, eventVars, docVars
    <2>2. ReadDue(c)'
      BY <1>11 DEF InvalidateTurn, ReadDue, LayoutTypes
    <2>3. IsOpen(c) /\ documents[c] # Version(c) => Coming(c)
      BY DEF DocumentInv, OpenState
    <2> QED
      BY <2>1, <2>2, <2>3 DEF DueInv, Due, Coming, Carries, Stores, IsOpen, Version
  <1> QED
    BY <1>6, <1>7, <1>8, <1>9, <1>10, <1>11 DEF SessionTurn

\* Every action.
LEMMA DueInvStep ==
    ASSUME TypeInv, NEW c \in Docs, VersionsOf(c), DocumentInv(c), SessionInv(c), DueInv(c), Next
    PROVE  DueInv(c)'
  <1> USE DEF TypeInv, eventVars, docVars, rebuildVars, storeVars, sessionVars, layoutVars
  <1>1. /\ session \in [Docs -> [version : 0 .. MaxVersion, preamble : 0 .. layout, built : BOOLEAN]]
        /\ rebuildState \in [Docs -> {"idle", "inProgress", "pendingNext"}]
    BY DEF LayoutTypes, DocumentTypes
  <1>2. Kept(sessionQ, sessionQ, c) /\ Kept(waiting, waiting, c) /\ Kept(docQ, docQ, c)
    BY CarriesFacts
  <1>3. ASSUME UNCHANGED <<client, documents, waiting>>, Kept(sessionQ, sessionQ', c),
               Kept(docQ, docQ', c), ReadDue(c) => ReadDue(c)',
               IsOpen(c) /\ session[c].version = Version(c) => session'[c].version = Version(c)
        PROVE  DueInv(c)'
    <2>1. IsOpen(c)' = IsOpen(c) /\ Version(c)' = Version(c)
      BY <1>3 DEF IsOpen, Version
    <2>2. IsOpen(c) /\ documents[c] = Version(c) /\ ReadDue(c) => Due(c)'
      BY <1>3, <2>1 DEF Due
    <2> QED
      BY <1>2, <1>3, <2>1, <2>2, DueStays DEF Kept, DueInv
  <1>4. ASSUME UNCHANGED <<armed, due, rebuildState, docQ>>, WorkspaceKept(c)
        PROVE  ReadDue(c) => ReadDue(c)'
    <2>1. TimersKept(c) /\ MarkKept(c)
      BY <1>4 DEF TimersKept, MarkKept
    <2> QED
      BY <1>2, <1>4, <2>1, ReadStays DEF Kept
  <1>5. \A l : RebuildWorkspace(l) => WorkspaceKept(c)
    BY DEF RebuildWorkspace, WorkspaceKept, LayoutTypes
  <1>6. UNCHANGED workspace => WorkspaceKept(c)
    BY DEF WorkspaceKept
  <1>7. ASSUME NEW kind \in {"listed", "config"}, LayoutTurn(kind)  PROVE DueInv(c)'
    <2>1. WorkspaceKept(c)
      BY <1>5, <1>6, <1>7 DEF LayoutTurn
    <2> QED
      BY <1>2, <1>3, <1>4, <1>7, <2>1 DEF LayoutTurn
  <1>8. ASSUME WorkspaceTimerExpires \/ WorkspaceTimerCallback  PROVE DueInv(c)'
    <2>1. WorkspaceKept(c)
      BY <1>5, <1>6, <1>8 DEF WorkspaceTimerExpires, WorkspaceTimerCallback
    <2> QED
      BY <1>2, <1>3, <1>4, <1>8, <2>1 DEF WorkspaceTimerExpires, WorkspaceTimerCallback
  <1>9. ASSUME NEW d \in Docs, TimerExpires(d)  PROVE DueInv(c)'
    <2>1. UNCHANGED <<client, documents, waiting, sessionQ, docQ, session, rebuildState, workspace>>
      BY <1>9 DEF TimerExpires
    <2>2. TimersKept(c) /\ MarkKept(c)
      BY <1>9, <2>1 DEF TimerExpires, TimersKept, MarkKept
    <2>3. ReadDue(c) => ReadDue(c)'
      BY <1>6, <2>1, <2>2, ReadStays
    <2> QED
      BY <1>2, <1>3, <2>1, <2>3
  <1>10. ASSUME NEW d \in Docs, TimerCallback(d)  PROVE DueInv(c)'
    <2>1. UNCHANGED <<client, documents, waiting, sessionQ, session, workspace>>
      BY <1>10 DEF TimerCallback
    <2>2. RebuildSession(d) /\ due' = due \ {d} /\ UNCHANGED armed
      BY <1>10 DEF TimerCallback
    <2>3. Adds(docQ, Entry("rebuild", d, 0), Append(docQ, Entry("rebuild", d, 0)))
      BY EntryTypes, QueueSteps
    <2>4. Kept(docQ, docQ', c)
      <3>1. Kept(docQ, Append(docQ, Entry("rebuild", d, 0)), c)
        BY <2>3, CarriesFacts
      <3>2. docQ' = docQ \/ docQ' = Append(docQ, Entry("rebuild", d, 0))
        BY <2>2 DEF RebuildSession
      <3> QED
        BY <1>2, <3>1, <3>2
    <2>5. CASE d = c
      <3>1. CASE rebuildState[c] = "idle"
        <4>1. Carries(docQ', Readers, c, 0)
          BY <2>2, <2>3, <2>5, <3>1, CarriesFacts DEF RebuildSession, Readers
        <4>2. ReadDue(c)'
          BY <4>1 DEF ReadDue, Readers, Carries
        <4> QED
          BY <1>2, <1>3, <2>1, <2>4, <4>2
      <3>2. CASE rebuildState[c] # "idle"
        <4>1. ReadDue(c)'
          BY <1>1, <2>2, <2>5, <3>2 DEF RebuildSession, ReadDue
        <4> QED
          BY <1>2, <1>3, <2>1, <2>4, <4>1
      <3> QED
        BY <3>1, <3>2
    <2>6. CASE d # c
      <3>1. TimersKept(c) /\ MarkKept(c)
        BY <1>1, <2>2, <2>6 DEF RebuildSession, TimersKept, MarkKept
      <3>2. ReadDue(c) => ReadDue(c)'
        BY <1>6, <2>1, <2>4, <3>1, ReadStays DEF Kept
      <3> QED
        BY <1>2, <1>3, <2>1, <2>4, <3>2
    <2> QED
      BY <2>5, <2>6
  <1>11. ASSUME NEW d \in Docs, CleanupExpires(d)  PROVE DueInv(c)'
    <2>1. IsOpen(c) /\ session[c].version = Version(c) => session'[c].version = Version(c)
      <3>1. d = c /\ IsOpen(c) => session[c].version # Version(c)
        BY <1>11 DEF CleanupExpires, SessionInv, OpenSession
      <3>2. d # c => session'[c] = session[c]
        BY <1>1, <1>11 DEF CleanupExpires
      <3> QED
        BY <3>1, <3>2
    <2> QED
      BY <1>2, <1>3, <1>4, <1>6, <1>11, <2>1 DEF CleanupExpires
  <1>12. ASSUME NEW d \in Docs, SessionBuilt(d)  PROVE DueInv(c)'
    <2>1. session'[c].version = session[c].version
      BY <1>1, <1>12 DEF SessionBuilt
    <2> QED
      BY <1>2, <1>3, <1>4, <1>6, <1>12, <2>1 DEF SessionBuilt
  <1>13. ASSUME PreambleBuilt  PROVE DueInv(c)'
    <2>1. Kept(sessionQ, sessionQ', c)
      BY <1>13, StepTypes, DueQueues DEF PreambleBuilt
    <2>2. WorkspaceKept(c)
      BY <1>13 DEF PreambleBuilt, WorkspaceKept, LayoutTypes
    <2> QED
      BY <1>2, <1>3, <1>4, <1>13, <2>1, <2>2 DEF PreambleBuilt
  <1>14. ASSUME SessionsDrained  PROVE DueInv(c)'
    <2>1. UNCHANGED <<client, documents, waiting>>
      BY <1>14 DEF SessionsDrained
    <2>2. Adds(docQ, Workspace("uris"), docQ')
      BY <1>14, StepTypes, QueueSteps DEF SessionsDrained
    <2>3. Kept(docQ, docQ', c) /\ Contains(docQ', Workspace("uris"))
      BY <2>2, CarriesFacts DEF Adds
    <2>4. ReadDue(c)'
      BY <2>3 DEF ReadDue
    <2>5. IsOpen(c) /\ documents[c] # Version(c) => Coming(c)
      BY DEF DocumentInv, OpenState
    <2>6. IsOpen(c) /\ documents[c] # Version(c) =>
             \/ Carries(docQ', Stores, c, Version(c))
             \/ Carries(waiting, Stores, c, Version(c))
      <3>1. Carries(docQ, Stores, c, Version(c)) => Carries(docQ', Stores, c, Version(c))
        BY <2>3 DEF Kept
      <3>2. Contains(waiting, Entry("change", c, Version(c)))
               => Carries(waiting, Stores, c, Version(c))
        BY DEF Carries, Stores
      <3> QED
        BY <2>5, <3>1, <3>2 DEF Coming
    <2> QED
      BY <2>1, <2>4, <2>6 DEF DueInv, Due, Carries, IsOpen, Version
  <1> QED
    BY <1>7, <1>8, <1>9, <1>10, <1>11, <1>12, <1>13, <1>14, ClientKeepsDue, ResumeKeepsDue,
       DocTurnKeepsDue, SessionTurnKeepsDue
    DEF Next, RebuildStep

\* LatestTextIsDue, for a client that closes a document only with nothing of it
\* on the way: through the three queues, the debounce that a save cancels, the
\* rebuild marks and the workspace rebuild that drops all sessions, the last
\* version of an open document is in its session or still on its way there.
THEOREM LatestTextComes ==
    ASSUME CleanClose
    PROVE  Spec => []LatestTextIsDue
  <1> DEFINE Closes == TypeInv /\ \A d \in Docs : CloseInv(d)
             Inv == \A d \in Docs : DueInv(d)
  <1>1. Init => Inv
    BY DEF Init, DueInv, IsOpen
  <1>2. Closes /\ Inv /\ [Next]_vars => Inv'
    <2> SUFFICES ASSUME Closes, Inv, [Next]_vars, NEW d \in Docs  PROVE DueInv(d)'
      OBVIOUS
    <2>1. CASE Next
      BY <2>1, DueInvStep DEF CloseInv
    <2>2. CASE UNCHANGED vars
      BY <2>2 DEF vars, DueInv, Due, ReadDue, Carries, IsOpen, Version
    <2> QED
      BY <2>1, <2>2
  <1>3. Inv => LatestTextIsDue
    BY DEF LatestTextIsDue, DueInv, Due, Updates, Stores
  <1>4. Spec => []Closes
    BY CloseInvHolds
  <1> HIDE DEF Closes, Inv
  <1> QED
    BY <1>1, <1>2, <1>3, <1>4, PTL DEF Spec

=============================================================================
