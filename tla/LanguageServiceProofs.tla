------------------------ MODULE LanguageServiceProofs ------------------------
(***************************************************************************)
(* Theorems of LanguageService, for every set of documents and every bound *)
(* on what the client sends.                                               *)
(***************************************************************************)
EXTENDS LanguageService, FiniteSetTheorems, TLAPS

-----------------------------------------------------------------------------
\* What the provers know of queues.

\* An entry is put at the end.
LEMMA AppendFacts ==
    ASSUME NEW S, NEW q \in Seq(S), NEW e \in S
    PROVE  /\ Append(q, e) \in Seq(S) /\ Len(q) \in Nat
           /\ Len(Append(q, e)) = Len(q) + 1
           /\ Append(q, e)[Len(q) + 1] = e
           /\ \A i \in 1 .. Len(q) :
                 i \in 1 .. Len(Append(q, e)) /\ Append(q, e)[i] = q[i]
           /\ \A i \in 1 .. Len(Append(q, e)) : i \in 1 .. Len(q) \/ i = Len(q) + 1
  <1>1. /\ Append(q, e) \in Seq(S) /\ Len(q) \in Nat
        /\ Len(Append(q, e)) = Len(q) + 1
        /\ Append(q, e)[Len(q) + 1] = e
        /\ \A i \in 1 .. Len(q) : Append(q, e)[i] = q[i]
    OBVIOUS
  <1> QED
    BY <1>1

\* The oldest entry is taken out.
LEMMA TailFacts ==
    ASSUME NEW S, NEW q \in Seq(S), q # <<>>
    PROVE  /\ Tail(q) \in Seq(S) /\ Head(q) \in S /\ Head(q) = q[1]
           /\ Len(q) \in Nat /\ 1 \in 1 .. Len(q) /\ Len(Tail(q)) = Len(q) - 1
           /\ \A i \in 1 .. Len(Tail(q)) :
                 i + 1 \in 1 .. Len(q) /\ Tail(q)[i] = q[i + 1] /\ 1 < i + 1
           /\ \A i \in 1 .. Len(q) :
                 i # 1 => i - 1 \in 1 .. Len(Tail(q)) /\ Tail(q)[i - 1] = q[i]
  <1>1. /\ Tail(q) \in Seq(S) /\ Head(q) \in S /\ Head(q) = q[1]
        /\ Len(q) \in Nat /\ Len(q) >= 1 /\ Len(Tail(q)) = Len(q) - 1
        /\ \A i \in 1 .. Len(q) - 1 : Tail(q)[i] = q[i + 1]
    OBVIOUS
  <1> QED
    BY <1>1

\* The numbers of file events among the waiters.
EventsIn(q) == {i \in DOMAIN q : Len(q[i]) = 1}
One(e) == IF Len(e) = 1 THEN 1 ELSE 0

\* A queue holds finitely many file events.
LEMMA EventsFinite ==
    ASSUME NEW S, NEW q \in Seq(S)
    PROVE  IsFiniteSet(EventsIn(q)) /\ Cardinality(EventsIn(q)) \in Nat
  <1>1. EventsIn(q) \subseteq 1 .. Len(q) /\ Len(q) \in Nat
    BY DEF EventsIn
  <1>2. IsFiniteSet(1 .. Len(q))
    BY <1>1, FS_Interval
  <1> QED
    BY <1>1, <1>2, FS_Subset, FS_CardinalityType

\* Behind a queue a file event counts one more.
LEMMA EventsAppend ==
    ASSUME NEW S, NEW q \in Seq(S), NEW e \in S
    PROVE  Cardinality(EventsIn(Append(q, e))) = Cardinality(EventsIn(q)) + One(e)
  <1> DEFINE r == Append(q, e)
             n == Len(q)
  <1>1. DOMAIN q = 1 .. n /\ DOMAIN r = 1 .. Len(r) /\ n + 1 \notin 1 .. n
    OBVIOUS
  <1>2. /\ n \in Nat /\ n + 1 \in 1 .. Len(r) /\ r[n + 1] = e
        /\ \A i \in 1 .. n : i \in 1 .. Len(r) /\ r[i] = q[i]
        /\ \A i \in 1 .. Len(r) : i \in 1 .. n \/ i = n + 1
    BY AppendFacts
  <1> HIDE DEF r, n
  <1>3. EventsIn(r) = IF Len(e) = 1 THEN EventsIn(q) \cup {n + 1} ELSE EventsIn(q)
    BY <1>1, <1>2 DEF EventsIn
  <1>4. n + 1 \notin EventsIn(q)
    BY <1>1 DEF EventsIn
  <1>5. IsFiniteSet(EventsIn(q)) /\ Cardinality(EventsIn(q)) \in Nat
    BY EventsFinite
  <1>6. Cardinality(EventsIn(r)) = Cardinality(EventsIn(q)) + One(e)
    <2>1. CASE Len(e) = 1
      BY <1>3, <1>4, <1>5, <2>1, FS_AddElement DEF One
    <2>2. CASE Len(e) # 1
      BY <1>3, <1>5, <2>2 DEF One
    <2> QED
      BY <2>1, <2>2
  <1> QED
    BY <1>6 DEF r

\* Taken from the head of a queue it counts one less.
LEMMA EventsTail ==
    ASSUME NEW S, NEW q \in Seq(S), q # <<>>
    PROVE  Cardinality(EventsIn(Tail(q))) = Cardinality(EventsIn(q)) - One(Head(q))
  <1> DEFINE r == Tail(q)
             A == EventsIn(r)
             B == EventsIn(q) \ {1}
             f == [i \in A |-> i + 1]
  <1>1. DOMAIN q = 1 .. Len(q) /\ DOMAIN r = 1 .. Len(r)
    OBVIOUS
  <1>2. /\ r \in Seq(S) /\ Head(q) = q[1]
        /\ Len(q) \in Nat /\ 1 \in 1 .. Len(q) /\ Len(r) = Len(q) - 1
        /\ \A i \in 1 .. Len(r) :
              i + 1 \in 1 .. Len(q) /\ r[i] = q[i + 1] /\ 1 < i + 1
        /\ \A i \in 1 .. Len(q) :
              i # 1 => i - 1 \in 1 .. Len(r) /\ r[i - 1] = q[i]
    BY TailFacts
  <1> HIDE DEF r
  <1>3. \A i \in A : i \in Int /\ i + 1 \in B
    BY <1>1, <1>2 DEF EventsIn
  <1>4. \A j \in B : j \in Int /\ j - 1 \in A /\ (j - 1) + 1 = j
    BY <1>1, <1>2 DEF EventsIn
  <1> HIDE DEF A, B
  <1>5. f \in [A -> B] /\ \A i \in A : f[i] = i + 1
    BY <1>3
  <1>6. \A i, j \in A : f[i] = f[j] => i = j
    BY <1>3, <1>5
  <1>7. \A j \in B : \E i \in A : f[i] = j
    BY <1>4, <1>5
  <1> HIDE DEF f
  <1>8. f \in Bijection(A, B)
    BY <1>5, <1>6, <1>7 DEF Bijection, Injection, Surjection, IsInjective
  <1>9. IsFiniteSet(A) /\ Cardinality(A) = Cardinality(B)
    <2>1. IsFiniteSet(A)
      BY <1>2, EventsFinite DEF A
    <2> QED
      BY <1>8, <2>1, FS_Bijection DEF ExistsBijection
  <1>10. Cardinality(B) = Cardinality(EventsIn(q)) - One(Head(q))
    <2>1. 1 \in EventsIn(q) <=> Len(Head(q)) = 1
      BY <1>1, <1>2 DEF EventsIn
    <2>2. IsFiniteSet(EventsIn(q)) /\ Cardinality(EventsIn(q)) \in Nat
      BY EventsFinite
    <2>3. CASE Len(Head(q)) = 1
      BY <2>1, <2>2, <2>3, FS_RemoveElement DEF B, One
    <2>4. CASE Len(Head(q)) # 1
      <3>1. B = EventsIn(q)
        BY <2>1, <2>4 DEF B
      <3>2. One(Head(q)) = 0
        BY <2>4 DEF One
      <3> QED
        BY <2>2, <3>1, <3>2
    <2> QED
      BY <2>3, <2>4
  <1>11. Cardinality(EventsIn(q)) \in Nat /\ One(Head(q)) \in Nat
    BY EventsFinite DEF One
  <1> QED
    BY <1>9, <1>10, <1>11 DEF A, r

-----------------------------------------------------------------------------
\* Types.

\* What the queues hold.
QueueTypes ==
    /\ waiting \in Seq(WaitEntries) /\ docQ \in Seq(DocEntries)
    /\ sessionQ \in Seq(SessionEntries) /\ layoutQ \in Seq(LayoutEntries)

\* The open documents and their rebuilds.
DocumentTypes ==
    /\ client \in [Docs -> [open : BOOLEAN, version : 0 .. MaxVersion,
                            saves : 0 .. MaxSaves]]
    /\ ready \in BOOLEAN
    /\ documents \in [Docs -> 0 .. MaxVersion]
    /\ armed \subseteq Docs /\ due \subseteq Docs /\ cleaning \subseteq Docs
    /\ rebuildState \in [Docs -> {"idle", "inProgress", "pendingNext"}]

\* The layout and what is made of it.
LayoutTypes ==
    /\ layout \in Nat
    /\ session \in [Docs -> [version : 0 .. MaxVersion,
                             preamble : 0 .. layout, built : BOOLEAN]]
    /\ timer \in [armed : BOOLEAN, due : BOOLEAN]
    /\ preamble \in 0 .. layout
    /\ workspace \in [state : {"idle", "inProgress", "pendingNext"},
                      at : {"none", "building", "swapping", "draining", "visiting"},
                      layout : 0 .. layout, todo : SUBSET Docs]
    /\ workspace.state = "idle" <=> workspace.at = "none"

\* The entries that the handlers and the turns put into a queue.
LEMMA EntryTypes ==
    ASSUME NEW d \in Docs
    PROVE  /\ \A v \in Versions :
                 /\ Entry("open", d, v) \in WaitEntries
                 /\ Entry("change", d, v) \in WaitEntries
                 /\ Entry("open", d, v) \in DocEntries
                 /\ Entry("change", d, v) \in DocEntries
                 /\ \A h \in {"update", "rebuild", "visit"} :
                       Entry(h, d, v) \in SessionEntries
           /\ Entry("save", d, 0) \in WaitEntries
           /\ \A h \in {"save", "remove", "rebuild", "get"} :
                 Entry(h, d, 0) \in DocEntries
           /\ \A h \in {"cancel", "cleanup"} : Entry(h, d, 0) \in SessionEntries
  BY DEF Entry, Entries, WaitEntries, DocEntries, SessionEntries

\* The entries of the workspace have the types of their queues.
LEMMA StepTypes ==
    /\ \A kind \in FileEvents : Workspace(kind) \in WaitEntries
    /\ Workspace("uris") \in DocEntries
    /\ \A step \in {"swap", "invalidate"} : Workspace(step) \in SessionEntries
  BY DEF Workspace, Entries, WaitEntries, DocEntries, SessionEntries

\* Every action leaves the documents and their rebuilds with their types.
LEMMA DocumentTypesStep ==
    ASSUME DocumentTypes, Next
    PROVE  DocumentTypes'
  <1> USE DEF DocumentTypes, eventVars, docVars, rebuildVars, storeVars, sessionVars,
              layoutVars, Versions
  <1> USE BoundsAssumption
  <1>1. ASSUME NEW d \in Docs, DidOpen(d) \/ DidChange(d) \/ DidSave(d) \/ DidClose(d)
        PROVE  DocumentTypes'
    <2>1. client[d] \in [open : BOOLEAN, version : 0 .. MaxVersion, saves : 0 .. MaxSaves]
      OBVIOUS
    <2>2. CASE DidOpen(d)
      <3>1. client[d].version + 1 \in 0 .. MaxVersion
        BY <2>1, <2>2 DEF DidOpen, MayRevise, Version
      <3> QED
        BY <2>1, <2>2, <3>1 DEF DidOpen
    <2>3. CASE DidChange(d)
      <3>1. client[d].version + 1 \in 0 .. MaxVersion
        BY <2>1, <2>3 DEF DidChange, MayRevise, Version
      <3> QED
        BY <2>1, <2>3, <3>1 DEF DidChange
    <2>4. CASE DidSave(d)
      <3>1. client[d].saves + 1 \in 0 .. MaxSaves
        BY <2>1, <2>4 DEF DidSave
      <3> QED
        BY <2>1, <2>4, <3>1 DEF DidSave
    <2>5. CASE DidClose(d)
      BY <2>1, <2>5 DEF DidClose
    <2> QED
      BY <1>1, <2>2, <2>3, <2>4, <2>5
  <1>2. ASSUME NEW kind \in FileEvents, DidChangeWatchedFiles(kind)
        PROVE  DocumentTypes'
    BY <1>2 DEF DidChangeWatchedFiles
  <1>3. ASSUME InitializeWorkspace  PROVE DocumentTypes'
    BY <1>3 DEF InitializeWorkspace
  <1>4. ASSUME Resume  PROVE DocumentTypes'
    BY <1>4 DEF Resume, ResumeOpened, ResumeChanged, ResumeSaved, ResumeWatchedFiles
  <1>5. ASSUME DocTurn  PROVE DocumentTypes'
    <2>1. ASSUME NEW d \in Docs, NEW v \in Versions, StoreOpened(d, v) \/ StoreChanged(d, v)
          PROVE  DocumentTypes'
      <3>1. [documents EXCEPT ![d] = v] \in [Docs -> 0 .. MaxVersion]
        OBVIOUS
      <3>2. CASE StoreOpened(d, v)
        BY <3>1, <3>2 DEF StoreOpened
      <3>3. CASE StoreChanged(d, v)
        BY <3>1, <3>3 DEF StoreChanged
      <3> QED
        BY <2>1, <3>2, <3>3
    <2>2. ASSUME NEW d \in Docs, RemoveDocument(d) \/ GetSaved(d)
          PROVE  DocumentTypes'
      <3>1. [documents EXCEPT ![d] = 0] \in [Docs -> 0 .. MaxVersion]
        OBVIOUS
      <3>2. CASE RemoveDocument(d)
        BY <3>1, <3>2 DEF RemoveDocument
      <3>3. CASE GetSaved(d)
        BY <3>3 DEF GetSaved
      <3> QED
        BY <2>2, <3>2, <3>3
    <2>3. ASSUME NEW d \in Docs, GetForRebuild(d)
          PROVE  DocumentTypes'
      <3>1. CASE documents[d] = 0
        BY <2>3, <3>1 DEF GetForRebuild
      <3>2. CASE documents[d] # 0
        BY <2>3, <3>2 DEF GetForRebuild
      <3> QED
        BY <3>1, <3>2
    <2>5. ASSUME NEW d \in Docs, GetVisited(d)
          PROVE  DocumentTypes'
      BY <2>5 DEF GetVisited
    <2>4. ASSUME GetAllUris  PROVE DocumentTypes'
      BY <2>4 DEF GetAllUris
    <2> QED
      BY <1>5, <2>1, <2>2, <2>3, <2>4, <2>5 DEF DocTurn
  <1>6. ASSUME SessionTurn  PROVE DocumentTypes'
    BY <1>6 DEF SessionTurn, UpdateTurn, RebuildTurn, VisitTurn, CancelTurn,
                CleanupTurn, SwapTurn, InvalidateTurn, UpdateSession, FinishRebuild
  <1>7. ASSUME NEW kind \in {"listed", "config"}, LayoutTurn(kind)
        PROVE  DocumentTypes'
    BY <1>7 DEF LayoutTurn
  <1>8. ASSUME NEW d \in Docs, TimerExpires(d) \/ TimerCallback(d)
                              \/ CleanupExpires(d) \/ SessionBuilt(d)
        PROVE  DocumentTypes'
    BY <1>8 DEF TimerExpires, TimerCallback, CleanupExpires, SessionBuilt, RebuildSession
  <1>9. ASSUME WorkspaceTimerExpires \/ RebuildStep  PROVE DocumentTypes'
    BY <1>9 DEF WorkspaceTimerExpires, RebuildStep, PreambleBuilt, SessionsDrained,
                WorkspaceTimerCallback
  <1> QED
    BY <1>1, <1>2, <1>3, <1>4, <1>5, <1>6, <1>7, <1>8, <1>9 DEF Next, Client

\* A new version, or the one that is stored, is a version.
LEMMA VersionTypes ==
    ASSUME DocumentTypes
    PROVE  /\ \A d \in Docs : documents[d] # 0 => documents[d] \in Versions
           /\ \A d \in Docs : MayRevise(d) => Version(d) + 1 \in Versions
  <1>1. ASSUME NEW d \in Docs, MayRevise(d)  PROVE Version(d) + 1 \in Versions
    <2>1. client[d].version \in 0 .. MaxVersion
      BY DEF DocumentTypes
    <2> QED
      BY <1>1, <2>1, BoundsAssumption DEF MayRevise, Version, Versions
  <1>2. ASSUME NEW d \in Docs, documents[d] # 0  PROVE documents[d] \in Versions
    BY <1>2, BoundsAssumption DEF DocumentTypes, Versions
  <1> QED
    BY <1>1, <1>2

\* Every action leaves the queues with entries of the handlers they serve.
LEMMA QueueTypesStep ==
    ASSUME QueueTypes, DocumentTypes, workspace.todo \in SUBSET Docs, Next
    PROVE  QueueTypes'
  <1> USE DEF eventVars, docVars, rebuildVars, storeVars, sessionVars, layoutVars
  <1>1. /\ \A e \in WaitEntries : Append(waiting, e) \in Seq(WaitEntries)
        /\ \A e \in DocEntries : Append(docQ, e) \in Seq(DocEntries)
        /\ \A e \in SessionEntries : Append(sessionQ, e) \in Seq(SessionEntries)
        /\ \A e \in LayoutEntries : Append(layoutQ, e) \in Seq(LayoutEntries)
    BY DEF QueueTypes
  <1>2. /\ waiting # <<>> => Tail(waiting) \in Seq(WaitEntries)
        /\ docQ # <<>> => Tail(docQ) \in Seq(DocEntries)
        /\ sessionQ # <<>> => Tail(sessionQ) \in Seq(SessionEntries)
        /\ layoutQ # <<>> => Tail(layoutQ) \in Seq(LayoutEntries)
    BY DEF QueueTypes
  <1>3. \A q \in Seq(DocEntries) : \A e \in DocEntries : Append(q, e) \in Seq(DocEntries)
    OBVIOUS
  <1>4. \A q \in Seq(SessionEntries) : \A e \in SessionEntries :
           Append(q, e) \in Seq(SessionEntries)
    OBVIOUS
  <1>5. \A todo : todo \in SUBSET Docs =>
           \A q \in Seq(DocEntries) : Visit(todo, q) => docQ' \in Seq(DocEntries)
    BY <1>3, EntryTypes DEF Visit
  <1>6. /\ \A d \in Docs : documents[d] # 0 => documents[d] \in Versions
        /\ \A d \in Docs : MayRevise(d) => Version(d) + 1 \in Versions
    BY VersionTypes
  <1>7. ASSUME NEW d \in Docs, DidOpen(d) \/ DidChange(d) \/ DidSave(d)
        PROVE  QueueTypes'
    BY <1>1, <1>6, <1>7, EntryTypes DEF QueueTypes, DidOpen, DidChange, DidSave
  <1>8. ASSUME NEW d \in Docs, DidClose(d)
        PROVE  QueueTypes'
    <2>1. CloseTurns(d) \in Seq(SessionEntries)
      BY EntryTypes DEF CloseTurns
    <2>2. sessionQ \o CloseTurns(d) \in Seq(SessionEntries)
      BY <2>1 DEF QueueTypes
    <2> QED
      BY <1>1, <1>8, <2>2, EntryTypes DEF QueueTypes, DidClose
  <1>9. ASSUME NEW kind \in FileEvents, DidChangeWatchedFiles(kind)
        PROVE  QueueTypes'
    BY <1>1, <1>9, StepTypes DEF DidChangeWatchedFiles, QueueTypes
  <1>10. ASSUME InitializeWorkspace  PROVE QueueTypes'
    BY <1>10 DEF InitializeWorkspace, QueueTypes
  <1>11. ASSUME NEW d \in Docs, NEW v \in Versions, ResumeOpened(d, v) \/ ResumeChanged(d, v)
         PROVE  QueueTypes'
    BY <1>1, <1>2, <1>11, EntryTypes DEF ResumeOpened, ResumeChanged, QueueTypes, Resumes
  <1>12. ASSUME NEW d \in Docs, ResumeSaved(d)  PROVE QueueTypes'
    BY <1>1, <1>2, <1>12, EntryTypes DEF ResumeSaved, QueueTypes, Resumes
  <1>13. ASSUME NEW kind \in FileEvents, ResumeWatchedFiles(kind)  PROVE QueueTypes'
    BY <1>1, <1>2, <1>13
    DEF ResumeWatchedFiles, QueueTypes, Resumes, FileEvents, LayoutEntries
  <1>14. ASSUME NEW d \in Docs, NEW v \in Versions, StoreOpened(d, v) \/ StoreChanged(d, v)
         PROVE  QueueTypes'
    BY <1>1, <1>2, <1>14, EntryTypes DEF StoreOpened, StoreChanged, QueueTypes, DocRuns
  <1>15. ASSUME NEW d \in Docs, RemoveDocument(d) \/ GetSaved(d) \/ GetForRebuild(d)
         PROVE  QueueTypes'
    BY <1>1, <1>2, <1>6, <1>15, EntryTypes
    DEF RemoveDocument, GetSaved, GetForRebuild, QueueTypes, DocRuns
  <1>16. ASSUME NEW d \in Docs, GetVisited(d), workspace.todo \in SUBSET Docs
         PROVE  QueueTypes'
    <2>1. CASE documents[d] = 0
      BY <1>2, <1>5, <1>16, <2>1 DEF GetVisited, QueueTypes, DocRuns
    <2>2. CASE documents[d] # 0
      BY <1>1, <1>2, <1>6, <1>16, <2>2, EntryTypes DEF GetVisited, QueueTypes, DocRuns
    <2> QED
      BY <2>1, <2>2
  <1>17. ASSUME GetAllUris  PROVE QueueTypes'
    BY <1>2, <1>5, <1>17 DEF GetAllUris, QueueTypes, DocRuns
  <1>18. ASSUME NEW d \in Docs, NEW v \in Versions, UpdateTurn(d, v)  PROVE QueueTypes'
    BY <1>2, <1>18 DEF UpdateTurn, QueueTypes, SessionRuns
  <1>19. ASSUME NEW d \in Docs, FinishRebuild(d) \/ RebuildSession(d)
         PROVE  docQ' \in Seq(DocEntries)
    BY <1>1, <1>19, EntryTypes DEF FinishRebuild, RebuildSession, QueueTypes
  <1>20. ASSUME NEW d \in Docs, NEW v \in Versions, RebuildTurn(d, v)  PROVE QueueTypes'
    BY <1>2, <1>19, <1>20 DEF RebuildTurn, QueueTypes, SessionRuns
  <1>21. ASSUME NEW d \in Docs, NEW v \in Versions, VisitTurn(d, v),
                workspace.todo \in SUBSET Docs
         PROVE  QueueTypes'
    BY <1>2, <1>5, <1>21 DEF VisitTurn, QueueTypes, SessionRuns
  <1>22. ASSUME NEW d \in Docs, CancelTurn(d) \/ CleanupTurn(d)  PROVE QueueTypes'
    BY <1>2, <1>22 DEF CancelTurn, CleanupTurn, QueueTypes, SessionRuns
  <1>23. ASSUME SwapTurn \/ InvalidateTurn  PROVE QueueTypes'
    BY <1>2, <1>4, <1>23, StepTypes DEF SwapTurn, InvalidateTurn, QueueTypes, SessionRuns
  <1>24. ASSUME NEW kind \in {"listed", "config"}, LayoutTurn(kind)  PROVE QueueTypes'
    BY <1>2, <1>24 DEF LayoutTurn, QueueTypes
  <1>25. ASSUME NEW d \in Docs, TimerExpires(d) \/ TimerCallback(d)
                                \/ CleanupExpires(d) \/ SessionBuilt(d)
         PROVE  QueueTypes'
    BY <1>19, <1>25 DEF TimerExpires, TimerCallback, CleanupExpires, SessionBuilt, QueueTypes
  <1>26. ASSUME WorkspaceTimerExpires \/ WorkspaceTimerCallback  PROVE QueueTypes'
    BY <1>26 DEF WorkspaceTimerExpires, WorkspaceTimerCallback, QueueTypes
  <1>27. ASSUME PreambleBuilt \/ SessionsDrained  PROVE QueueTypes'
    BY <1>1, <1>27, StepTypes DEF PreambleBuilt, SessionsDrained, QueueTypes
  <1> QED
    BY <1>7, <1>8, <1>9, <1>10, <1>11, <1>12, <1>13, <1>14, <1>15, <1>16, <1>17, <1>18,
       <1>20, <1>21, <1>22, <1>23, <1>24, <1>25, <1>26, <1>27
    DEF Next, Client, Resume, DocTurn, SessionTurn, RebuildStep

-----------------------------------------------------------------------------
\* The one rebuild of the workspace: at most one entry of a queue carries it
\* on, and the entry belongs to the point where RebuildWorkspace waits.

VisitSteps == {"uris", "get", "visit"}
SwapSteps  == {"swap", "invalidate"}

Lacks(q, steps)     == \A i \in 1 .. Len(q) : q[i][1] \notin steps
AtMostOne(q, steps) ==
    \A i, j \in 1 .. Len(q) : q[i][1] \in steps /\ q[j][1] \in steps => i = j

TokenInv ==
    /\ ~Lacks(docQ, VisitSteps) \/ ~Lacks(sessionQ, VisitSteps)
          => workspace.at = "visiting"
    /\ ~Lacks(sessionQ, SwapSteps) => workspace.at = "swapping"
    /\ AtMostOne(docQ, VisitSteps) /\ AtMostOne(sessionQ, VisitSteps)
    /\ Lacks(docQ, VisitSteps) \/ Lacks(sessionQ, VisitSteps)
    /\ AtMostOne(sessionQ, SwapSteps)

\* An entry is appended.
LEMMA AppendTokens ==
    ASSUME NEW S, NEW q \in Seq(S), NEW e \in S, NEW steps
    PROVE  /\ e[1] \notin steps => /\ Lacks(q, steps) => Lacks(Append(q, e), steps)
                                   /\ AtMostOne(q, steps) => AtMostOne(Append(q, e), steps)
           /\ Lacks(q, steps) => AtMostOne(Append(q, e), steps)
  <1> DEFINE r == Append(q, e)
  <1>1. /\ Len(q) \in Nat /\ r[Len(q) + 1] = e
        /\ \A i \in 1 .. Len(q) : r[i] = q[i]
        /\ \A i \in 1 .. Len(r) : i \in 1 .. Len(q) \/ i = Len(q) + 1
    BY AppendFacts
  <1> HIDE DEF r
  <1>2. e[1] \notin steps => (Lacks(q, steps) => Lacks(r, steps))
    BY <1>1 DEF Lacks
  <1>3. e[1] \notin steps => (AtMostOne(q, steps) => AtMostOne(r, steps))
    BY <1>1 DEF AtMostOne
  <1>4. Lacks(q, steps) => AtMostOne(r, steps)
    BY <1>1 DEF AtMostOne, Lacks
  <1> QED
    BY <1>2, <1>3, <1>4 DEF r

\* The oldest entry is taken out.
LEMMA TailTokens ==
    ASSUME NEW S, NEW q \in Seq(S), q # <<>>, NEW steps
    PROVE  /\ Lacks(q, steps) => Lacks(Tail(q), steps)
           /\ AtMostOne(q, steps) => AtMostOne(Tail(q), steps)
           /\ Head(q)[1] \in steps => ~Lacks(q, steps)
           /\ AtMostOne(q, steps) /\ Head(q)[1] \in steps => Lacks(Tail(q), steps)
  <1> DEFINE r == Tail(q)
  <1>1. /\ Head(q) = q[1] /\ 1 \in 1 .. Len(q)
        /\ \A i \in 1 .. Len(r) :
              i + 1 \in 1 .. Len(q) /\ r[i] = q[i + 1] /\ 1 < i + 1 /\ i \in Int
    BY TailFacts
  <1> HIDE DEF r
  <1>2. Lacks(q, steps) => Lacks(r, steps)
    BY <1>1 DEF Lacks
  <1>3. AtMostOne(q, steps) => AtMostOne(r, steps)
    <2> SUFFICES ASSUME AtMostOne(q, steps), NEW i \in 1 .. Len(r), NEW j \in 1 .. Len(r),
                        r[i][1] \in steps, r[j][1] \in steps
                 PROVE  i = j
      BY DEF AtMostOne
    <2>1. i + 1 = j + 1
      BY <1>1 DEF AtMostOne
    <2> QED
      BY <1>1, <2>1
  <1>4. Head(q)[1] \in steps => ~Lacks(q, steps)
    BY <1>1 DEF Lacks
  <1>5. AtMostOne(q, steps) /\ Head(q)[1] \in steps => Lacks(r, steps)
    BY <1>1 DEF Lacks, AtMostOne
  <1> QED
    BY <1>2, <1>3, <1>4, <1>5 DEF r

\* Every action leaves the layout and what is made of it with their types.
LEMMA LayoutTypesStep ==
    ASSUME QueueTypes, DocumentTypes, LayoutTypes, TokenInv, Next
    PROVE  LayoutTypes'
  <1> USE DEF LayoutTypes, storeVars, sessionVars, layoutVars, Versions
  <1> USE BoundsAssumption
  <1> DEFINE WorkspaceType(n) ==
               [state : {"idle", "inProgress", "pendingNext"},
                at : {"none", "building", "swapping", "draining", "visiting"},
                layout : 0 .. n, todo : SUBSET Docs]
             SessionType(n) == [version : 0 .. MaxVersion, preamble : 0 .. n, built : BOOLEAN]
             Kept == UNCHANGED <<session, preamble, layout, workspace, timer>>
  <1>1. Kept => LayoutTypes'
    OBVIOUS
  <1>2. NoSession \in SessionType(layout)
    BY DEF NoSession
  <1>3. ASSUME NEW todo \in SUBSET Docs, NEW q, Visit(todo, q), workspace.at = "visiting",
               UNCHANGED layout
        PROVE  /\ workspace' \in WorkspaceType(layout) /\ timer' \in [armed : BOOLEAN, due : BOOLEAN]
               /\ workspace'.state = "idle" <=> workspace'.at = "none"
    <2>1. CASE EndRebuild
      BY <1>3, <2>1 DEF EndRebuild, ScheduleWorkspaceRebuild
    <2>2. ASSUME NEW d \in todo, workspace' = [workspace EXCEPT !.todo = todo \ {d}],
                 UNCHANGED timer
          PROVE  /\ workspace' \in WorkspaceType(layout) /\ timer' \in [armed : BOOLEAN, due : BOOLEAN]
                 /\ workspace'.state = "idle" <=> workspace'.at = "none"
      BY <1>3, <2>2
    <2> QED
      BY <1>3, <2>1, <2>2 DEF Visit
  <1>4. ASSUME NEW d \in Docs, NEW v \in Versions, UpdateSession(d, v)
        PROVE  session' \in [Docs -> SessionType(layout)] /\ preamble' = preamble
    BY <1>4 DEF UpdateSession
  <1>5. ASSUME NEW l \in 0 .. layout, RebuildWorkspace(l)
        PROVE  /\ workspace' \in WorkspaceType(layout)
               /\ workspace'.state = "idle" <=> workspace'.at = "none"
    BY <1>5 DEF RebuildWorkspace
  <1>6. /\ WorkspaceType(layout) \subseteq WorkspaceType(layout + 1)
        /\ [Docs -> SessionType(layout)] \subseteq [Docs -> SessionType(layout + 1)]
        /\ preamble \in 0 .. layout + 1 /\ layout + 1 \in Nat
    OBVIOUS
  <1>7. ASSUME Client \/ InitializeWorkspace  PROVE Kept
    BY <1>7 DEF Client, DidOpen, DidChange, DidSave, DidClose, DidChangeWatchedFiles,
                InitializeWorkspace
  <1>8. ASSUME Resume  PROVE LayoutTypes'
    <2>1. ASSUME NEW d \in Docs, NEW v \in Versions, ResumeOpened(d, v) \/ ResumeChanged(d, v)
          PROVE  Kept
      BY <2>1 DEF ResumeOpened, ResumeChanged
    <2>2. ASSUME NEW d \in Docs, ResumeSaved(d)  PROVE Kept
      BY <2>2 DEF ResumeSaved
    <2>3. ASSUME NEW kind \in FileEvents, ResumeWatchedFiles(kind)  PROVE LayoutTypes'
      <3>1. CASE kind = "modified"
        BY <1>6, <2>3, <3>1 DEF ResumeWatchedFiles, ScheduleWorkspaceRebuild
      <3>2. CASE kind # "modified"
        BY <1>1, <2>3, <3>2 DEF ResumeWatchedFiles
      <3> QED
        BY <3>1, <3>2
    <2> QED
      BY <1>1, <1>8, <2>1, <2>2, <2>3 DEF Resume
  <1>9. ASSUME DocTurn  PROVE LayoutTypes'
    <2>1. ASSUME NEW d \in Docs, NEW v \in Versions, StoreOpened(d, v) \/ StoreChanged(d, v)
          PROVE  Kept
      BY <2>1 DEF StoreOpened, StoreChanged
    <2>2. ASSUME NEW d \in Docs, RemoveDocument(d) \/ GetSaved(d) \/ GetForRebuild(d)
          PROVE  Kept
      BY <2>2 DEF RemoveDocument, GetSaved, GetForRebuild
    <2>3. ASSUME NEW e, DocRuns(e), e[1] \in VisitSteps  PROVE workspace.at = "visiting"
      BY <2>3, TailTokens DEF DocRuns, QueueTypes, TokenInv
    <2>4. ASSUME NEW d \in Docs, GetVisited(d)  PROVE LayoutTypes'
      <3>1. workspace.at = "visiting"
        BY <2>3, <2>4 DEF GetVisited, Entry, VisitSteps
      <3>2. CASE documents[d] = 0
        BY <1>3, <2>4, <3>1, <3>2 DEF GetVisited
      <3>3. CASE documents[d] # 0
        BY <1>1, <2>4, <3>3 DEF GetVisited
      <3> QED
        BY <3>2, <3>3
    <2>5. ASSUME GetAllUris  PROVE LayoutTypes'
      <3>1. workspace.at = "visiting"
        BY <2>3, <2>5 DEF GetAllUris, Workspace, VisitSteps
      <3>2. {d \in Docs : documents[d] # 0} \in SUBSET Docs
        OBVIOUS
      <3> QED
        BY <1>3, <2>5, <3>1, <3>2 DEF GetAllUris
    <2> QED
      BY <1>1, <1>9, <2>1, <2>2, <2>4, <2>5 DEF DocTurn
  <1>10. ASSUME SessionTurn  PROVE LayoutTypes'
    <2>1. ASSUME NEW d \in Docs, NEW v \in Versions, UpdateTurn(d, v) \/ RebuildTurn(d, v)
          PROVE  LayoutTypes'
      BY <1>4, <2>1 DEF UpdateTurn, RebuildTurn
    <2>2. ASSUME NEW d \in Docs, NEW v \in Versions, VisitTurn(d, v)
          PROVE  LayoutTypes'
      <3>1. workspace.at = "visiting"
        BY <2>2, TailTokens DEF VisitTurn, SessionRuns, Entry, VisitSteps, QueueTypes, TokenInv
      <3> QED
        BY <1>3, <1>4, <2>2, <3>1 DEF VisitTurn
    <2>3. ASSUME NEW d \in Docs, CancelTurn(d) \/ CleanupTurn(d)
          PROVE  LayoutTypes'
      BY <1>2, <2>3 DEF CancelTurn, CleanupTurn
    <2>4. ASSUME SwapTurn  PROVE LayoutTypes'
      BY <2>4 DEF SwapTurn
    <2>5. ASSUME InvalidateTurn  PROVE LayoutTypes'
      <3>1. workspace.at = "swapping"
        BY <2>5, TailTokens
        DEF InvalidateTurn, SessionRuns, Workspace, SwapSteps, QueueTypes, TokenInv
      <3> QED
        BY <1>2, <2>5, <3>1 DEF InvalidateTurn
    <2> QED
      BY <1>10, <2>1, <2>2, <2>3, <2>4, <2>5 DEF SessionTurn
  <1>11. ASSUME NEW kind \in {"listed", "config"}, LayoutTurn(kind)
         PROVE  LayoutTypes'
    <2>1. ASSUME RebuildWorkspace(layout + 1)
          PROVE  /\ workspace' \in WorkspaceType(layout + 1)
                 /\ workspace'.state = "idle" <=> workspace'.at = "none"
      <3>1. workspace \in WorkspaceType(layout + 1) /\ layout + 1 \in 0 .. layout + 1
        BY <1>6
      <3> QED
        BY <2>1, <3>1 DEF RebuildWorkspace
    <2>3. /\ workspace' \in WorkspaceType(layout + 1)
          /\ workspace'.state = "idle" <=> workspace'.at = "none"
      BY <1>6, <1>11, <2>1 DEF LayoutTurn
    <2>2. timer' \in [armed : BOOLEAN, due : BOOLEAN]
      BY <1>11 DEF LayoutTurn, ScheduleWorkspaceRebuild
    <2> QED
      BY <1>6, <1>11, <2>2, <2>3 DEF LayoutTurn
  <1>12. ASSUME NEW d \in Docs, TimerExpires(d) \/ TimerCallback(d)  PROVE Kept
    BY <1>12 DEF TimerExpires, TimerCallback
  <1>13. ASSUME NEW d \in Docs, CleanupExpires(d) \/ SessionBuilt(d)  PROVE LayoutTypes'
    <2>1. CASE CleanupExpires(d)
      BY <1>2, <2>1 DEF CleanupExpires
    <2>2. CASE SessionBuilt(d)
      <3>1. [session EXCEPT ![d].built = TRUE] \in [Docs -> SessionType(layout)]
        OBVIOUS
      <3> QED
        BY <2>2, <3>1 DEF SessionBuilt
    <2> QED
      BY <1>13, <2>1, <2>2
  <1>14. ASSUME WorkspaceTimerExpires  PROVE LayoutTypes'
    BY <1>14 DEF WorkspaceTimerExpires
  <1>15. ASSUME WorkspaceTimerCallback  PROVE LayoutTypes'
    <2>1. RebuildWorkspace(layout) /\ layout \in 0 .. layout
      BY <1>15 DEF WorkspaceTimerCallback
    <2>2. /\ workspace' \in WorkspaceType(layout)
          /\ workspace'.state = "idle" <=> workspace'.at = "none"
      BY <1>5, <2>1
    <2> QED
      BY <1>15, <2>2 DEF WorkspaceTimerCallback
  <1>16. ASSUME PreambleBuilt  PROVE LayoutTypes'
    BY <1>16 DEF PreambleBuilt
  <1>17. ASSUME SessionsDrained  PROVE LayoutTypes'
    BY <1>2, <1>17 DEF SessionsDrained
  <1> QED
    BY <1>1, <1>7, <1>8, <1>9, <1>10, <1>11, <1>12, <1>13, <1>14, <1>15, <1>16, <1>17
    DEF Next, RebuildStep

\* A queue r has no entry of the rebuild that q does not have.
NoMore(q, r) ==
    \A steps \in {VisitSteps, SwapSteps} :
        /\ Lacks(q, steps) => Lacks(r, steps)
        /\ AtMostOne(q, steps) => AtMostOne(r, steps)

\* Of the four ways in which the handlers treat a queue.
LEMMA NoMoreTokens ==
    /\ \A q : NoMore(q, q)
    /\ \A q, r, s : NoMore(q, r) /\ NoMore(r, s) => NoMore(q, s)
    /\ \A S : \A q \in Seq(S) :
          /\ q # <<>> => NoMore(q, Tail(q))
          /\ \A e \in S : e[1] \notin VisitSteps \cup SwapSteps => NoMore(q, Append(q, e))
  <1>1. ASSUME NEW S, NEW q \in Seq(S), q # <<>>
        PROVE  NoMore(q, Tail(q))
    BY <1>1, TailTokens DEF NoMore
  <1>2. ASSUME NEW S, NEW q \in Seq(S), NEW e \in S, e[1] \notin VisitSteps \cup SwapSteps
        PROVE  NoMore(q, Append(q, e))
    BY <1>2, AppendTokens DEF NoMore
  <1>3. \A q, r, s : NoMore(q, r) /\ NoMore(r, s) => NoMore(q, s)
    BY DEF NoMore
  <1>4. \A q : NoMore(q, q)
    BY DEF NoMore
  <1> QED
    BY <1>1, <1>2, <1>3, <1>4

\* A step that puts no entry of the rebuild into a queue, and leaves the
\* rebuild where it is or starts one.
LEMMA CalmTokens ==
    ASSUME TokenInv, NoMore(docQ, docQ'), NoMore(sessionQ, sessionQ'),
           workspace'.at = workspace.at \/ workspace.at = "none"
    PROVE  TokenInv'
  BY DEF TokenInv, NoMore

\* The handlers of documents put no entry of the rebuild into a queue.
LEMMA HandlersAreCalm ==
    ASSUME QueueTypes, DocumentTypes
    PROVE  /\ docQ # <<>> => NoMore(docQ, Tail(docQ))
           /\ sessionQ # <<>> => NoMore(sessionQ, Tail(sessionQ))
           /\ \A d \in Docs :
                 /\ \A h \in {"open", "change"}, v \in Versions :
                       NoMore(docQ, Append(docQ, Entry(h, d, v)))
                 /\ \A h \in {"save", "remove", "rebuild"} :
                       NoMore(docQ, Append(docQ, Entry(h, d, 0)))
                 /\ \A h \in {"update", "rebuild"}, v \in Versions :
                       NoMore(sessionQ, Append(sessionQ, Entry(h, d, v)))
                 /\ NoMore(sessionQ, sessionQ \o CloseTurns(d))
  <1>1. ASSUME NEW d \in Docs
        PROVE  NoMore(sessionQ, sessionQ \o CloseTurns(d))
    <2> DEFINE c == Entry("cancel", d, 0)
               e == Entry("cleanup", d, 0)
    <2>1. c \in SessionEntries /\ e \in SessionEntries
      BY EntryTypes
    <2>2. sessionQ \in Seq(SessionEntries)
      BY DEF QueueTypes
    <2>3. c[1] \notin VisitSteps \cup SwapSteps /\ e[1] \notin VisitSteps \cup SwapSteps
      BY DEF Entry, VisitSteps, SwapSteps
    <2> HIDE DEF c, e
    <2>4. sessionQ \o <<c, e>> = Append(Append(sessionQ, c), e)
      BY <2>1, <2>2
    <2>5. Append(sessionQ, c) \in Seq(SessionEntries)
      BY <2>1, <2>2
    <2>6. NoMore(sessionQ, Append(sessionQ, c))
      BY <2>1, <2>2, <2>3, NoMoreTokens
    <2>7. NoMore(Append(sessionQ, c), Append(Append(sessionQ, c), e))
      BY <2>1, <2>3, <2>5, NoMoreTokens
    <2> QED
      BY <2>4, <2>6, <2>7, NoMoreTokens DEF CloseTurns, c, e
  <1>2. ASSUME NEW d \in Docs, NEW v
        PROVE  \A h \in {"open", "change", "save", "remove", "rebuild", "update"} :
                  Entry(h, d, v)[1] \notin VisitSteps \cup SwapSteps
    BY DEF Entry, VisitSteps, SwapSteps
  <1>3. docQ \in Seq(DocEntries) /\ sessionQ \in Seq(SessionEntries)
    BY DEF QueueTypes
  <1>4. ASSUME NEW d \in Docs, NEW v \in Versions, NEW h \in {"open", "change"}
        PROVE  NoMore(docQ, Append(docQ, Entry(h, d, v)))
    <2>1. Entry(h, d, v) \in DocEntries /\ Entry(h, d, v)[1] \notin VisitSteps \cup SwapSteps
      BY <1>2, EntryTypes
    <2> QED
      BY <1>3, <2>1, NoMoreTokens
  <1>5. ASSUME NEW d \in Docs, NEW h \in {"save", "remove", "rebuild"}
        PROVE  NoMore(docQ, Append(docQ, Entry(h, d, 0)))
    <2>1. Entry(h, d, 0) \in DocEntries /\ Entry(h, d, 0)[1] \notin VisitSteps \cup SwapSteps
      BY <1>2, EntryTypes
    <2> QED
      BY <1>3, <2>1, NoMoreTokens
  <1>6. ASSUME NEW d \in Docs, NEW v \in Versions, NEW h \in {"update", "rebuild"}
        PROVE  NoMore(sessionQ, Append(sessionQ, Entry(h, d, v)))
    <2>1. Entry(h, d, v) \in SessionEntries /\ Entry(h, d, v)[1] \notin VisitSteps \cup SwapSteps
      BY <1>2, EntryTypes
    <2> QED
      BY <1>3, <2>1, NoMoreTokens
  <1> QED
    BY <1>1, <1>3, <1>4, <1>5, <1>6, NoMoreTokens

\* Every action leaves the rebuild of the workspace with one place.
LEMMA TokenStep ==
    ASSUME QueueTypes, DocumentTypes, LayoutTypes, TokenInv, Next
    PROVE  TokenInv'
  <1> USE DEF storeVars, sessionVars, layoutVars, docVars
  <1> DEFINE SameAt == workspace'.at = workspace.at \/ workspace.at = "none"
  <1>1. NoMore(docQ, docQ) /\ NoMore(sessionQ, sessionQ)
    BY NoMoreTokens
  <1>2. ASSUME NEW l, RebuildWorkspace(l)  PROVE SameAt
    <2>1. CASE workspace.state = "idle"
      BY <2>1 DEF LayoutTypes
    <2>2. CASE workspace.state # "idle"
      BY <1>2, <2>2 DEF LayoutTypes, RebuildWorkspace
    <2> QED
      BY <2>1, <2>2
  <1>3. ASSUME NEW d \in Docs, DidOpen(d) \/ DidChange(d) \/ DidSave(d) \/ DidClose(d)
        PROVE  TokenInv'
    <2>1. NoMore(docQ, docQ') /\ NoMore(sessionQ, sessionQ')
      BY <1>1, <1>3, HandlersAreCalm, VersionTypes DEF DidOpen, DidChange, DidSave, DidClose
    <2> QED
      BY <1>3, <2>1, CalmTokens DEF DidOpen, DidChange, DidSave, DidClose
  <1>4. ASSUME InitializeWorkspace \/ \E kind \in FileEvents : DidChangeWatchedFiles(kind)
        PROVE  TokenInv'
    BY <1>1, <1>4, CalmTokens DEF InitializeWorkspace, DidChangeWatchedFiles
  <1>5. ASSUME Resume  PROVE TokenInv'
    <2>1. ASSUME NEW d \in Docs, NEW v \in Versions, ResumeOpened(d, v) \/ ResumeChanged(d, v)
          PROVE  TokenInv'
      <3>1. NoMore(docQ, docQ') /\ NoMore(sessionQ, sessionQ')
        BY <1>1, <2>1, HandlersAreCalm DEF ResumeOpened, ResumeChanged
      <3> QED
        BY <2>1, <3>1, CalmTokens DEF ResumeOpened, ResumeChanged
    <2>2. ASSUME NEW d \in Docs, ResumeSaved(d)  PROVE TokenInv'
      BY <1>1, <2>2, HandlersAreCalm, CalmTokens DEF ResumeSaved
    <2>3. ASSUME NEW kind \in FileEvents, ResumeWatchedFiles(kind)  PROVE TokenInv'
      BY <1>1, <2>3, CalmTokens DEF ResumeWatchedFiles
    <2> QED
      BY <1>5, <2>1, <2>2, <2>3 DEF Resume
  <1>6. docQ \in Seq(DocEntries) /\ sessionQ \in Seq(SessionEntries)
    BY DEF QueueTypes
  <1>7. ASSUME NEW d \in Docs
        PROVE  /\ Entry("get", d, 0) \in DocEntries /\ Entry("get", d, 0)[1] \notin SwapSteps
               /\ \A v \in Versions : /\ Entry("visit", d, v) \in SessionEntries
                                      /\ Entry("visit", d, v)[1] \notin SwapSteps
    BY EntryTypes DEF Entry, SwapSteps
  <1>8. ASSUME NEW todo \in SUBSET Docs, NEW q \in Seq(DocEntries), Visit(todo, q),
               Lacks(q, VisitSteps), Lacks(sessionQ', VisitSteps), Lacks(sessionQ', SwapSteps),
               workspace.at = "visiting"
        PROVE  TokenInv'
    <2>1. ASSUME NEW d \in todo, docQ' = Append(q, Entry("get", d, 0)),
                 workspace' = [workspace EXCEPT !.todo = todo \ {d}]
          PROVE  TokenInv'
      <3>1. AtMostOne(docQ', VisitSteps)
        BY <1>7, <1>8, <2>1, AppendTokens
      <3>2. workspace'.at = "visiting"
        BY <1>8, <2>1 DEF LayoutTypes
      <3> QED
        BY <1>8, <3>1, <3>2 DEF TokenInv, Lacks, AtMostOne
    <2>2. ASSUME docQ' = q  PROVE TokenInv'
      BY <1>8, <2>2 DEF TokenInv, Lacks, AtMostOne
    <2> QED
      BY <1>8, <2>1, <2>2 DEF Visit
  <1>9. ASSUME NEW e, DocRuns(e), e[1] \in VisitSteps
        PROVE  /\ workspace.at = "visiting"
               /\ Lacks(Tail(docQ), VisitSteps) /\ Lacks(sessionQ, VisitSteps)
               /\ Lacks(sessionQ, SwapSteps) /\ Tail(docQ) \in Seq(DocEntries)
    BY <1>6, <1>9, TailTokens DEF DocRuns, TokenInv
  <1>10. ASSUME NEW e, SessionRuns(e)
         PROVE  /\ e[1] \in VisitSteps =>
                      /\ workspace.at = "visiting"
                      /\ Lacks(Tail(sessionQ), VisitSteps) /\ Lacks(docQ, VisitSteps)
                      /\ Lacks(Tail(sessionQ), SwapSteps)
                /\ e[1] \in SwapSteps =>
                      /\ workspace.at = "swapping"
                      /\ Lacks(Tail(sessionQ), VisitSteps) /\ Lacks(docQ, VisitSteps)
                      /\ Lacks(Tail(sessionQ), SwapSteps)
                /\ Tail(sessionQ) \in Seq(SessionEntries)
    BY <1>6, <1>10, TailTokens DEF SessionRuns, TokenInv
  <1>11. ASSUME DocTurn  PROVE TokenInv'
    <2>1. ASSUME NEW d \in Docs, NEW v \in Versions, StoreOpened(d, v) \/ StoreChanged(d, v)
          PROVE  TokenInv'
      BY <1>1, <2>1, HandlersAreCalm, CalmTokens DEF StoreOpened, StoreChanged, DocRuns
    <2>2. ASSUME NEW d \in Docs, RemoveDocument(d) \/ GetSaved(d) \/ GetForRebuild(d)
          PROVE  TokenInv'
      <3>1. NoMore(docQ, docQ') /\ NoMore(sessionQ, sessionQ')
        BY <1>1, <2>2, HandlersAreCalm, VersionTypes
        DEF RemoveDocument, GetSaved, GetForRebuild, DocRuns
      <3> QED
        BY <2>2, <3>1, CalmTokens DEF RemoveDocument, GetSaved, GetForRebuild
    <2>3. ASSUME NEW d \in Docs, GetVisited(d)  PROVE TokenInv'
      <3>1. DocRuns(Entry("get", d, 0)) /\ Entry("get", d, 0)[1] \in VisitSteps
        BY <2>3 DEF GetVisited, Entry, VisitSteps
      <3>2. CASE documents[d] = 0
        <4>1. workspace.todo \in SUBSET Docs
          BY DEF LayoutTypes
        <4> QED
          BY <1>8, <1>9, <2>3, <3>1, <3>2, <4>1 DEF GetVisited
      <3>3. CASE documents[d] # 0
        <4>1. documents[d] \in Versions
          BY <3>3, VersionTypes
        <4>2. AtMostOne(sessionQ', VisitSteps) /\ Lacks(sessionQ', SwapSteps)
          BY <1>6, <1>7, <1>9, <2>3, <3>1, <3>3, <4>1, AppendTokens DEF GetVisited
        <4> QED
          BY <1>9, <2>3, <3>1, <3>3, <4>2 DEF GetVisited, TokenInv, Lacks, AtMostOne
      <3> QED
        BY <3>2, <3>3
    <2>4. ASSUME GetAllUris  PROVE TokenInv'
      <3>1. DocRuns(Workspace("uris")) /\ Workspace("uris")[1] \in VisitSteps
        BY <2>4 DEF GetAllUris, Workspace, VisitSteps
      <3>2. {d \in Docs : documents[d] # 0} \in SUBSET Docs
        OBVIOUS
      <3> QED
        BY <1>8, <1>9, <2>4, <3>1, <3>2 DEF GetAllUris
    <2> QED
      BY <1>11, <2>1, <2>2, <2>3, <2>4 DEF DocTurn
  <1>12. ASSUME NEW d \in Docs, FinishRebuild(d) \/ RebuildSession(d)
         PROVE  NoMore(docQ, docQ')
    BY <1>1, <1>12, HandlersAreCalm DEF FinishRebuild, RebuildSession
  <1>13. ASSUME SessionTurn  PROVE TokenInv'
    <2>1. ASSUME NEW d \in Docs, NEW v \in Versions, UpdateTurn(d, v) \/ RebuildTurn(d, v)
          PROVE  TokenInv'
      <3>1. NoMore(docQ, docQ') /\ NoMore(sessionQ, sessionQ')
        BY <1>1, <1>12, <2>1, HandlersAreCalm DEF UpdateTurn, RebuildTurn, SessionRuns
      <3> QED
        BY <2>1, <3>1, CalmTokens DEF UpdateTurn, RebuildTurn
    <2>2. ASSUME NEW d \in Docs, NEW v \in Versions, VisitTurn(d, v)  PROVE TokenInv'
      <3>1. SessionRuns(Entry("visit", d, v)) /\ Entry("visit", d, v)[1] \in VisitSteps
        BY <2>2 DEF VisitTurn, Entry, VisitSteps
      <3>2. workspace.todo \in SUBSET Docs
        BY DEF LayoutTypes
      <3> QED
        BY <1>6, <1>8, <1>10, <2>2, <3>1, <3>2 DEF VisitTurn
    <2>3. ASSUME NEW d \in Docs, CancelTurn(d) \/ CleanupTurn(d)  PROVE TokenInv'
      BY <1>1, <2>3, HandlersAreCalm, CalmTokens DEF CancelTurn, CleanupTurn, SessionRuns
    <2>4. ASSUME SwapTurn  PROVE TokenInv'
      <3>1. /\ SessionRuns(Workspace("swap")) /\ Workspace("swap")[1] \in SwapSteps
            /\ Workspace("invalidate")[1] \notin VisitSteps
        BY <2>4 DEF SwapTurn, Workspace, SwapSteps, VisitSteps
      <3>2. AtMostOne(sessionQ', SwapSteps) /\ Lacks(sessionQ', VisitSteps)
        BY <1>10, <2>4, <3>1, AppendTokens, StepTypes DEF SwapTurn
      <3> QED
        BY <1>10, <2>4, <3>1, <3>2 DEF SwapTurn, TokenInv, Lacks, AtMostOne
    <2>5. ASSUME InvalidateTurn  PROVE TokenInv'
      <3>1. SessionRuns(Workspace("invalidate")) /\ Workspace("invalidate")[1] \in SwapSteps
        BY <2>5 DEF InvalidateTurn, Workspace, SwapSteps
      <3> QED
        BY <1>10, <2>5, <3>1 DEF InvalidateTurn, TokenInv, Lacks, AtMostOne
    <2> QED
      BY <1>13, <2>1, <2>2, <2>3, <2>4, <2>5 DEF SessionTurn
  <1>14. ASSUME NEW kind \in {"listed", "config"}, LayoutTurn(kind)
         PROVE  TokenInv'
    <2>1. SameAt
      BY <1>2, <1>14 DEF LayoutTurn
    <2> QED
      BY <1>1, <1>14, <2>1, CalmTokens DEF LayoutTurn
  <1>15. ASSUME NEW d \in Docs, TimerExpires(d) \/ TimerCallback(d)
                                \/ CleanupExpires(d) \/ SessionBuilt(d)
         PROVE  TokenInv'
    <2>1. NoMore(docQ, docQ') /\ UNCHANGED <<sessionQ, workspace>>
      BY <1>1, <1>12, <1>15 DEF TimerExpires, TimerCallback, CleanupExpires, SessionBuilt
    <2> QED
      BY <1>1, <2>1, CalmTokens
  <1>16. ASSUME WorkspaceTimerExpires \/ WorkspaceTimerCallback  PROVE TokenInv'
    <2>1. SameAt
      BY <1>2, <1>16 DEF WorkspaceTimerExpires, WorkspaceTimerCallback
    <2> QED
      BY <1>1, <1>16, <2>1, CalmTokens DEF WorkspaceTimerExpires, WorkspaceTimerCallback
  <1>17. ASSUME PreambleBuilt  PROVE TokenInv'
    <2>1. /\ Lacks(docQ, VisitSteps) /\ Lacks(sessionQ, VisitSteps) /\ Lacks(sessionQ, SwapSteps)
          /\ Workspace("swap")[1] \notin VisitSteps
      BY <1>17 DEF PreambleBuilt, TokenInv, Workspace, VisitSteps
    <2>2. AtMostOne(sessionQ', SwapSteps) /\ Lacks(sessionQ', VisitSteps)
      BY <1>6, <1>17, <2>1, AppendTokens, StepTypes DEF PreambleBuilt
    <2>3. workspace'.at = "swapping"
      BY <1>17 DEF PreambleBuilt, LayoutTypes
    <2> QED
      BY <1>17, <2>1, <2>2, <2>3 DEF PreambleBuilt, TokenInv, Lacks, AtMostOne
  <1>18. ASSUME SessionsDrained  PROVE TokenInv'
    <2>1. Lacks(docQ, VisitSteps) /\ Lacks(sessionQ, VisitSteps) /\ Lacks(sessionQ, SwapSteps)
      BY <1>18 DEF SessionsDrained, TokenInv
    <2>2. AtMostOne(docQ', VisitSteps)
      BY <1>6, <1>18, <2>1, AppendTokens, StepTypes DEF SessionsDrained
    <2>3. workspace'.at = "visiting"
      BY <1>18 DEF SessionsDrained, LayoutTypes
    <2> QED
      BY <1>18, <2>1, <2>2, <2>3 DEF SessionsDrained, TokenInv, Lacks, AtMostOne
  <1> QED
    BY <1>3, <1>4, <1>5, <1>11, <1>13, <1>14, <1>15, <1>16, <1>17, <1>18
    DEF Next, Client, RebuildStep

-----------------------------------------------------------------------------
\* A file event is counted once, on its way or in the layout.
EventInv == layout + EventsUnderWay <= MaxChanges

Waiters == Cardinality(EventsIn(waiting))

\* Every action counts it once.
LEMMA EventStep ==
    ASSUME QueueTypes, DocumentTypes, layout \in Nat, EventInv, Next
    PROVE  EventInv'
  <1> USE DEF storeVars, sessionVars, layoutVars, docVars, eventVars
  <1> DEFINE w == Waiters
             l == Len(layoutQ)
  <1>1. w \in Nat /\ l \in Nat /\ MaxChanges \in Nat
    BY EventsFinite, BoundsAssumption DEF QueueTypes, Waiters
  <1>2. /\ EventInv <=> layout + (w + l) <= MaxChanges
        /\ EventInv' <=> layout' + (w' + l') <= MaxChanges
    BY DEF EventInv, EventsUnderWay, EventsIn, Waiters
  <1>3. /\ \A h, d, v : One(Entry(h, d, v)) = 0
        /\ \A kind : One(Workspace(kind)) = 1
    BY DEF One, Entry, Workspace
  <1>4. /\ \A e \in WaitEntries : waiting' = Append(waiting, e) => w' = w + One(e)
        /\ \A e : Resumes(e) => w' = w - One(e)
    <2>1. \A e \in WaitEntries : waiting' = Append(waiting, e) => w' = w + One(e)
      BY EventsAppend DEF QueueTypes, Waiters
    <2>2. \A e : Resumes(e) => w' = w - One(e)
      BY EventsTail DEF QueueTypes, Resumes, Waiters
    <2> QED
      BY <2>1, <2>2
  <1>5. /\ \A e \in LayoutEntries : layoutQ' = Append(layoutQ, e) => l' = l + 1
        /\ layoutQ # <<>> /\ layoutQ' = Tail(layoutQ) => l' = l - 1
    BY DEF QueueTypes
  <1> HIDE DEF w, l
  <1>6. ASSUME UNCHANGED <<waiting, layoutQ, layout>>  PROVE EventInv'
    BY <1>6, EventInv DEF EventInv, EventsUnderWay
  <1>7. ASSUME NEW e \in WaitEntries, waiting' = Append(waiting, e), One(e) = 0,
               UNCHANGED <<layoutQ, layout>>
        PROVE  EventInv'
    <2>1. l' = l
      BY <1>7 DEF l
    <2> QED
      BY <1>1, <1>2, <1>4, <1>7, <2>1
  <1>8. ASSUME NEW e, Resumes(e), One(e) = 0, UNCHANGED <<layoutQ, layout>>
        PROVE  EventInv'
    <2>1. l' = l
      BY <1>8 DEF l
    <2>2. w' \in Nat
      BY <1>8, TailFacts, EventsFinite DEF Resumes, QueueTypes, Waiters, w
    <2>3. w' = w
      BY <1>1, <1>4, <1>8
    <2>4. layout + (w + l) <= MaxChanges
      BY <1>2
    <2>5. layout' + (w' + l') <= MaxChanges
      BY <1>1, <1>8, <2>1, <2>2, <2>3, <2>4
    <2> QED
      BY <1>2, <2>5
  <1>9. ASSUME NEW d \in Docs, DidOpen(d) \/ DidClose(d)  PROVE EventInv'
    BY <1>6, <1>9 DEF DidOpen, DidClose
  <1>10. ASSUME NEW d \in Docs, NEW v \in Versions, StoreOpened(d, v)  PROVE EventInv'
    BY <1>3, <1>7, <1>10, EntryTypes DEF StoreOpened
  <1>11. ASSUME NEW d \in Docs, DidSave(d)  PROVE EventInv'
    BY <1>3, <1>7, <1>11, EntryTypes DEF DidSave
  <1>12. ASSUME NEW d \in Docs, DidChange(d), Version(d) + 1 \in Versions  PROVE EventInv'
    BY <1>3, <1>7, <1>12, EntryTypes DEF DidChange
  <1>13. ASSUME NEW kind \in FileEvents, DidChangeWatchedFiles(kind)  PROVE EventInv'
    <2>1. w' = w + 1 /\ l' = l
      BY <1>3, <1>4, <1>13, StepTypes DEF DidChangeWatchedFiles, l
    <2>2. layout + (w + l) < MaxChanges /\ layout' = layout
      BY <1>13 DEF DidChangeWatchedFiles, EventsUnderWay, EventsIn, Waiters, w, l
    <2> QED
      BY <1>1, <1>2, <2>1, <2>2
  <1>14. ASSUME NEW d \in Docs, NEW v \in Versions, ResumeOpened(d, v) \/ ResumeChanged(d, v)
         PROVE  EventInv'
    BY <1>3, <1>8, <1>14 DEF ResumeOpened, ResumeChanged
  <1>15. ASSUME NEW d \in Docs, ResumeSaved(d)  PROVE EventInv'
    BY <1>3, <1>8, <1>15 DEF ResumeSaved
  <1>16. ASSUME NEW kind \in FileEvents, ResumeWatchedFiles(kind)  PROVE EventInv'
    <2>1. w' \in Nat
      BY <1>16, TailFacts, EventsFinite DEF ResumeWatchedFiles, Resumes, QueueTypes, Waiters, w
    <2>2. w' = w - 1
      BY <1>1, <1>3, <1>4, <1>16 DEF ResumeWatchedFiles
    <2>3. \/ l' = l /\ layout' = layout + 1
          \/ l' = l + 1 /\ layout' = layout
      <3>1. CASE kind = "modified"
        BY <1>16, <3>1 DEF ResumeWatchedFiles, l
      <3>2. CASE kind # "modified"
        <4>1. kind \in LayoutEntries
          BY <3>2 DEF FileEvents, LayoutEntries
        <4> QED
          BY <1>5, <1>16, <3>2, <4>1 DEF ResumeWatchedFiles
      <3> QED
        BY <3>1, <3>2
    <2>4. layout + (w + l) <= MaxChanges
      BY <1>2
    <2>5. layout' + (w' + l') <= MaxChanges
      BY <1>1, <2>1, <2>2, <2>3, <2>4
    <2> QED
      BY <1>2, <2>5
  <1>17. ASSUME NEW kind \in {"listed", "config"}, LayoutTurn(kind)  PROVE EventInv'
    <2>1. l' = l - 1 /\ layout' = layout + 1 /\ w' = w
      BY <1>5, <1>17 DEF LayoutTurn, Waiters, w
    <2> QED
      BY <1>1, <1>2, <2>1
  <1>18. ASSUME \/ InitializeWorkspace
                \/ \E d \in Docs, v \in Versions : StoreChanged(d, v)
                \/ \E d \in Docs : \/ RemoveDocument(d) \/ GetSaved(d) \/ GetForRebuild(d)
                                    \/ GetVisited(d)
                \/ GetAllUris
         PROVE  EventInv'
    BY <1>6, <1>18 DEF InitializeWorkspace, StoreChanged, RemoveDocument, GetSaved,
                       GetForRebuild, GetVisited, GetAllUris
  <1>19. ASSUME SessionTurn  PROVE EventInv'
    BY <1>6, <1>19 DEF SessionTurn, UpdateTurn, RebuildTurn, VisitTurn, CancelTurn, CleanupTurn,
                       SwapTurn, InvalidateTurn
  <1>20. ASSUME \E d \in Docs : \/ TimerExpires(d) \/ TimerCallback(d)
                                \/ CleanupExpires(d) \/ SessionBuilt(d)
         PROVE  EventInv'
    BY <1>6, <1>20 DEF TimerExpires, TimerCallback, CleanupExpires, SessionBuilt
  <1>21. ASSUME WorkspaceTimerExpires \/ RebuildStep  PROVE EventInv'
    BY <1>6, <1>21 DEF WorkspaceTimerExpires, RebuildStep, PreambleBuilt, SessionsDrained,
                       WorkspaceTimerCallback
  <1>22. ASSUME NEW d \in Docs, DidChange(d)  PROVE Version(d) + 1 \in Versions
    BY <1>22, VersionTypes DEF DidChange
  <1> QED
    BY <1>9, <1>10, <1>11, <1>12, <1>13, <1>14, <1>15, <1>16, <1>17, <1>18, <1>19, <1>20,
       <1>21, <1>22
    DEF Next, Client, Resume, DocTurn

-----------------------------------------------------------------------------
\* The invariant, and TypeOK from it.

TypeInv == QueueTypes /\ DocumentTypes /\ LayoutTypes /\ TokenInv /\ EventInv

\* Documents and layout have their types, a rebuild of the workspace is in
\* one place, and a file event is counted once.
LEMMA TypeInvHolds == Spec => []TypeInv
  <1>1. Init => TypeInv
    <2> SUFFICES ASSUME Init  PROVE TypeInv
      OBVIOUS
    <2>1. QueueTypes /\ DocumentTypes
      <3>1. QueueTypes
        BY DEF Init, QueueTypes
      <3>2. [d \in Docs |-> [open |-> FALSE, version |-> 0, saves |-> 0]]
               \in [Docs -> [open : BOOLEAN, version : 0 .. MaxVersion, saves : 0 .. MaxSaves]]
        BY BoundsAssumption
      <3>3. [d \in Docs |-> 0] \in [Docs -> 0 .. MaxVersion]
        BY BoundsAssumption
      <3>4. DocumentTypes
        BY <3>2, <3>3 DEF Init, DocumentTypes
      <3> QED
        BY <3>1, <3>4
    <2>4. LayoutTypes
      BY BoundsAssumption DEF Init, LayoutTypes, NoSession
    <2>2. TokenInv
      BY DEF Init, TokenInv, Lacks, AtMostOne
    <2>3. EventInv
      <3>1. {i \in DOMAIN waiting : Len(waiting[i]) = 1} = {} /\ Len(layoutQ) = 0
        BY DEF Init
      <3>2. EventsUnderWay = 0
        BY <3>1, FS_EmptySet DEF EventsUnderWay
      <3> QED
        BY <3>2, BoundsAssumption DEF EventInv, Init
    <2> QED
      BY <2>1, <2>2, <2>3, <2>4 DEF TypeInv
  <1>2. TypeInv /\ [Next]_vars => TypeInv'
    <2> SUFFICES ASSUME TypeInv, [Next]_vars  PROVE TypeInv'
      OBVIOUS
    <2>1. CASE Next
      <3>1. workspace.todo \in SUBSET Docs /\ layout \in Nat
        BY DEF TypeInv, LayoutTypes
      <3> QED
        BY <2>1, <3>1, QueueTypesStep, DocumentTypesStep, LayoutTypesStep, TokenStep, EventStep
        DEF TypeInv
    <2>2. CASE UNCHANGED vars
      BY <2>2 DEF vars, TypeInv, QueueTypes, DocumentTypes, LayoutTypes, TokenInv, EventInv,
                  EventsUnderWay, Lacks, AtMostOne
    <2> QED
      BY <2>1, <2>2
  <1> QED
    BY <1>1, <1>2, PTL DEF Spec

\* TypeOK: every queue holds entries of its handlers, RebuildWorkspace is at one
\* of its suspension points or idle, and preambles come from layouts that were.
THEOREM Types == Spec => []TypeOK
  <1>1. TypeInv => TypeOK
    <2> SUFFICES ASSUME TypeInv  PROVE TypeOK
      OBVIOUS
    <2>1. layout \in 0 .. MaxChanges
      <3>1. Cardinality(EventsIn(waiting)) \in Nat /\ Len(layoutQ) \in Nat
        BY EventsFinite DEF TypeInv, QueueTypes
      <3> QED
        BY <3>1, BoundsAssumption DEF TypeInv, LayoutTypes, EventInv, EventsUnderWay, EventsIn
    <2> QED
      BY <2>1 DEF TypeInv, TypeOK, QueueTypes, DocumentTypes, LayoutTypes
  <1> QED
    BY <1>1, TypeInvHolds, PTL

-----------------------------------------------------------------------------
\* The versions of a document on their way to its session, when the client
\* closes a document only with nothing of it on the way.

\* The entries of a queue that belong to one of the handlers, for d.
Of(e, handlers, d) == e[1] \in handlers /\ e[2] = d
None(q, handlers, d)     == \A i \in 1 .. Len(q) : ~Of(q[i], handlers, d)
Numbered(q, handlers, d) == \A i \in 1 .. Len(q) : Of(q[i], handlers, d) => q[i][3] \in Nat
Below(n, q, handlers, d) == \A i \in 1 .. Len(q) : Of(q[i], handlers, d) => n <= q[i][3]
Above(n, q, handlers, d) == \A i \in 1 .. Len(q) : Of(q[i], handlers, d) => q[i][3] <= n
Sorted(q, handlers, d) ==
    \A i, j \in 1 .. Len(q) :
        i < j /\ Of(q[i], handlers, d) /\ Of(q[j], handlers, d) => q[i][3] <= q[j][3]

\* Those that call UpdateSession, and those that store a version.
Updates == {"update", "rebuild", "visit"}
Stores  == {"open", "change"}

\* No entry of the first queue is newer than one that stores a version.
Precede(q, handlers, r, d) ==
    \A i \in 1 .. Len(q), j \in 1 .. Len(r) :
        Of(q[i], handlers, d) /\ Of(r[j], Stores, d) => q[i][3] <= r[j][3]

\* With s the version of the session, m that of the document, v the client's,
\* and the queues of sessions, documents and waiters: session, document,
\* client, each has the newest of what it has handed on.
Pipeline(s, m, v, sq, dq, w, d) ==
    /\ s \in Nat /\ m \in Nat /\ v \in Nat
    /\ Numbered(sq, Updates, d) /\ Numbered(dq, Stores, d) /\ Numbered(w, Stores, d)
    /\ Sorted(sq, Updates, d) /\ Sorted(dq, Stores, d) /\ Sorted(w, Stores, d)
    /\ Below(s, sq, Updates, d) /\ Below(s, dq, Stores, d) /\ Below(s, w, Stores, d)
    /\ m # 0 => s <= m /\ Above(m, sq, Updates, d)
    /\ Below(m, dq, Stores, d) /\ Below(m, w, Stores, d)
    /\ Precede(sq, Updates, dq, d) /\ Precede(sq, Updates, w, d) /\ Precede(dq, Stores, w, d)
    /\ s <= v /\ m <= v
    /\ Above(v, sq, Updates, d) /\ Above(v, dq, Stores, d) /\ Above(v, w, Stores, d)

\* OnDocumentOpened calls UpdateSession with what it was given: while it waits,
\* nothing newer has been stored.
Openings(m, open, dq, w, d) ==
    /\ \A i \in 1 .. Len(w) : Of(w[i], {"open"}, d) =>
          /\ m \in {0, w[i][3]}
          /\ None(dq, Stores, d)
          /\ \A j \in 1 .. Len(w) : j < i => ~Of(w[j], Stores, d)
    /\ \A i \in 1 .. Len(dq) : Of(dq[i], {"open"}, d) =>
          /\ open
          /\ None(w, Stores, d)
          /\ \A j \in 1 .. Len(dq) : j > i => ~Of(dq[j], Stores, d)
    /\ ~open => None(w, Stores, d)

Flow(s, m, v, open, sq, dq, w, d) ==
    Pipeline(s, m, v, sq, dq, w, d) /\ Openings(m, open, dq, w, d)

\* A queue r has the entries of q, perhaps without the oldest one.
Within(r, q, handlers, d) ==
    \E k \in {0, 1} : \A i \in 1 .. Len(r) :
        Of(r[i], handlers, d) => i + k \in 1 .. Len(q) /\ r[i] = q[i + k]

\* It has those of q, and e after them.
Longer(r, q, e, handlers, d) ==
    /\ Len(q) \in Nat
    /\ \A i \in 1 .. Len(r) : Of(r[i], handlers, d) =>
          \/ i \in 1 .. Len(q) /\ r[i] = q[i]
          \/ i = Len(q) + 1 /\ r[i] = e

\* It has those of q without the oldest one, which is e.
Shorter(r, q, e) ==
    /\ 1 \in 1 .. Len(q) /\ q[1] = e
    /\ \A i \in 1 .. Len(r) : i + 1 \in 1 .. Len(q) /\ 1 < i + 1 /\ r[i] = q[i + 1]

\* What holds of the entries of a queue holds of fewer of them.
LEMMA WithinKeeps ==
    ASSUME NEW q, NEW r, NEW handlers, NEW d, Within(r, q, handlers, d)
    PROVE  /\ None(q, handlers, d) => None(r, handlers, d)
           /\ Numbered(q, handlers, d) => Numbered(r, handlers, d)
           /\ \A n : Below(n, q, handlers, d) => Below(n, r, handlers, d)
           /\ \A n : Above(n, q, handlers, d) => Above(n, r, handlers, d)
           /\ Sorted(q, handlers, d) => Sorted(r, handlers, d)
           /\ \A p : Precede(q, handlers, p, d) => Precede(r, handlers, p, d)
           /\ \A p, h : handlers = Stores /\ Precede(p, h, q, d) => Precede(p, h, r, d)
  <1>1. PICK k \in {0, 1} : \A i \in 1 .. Len(r) :
              Of(r[i], handlers, d) => i + k \in 1 .. Len(q) /\ r[i] = q[i + k]
    BY DEF Within
  <1>2. None(q, handlers, d) => None(r, handlers, d)
    BY <1>1 DEF None
  <1>3. Numbered(q, handlers, d) => Numbered(r, handlers, d)
    BY <1>1 DEF Numbered
  <1>4. \A n : Below(n, q, handlers, d) => Below(n, r, handlers, d)
    BY <1>1 DEF Below
  <1>5. \A n : Above(n, q, handlers, d) => Above(n, r, handlers, d)
    BY <1>1 DEF Above
  <1>6. Sorted(q, handlers, d) => Sorted(r, handlers, d)
    <2> SUFFICES ASSUME Sorted(q, handlers, d), NEW i \in 1 .. Len(r), NEW j \in 1 .. Len(r),
                        i < j, Of(r[i], handlers, d), Of(r[j], handlers, d)
                 PROVE  r[i][3] <= r[j][3]
      BY DEF Sorted
    <2>1. /\ i + k \in 1 .. Len(q) /\ r[i] = q[i + k]
          /\ j + k \in 1 .. Len(q) /\ r[j] = q[j + k]
      BY <1>1
    <2>2. i + k < j + k
      OBVIOUS
    <2> QED
      BY <2>1, <2>2 DEF Sorted
  <1>7. \A p : Precede(q, handlers, p, d) => Precede(r, handlers, p, d)
    BY <1>1 DEF Precede
  <1>8. \A p, h : handlers = Stores /\ Precede(p, h, q, d) => Precede(p, h, r, d)
    BY <1>1 DEF Precede
  <1> QED
    BY <1>2, <1>3, <1>4, <1>5, <1>6, <1>7, <1>8

\* What holds of the entries and of the new one holds of all.
LEMMA LongerKeeps ==
    ASSUME NEW q, NEW r, NEW e, NEW handlers, NEW d, Longer(r, q, e, handlers, d),
           Of(e, handlers, d)
    PROVE  /\ Numbered(q, handlers, d) /\ e[3] \in Nat => Numbered(r, handlers, d)
           /\ \A n : Below(n, q, handlers, d) /\ n <= e[3] => Below(n, r, handlers, d)
           /\ \A n : Above(n, q, handlers, d) /\ e[3] <= n => Above(n, r, handlers, d)
           /\ Sorted(q, handlers, d) /\ Above(e[3], q, handlers, d) => Sorted(r, handlers, d)
           /\ \A p : Precede(q, handlers, p, d) /\ Below(e[3], p, Stores, d)
                       => Precede(r, handlers, p, d)
           /\ \A p, h : handlers = Stores /\ Precede(p, h, q, d) /\ Above(e[3], p, h, d)
                          => Precede(p, h, r, d)
  <1>1. /\ Len(q) \in Nat
        /\ \A i \in 1 .. Len(r) : Of(r[i], handlers, d) =>
              \/ i \in 1 .. Len(q) /\ r[i] = q[i]
              \/ i = Len(q) + 1 /\ r[i] = e
    BY DEF Longer
  <1>2. Numbered(q, handlers, d) /\ e[3] \in Nat => Numbered(r, handlers, d)
    BY <1>1 DEF Numbered
  <1>3. \A n : Below(n, q, handlers, d) /\ n <= e[3] => Below(n, r, handlers, d)
    BY <1>1 DEF Below
  <1>4. \A n : Above(n, q, handlers, d) /\ e[3] <= n => Above(n, r, handlers, d)
    BY <1>1 DEF Above
  <1>5. Sorted(q, handlers, d) /\ Above(e[3], q, handlers, d) => Sorted(r, handlers, d)
    <2> SUFFICES ASSUME Sorted(q, handlers, d), Above(e[3], q, handlers, d),
                        NEW i \in 1 .. Len(r), NEW j \in 1 .. Len(r),
                        i < j, Of(r[i], handlers, d), Of(r[j], handlers, d)
                 PROVE  r[i][3] <= r[j][3]
      BY DEF Sorted
    <2>1. i \in 1 .. Len(q) /\ r[i] = q[i]
      <3>1. j \in 1 .. Len(q) \/ j = Len(q) + 1
        BY <1>1
      <3>2. i # Len(q) + 1
        BY <1>1, <3>1
      <3> QED
        BY <1>1, <3>2
    <2>2. CASE j \in 1 .. Len(q) /\ r[j] = q[j]
      BY <2>1, <2>2 DEF Sorted
    <2>3. CASE r[j] = e
      BY <2>1, <2>3 DEF Above
    <2> QED
      BY <1>1, <2>2, <2>3
  <1>6. \A p : Precede(q, handlers, p, d) /\ Below(e[3], p, Stores, d)
                 => Precede(r, handlers, p, d)
    BY <1>1 DEF Precede, Below
  <1>7. \A p, h : handlers = Stores /\ Precede(p, h, q, d) /\ Above(e[3], p, h, d)
                    => Precede(p, h, r, d)
    BY <1>1 DEF Precede, Above
  <1> QED
    BY <1>2, <1>3, <1>4, <1>5, <1>6, <1>7

\* The oldest entry is compared with what comes after it.
LEMMA ShorterKeeps ==
    ASSUME NEW q, NEW r, NEW e, NEW handlers, NEW d, Shorter(r, q, e)
    PROVE  /\ Within(r, q, handlers, d)
           /\ Of(e, handlers, d) =>
                /\ None(q, handlers, d) => FALSE
                /\ Numbered(q, handlers, d) => e[3] \in Nat
                /\ \A n : Below(n, q, handlers, d) => n <= e[3]
                /\ \A n : Above(n, q, handlers, d) => e[3] <= n
                /\ Sorted(q, handlers, d) => Below(e[3], r, handlers, d)
                /\ \A p : Precede(q, handlers, p, d) => Below(e[3], p, Stores, d)
                /\ \A p, h : handlers = Stores /\ Precede(p, h, q, d) => Above(e[3], p, h, d)
  <1>1. /\ 1 \in 1 .. Len(q) /\ q[1] = e
        /\ \A i \in 1 .. Len(r) : i + 1 \in 1 .. Len(q) /\ 1 < i + 1 /\ r[i] = q[i + 1]
    BY DEF Shorter
  <1>2. Within(r, q, handlers, d)
    BY <1>1 DEF Within
  <1> SUFFICES ASSUME Of(e, handlers, d)
               PROVE  /\ None(q, handlers, d) => FALSE
                      /\ Numbered(q, handlers, d) => e[3] \in Nat
                      /\ \A n : Below(n, q, handlers, d) => n <= e[3]
                      /\ \A n : Above(n, q, handlers, d) => e[3] <= n
                      /\ Sorted(q, handlers, d) => Below(e[3], r, handlers, d)
                      /\ \A p : Precede(q, handlers, p, d) => Below(e[3], p, Stores, d)
                      /\ \A p, h : handlers = Stores /\ Precede(p, h, q, d)
                                     => Above(e[3], p, h, d)
    BY <1>2
  <1>3. /\ None(q, handlers, d) => FALSE
        /\ Numbered(q, handlers, d) => e[3] \in Nat
        /\ \A n : Below(n, q, handlers, d) => n <= e[3]
        /\ \A n : Above(n, q, handlers, d) => e[3] <= n
    BY <1>1 DEF None, Numbered, Below, Above
  <1>4. Sorted(q, handlers, d) => Below(e[3], r, handlers, d)
    BY <1>1 DEF Sorted, Below
  <1>5. \A p : Precede(q, handlers, p, d) => Below(e[3], p, Stores, d)
    BY <1>1 DEF Precede, Below
  <1>6. \A p, h : handlers = Stores /\ Precede(p, h, q, d) => Above(e[3], p, h, d)
    BY <1>1 DEF Precede, Above
  <1> QED
    BY <1>3, <1>4, <1>5, <1>6

\* A queue has no other entries than its own.
LEMMA WithinSelf == \A q, handlers, d : Within(q, q, handlers, d)
  BY DEF Within

\* A step that only takes entries of d out of the queues, and at most erases
\* its session or its state.
LEMMA QuietFlow ==
    ASSUME NEW s, NEW m, NEW v, NEW open, NEW sq, NEW dq, NEW w, NEW d,
           Flow(s, m, v, open, sq, dq, w, d),
           NEW s2 \in {0, s}, NEW m2 \in {0, m}, NEW sq2, NEW dq2, NEW w2,
           Within(sq2, sq, Updates, d), Within(dq2, dq, Stores, d), Within(w2, w, Stores, d)
    PROVE  Flow(s2, m2, v, open, sq2, dq2, w2, d)
  <1> USE DEF Flow, Pipeline
  <1>1. s \in Nat /\ m \in Nat /\ v \in Nat
    OBVIOUS
  <1>2. /\ Numbered(sq2, Updates, d) /\ Numbered(dq2, Stores, d) /\ Numbered(w2, Stores, d)
        /\ Sorted(sq2, Updates, d) /\ Sorted(dq2, Stores, d) /\ Sorted(w2, Stores, d)
        /\ Above(v, sq2, Updates, d) /\ Above(v, dq2, Stores, d) /\ Above(v, w2, Stores, d)
    BY WithinKeeps
  <1>3. /\ Below(0, sq2, Updates, d) /\ Below(0, dq2, Stores, d) /\ Below(0, w2, Stores, d)
    BY <1>2 DEF Numbered, Below
  <1>4. /\ Below(s, sq2, Updates, d) /\ Below(s, dq2, Stores, d) /\ Below(s, w2, Stores, d)
        /\ Below(m, dq2, Stores, d) /\ Below(m, w2, Stores, d)
        /\ m # 0 => Above(m, sq2, Updates, d)
    BY WithinKeeps
  <1>5. /\ Precede(sq2, Updates, dq2, d) /\ Precede(sq2, Updates, w2, d)
        /\ Precede(dq2, Stores, w2, d)
    <2>1. /\ Precede(sq2, Updates, dq, d) /\ Precede(sq2, Updates, w, d)
          /\ Precede(dq2, Stores, w, d)
      BY WithinKeeps
    <2> QED
      BY <2>1, WithinKeeps
  <1>6. /\ s2 \in Nat /\ m2 \in Nat /\ s2 <= v /\ m2 <= v
        /\ m2 # 0 => s2 <= m2 /\ Above(m2, sq2, Updates, d)
    BY <1>1, <1>4
  <1>7. Pipeline(s2, m2, v, sq2, dq2, w2, d)
    BY <1>1, <1>2, <1>3, <1>4, <1>5, <1>6
  <1>8. /\ None(dq, Stores, d) => None(dq2, Stores, d)
        /\ None(w, Stores, d) => None(w2, Stores, d)
        /\ \A e : Of(e, {"open"}, d) => Of(e, Stores, d)
    BY WithinKeeps DEF Of, Stores
  <1>9. Openings(m, open, dq, w, d)
    OBVIOUS
  <1>10. ASSUME NEW i \in 1 .. Len(w2), Of(w2[i], {"open"}, d)
         PROVE  /\ m2 \in {0, w2[i][3]} /\ None(dq2, Stores, d)
                /\ \A j \in 1 .. Len(w2) : j < i => ~Of(w2[j], Stores, d)
    <2>1. PICK k \in {0, 1} : \A j \in 1 .. Len(w2) :
                Of(w2[j], Stores, d) => j + k \in 1 .. Len(w) /\ w2[j] = w[j + k]
      BY DEF Within
    <2>2. i + k \in 1 .. Len(w) /\ w2[i] = w[i + k]
      BY <1>8, <1>10, <2>1
    <2>3. \A j \in 1 .. Len(w2) : j < i => j + k < i + k
      OBVIOUS
    <2> QED
      BY <1>8, <1>9, <1>10, <2>1, <2>2, <2>3 DEF Openings
  <1>11. ASSUME NEW i \in 1 .. Len(dq2), Of(dq2[i], {"open"}, d)
         PROVE  /\ open /\ None(w2, Stores, d)
                /\ \A j \in 1 .. Len(dq2) : j > i => ~Of(dq2[j], Stores, d)
    <2>1. PICK k \in {0, 1} : \A j \in 1 .. Len(dq2) :
                Of(dq2[j], Stores, d) => j + k \in 1 .. Len(dq) /\ dq2[j] = dq[j + k]
      BY DEF Within
    <2>2. i + k \in 1 .. Len(dq) /\ dq2[i] = dq[i + k]
      BY <1>8, <1>11, <2>1
    <2>3. \A j \in 1 .. Len(dq2) : j > i => j + k > i + k
      OBVIOUS
    <2> QED
      BY <1>8, <1>9, <1>11, <2>1, <2>2, <2>3 DEF Openings
  <1>12. Openings(m2, open, dq2, w2, d)
    BY <1>8, <1>9, <1>10, <1>11 DEF Openings
  <1> QED
    BY <1>7, <1>12

\* UpdateSession is called with the stored version: the newest of all that
\* has been handed to the session.
LEMMA ReadFlow ==
    ASSUME NEW s, NEW m, NEW v, NEW open, NEW sq, NEW dq, NEW w, NEW d,
           Flow(s, m, v, open, sq, dq, w, d),
           NEW sq2, NEW dq2, NEW e, m # 0,
           Of(e, Updates, d), e[3] = m,
           Longer(sq2, sq, e, Updates, d), Within(dq2, dq, Stores, d)
    PROVE  Flow(s, m, v, open, sq2, dq2, w, d)
  <1>1. Flow(s, m, v, open, sq, dq2, w, d)
    <2>1. Within(sq, sq, Updates, d) /\ Within(w, w, Stores, d)
      BY WithinSelf
    <2> QED
      BY <2>1, QuietFlow
  <1>2. Pipeline(s, m, v, sq2, dq2, w, d)
    BY <1>1, LongerKeeps DEF Flow, Pipeline
  <1> QED
    BY <1>1, <1>2 DEF Flow

\* The session gets the version of the oldest call.
LEMMA UpdateFlow ==
    ASSUME NEW s, NEW m, NEW v, NEW open, NEW sq, NEW dq, NEW w, NEW d,
           Flow(s, m, v, open, sq, dq, w, d),
           NEW sq2, NEW e, Of(e, Updates, d), Shorter(sq2, sq, e)
    PROVE  Flow(e[3], m, v, open, sq2, dq, w, d) /\ s <= e[3]
  <1>1. Flow(s, m, v, open, sq2, dq, w, d)
    <2>1. Within(sq2, sq, Updates, d) /\ Within(dq, dq, Stores, d) /\ Within(w, w, Stores, d)
      BY WithinSelf, ShorterKeeps
    <2> QED
      BY <2>1, QuietFlow
  <1>2. /\ e[3] \in Nat /\ s <= e[3] /\ e[3] <= v
        /\ m # 0 => e[3] <= m
        /\ Below(e[3], sq2, Updates, d) /\ Below(e[3], dq, Stores, d) /\ Below(e[3], w, Stores, d)
    BY ShorterKeeps DEF Flow, Pipeline
  <1> QED
    BY <1>1, <1>2 DEF Flow, Pipeline

\* OnDocumentOpened goes on: nothing newer has been stored or handed on.
LEMMA OpenedFlow ==
    ASSUME NEW s, NEW m, NEW v, NEW open, NEW sq, NEW dq, NEW w, NEW d,
           Flow(s, m, v, open, sq, dq, w, d),
           NEW sq2, NEW w2, NEW e, NEW f,
           Of(e, {"open"}, d), Shorter(w2, w, e),
           Of(f, Updates, d), f[3] = e[3], Longer(sq2, sq, f, Updates, d)
    PROVE  Flow(s, m, v, open, sq2, dq, w2, d)
  <1>1. Of(e, Stores, d)
    BY DEF Of, Stores
  <1>2. Flow(s, m, v, open, sq, dq, w2, d)
    <2>1. Within(sq, sq, Updates, d) /\ Within(dq, dq, Stores, d) /\ Within(w2, w, Stores, d)
      BY WithinSelf, ShorterKeeps
    <2> QED
      BY <2>1, QuietFlow
  <1>3. m \in {0, e[3]} /\ None(dq, Stores, d)
    BY DEF Shorter, Flow, Openings
  <1>4. /\ e[3] \in Nat /\ s <= e[3] /\ e[3] <= v
        /\ Above(e[3], sq, Updates, d) /\ Below(e[3], w2, Stores, d)
    BY <1>1, ShorterKeeps DEF Flow, Pipeline
  <1>5. Below(e[3], dq, Stores, d)
    BY <1>3 DEF None, Below
  <1>6. Pipeline(s, m, v, sq2, dq, w2, d)
    BY <1>2, <1>3, <1>4, <1>5, LongerKeeps DEF Flow, Pipeline
  <1> QED
    BY <1>2, <1>6 DEF Flow

\* OnDocumentChanged goes on to the strand of the documents.
LEMMA ChangedFlow ==
    ASSUME NEW s, NEW m, NEW v, NEW open, NEW sq, NEW dq, NEW w, NEW d,
           Flow(s, m, v, open, sq, dq, w, d),
           NEW dq2, NEW w2, NEW e, Of(e, {"change"}, d), Shorter(w2, w, e),
           Longer(dq2, dq, e, Stores, d)
    PROVE  Flow(s, m, v, open, sq, dq2, w2, d)
  <1>1. Of(e, Stores, d) /\ ~Of(e, {"open"}, d)
    BY DEF Of, Stores
  <1>2. Flow(s, m, v, open, sq, dq, w2, d)
    <2>1. Within(sq, sq, Updates, d) /\ Within(dq, dq, Stores, d) /\ Within(w2, w, Stores, d)
      BY WithinSelf, ShorterKeeps
    <2> QED
      BY <2>1, QuietFlow
  <1>3. /\ e[3] \in Nat /\ s <= e[3] /\ e[3] <= v /\ m <= e[3]
        /\ Above(e[3], sq, Updates, d) /\ Below(e[3], w2, Stores, d)
        /\ Above(e[3], dq, Stores, d)
    BY <1>1, ShorterKeeps DEF Flow, Pipeline
  <1>4. Pipeline(s, m, v, sq, dq2, w2, d)
    <2>1. /\ Numbered(dq2, Stores, d) /\ Sorted(dq2, Stores, d)
          /\ Below(s, dq2, Stores, d) /\ Below(m, dq2, Stores, d) /\ Above(v, dq2, Stores, d)
      BY <1>1, <1>2, <1>3, LongerKeeps DEF Flow, Pipeline
    <2>2. Precede(sq, Updates, dq2, d) /\ Precede(dq2, Stores, w2, d)
      BY <1>1, <1>2, <1>3, LongerKeeps DEF Flow, Pipeline
    <2> QED
      BY <1>2, <2>1, <2>2 DEF Flow, Pipeline
  <1>5. ~None(w, Stores, d)
    BY <1>1, ShorterKeeps
  <1>6. \A i \in 1 .. Len(dq2) : ~Of(dq2[i], {"open"}, d)
    <2> SUFFICES ASSUME NEW i \in 1 .. Len(dq2), Of(dq2[i], {"open"}, d)
                 PROVE  FALSE
      OBVIOUS
    <2>1. Of(dq2[i], Stores, d)
      BY DEF Of, Stores
    <2>2. i \in 1 .. Len(dq) /\ dq2[i] = dq[i]
      BY <1>1, <2>1 DEF Longer
    <2> QED
      BY <1>5, <2>2 DEF Flow, Openings
  <1>7. \A i \in 1 .. Len(w2) : ~Of(w2[i], {"open"}, d)
    <2> SUFFICES ASSUME NEW i \in 1 .. Len(w2), Of(w2[i], {"open"}, d)
                 PROVE  FALSE
      OBVIOUS
    <2>1. /\ i + 1 \in 1 .. Len(w) /\ Of(w[i + 1], {"open"}, d)
          /\ 1 \in 1 .. Len(w) /\ 1 < i + 1 /\ Of(w[1], Stores, d)
      BY <1>1 DEF Shorter
    <2> QED
      BY <2>1 DEF Flow, Openings
  <1>8. ~open => None(w2, Stores, d)
    BY <1>2 DEF Flow, Openings
  <1>9. Openings(m, open, dq2, w2, d)
    BY <1>6, <1>7, <1>8 DEF Openings
  <1> QED
    BY <1>4, <1>9 DEF Flow

\* A version is stored: it is not older than any that has been handed on.
LEMMA StoredPipeline ==
    ASSUME NEW s, NEW m, NEW v, NEW open, NEW sq, NEW dq, NEW w, NEW d,
           Flow(s, m, v, open, sq, dq, w, d),
           NEW dq2, NEW e, Of(e, Stores, d), Shorter(dq2, dq, e)
    PROVE  /\ Flow(s, m, v, open, sq, dq2, w, d)
           /\ Pipeline(s, e[3], v, sq, dq2, w, d)
  <1>1. Flow(s, m, v, open, sq, dq2, w, d)
    <2>1. Within(sq, sq, Updates, d) /\ Within(dq2, dq, Stores, d) /\ Within(w, w, Stores, d)
      BY WithinSelf, ShorterKeeps
    <2> QED
      BY <2>1, QuietFlow
  <1>2. /\ e[3] \in Nat /\ s <= e[3] /\ e[3] <= v
        /\ Above(e[3], sq, Updates, d)
        /\ Below(e[3], dq2, Stores, d) /\ Below(e[3], w, Stores, d)
    BY ShorterKeeps DEF Flow, Pipeline
  <1>3. Pipeline(s, e[3], v, sq, dq2, w, d)
    BY <1>1, <1>2 DEF Flow, Pipeline
  <1> QED
    BY <1>1, <1>3

\* The change of a document stores the version of the entry, which is the
\* newest of those stored.
LEMMA StoreChangedFlow ==
    ASSUME NEW s, NEW m, NEW v, NEW open, NEW sq, NEW dq, NEW w, NEW d,
           Flow(s, m, v, open, sq, dq, w, d),
           NEW dq2, NEW e, Of(e, {"change"}, d), Shorter(dq2, dq, e)
    PROVE  Flow(s, e[3], v, open, sq, dq2, w, d)
  <1>1. Of(e, Stores, d)
    BY DEF Of, Stores
  <1>2. Flow(s, m, v, open, sq, dq2, w, d) /\ Pipeline(s, e[3], v, sq, dq2, w, d)
    BY <1>1, StoredPipeline
  <1>3. ~None(dq, Stores, d)
    BY <1>1, ShorterKeeps
  <1>4. \A i \in 1 .. Len(w) : ~Of(w[i], {"open"}, d)
    BY <1>3 DEF Flow, Openings
  <1>5. Openings(e[3], open, dq2, w, d)
    BY <1>2, <1>4 DEF Flow, Openings
  <1> QED
    BY <1>2, <1>5 DEF Flow

\* An opening is stored, and waits for the workspace.
LEMMA StoreOpenedFlow ==
    ASSUME NEW s, NEW m, NEW v, NEW open, NEW sq, NEW dq, NEW w, NEW d,
           Flow(s, m, v, open, sq, dq, w, d),
           NEW dq2, NEW w2, NEW e, Of(e, {"open"}, d), Shorter(dq2, dq, e),
           Longer(w2, w, e, Stores, d)
    PROVE  Flow(s, e[3], v, open, sq, dq2, w2, d)
  <1>1. Of(e, Stores, d)
    BY DEF Of, Stores
  <1>2. Flow(s, m, v, open, sq, dq2, w, d) /\ Pipeline(s, e[3], v, sq, dq2, w, d)
    BY <1>1, StoredPipeline
  <1>3. /\ open /\ None(w, Stores, d)
        /\ \A j \in 1 .. Len(dq) : j > 1 => ~Of(dq[j], Stores, d)
    BY DEF Shorter, Flow, Openings
  <1>4. None(dq2, Stores, d)
    BY <1>3 DEF None, Shorter
  <1>5. \A i \in 1 .. Len(w2) : Of(w2[i], Stores, d) => i = Len(w) + 1 /\ w2[i] = e
    BY <1>3 DEF None, Longer
  <1>6. /\ e[3] \in Nat /\ s <= e[3] /\ e[3] <= v /\ Above(e[3], sq, Updates, d)
    BY <1>1, ShorterKeeps DEF Flow, Pipeline
  <1>7. /\ Numbered(w2, Stores, d) /\ Below(s, w2, Stores, d) /\ Below(e[3], w2, Stores, d)
        /\ Above(v, w2, Stores, d)
    BY <1>5, <1>6 DEF Numbered, Below, Above
  <1>8. Sorted(w2, Stores, d)
    BY <1>5, <1>6 DEF Sorted
  <1>9. Precede(sq, Updates, w2, d) /\ Precede(dq2, Stores, w2, d)
    BY <1>4, <1>5, <1>6 DEF Precede, Above, None
  <1>10. Pipeline(s, e[3], v, sq, dq2, w2, d)
    BY <1>2, <1>7, <1>8, <1>9 DEF Pipeline
  <1>11. Openings(e[3], open, dq2, w2, d)
    <2>1. \A i \in 1 .. Len(dq2) : ~Of(dq2[i], {"open"}, d)
      BY <1>4 DEF None, Of, Stores
    <2>2. ASSUME NEW i \in 1 .. Len(w2), Of(w2[i], {"open"}, d)
          PROVE  /\ e[3] \in {0, w2[i][3]} /\ None(dq2, Stores, d)
                 /\ \A j \in 1 .. Len(w2) : j < i => ~Of(w2[j], Stores, d)
      <3>1. i = Len(w) + 1 /\ w2[i] = e
        BY <1>5, <2>2 DEF Of, Stores
      <3>2. \A j \in 1 .. Len(w2) : j < i => ~Of(w2[j], Stores, d)
        BY <1>5, <3>1
      <3> QED
        BY <1>4, <3>1, <3>2
    <2> QED
      BY <1>3, <2>1, <2>2 DEF Openings
  <1> QED
    BY <1>10, <1>11 DEF Flow

\* didOpen: the first version of this opening, newer than all before.
LEMMA DidOpenFlow ==
    ASSUME NEW s, NEW m, NEW v, NEW sq, NEW dq, NEW w, NEW d,
           Flow(s, m, v, FALSE, sq, dq, w, d),
           NEW dq2, NEW e, Of(e, {"open"}, d), e[3] = v + 1,
           Longer(dq2, dq, e, Stores, d)
    PROVE  Flow(s, m, v + 1, TRUE, sq, dq2, w, d)
  <1>1. Of(e, Stores, d)
    BY DEF Of, Stores
  <1>2. /\ s \in Nat /\ m \in Nat /\ v \in Nat /\ s <= v /\ m <= v
        /\ None(w, Stores, d)
        /\ \A i \in 1 .. Len(dq) : ~Of(dq[i], {"open"}, d)
    BY DEF Flow, Pipeline, Openings
  <1>3. /\ Above(v + 1, sq, Updates, d) /\ Above(v + 1, dq, Stores, d)
        /\ Above(v + 1, w, Stores, d) /\ Below(v + 1, w, Stores, d)
    BY <1>2 DEF Flow, Pipeline, Above, Numbered, None, Below
  <1>4. /\ Numbered(dq2, Stores, d) /\ Sorted(dq2, Stores, d)
        /\ Below(s, dq2, Stores, d) /\ Below(m, dq2, Stores, d)
        /\ Above(v + 1, dq2, Stores, d)
    BY <1>1, <1>2, <1>3, LongerKeeps DEF Flow, Pipeline
  <1>5. Precede(sq, Updates, dq2, d) /\ Precede(dq2, Stores, w, d)
    BY <1>1, <1>2, <1>3, LongerKeeps DEF Flow, Pipeline
  <1>6. Pipeline(s, m, v + 1, sq, dq2, w, d)
    BY <1>2, <1>3, <1>4, <1>5 DEF Flow, Pipeline
  <1>7. Openings(m, TRUE, dq2, w, d)
    <2>1. \A i \in 1 .. Len(w) : ~Of(w[i], {"open"}, d)
      BY <1>2 DEF None, Of, Stores
    <2>2. ASSUME NEW i \in 1 .. Len(dq2), Of(dq2[i], {"open"}, d)
          PROVE  \A j \in 1 .. Len(dq2) : j > i => ~Of(dq2[j], Stores, d)
      <3>1. i = Len(dq) + 1 /\ Len(dq) \in Nat
        BY <1>2, <2>2 DEF Longer, Of, Stores
      <3> QED
        BY <3>1 DEF Longer
    <2> QED
      BY <1>2, <2>1, <2>2 DEF Openings
  <1> QED
    BY <1>6, <1>7 DEF Flow

\* didChange, once the opening has been stored.
LEMMA DidChangeFlow ==
    ASSUME NEW s, NEW m, NEW v, NEW open, NEW sq, NEW dq, NEW w, NEW d,
           Flow(s, m, v, open, sq, dq, w, d),
           open, \A i \in 1 .. Len(dq) : ~Of(dq[i], {"open"}, d),
           NEW w2, NEW e, Of(e, {"change"}, d), e[3] = v + 1,
           Longer(w2, w, e, Stores, d)
    PROVE  Flow(s, m, v + 1, open, sq, dq, w2, d)
  <1>1. Of(e, Stores, d) /\ ~Of(e, {"open"}, d)
    BY DEF Of, Stores
  <1>2. s \in Nat /\ m \in Nat /\ v \in Nat /\ s <= v /\ m <= v
    BY DEF Flow, Pipeline
  <1>3. /\ Above(v + 1, sq, Updates, d) /\ Above(v + 1, dq, Stores, d)
        /\ Above(v + 1, w, Stores, d)
    BY <1>2 DEF Flow, Pipeline, Above, Numbered
  <1>4. /\ Numbered(w2, Stores, d) /\ Sorted(w2, Stores, d)
        /\ Below(s, w2, Stores, d) /\ Below(m, w2, Stores, d)
        /\ Above(v + 1, w2, Stores, d)
    BY <1>1, <1>2, <1>3, LongerKeeps DEF Flow, Pipeline
  <1>5. Precede(sq, Updates, w2, d) /\ Precede(dq, Stores, w2, d)
    BY <1>1, <1>2, <1>3, LongerKeeps DEF Flow, Pipeline
  <1>6. Pipeline(s, m, v + 1, sq, dq, w2, d)
    BY <1>2, <1>3, <1>4, <1>5 DEF Flow, Pipeline
  <1>7. Openings(m, open, dq, w2, d)
    <2>1. Openings(m, open, dq, w, d)
      BY DEF Flow
    <2>2. ASSUME NEW i \in 1 .. Len(w2), Of(w2[i], {"open"}, d)
          PROVE  /\ m \in {0, w2[i][3]} /\ None(dq, Stores, d)
                 /\ \A j \in 1 .. Len(w2) : j < i => ~Of(w2[j], Stores, d)
      <3>1. i \in 1 .. Len(w) /\ w2[i] = w[i] /\ Len(w) \in Nat
        BY <1>1, <2>2 DEF Longer, Of, Stores
      <3>2. \A j \in 1 .. Len(w2) : j < i /\ Of(w2[j], Stores, d)
                                    => j \in 1 .. Len(w) /\ w2[j] = w[j]
        BY <3>1 DEF Longer
      <3> QED
        BY <2>1, <2>2, <3>1, <3>2 DEF Openings
    <2> QED
      BY <2>2 DEF Openings
  <1> QED
    BY <1>6, <1>7 DEF Flow

\* didClose, when no update of the document is on the way.
LEMMA DidCloseFlow ==
    ASSUME NEW s, NEW m, NEW v, NEW open, NEW sq, NEW dq, NEW w, NEW d,
           Flow(s, m, v, open, sq, dq, w, d),
           None(w, Stores, d), \A i \in 1 .. Len(dq) : ~Of(dq[i], {"open"}, d)
    PROVE  Flow(s, m, v, FALSE, sq, dq, w, d)
  <1>1. \A i \in 1 .. Len(w) : ~Of(w[i], {"open"}, d)
    BY DEF None, Of, Stores
  <1> QED
    BY <1>1 DEF Flow, Openings

-----------------------------------------------------------------------------
\* No session is replaced by that of an older version.

\* How the queues of the code are related before and after an operation.
LEMMA QueueLinks ==
    ASSUME NEW S, NEW q \in Seq(S), NEW handlers, NEW d
    PROVE  /\ q # <<>> => Shorter(Tail(q), q, Head(q)) /\ Within(Tail(q), q, handlers, d)
           /\ \A e \in S : Longer(Append(q, e), q, e, handlers, d)
           /\ \A e \in S : \A p : ~Of(e, handlers, d) /\ Within(q, p, handlers, d)
                                   => Within(Append(q, e), p, handlers, d)
  <1>1. ASSUME q # <<>>  PROVE Shorter(Tail(q), q, Head(q))
    BY <1>1, TailFacts DEF Shorter
  <1>2. ASSUME NEW e \in S  PROVE Longer(Append(q, e), q, e, handlers, d)
    BY AppendFacts DEF Longer
  <1>3. ASSUME NEW e \in S, NEW p, ~Of(e, handlers, d), Within(q, p, handlers, d)
        PROVE  Within(Append(q, e), p, handlers, d)
    <2>1. PICK k \in {0, 1} : \A i \in 1 .. Len(q) :
                Of(q[i], handlers, d) => i + k \in 1 .. Len(p) /\ q[i] = p[i + k]
      BY <1>3 DEF Within
    <2> DEFINE r == Append(q, e)
    <2>2. /\ r[Len(q) + 1] = e
          /\ \A i \in 1 .. Len(q) : r[i] = q[i]
          /\ \A i \in 1 .. Len(r) : i \in 1 .. Len(q) \/ i = Len(q) + 1
      BY AppendFacts
    <2> HIDE DEF r
    <2>3. \A i \in 1 .. Len(r) :
             Of(r[i], handlers, d) => i + k \in 1 .. Len(p) /\ r[i] = p[i + k]
      BY <1>3, <2>1, <2>2
    <2> QED
      BY <2>3 DEF Within, r
  <1> QED
    BY <1>1, <1>2, <1>3, ShorterKeeps

\* Which entries belong to the handlers that store, and that call UpdateSession.
LEMMA EntryKinds ==
    ASSUME NEW c, NEW d, NEW v
    PROVE  /\ \A h : Entry(h, d, v)[3] = v
           /\ d # c => \A h, hs : ~Of(Entry(h, d, v), hs, c)
           /\ \A h \in {"save", "remove", "rebuild", "get"} : ~Of(Entry(h, d, v), Stores, c)
           /\ \A h \in {"cancel", "cleanup"} : ~Of(Entry(h, d, v), Updates, c)
           /\ \A h \in {"update", "rebuild", "visit"} : Of(Entry(h, d, v), Updates, d)
           /\ Of(Entry("open", d, v), {"open"}, d) /\ Of(Entry("change", d, v), {"change"}, d)
           /\ \A step \in {"listed", "modified", "config", "uris", "swap", "invalidate"} :
                 ~Of(Workspace(step), Stores, c) /\ ~Of(Workspace(step), Updates, c)
  BY DEF Entry, Workspace, Of, Stores, Updates

\* Entries that store are those of documents, never of the workspace.
LEMMA StoresAreLong ==
    ASSUME NEW e \in WaitEntries \cup DocEntries, NEW d, Of(e, Stores, d)
    PROVE  Len(e) = 3
  <1>1. ASSUME NEW step \in FileEvents \cup {"uris"}, e = Workspace(step)
        PROVE  FALSE
    BY <1>1 DEF FileEvents, Workspace, Of, Stores
  <1>2. ASSUME NEW hs, NEW vs, e \in hs \X Docs \X vs
        PROVE  Len(e) = 3
    BY <1>2
  <1> QED
    BY <1>1, <1>2 DEF WaitEntries, DocEntries, Entries

\* A step that leaves the versions of a document where they are, or erases them.
QueuesKept(c) ==
    /\ Within(sessionQ', sessionQ, Updates, c)
    /\ Within(docQ', docQ, Stores, c)
    /\ Within(waiting', waiting, Stores, c)

ClientKept(c) ==
    client'[c].version = client[c].version /\ client'[c].open = client[c].open

StateKept(c) == documents'[c] \in {0, documents[c]}

SessionKept(c) ==
    session'[c].version = session[c].version \/ session'[c] = NoSession

\* What every step does with the versions of c.
VersionsOf(c) == Flow(session[c].version, documents[c], Version(c), IsOpen(c),
                      sessionQ, docQ, waiting, c)

NotOlder(c) == session'[c] # NoSession => session[c].version <= session'[c].version

Keeps(c) == VersionsOf(c)' /\ NotOlder(c)

\* A step that puts no store and no update of c into a queue keeps its
\* versions in order.
LEMMA QuietStep ==
    ASSUME NEW c, VersionsOf(c), QueuesKept(c), ClientKept(c), StateKept(c), SessionKept(c)
    PROVE  Keeps(c)
  <1>1. session'[c].version \in {0, session[c].version}
    BY DEF SessionKept, NoSession
  <1>2. NotOlder(c)
    BY DEF NotOlder, SessionKept, VersionsOf, Flow, Pipeline
  <1>3. Flow(session'[c].version, documents'[c], client[c].version, client[c].open,
             sessionQ', docQ', waiting', c)
    BY <1>1, QuietFlow DEF VersionsOf, QueuesKept, StateKept, Version, IsOpen
  <1> QED
    BY <1>2, <1>3 DEF ClientKept, Keeps, VersionsOf, Version, IsOpen

\* The queues after an operation that concerns another document, or none.
LEMMA QueuesStay ==
    ASSUME QueueTypes, NEW c
    PROVE  /\ Within(sessionQ, sessionQ, Updates, c)
           /\ sessionQ # <<>> => Within(Tail(sessionQ), sessionQ, Updates, c)
           /\ \A e \in SessionEntries : ~Of(e, Updates, c) =>
                 /\ Within(Append(sessionQ, e), sessionQ, Updates, c)
                 /\ sessionQ # <<>> =>
                       Within(Append(Tail(sessionQ), e), sessionQ, Updates, c)
           /\ Within(docQ, docQ, Stores, c)
           /\ docQ # <<>> => Within(Tail(docQ), docQ, Stores, c)
           /\ \A e \in DocEntries : ~Of(e, Stores, c) =>
                 /\ Within(Append(docQ, e), docQ, Stores, c)
                 /\ docQ # <<>> => Within(Append(Tail(docQ), e), docQ, Stores, c)
           /\ Within(waiting, waiting, Stores, c)
           /\ waiting # <<>> => Within(Tail(waiting), waiting, Stores, c)
           /\ \A e \in WaitEntries : ~Of(e, Stores, c) =>
                 Within(Append(waiting, e), waiting, Stores, c)
  <1>1. ASSUME NEW S, NEW q \in Seq(S), NEW hs
        PROVE  /\ Within(q, q, hs, c)
               /\ q # <<>> => Within(Tail(q), q, hs, c)
               /\ \A e \in S : ~Of(e, hs, c) =>
                     /\ Within(Append(q, e), q, hs, c)
                     /\ q # <<>> => Within(Append(Tail(q), e), q, hs, c)
    <2>1. Within(q, q, hs, c)
      BY WithinSelf
    <2>2. q # <<>> => Within(Tail(q), q, hs, c) /\ Tail(q) \in Seq(S)
      BY QueueLinks, TailFacts
    <2>3. ASSUME NEW e \in S, ~Of(e, hs, c)  PROVE Within(Append(q, e), q, hs, c)
      BY <2>1, <2>3, QueueLinks
    <2>4. ASSUME NEW e \in S, ~Of(e, hs, c), q # <<>>
          PROVE  Within(Append(Tail(q), e), q, hs, c)
      BY <2>2, <2>4, QueueLinks
    <2> QED
      BY <2>1, <2>2, <2>3, <2>4
  <1>2. /\ sessionQ \in Seq(SessionEntries) /\ docQ \in Seq(DocEntries)
        /\ waiting \in Seq(WaitEntries)
    BY DEF QueueTypes
  <1> QED
    BY <1>1, <1>2

\* A list of open documents is visited: the versions stay where they are.
LEMMA VisitKeeps ==
    ASSUME QueueTypes, NEW todo \in SUBSET Docs, NEW q, Visit(todo, q), NEW c,
           \/ q = docQ
           \/ q = Tail(docQ) /\ docQ # <<>>
    PROVE  Within(docQ', docQ, Stores, c)
  <1>1. ASSUME NEW d \in Docs
        PROVE  Entry("get", d, 0) \in DocEntries /\ ~Of(Entry("get", d, 0), Stores, c)
    BY EntryTypes, EntryKinds
  <1>2. CASE docQ' = q
    BY <1>2, QueuesStay
  <1>3. ASSUME NEW d \in Docs, docQ' = Append(q, Entry("get", d, 0))
        PROVE  Within(docQ', docQ, Stores, c)
    BY <1>1, <1>3, QueuesStay
  <1> QED
    BY <1>2, <1>3 DEF Visit

\* The messages of the client.
LEMMA ClientKeepsVersions ==
    ASSUME CleanClose, QueueTypes, DocumentTypes, NEW c \in Docs, VersionsOf(c), Client
    PROVE  Keeps(c)
  <1> USE DEF storeVars, sessionVars, layoutVars, docVars, eventVars
  <1>1. /\ sessionQ \in Seq(SessionEntries) /\ docQ \in Seq(DocEntries)
        /\ waiting \in Seq(WaitEntries)
    BY DEF QueueTypes
  <1>2. client \in [Docs -> [open : BOOLEAN, version : 0 .. MaxVersion, saves : 0 .. MaxSaves]]
    BY DEF DocumentTypes
  <1>3. ASSUME UNCHANGED <<session, documents>>  PROVE SessionKept(c) /\ StateKept(c)
    BY <1>3 DEF SessionKept, StateKept
  <1>4. ASSUME UNCHANGED session, VersionsOf(c)'  PROVE Keeps(c)
    BY <1>4 DEF Keeps, NotOlder, VersionsOf, Flow, Pipeline
  <1>6. ASSUME NEW d \in Docs, DidOpen(d)  PROVE Keeps(c)
    <2> DEFINE e == Entry("open", d, Version(d) + 1)
    <2>1. e \in DocEntries
      BY <1>6, VersionTypes, EntryTypes DEF DidOpen
    <2>2. CASE d # c
      <3>1. ClientKept(c)
        BY <1>2, <1>6, <2>2 DEF ClientKept, DidOpen
      <3>2. ~Of(e, Stores, c)
        BY <2>2, EntryKinds
      <3>3. QueuesKept(c)
        BY <1>6, <2>1, <3>2, QueuesStay DEF QueuesKept, DidOpen
      <3> QED
        BY <1>3, <1>6, <3>1, <3>3, QuietStep DEF DidOpen
    <2>3. CASE d = c
      <3>1. Longer(docQ', docQ, e, Stores, c)
        BY <1>1, <1>6, <2>1, QueueLinks DEF DidOpen
      <3>2. Of(e, {"open"}, d) /\ e[3] = Version(d) + 1
        BY EntryKinds
      <3> HIDE DEF e
      <3>3. IsOpen(c) = FALSE
        BY <1>2, <1>6, <2>3 DEF DidOpen, IsOpen
      <3>6. Flow(session[c].version, documents[c], Version(c), FALSE,
                 sessionQ, docQ, waiting, c)
        BY <3>3 DEF VersionsOf
      <3>4. Flow(session[c].version, documents[c], Version(c) + 1, TRUE,
                 sessionQ, docQ', waiting, c)
        BY <2>3, <3>1, <3>2, <3>6, DidOpenFlow
      <3>5. client'[c].version = Version(c) + 1 /\ client'[c].open = TRUE
        BY <1>2, <1>6, <2>3 DEF DidOpen, Version
      <3> QED
        BY <1>4, <1>6, <3>4, <3>5 DEF DidOpen, VersionsOf, Version, IsOpen
    <2> QED
      BY <2>2, <2>3
  <1>7. ASSUME NEW d \in Docs, OpeningStored(d)
        PROVE  \A i \in 1 .. Len(docQ) : ~Of(docQ[i], {"open"}, d)
    <2> SUFFICES ASSUME NEW i \in 1 .. Len(docQ), Of(docQ[i], {"open"}, d)
                 PROVE  FALSE
      OBVIOUS
    <2>1. docQ[i] \in DocEntries /\ i \in DOMAIN docQ
      BY <1>1
    <2>2. Len(docQ[i]) = 3
      BY <2>1, StoresAreLong DEF Of, Stores
    <2> QED
      BY <1>7, <2>1, <2>2 DEF OpeningStored, Queued, Of
  <1>8. ASSUME NEW d \in Docs, DidChange(d)  PROVE Keeps(c)
    <2> DEFINE e == Entry("change", d, Version(d) + 1)
    <2>1. e \in WaitEntries
      BY <1>8, VersionTypes, EntryTypes DEF DidChange
    <2>2. CASE d # c
      <3>1. ClientKept(c)
        BY <1>2, <1>8, <2>2 DEF ClientKept, DidChange
      <3>2. ~Of(e, Stores, c)
        BY <2>2, EntryKinds
      <3>3. QueuesKept(c)
        BY <1>8, <2>1, <3>2, QueuesStay DEF QueuesKept, DidChange
      <3> QED
        BY <1>3, <1>8, <3>1, <3>3, QuietStep DEF DidChange
    <2>3. CASE d = c
      <3>1. Longer(waiting', waiting, e, Stores, c)
        BY <1>1, <1>8, <2>1, QueueLinks DEF DidChange
      <3>2. Of(e, {"change"}, d) /\ e[3] = Version(d) + 1
        BY EntryKinds
      <3> HIDE DEF e
      <3>3. IsOpen(c) /\ \A i \in 1 .. Len(docQ) : ~Of(docQ[i], {"open"}, c)
        BY <1>7, <1>8, <2>3 DEF DidChange
      <3>4. Flow(session[c].version, documents[c], Version(c) + 1, IsOpen(c),
                 sessionQ, docQ, waiting', c)
        BY <2>3, <3>1, <3>2, <3>3, DidChangeFlow DEF VersionsOf
      <3>5. client'[c].version = Version(c) + 1 /\ client'[c].open = client[c].open
        BY <1>2, <1>8, <2>3 DEF DidChange, Version
      <3> QED
        BY <1>4, <1>8, <3>4, <3>5 DEF DidChange, VersionsOf, Version, IsOpen
    <2> QED
      BY <2>2, <2>3
  <1>9. ASSUME NEW d \in Docs, DidSave(d)  PROVE Keeps(c)
    <2>1. ClientKept(c)
      BY <1>2, <1>9 DEF ClientKept, DidSave
    <2>2. QueuesKept(c)
      BY <1>9, EntryTypes, EntryKinds, QueuesStay DEF QueuesKept, DidSave
    <2> QED
      BY <1>3, <1>9, <2>1, <2>2, QuietStep DEF DidSave
  <1>10. ASSUME NEW d \in Docs, DidClose(d)  PROVE Keeps(c)
    <2>1. QueuesKept(c)
      <3>1. Within(sessionQ \o CloseTurns(d), sessionQ, Updates, c)
        <4> DEFINE a == Entry("cancel", d, 0)
                   b == Entry("cleanup", d, 0)
        <4>1. /\ a \in SessionEntries /\ b \in SessionEntries
              /\ ~Of(a, Updates, c) /\ ~Of(b, Updates, c)
          BY EntryTypes, EntryKinds
        <4> HIDE DEF a, b
        <4>2. /\ sessionQ \o <<a, b>> = Append(Append(sessionQ, a), b)
              /\ Append(sessionQ, a) \in Seq(SessionEntries)
          BY <1>1, <4>1
        <4>3. Within(Append(sessionQ, a), sessionQ, Updates, c)
          BY <4>1, QueuesStay
        <4>4. Within(Append(Append(sessionQ, a), b), sessionQ, Updates, c)
          BY <4>1, <4>2, <4>3, QueueLinks
        <4> QED
          BY <4>2, <4>4 DEF CloseTurns, a, b
      <3>2. Within(Append(docQ, Entry("remove", d, 0)), docQ, Stores, c)
        BY EntryTypes, EntryKinds, QueuesStay
      <3>3. CASE ready
        BY <1>10, <3>1, <3>2, <3>3, QueuesStay DEF QueuesKept, DidClose
      <3>4. CASE ~ready
        BY <1>10, <3>4, QueuesStay DEF QueuesKept, DidClose
      <3> QED
        BY <3>3, <3>4
    <2>2. CASE d # c
      <3>1. ClientKept(c)
        BY <1>2, <1>10, <2>2 DEF ClientKept, DidClose
      <3> QED
        BY <1>3, <1>10, <2>1, <3>1, QuietStep DEF DidClose
    <2>3. CASE d = c
      <3>1. /\ None(waiting, Stores, c)
            /\ \A i \in 1 .. Len(docQ) : ~Of(docQ[i], {"open"}, c)
        <4>1. ASSUME NEW i \in 1 .. Len(waiting), Of(waiting[i], Stores, c)
              PROVE  FALSE
          <5>1. waiting[i] \in WaitEntries /\ i \in DOMAIN waiting
            BY <1>1
          <5>2. Len(waiting[i]) = 3
            BY <4>1, <5>1, StoresAreLong
          <5> QED
            BY <1>10, <2>3, <4>1, <5>1, <5>2 DEF DidClose, UpdateOnTheWay, Queued, Of, Stores
        <4> QED
          BY <1>7, <1>10, <2>3, <4>1 DEF None, DidClose
      <3>2. Flow(session[c].version, documents[c], Version(c), FALSE,
                 sessionQ, docQ, waiting, c)
        BY <3>1, DidCloseFlow DEF VersionsOf
      <3>3. Flow(session[c].version, documents[c], Version(c), FALSE,
                 sessionQ', docQ', waiting', c)
        BY <2>1, <3>2, QuietFlow DEF QueuesKept
      <3>4. client'[c].version = Version(c) /\ client'[c].open = FALSE
        BY <1>2, <1>10, <2>3 DEF DidClose, Version
      <3> QED
        BY <1>4, <1>10, <3>3, <3>4 DEF DidClose, VersionsOf, Version, IsOpen
    <2> QED
      BY <2>2, <2>3
  <1>11. ASSUME NEW kind \in FileEvents, DidChangeWatchedFiles(kind)  PROVE Keeps(c)
    <2>1. QueuesKept(c)
      BY <1>11, StepTypes, EntryKinds, QueuesStay DEF QueuesKept, DidChangeWatchedFiles, FileEvents
    <2>2. ClientKept(c)
      BY <1>11 DEF ClientKept, DidChangeWatchedFiles
    <2> QED
      BY <1>3, <1>11, <2>1, <2>2, QuietStep DEF DidChangeWatchedFiles
  <1> QED
    BY <1>6, <1>8, <1>9, <1>10, <1>11 DEF Client

\* The waiters go on, and the strand of the documents runs.
LEMMA DocumentsKeepVersions ==
    ASSUME QueueTypes, DocumentTypes, LayoutTypes, NEW c \in Docs, VersionsOf(c),
           Resume \/ DocTurn
    PROVE  Keeps(c)
  <1> USE DEF storeVars, sessionVars, layoutVars, docVars, eventVars
  <1>1. /\ sessionQ \in Seq(SessionEntries) /\ docQ \in Seq(DocEntries)
        /\ waiting \in Seq(WaitEntries)
    BY DEF QueueTypes
  <1>2. documents \in [Docs -> 0 .. MaxVersion]
    BY DEF DocumentTypes
  <1>3. ASSUME UNCHANGED <<client, session>>  PROVE ClientKept(c) /\ SessionKept(c)
    BY <1>3 DEF ClientKept, SessionKept
  <1>4. ASSUME UNCHANGED documents  PROVE StateKept(c)
    BY <1>4 DEF StateKept
  <1>5. ASSUME UNCHANGED <<client, session>>,
               Flow(session[c].version, documents'[c], Version(c), IsOpen(c),
                    sessionQ', docQ', waiting', c)
        PROVE  Keeps(c)
    BY <1>5 DEF Keeps, NotOlder, VersionsOf, Flow, Pipeline, Version, IsOpen
  <1>6. ASSUME NEW d \in Docs, NEW v \in Versions, ResumeOpened(d, v)  PROVE Keeps(c)
    <2> DEFINE e == Entry("open", d, v)
               f == Entry("update", d, v)
    <2>1. f \in SessionEntries /\ waiting # <<>> /\ e = Head(waiting)
      BY <1>6, EntryTypes DEF ResumeOpened, Resumes
    <2>2. CASE d # c
      <3>1. ~Of(f, Updates, c)
        BY <2>2, EntryKinds
      <3>2. QueuesKept(c)
        BY <1>6, <2>1, <3>1, QueuesStay DEF QueuesKept, ResumeOpened, Resumes
      <3> QED
        BY <1>3, <1>4, <1>6, <3>2, QuietStep DEF ResumeOpened
    <2>3. CASE d = c
      <3>1. Longer(sessionQ', sessionQ, f, Updates, c) /\ Shorter(waiting', waiting, e)
        BY <1>1, <1>6, <2>1, QueueLinks DEF ResumeOpened, Resumes
      <3>2. Of(e, {"open"}, d) /\ e[3] = v /\ Of(f, Updates, d) /\ f[3] = v
        BY EntryKinds
      <3> HIDE DEF e, f
      <3>3. Flow(session[c].version, documents[c], Version(c), IsOpen(c),
                 sessionQ', docQ, waiting', c)
        BY <2>3, <3>1, <3>2, OpenedFlow DEF VersionsOf
      <3> QED
        BY <1>5, <1>6, <3>3 DEF ResumeOpened
    <2> QED
      BY <2>2, <2>3
  <1>7. ASSUME NEW d \in Docs, NEW v \in Versions, ResumeChanged(d, v)  PROVE Keeps(c)
    <2> DEFINE e == Entry("change", d, v)
    <2>1. e \in DocEntries /\ waiting # <<>> /\ e = Head(waiting)
      BY <1>7, EntryTypes DEF ResumeChanged, Resumes
    <2>2. CASE d # c
      <3>1. ~Of(e, Stores, c)
        BY <2>2, EntryKinds
      <3>2. QueuesKept(c)
        BY <1>7, <2>1, <3>1, QueuesStay DEF QueuesKept, ResumeChanged, Resumes
      <3> QED
        BY <1>3, <1>4, <1>7, <3>2, QuietStep DEF ResumeChanged
    <2>3. CASE d = c
      <3>1. Longer(docQ', docQ, e, Stores, c) /\ Shorter(waiting', waiting, e)
        BY <1>1, <1>7, <2>1, QueueLinks DEF ResumeChanged, Resumes
      <3>2. Of(e, {"change"}, d) /\ e[3] = v
        BY EntryKinds
      <3> HIDE DEF e
      <3>3. Flow(session[c].version, documents[c], Version(c), IsOpen(c),
                 sessionQ, docQ', waiting', c)
        BY <2>3, <3>1, <3>2, ChangedFlow DEF VersionsOf
      <3> QED
        BY <1>5, <1>7, <3>3 DEF ResumeChanged
    <2> QED
      BY <2>2, <2>3
  <1>8. ASSUME NEW d \in Docs, ResumeSaved(d)  PROVE Keeps(c)
    <2>1. QueuesKept(c)
      BY <1>8, EntryTypes, EntryKinds, QueuesStay DEF QueuesKept, ResumeSaved, Resumes
    <2> QED
      BY <1>3, <1>4, <1>8, <2>1, QuietStep DEF ResumeSaved
  <1>9. ASSUME NEW kind \in FileEvents, ResumeWatchedFiles(kind)  PROVE Keeps(c)
    <2>1. QueuesKept(c)
      BY <1>9, QueuesStay DEF QueuesKept, ResumeWatchedFiles, Resumes
    <2> QED
      BY <1>3, <1>4, <1>9, <2>1, QuietStep DEF ResumeWatchedFiles
  <1>10. ASSUME NEW d \in Docs, NEW v \in Versions, StoreOpened(d, v)  PROVE Keeps(c)
    <2> DEFINE e == Entry("open", d, v)
    <2>1. e \in WaitEntries /\ docQ # <<>> /\ e = Head(docQ)
      BY <1>10, EntryTypes DEF StoreOpened, DocRuns
    <2>2. CASE d # c
      <3>1. ~Of(e, Stores, c)
        BY <2>2, EntryKinds
      <3>2. QueuesKept(c)
        BY <1>10, <2>1, <3>1, QueuesStay DEF QueuesKept, StoreOpened
      <3>3. StateKept(c)
        BY <1>2, <1>10, <2>2 DEF StateKept, StoreOpened
      <3> QED
        BY <1>3, <1>10, <3>2, <3>3, QuietStep DEF StoreOpened
    <2>3. CASE d = c
      <3>1. Longer(waiting', waiting, e, Stores, c) /\ Shorter(docQ', docQ, e)
        BY <1>1, <1>10, <2>1, QueueLinks DEF StoreOpened
      <3>2. Of(e, {"open"}, d) /\ e[3] = v
        BY EntryKinds
      <3> HIDE DEF e
      <3>3. Flow(session[c].version, e[3], Version(c), IsOpen(c),
                 sessionQ, docQ', waiting', c)
        BY <2>3, <3>1, <3>2, StoreOpenedFlow DEF VersionsOf
      <3>4. documents'[c] = v
        BY <1>2, <1>10, <2>3 DEF StoreOpened
      <3> QED
        BY <1>5, <1>10, <3>2, <3>3, <3>4 DEF StoreOpened
    <2> QED
      BY <2>2, <2>3
  <1>11. ASSUME NEW d \in Docs, NEW v \in Versions, StoreChanged(d, v)  PROVE Keeps(c)
    <2> DEFINE e == Entry("change", d, v)
    <2>1. docQ # <<>> /\ e = Head(docQ)
      BY <1>11 DEF StoreChanged, DocRuns
    <2>2. CASE d # c
      <3>1. QueuesKept(c)
        BY <1>11, <2>1, QueuesStay DEF QueuesKept, StoreChanged
      <3>2. StateKept(c)
        BY <1>2, <1>11, <2>2 DEF StateKept, StoreChanged
      <3> QED
        BY <1>3, <1>11, <3>1, <3>2, QuietStep DEF StoreChanged
    <2>3. CASE d = c
      <3>1. Shorter(docQ', docQ, e)
        BY <1>1, <1>11, <2>1, QueueLinks DEF StoreChanged
      <3>2. Of(e, {"change"}, d) /\ e[3] = v
        BY EntryKinds
      <3> HIDE DEF e
      <3>3. Flow(session[c].version, e[3], Version(c), IsOpen(c),
                 sessionQ, docQ', waiting, c)
        BY <2>3, <3>1, <3>2, StoreChangedFlow DEF VersionsOf
      <3>4. documents'[c] = v
        BY <1>2, <1>11, <2>3 DEF StoreChanged
      <3> QED
        BY <1>5, <1>11, <3>2, <3>3, <3>4 DEF StoreChanged
    <2> QED
      BY <2>2, <2>3
  <1>12. ASSUME NEW d \in Docs, RemoveDocument(d)  PROVE Keeps(c)
    <2>1. QueuesKept(c)
      BY <1>12, QueuesStay DEF QueuesKept, RemoveDocument, DocRuns
    <2>2. StateKept(c)
      BY <1>2, <1>12 DEF StateKept, RemoveDocument
    <2> QED
      BY <1>3, <1>12, <2>1, <2>2, QuietStep DEF RemoveDocument
  <1>13. ASSUME NEW d \in Docs, NEW h \in {"update", "rebuild", "visit"},
                documents[d] # 0, docQ # <<>>, docQ' = Tail(docQ),
                sessionQ' = Append(sessionQ, Entry(h, d, documents[d])),
                UNCHANGED <<client, session, documents, waiting>>
         PROVE  Keeps(c)
    <2> DEFINE e == Entry(h, d, documents[d])
    <2>1. e \in SessionEntries
      BY <1>13, VersionTypes, EntryTypes
    <2>2. Within(docQ', docQ, Stores, c)
      BY <1>13, QueuesStay
    <2>3. CASE d # c
      <3>1. ~Of(e, Updates, c)
        BY <2>3, EntryKinds
      <3>2. QueuesKept(c)
        BY <1>13, <2>1, <2>2, <3>1, QueuesStay DEF QueuesKept
      <3> QED
        BY <1>3, <1>4, <1>13, <3>2, QuietStep
    <2>4. CASE d = c
      <3>2. Of(e, Updates, d) /\ e[3] = documents[d]
        BY DEF Of, Entry, Updates
      <3>5. sessionQ' = Append(sessionQ, e)
        BY <1>13
      <3> HIDE DEF e
      <3>1. Longer(sessionQ', sessionQ, e, Updates, c)
        BY <1>1, <2>1, <3>5, QueueLinks
      <3>4. Of(e, Updates, c) /\ e[3] = documents[c] /\ documents[c] # 0
        BY <1>13, <2>4, <3>2
      <3>3. Flow(session[c].version, documents[c], Version(c), IsOpen(c),
                 sessionQ', docQ', waiting, c)
        BY <2>2, <3>1, <3>4, ReadFlow DEF VersionsOf
      <3> QED
        BY <1>5, <1>13, <3>3
    <2> QED
      BY <2>3, <2>4
  <1>14. ASSUME UNCHANGED <<client, session, documents, sessionQ, waiting>>,
                Within(docQ', docQ, Stores, c)
         PROVE  Keeps(c)
    <2>1. QueuesKept(c)
      BY <1>14, QueuesStay DEF QueuesKept
    <2> QED
      BY <1>3, <1>4, <1>14, <2>1, QuietStep
  <1>15. ASSUME NEW d \in Docs, GetSaved(d)  PROVE Keeps(c)
    <2>1. CASE documents[d] = 0
      BY <1>14, <1>15, <2>1, QueuesStay DEF GetSaved, DocRuns
    <2>2. CASE documents[d] # 0
      BY <1>13, <1>15, <2>2 DEF GetSaved, DocRuns
    <2> QED
      BY <2>1, <2>2
  <1>16. ASSUME NEW d \in Docs, GetForRebuild(d)  PROVE Keeps(c)
    <2>1. CASE documents[d] = 0
      BY <1>14, <1>16, <2>1, QueuesStay DEF GetForRebuild, DocRuns
    <2>2. CASE documents[d] # 0
      BY <1>13, <1>16, <2>2 DEF GetForRebuild, DocRuns
    <2> QED
      BY <2>1, <2>2
  <1>17. ASSUME NEW d \in Docs, GetVisited(d)  PROVE Keeps(c)
    <2>1. CASE documents[d] = 0
      <3>1. workspace.todo \in SUBSET Docs
        BY DEF LayoutTypes
      <3>2. Within(docQ', docQ, Stores, c)
        BY <1>17, <2>1, <3>1, VisitKeeps DEF GetVisited, DocRuns
      <3> QED
        BY <1>14, <1>17, <2>1, <3>2 DEF GetVisited
    <2>2. CASE documents[d] # 0
      BY <1>13, <1>17, <2>2 DEF GetVisited, DocRuns
    <2> QED
      BY <2>1, <2>2
  <1>18. ASSUME GetAllUris  PROVE Keeps(c)
    <2>1. {d \in Docs : documents[d] # 0} \in SUBSET Docs
      OBVIOUS
    <2>2. Within(docQ', docQ, Stores, c)
      BY <1>18, <2>1, VisitKeeps DEF GetAllUris, DocRuns
    <2> QED
      BY <1>14, <1>18, <2>2 DEF GetAllUris
  <1> QED
    BY <1>6, <1>7, <1>8, <1>9, <1>10, <1>11, <1>12, <1>15, <1>16, <1>17, <1>18
    DEF Resume, DocTurn

\* The session strand runs, and SessionManager works.
LEMMA SessionsKeepVersions ==
    ASSUME QueueTypes, DocumentTypes, LayoutTypes, NEW c \in Docs, VersionsOf(c), SessionTurn
    PROVE  Keeps(c)
  <1> USE DEF storeVars, sessionVars, layoutVars, docVars, eventVars
  <1>1. /\ sessionQ \in Seq(SessionEntries) /\ docQ \in Seq(DocEntries)
    BY DEF QueueTypes
  <1>2. session \in [Docs -> [version : 0 .. MaxVersion, preamble : 0 .. layout, built : BOOLEAN]]
    BY DEF LayoutTypes
  <1>3. ASSUME UNCHANGED <<client, documents>>  PROVE ClientKept(c) /\ StateKept(c)
    BY <1>3 DEF ClientKept, StateKept
  <1>4. ASSUME NEW d \in Docs, NEW v \in Versions, NEW h \in {"update", "rebuild", "visit"},
               SessionRuns(Entry(h, d, v)), sessionQ' = Tail(sessionQ), UpdateSession(d, v),
               Within(docQ', docQ, Stores, c), UNCHANGED <<client, documents, waiting>>
        PROVE  Keeps(c)
    <2> DEFINE e == Entry(h, d, v)
    <2>1. /\ Within(sessionQ', sessionQ, Updates, c) /\ Within(waiting', waiting, Stores, c)
      BY <1>4, QueuesStay DEF SessionRuns
    <2>2. CASE d # c
      <3>1. session'[c] = session[c]
        BY <1>2, <1>4, <2>2 DEF UpdateSession
      <3>2. SessionKept(c) /\ QueuesKept(c)
        BY <1>4, <2>1, <3>1 DEF SessionKept, QueuesKept
      <3> QED
        BY <1>3, <1>4, <3>2, QuietStep
    <2>3. CASE d = c
      <3>1. Shorter(sessionQ', sessionQ, e)
        BY <1>1, <1>4, QueueLinks DEF SessionRuns
      <3>2. Of(e, Updates, d) /\ e[3] = v
        BY EntryKinds
      <3> HIDE DEF e
      <3>3. /\ Flow(e[3], documents[c], Version(c), IsOpen(c), sessionQ', docQ, waiting, c)
            /\ session[c].version <= e[3]
        BY <2>3, <3>1, <3>2, UpdateFlow DEF VersionsOf
      <3>4. Flow(e[3], documents[c], Version(c), IsOpen(c), sessionQ', docQ', waiting', c)
        <4>1. Within(sessionQ', sessionQ', Updates, c)
          BY WithinSelf
        <4> QED
          BY <1>4, <2>1, <3>3, <4>1, QuietFlow
      <3>5. session'[c].version = v
        BY <1>2, <1>4, <2>3 DEF UpdateSession
      <3> QED
        BY <1>4, <3>2, <3>3, <3>4, <3>5 DEF Keeps, NotOlder, VersionsOf, Version, IsOpen
    <2> QED
      BY <2>2, <2>3
  <1>5. ASSUME NEW d \in Docs, NEW v \in Versions, UpdateTurn(d, v)  PROVE Keeps(c)
    BY <1>4, <1>5, QueuesStay DEF UpdateTurn
  <1>6. ASSUME NEW d \in Docs, NEW v \in Versions, RebuildTurn(d, v)  PROVE Keeps(c)
    <2>1. Within(docQ', docQ, Stores, c)
      <3>1. /\ Entry("rebuild", d, 0) \in DocEntries
            /\ ~Of(Entry("rebuild", d, 0), Stores, c)
        BY EntryTypes, EntryKinds
      <3> QED
        BY <1>6, <3>1, QueuesStay DEF RebuildTurn, FinishRebuild
    <2> QED
      BY <1>4, <1>6, <2>1 DEF RebuildTurn
  <1>7. ASSUME NEW d \in Docs, NEW v \in Versions, VisitTurn(d, v)  PROVE Keeps(c)
    <2>1. workspace.todo \in SUBSET Docs
      BY DEF LayoutTypes
    <2>2. Within(docQ', docQ, Stores, c)
      BY <1>7, <2>1, VisitKeeps DEF VisitTurn
    <2> QED
      BY <1>4, <1>7, <2>2 DEF VisitTurn
  <1>8. ASSUME SessionKept(c), Within(sessionQ', sessionQ, Updates, c),
               UNCHANGED <<client, documents, waiting, docQ>>
        PROVE  Keeps(c)
    <2>1. QueuesKept(c)
      BY <1>8, QueuesStay DEF QueuesKept
    <2> QED
      BY <1>3, <1>8, <2>1, QuietStep
  <1>9. ASSUME NEW d \in Docs, CancelTurn(d)  PROVE Keeps(c)
    <2>1. SessionKept(c)
      BY <1>2, <1>9 DEF CancelTurn, SessionKept
    <2> QED
      BY <1>8, <1>9, <2>1, QueuesStay DEF CancelTurn, SessionRuns
  <1>10. ASSUME NEW d \in Docs, CleanupTurn(d)  PROVE Keeps(c)
    <2>1. SessionKept(c)
      BY <1>10 DEF CleanupTurn, SessionKept
    <2> QED
      BY <1>8, <1>10, <2>1, QueuesStay DEF CleanupTurn, SessionRuns
  <1>11. ASSUME SwapTurn  PROVE Keeps(c)
    <2>1. SessionKept(c)
      BY <1>11 DEF SwapTurn, SessionKept
    <2> QED
      <3>1. Workspace("invalidate") \in SessionEntries /\ ~Of(Workspace("invalidate"), Updates, c)
        BY StepTypes, EntryKinds
      <3>2. Within(Append(Tail(sessionQ), Workspace("invalidate")), sessionQ, Updates, c)
        BY <1>11, <3>1, QueuesStay DEF SwapTurn, SessionRuns
      <3> QED
        BY <1>8, <1>11, <2>1, <3>2 DEF SwapTurn
  <1>12. ASSUME InvalidateTurn  PROVE Keeps(c)
    <2>1. SessionKept(c)
      BY <1>2, <1>12 DEF InvalidateTurn, SessionKept
    <2> QED
      BY <1>8, <1>12, <2>1, QueuesStay DEF InvalidateTurn, SessionRuns
  <1> QED
    BY <1>5, <1>6, <1>7, <1>9, <1>10, <1>11, <1>12 DEF SessionTurn

\* Every action, by its handler.
LEMMA VersionStep ==
    ASSUME CleanClose, QueueTypes, DocumentTypes, LayoutTypes,
           NEW c \in Docs, VersionsOf(c), Next
    PROVE  Keeps(c)
  <1> USE DEF storeVars, sessionVars, layoutVars, docVars, eventVars
  <1>1. session \in [Docs -> [version : 0 .. MaxVersion, preamble : 0 .. layout, built : BOOLEAN]]
    BY DEF LayoutTypes
  <1>2. ASSUME SessionKept(c), Within(docQ', docQ, Stores, c), Within(sessionQ', sessionQ, Updates, c),
               UNCHANGED <<client, documents, waiting>>
        PROVE  Keeps(c)
    <2>1. QueuesKept(c) /\ ClientKept(c) /\ StateKept(c)
      BY <1>2, QueuesStay DEF QueuesKept, ClientKept, StateKept
    <2> QED
      BY <1>2, <2>1, QuietStep
  <1>3. UNCHANGED session => SessionKept(c)
    BY DEF SessionKept
  <1>4. ASSUME InitializeWorkspace \/ WorkspaceTimerExpires \/ WorkspaceTimerCallback
               \/ \E kind \in {"listed", "config"} : LayoutTurn(kind)
        PROVE  Keeps(c)
    BY <1>2, <1>3, <1>4, QueuesStay
    DEF InitializeWorkspace, WorkspaceTimerExpires, WorkspaceTimerCallback, LayoutTurn
  <1>5. ASSUME NEW d \in Docs, TimerExpires(d)  PROVE Keeps(c)
    BY <1>2, <1>3, <1>5, QueuesStay DEF TimerExpires
  <1>6. ASSUME NEW d \in Docs, TimerCallback(d)  PROVE Keeps(c)
    <2>1. Within(docQ', docQ, Stores, c)
      <3>1. /\ Entry("rebuild", d, 0) \in DocEntries
            /\ ~Of(Entry("rebuild", d, 0), Stores, c)
        BY EntryTypes, EntryKinds
      <3> QED
        BY <1>6, <3>1, QueuesStay DEF TimerCallback, RebuildSession
    <2> QED
      BY <1>2, <1>3, <1>6, <2>1, QueuesStay DEF TimerCallback
  <1>7. ASSUME NEW d \in Docs, CleanupExpires(d)  PROVE Keeps(c)
    <2>1. SessionKept(c)
      BY <1>1, <1>7 DEF CleanupExpires, SessionKept
    <2> QED
      BY <1>2, <1>7, <2>1, QueuesStay DEF CleanupExpires
  <1>8. ASSUME NEW d \in Docs, SessionBuilt(d)  PROVE Keeps(c)
    <2>1. SessionKept(c)
      BY <1>1, <1>8 DEF SessionBuilt, SessionKept
    <2> QED
      BY <1>2, <1>8, <2>1, QueuesStay DEF SessionBuilt
  <1>9. ASSUME PreambleBuilt  PROVE Keeps(c)
    <2>1. Within(sessionQ', sessionQ, Updates, c)
      <3>1. Workspace("swap") \in SessionEntries /\ ~Of(Workspace("swap"), Updates, c)
        BY StepTypes, EntryKinds
      <3> QED
        BY <1>9, <3>1, QueuesStay DEF PreambleBuilt
    <2> QED
      BY <1>2, <1>3, <1>9, <2>1, QueuesStay DEF PreambleBuilt
  <1>10. ASSUME SessionsDrained  PROVE Keeps(c)
    <2>1. Within(docQ', docQ, Stores, c)
      <3>1. Workspace("uris") \in DocEntries /\ ~Of(Workspace("uris"), Stores, c)
        BY StepTypes, EntryKinds
      <3> QED
        BY <1>10, <3>1, QueuesStay DEF SessionsDrained
    <2>2. SessionKept(c)
      BY <1>10 DEF SessionsDrained, SessionKept
    <2> QED
      BY <1>2, <1>10, <2>1, <2>2, QueuesStay DEF SessionsDrained
  <1> QED
    BY <1>4, <1>5, <1>6, <1>7, <1>8, <1>9, <1>10,
       ClientKeepsVersions, DocumentsKeepVersions, SessionsKeepVersions
    DEF Next, RebuildStep

\* The order of the versions, on top of the types.
LEMMA VersionsHold ==
    ASSUME CleanClose
    PROVE  Spec => [](TypeInv /\ \A d \in Docs : VersionsOf(d))
  <1> DEFINE Inv == \A d \in Docs : VersionsOf(d)
  <1>1. Init => Inv
    <2> SUFFICES ASSUME Init, NEW d \in Docs  PROVE VersionsOf(d)
      OBVIOUS
    <2>1. /\ session[d].version = 0 /\ documents[d] = 0 /\ Version(d) = 0
          /\ Len(sessionQ) = 0 /\ Len(docQ) = 0 /\ Len(waiting) = 0
      BY DEF Init, NoSession, Version
    <2>2. 1 .. 0 = {}
      OBVIOUS
    <2>3. Pipeline(session[d].version, documents[d], Version(d), sessionQ, docQ, waiting, d)
      BY <2>1, <2>2 DEF Pipeline, Numbered, Sorted, Below, Above, Precede
    <2>4. Openings(documents[d], IsOpen(d), docQ, waiting, d)
      BY <2>1, <2>2 DEF Openings, None
    <2> QED
      BY <2>3, <2>4 DEF VersionsOf, Flow
  <1>2. TypeInv /\ Inv /\ [Next]_vars => Inv'
    <2> SUFFICES ASSUME TypeInv, Inv, [Next]_vars, NEW d \in Docs  PROVE VersionsOf(d)'
      OBVIOUS
    <2>1. CASE Next
      BY <2>1, VersionStep DEF TypeInv, Keeps
    <2>2. CASE UNCHANGED vars
      BY <2>2 DEF vars, VersionsOf, Version, IsOpen
    <2> QED
      BY <2>1, <2>2
  <1> QED
    BY <1>1, <1>2, TypeInvHolds, PTL DEF Spec

\* NewestVersionWins, for a client that closes a document only with nothing of
\* it on the way: RebuildWorkspace, OnDocumentSaved, OnDocumentOpened and
\* RebuildSessionWithDiagnostics never give a document an older session.
THEOREM UpdatesKeepOrder ==
    ASSUME CleanClose
    PROVE  Spec => NewestVersionWins
  <1> DEFINE Inv == TypeInv /\ \A d \in Docs : VersionsOf(d)
             Wins == \A d \in Docs : HasSession(d) /\ HasSession(d)'
                                      => session[d].version <= session[d]'.version
  <1>1. Inv /\ [Next]_vars => [Wins]_vars
    <2> SUFFICES ASSUME Inv, Next  PROVE Wins
      OBVIOUS
    <2>1. \A d \in Docs : NotOlder(d)
      BY VersionStep DEF TypeInv, Keeps
    <2> QED
      BY <2>1 DEF NotOlder, HasSession
  <1> QED
    BY <1>1, VersionsHold, PTL DEF Spec, NewestVersionWins

=============================================================================
