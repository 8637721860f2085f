------------------------- MODULE SessionUpdateProofs -------------------------
(***************************************************************************)
(* What becomes of an update: proofs that SessionManager loses none, that  *)
(* what is stored has the text last asked for, and that requests are not   *)
(* sent away, for a client that does not ask again for a version whose     *)
(* creation is doomed (~ReuseVersions).  The store of Phase 1 may come any *)
(* time after its test, and, where not excluded, compilations may throw.   *)
(***************************************************************************)
EXTENDS SessionManagerProofs

-----------------------------------------------------------------------------
(* The order of the creations.                                             *)

OnItsWay(t) == pc[t] \in {"queued", "building", "indexing"}
BeforeStore(t) == OnItsWay(t) \/ pc[t] \in {"storing", "checked"}

(* The overlay strand builds creations in the order of the calls, and Phase 1
   tests and stores them in that order. *)
InOrder ==
    \A u, t \in Started : u < t =>
        /\ OnItsWay(u) => pc[t] = "queued"
        /\ BeforeStore(u) => pc[t] \notin {"checked", "stored"}

(* Each step of a creation moves that creation on, and no other. *)
LEMMA StepGoes ==
    ASSUME TypeOK, NEW t \in Started, Step(t)
    PROVE  /\ UNCHANGED creation
           /\ pc[t] \in PC \ {"unused", "done"}
           /\ pc' = [pc EXCEPT ![t] = pc'[t]]
           /\ pc'[t] \in PC \ {"unused", "queued"}
<1>1. t \in Tasks /\ pc \in [Tasks -> PC] /\ pc[t] # "unused"
  BY StartedFacts DEF TypeOK, CreationsOK
<1>2. UNCHANGED creation
  BY StepProgresses DEF Progresses
<1>3. \E label \in PC \ {"unused", "queued"} : Goto(t, label)
  BY DEF Step, StartBuild, Built, Indexed, IndexingFails, Throws, Phase1,
     Phase1Store, Phase2, Phase2Turn, PC
<1>4. pc[t] # "done"
  BY DEF Step, StartBuild, Built, Indexed, IndexingFails, Throws, Compiles,
     Phase1, Phase1Store, Phase2, Phase2Turn
<1> QED
  BY <1>1, <1>2, <1>3, <1>4 DEF Goto

(* Only StartSessionCreation and the coroutines move creations. *)
LEMMA CallsAndSteps ==
    ASSUME [Next]_vars
    PROVE  \/ UNCHANGED <<creation, pc>>
           \/ \E d \in Docs, v \in Versions, c \in Contents :
                 StartSessionCreation(d, v, c)
           \/ \E t \in Started : Step(t)
BY DEF Next, Call, Cleanup, UpdateSession, InvalidateSessions,
   CancelPendingSession, ScheduleCleanup, TimerExpires, CleanupJob,
   UpdatePreambleManager, InvalidateAllSessions, SessionsDrained, Ask, WakeUp,
   Reply, taskVars, vars

(* Creations are built, tested and stored in the order in which UpdateSession
   started them: what the overlay strand guarantees of coroutines that leave
   it between their phases. *)
THEOREM CreationsKeepOrder == Spec => []InOrder
<1>1. Init => InOrder
  BY DEF Init, InOrder, Started
<1>2. TypeOK /\ InOrder /\ [Next]_vars => InOrder'
  <2> SUFFICES ASSUME TypeOK, InOrder, [Next]_vars PROVE InOrder'
    OBVIOUS
  <2>a. /\ Started \subseteq Tasks /\ Started = 1 .. Len(creation)
        /\ Len(creation) \in Nat
        /\ pc \in [Tasks -> PC]
    BY StartedFacts DEF TypeOK, CreationsOK
  <2>1. CASE UNCHANGED <<creation, pc>>
    BY <2>1, SameStarted DEF InOrder, OnItsWay, BeforeStore
  <2>2. ASSUME NEW d \in Docs, NEW v \in Versions, NEW c \in Contents,
               StartSessionCreation(d, v, c)
        PROVE  InOrder'
    <3>1. PICK n \in Tasks :
            /\ n = Len(creation) + 1
            /\ Started' = Started \cup {n}
            /\ pc' = [pc EXCEPT ![n] = "queued"]
      BY <2>2, StartFacts
    <3>2. \A t \in Started : t < n /\ pc'[t] = pc[t]
      BY <3>1, <2>a
    <3> QED
      BY <3>1, <3>2, <2>a DEF InOrder, OnItsWay, BeforeStore
  <2>3. ASSUME NEW t \in Started, Step(t)
        PROVE  InOrder'
    <3>1. /\ Started' = Started
          /\ pc'[t] \in PC \ {"unused", "queued"}
          /\ \A u \in Started : u # t => pc'[u] = pc[u]
      BY <2>3, <2>a, StepGoes, SameStarted
    <3>2. ASSUME NEW u \in Started, u < t
          PROVE  /\ ~OnItsWay(u)
                 /\ BeforeStore(u) => pc'[t] \notin {"checked", "stored"}
      <4>1. CASE StartBuild(t)
        BY <2>3, <3>2, <4>1, <2>a DEF StartBuild, Goto, OverlayStrandFree,
           OnOverlayStrand, Compiles, OnItsWay
      <4>2. CASE Built(t) \/ Indexed(t) \/ IndexingFails(t) \/ Throws(t)
        BY <3>2, <4>2, <2>a DEF Built, Indexed, IndexingFails, Throws,
           Compiles, Goto, InOrder
      <4>3. CASE Phase1(t)
        BY <3>2, <4>3, <2>a DEF Phase1, Goto, InOrder,
           BeforeStore, OverlayStrandFree, OnOverlayStrand
      <4>4. CASE Phase1Store(t)
        BY <3>2, <4>4, <2>a DEF Phase1Store, InOrder
      <4>5. CASE Phase2(t)
        BY <3>2, <4>5, <2>a DEF Phase2, Phase2Turn, Goto, InOrder
      <4> QED
        BY <2>3, <4>1, <4>2, <4>3, <4>4, <4>5 DEF Step
    <3>3. (OnItsWay(t)' => OnItsWay(t)) /\ (BeforeStore(t)' => BeforeStore(t))
      BY <2>3, <2>a DEF Step, StartBuild, Built, Indexed, IndexingFails,
         Throws, Phase1, Phase1Store, Phase2, Phase2Turn, Goto,
         OnItsWay, BeforeStore, Compiles
    <3> QED
      BY <3>1, <3>2, <3>3, <2>a DEF InOrder, OnItsWay, BeforeStore
  <2> QED
    BY <2>1, <2>2, <2>3, CallsAndSteps
<1> QED
  BY <1>1, <1>2, TypeCorrect, PTL DEF Spec

-----------------------------------------------------------------------------
(* The inductive invariant.                                                *)

(* An entry of pending_ is the newest creation of its document and was asked
   for last; only a rebuild dooms it while somebody wants it; once it has
   stored its session, the session is there until Phase 2. *)
EntryOK(d) ==
    LET p == pending[d] IN
    p # None =>
        /\ \A t \in Started : Doc(t) = d => t <= p
        /\ latest[d] = <<Version(p), creation[p].content>>
        /\ cancelled[p] => rebuild = "draining"
        /\ pc[p] = "returning" /\ asked[d] = "wanted" => rebuild = "draining"
        /\ pc[p] = "stored" => HasSession(d) /\ sessions[d].by = p
        /\ sessions[d].phase # "indexed"

(* A creation that finds an entry of its version in pending_ finds its own. *)
OwnEntry ==
    \A t \in Unfinished :
        PendingVersion(Doc(t), Version(t)) => pending[Doc(t)] = t

(* While a creation is still to store, there is no complete session. *)
NoneComplete ==
    \A t \in Started : BeforeStore(t) => sessions[Doc(t)].phase # "indexed"

CancelledIsStarted == \A t \in Tasks : cancelled[t] => t \in Started

(* What the client wants has an entry or a complete session: NothingLost, but
   for entries of creations that are over. *)
WantedIsThere ==
    \A d \in Docs :
        asked[d] = "wanted" /\ rebuild # "draining" =>
            pending[d] # None \/ sessions[d].phase = "indexed"

UpdateInv ==
    /\ \A d \in Docs : EntryOK(d)
    /\ OwnEntry
    /\ NoneComplete
    /\ CancelledIsStarted
    /\ WantedIsThere

(* Facts about one document and its entry that the steps below use. *)
LEMMA EntryFacts ==
    ASSUME TypeOK, UpdateInv
    PROVE  /\ pending \in [Docs -> {None} \cup Started]
           /\ sessions \in [Docs -> {NoEntry} \cup Entry]
           /\ pc \in [Tasks -> PC]
           /\ cancelled \in [Tasks -> BOOLEAN]
           /\ asked \in [Docs -> {"never", "wanted", "withdrawn", "closed"}]
           /\ latest \in [Docs -> {<<>>} \cup (Versions \X Contents)]
           /\ \A d \in Docs : pending[d] # None => Doc(pending[d]) = d
           /\ Started = 1 .. Len(creation) /\ Len(creation) \in Nat
           /\ Started \subseteq Tasks /\ None \notin Tasks
           /\ \A t \in Started : Doc(t) \in Docs
BY StartedFacts, BoundsAssumption DEF TypeOK, StoreOK, CreationsOK, ClientOK,
   Tasks, None, Doc, Creation

(* A step that leaves the store and the creations alone and lets nobody want
   another document. *)
LEMMA UpdateInvQuiet ==
    ASSUME TypeOK, UpdateInv,
           UNCHANGED <<creation, pc, cancelled, pending, sessions, latest>>,
           \A d \in Docs : asked'[d] = "wanted" => asked[d] = "wanted",
           rebuild' = "draining" <=> rebuild = "draining"
    PROVE  UpdateInv'
<1>1. \A d \in Docs : EntryOK(d)'
  BY SameStarted DEF UpdateInv, EntryOK, Doc, Version, HasSession
<1>2. OwnEntry' /\ NoneComplete' /\ CancelledIsStarted'
  BY SameStarted DEF UpdateInv, OwnEntry, NoneComplete, CancelledIsStarted,
     Unfinished, PendingVersion, BeforeStore, OnItsWay, Doc, Version
<1>3. WantedIsThere'
  BY DEF UpdateInv, WantedIsThere
<1> QED
  BY <1>1, <1>2, <1>3 DEF UpdateInv

(* A step that erases the entry of one document and lets nobody want it. *)
LEMMA UpdateInvErase ==
    ASSUME TypeOK, UpdateInv, NEW d \in Docs,
           UNCHANGED <<creation, pc, latest, rebuild>>,
           pending' = [pending EXCEPT ![d] = None],
           cancelled' = [t \in Tasks |-> cancelled[t] \/ t = pending[d]],
           sessions' \in {sessions, [sessions EXCEPT ![d] = NoEntry]},
           asked'[d] # "wanted",
           \A e \in Docs \ {d} : asked'[e] = asked[e]
    PROVE  UpdateInv'
<1>a. /\ pending \in [Docs -> {None} \cup Started]
      /\ sessions \in [Docs -> {NoEntry} \cup Entry]
      /\ \A e \in Docs : pending[e] # None => Doc(pending[e]) = e
      /\ Started' = Started /\ Started \subseteq Tasks
      /\ Unfinished' = Unfinished
  BY EntryFacts, SameStarted DEF Unfinished
<1>b. /\ pending'[d] = None
      /\ \A e \in Docs \ {d} : /\ pending'[e] = pending[e]
                               /\ sessions'[e] = sessions[e]
      /\ sessions'[d] \in {sessions[d], NoEntry}
  BY <1>a
<1>1. ASSUME NEW e \in Docs PROVE EntryOK(e)'
  <2>1. CASE e = d
    BY <2>1, <1>b DEF EntryOK
  <2>2. CASE e # d /\ pending[e] # None
    <3>1. cancelled'[pending[e]] => cancelled[pending[e]]
      BY <2>2, <1>a
    <3> QED
      BY <2>2, <3>1, <1>a, <1>b DEF UpdateInv, EntryOK, Doc, Version, HasSession
  <2>3. CASE e # d /\ pending[e] = None
    BY <2>3, <1>b DEF EntryOK
  <2> QED
    BY <2>1, <2>2, <2>3
<1>2. OwnEntry'
  BY <1>a, <1>b, EntryFacts DEF UpdateInv, OwnEntry, Unfinished,
     PendingVersion, Doc, Version
<1>3. NoneComplete'
  BY <1>a, <1>b, EntryFacts DEF UpdateInv, NoneComplete, NoEntry, BeforeStore,
     OnItsWay, Doc
<1>4. CancelledIsStarted'
  BY <1>a, EntryFacts DEF UpdateInv, CancelledIsStarted
<1>5. WantedIsThere'
  BY <1>b DEF UpdateInv, WantedIsThere
<1> QED
  BY <1>1, <1>2, <1>3, <1>4, <1>5 DEF UpdateInv

(* An update that keeps the stored session: it is the pending creation's, or
   complete. *)
LEMMA UpdateKeepsStored ==
    ASSUME TypeOK, UpdateInv,
           NEW d \in Docs, NEW v \in Versions, NEW c \in Contents,
           VersionNamesText(d, v, c), StoredVersion(d, v),
           UNCHANGED <<creation, pc, cancelled, pending, sessions, rebuild>>,
           latest' = [latest EXCEPT ![d] = <<v, c>>],
           asked' = [asked EXCEPT ![d] = "wanted"]
    PROVE  UpdateInv'
<1> DEFINE s == sessions[d].by
<1>a. /\ s \in Started /\ Doc(s) = d /\ Version(s) = v /\ s # None
      /\ Started' = Started /\ Unfinished' = Unfinished
  BY EntryFacts, SameStarted DEF StoredVersion, TypeOK, StoreOK, Unfinished
<1>1. /\ creation[s].content = c
      /\ \/ pending[d] = s /\ (Doomed(s) => rebuild = "draining")
         \/ s \notin Unfinished /\ sessions[d].phase = "indexed"
  BY <1>a DEF VersionNamesText
<1>2. pending[d] # None => pending[d] = s
  BY <1>1 DEF UpdateInv, EntryOK
<1>b. /\ latest'[d] = <<v, c>> /\ asked'[d] = "wanted"
      /\ \A e \in Docs \ {d} : latest'[e] = latest[e] /\ asked'[e] = asked[e]
  BY EntryFacts
<1>3. ASSUME NEW e \in Docs PROVE EntryOK(e)'
  <2>1. CASE e # d
    BY <2>1, <1>a, <1>b DEF UpdateInv, EntryOK, Doc, Version, HasSession
  <2>2. CASE e = d
    BY <2>2, <1>1, <1>2, <1>a, <1>b DEF UpdateInv, EntryOK, Doc, Version,
       HasSession, Doomed
  <2> QED
    BY <2>1, <2>2
<1>4. OwnEntry' /\ NoneComplete' /\ CancelledIsStarted'
  BY <1>a DEF UpdateInv, OwnEntry, NoneComplete, CancelledIsStarted,
     PendingVersion, BeforeStore, OnItsWay, Doc, Version
<1>5. WantedIsThere'
  BY <1>1, <1>a, <1>b DEF UpdateInv, WantedIsThere
<1> QED
  BY <1>3, <1>4, <1>5 DEF UpdateInv

(* An update that keeps the pending creation: either it runs, or it has
   thrown, and then the client has not closed the document since. *)
LEMMA UpdateKeepsPending ==
    ASSUME TypeOK, UpdateInv, CleanupInv,
           NEW d \in Docs, NEW v \in Versions, NEW c \in Contents,
           OneTextPerOpening(d, v, c), VersionNamesText(d, v, c),
           ~StoredVersion(d, v), PendingVersion(d, v),
           UNCHANGED <<creation, pc, cancelled, pending, rebuild>>,
           sessions' = [sessions EXCEPT ![d] = NoEntry],
           latest' = [latest EXCEPT ![d] = <<v, c>>],
           asked' = [asked EXCEPT ![d] = "wanted"]
    PROVE  UpdateInv'
<1> DEFINE p == pending[d]
<1>a. /\ p \in Started /\ Doc(p) = d /\ Version(p) = v /\ p # None
      /\ Started' = Started /\ Unfinished' = Unfinished
  BY EntryFacts, SameStarted DEF PendingVersion, Unfinished
<1>b. /\ latest'[d] = <<v, c>> /\ asked'[d] = "wanted"
      /\ sessions'[d] = NoEntry
      /\ \A e \in Docs \ {d} : /\ latest'[e] = latest[e] /\ asked'[e] = asked[e]
                               /\ sessions'[e] = sessions[e]
  BY EntryFacts
<1>1. creation[p].content = c
  <2>1. CASE p \in Unfinished
    BY <2>1, <1>a DEF VersionNamesText
  <2>2. CASE p \notin Unfinished
    <3>1. latest[d] = <<v, creation[p].content>>
      BY <1>a DEF UpdateInv, EntryOK
    <3>2. asked[d] \notin {"withdrawn", "closed"}
      BY <1>a DEF CleanupInv
    <3> QED
      BY <3>1, <3>2 DEF OneTextPerOpening
  <2> QED
    BY <2>1, <2>2
<1>2. pc[p] # "stored"
  BY <1>a DEF UpdateInv, EntryOK, StoredVersion
<1>3. pc[p] = "returning" => rebuild = "draining"
  BY <1>a DEF VersionNamesText, Unfinished, Doomed
<1>4. ASSUME NEW e \in Docs PROVE EntryOK(e)'
  <2>1. CASE e # d
    BY <2>1, <1>a, <1>b DEF UpdateInv, EntryOK, Doc, Version, HasSession
  <2>2. CASE e = d
    BY <2>2, <1>1, <1>2, <1>3, <1>a, <1>b DEF UpdateInv, EntryOK, Doc, Version,
       NoEntry
  <2> QED
    BY <2>1, <2>2
<1>5. OwnEntry' /\ NoneComplete' /\ CancelledIsStarted'
  BY <1>a, <1>b, EntryFacts DEF UpdateInv, OwnEntry, NoneComplete, NoEntry,
     CancelledIsStarted, PendingVersion, BeforeStore, OnItsWay, Doc, Version
<1>6. WantedIsThere'
  BY <1>a, <1>b DEF UpdateInv, WantedIsThere
<1> QED
  BY <1>4, <1>5, <1>6 DEF UpdateInv

(* An update that starts a creation. *)
LEMMA UpdateStartsNew ==
    ASSUME TypeOK, UpdateInv,
           NEW d \in Docs, NEW v \in Versions, NEW c \in Contents,
           VersionNamesText(d, v, c), ~PendingVersion(d, v),
           StartSessionCreation(d, v, c),
           cancelled' = [t \in Tasks |-> cancelled[t] \/ t = pending[d]],
           sessions' = [sessions EXCEPT ![d] = NoEntry],
           latest' = [latest EXCEPT ![d] = <<v, c>>],
           asked' = [asked EXCEPT ![d] = "wanted"],
           rebuild' = rebuild
    PROVE  UpdateInv'
<1>1. PICK n \in Tasks :
        /\ n \notin Started /\ Started' = Started \cup {n}
        /\ n = Len(creation) + 1
        /\ \A t \in Started : creation'[t] = creation[t]
        /\ creation'[n] = [doc |-> d, version |-> v, content |-> c,
                           preamble |-> preamble]
        /\ pc' = [pc EXCEPT ![n] = "queued"]
        /\ pending' = [pending EXCEPT ![d] = n]
  BY StartFacts
<1>a. /\ latest'[d] = <<v, c>> /\ sessions'[d] = NoEntry /\ pending'[d] = n
      /\ \A e \in Docs \ {d} : /\ latest'[e] = latest[e] /\ asked'[e] = asked[e]
                               /\ sessions'[e] = sessions[e]
                               /\ pending'[e] = pending[e]
  BY <1>1, EntryFacts
<1>b. /\ Doc(n)' = d /\ Version(n)' = v /\ creation'[n].content = c
      /\ pc'[n] = "queued" /\ n # None
      /\ \A t \in Started : /\ Doc(t)' = Doc(t) /\ Version(t)' = Version(t)
                            /\ pc'[t] = pc[t] /\ t < n
  BY <1>1, EntryFacts DEF Doc, Version
<1>c. ~cancelled'[n]
  BY <1>1, EntryFacts DEF UpdateInv, CancelledIsStarted
<1>2. ASSUME NEW e \in Docs PROVE EntryOK(e)'
  <2>1. CASE e = d
    BY <2>1, <1>1, <1>a, <1>b, <1>c, EntryFacts DEF EntryOK, NoEntry
  <2>2. CASE e # d /\ pending[e] # None
    <3>1. pending[e] \in Started /\ pending[e] # pending[d]
      BY <2>2, EntryFacts
    <3>2. cancelled'[pending[e]] => cancelled[pending[e]]
      BY <3>1, EntryFacts
    <3>3. EntryOK(e)
      BY DEF UpdateInv
    <3> QED
      BY <2>2, <3>1, <3>2, <3>3, <1>1, <1>a, <1>b DEF EntryOK, HasSession
  <2>3. CASE e # d /\ pending[e] = None
    BY <2>3, <1>a DEF EntryOK
  <2> QED
    BY <2>1, <2>2, <2>3
<1>3. OwnEntry'
  <2> SUFFICES ASSUME NEW t \in Unfinished', PendingVersion(Doc(t), Version(t))'
               PROVE  pending'[Doc(t)'] = t
    BY DEF OwnEntry
  <2>1. CASE t = n
    BY <2>1, <1>a, <1>b
  <2>2. CASE t # n
    <3>1. t \in Unfinished
      BY <2>2, <1>1, <1>b DEF Unfinished
    <3>2. Doc(t) = d => Version(t) # v
      BY <3>1, EntryFacts DEF VersionNamesText, PendingVersion, Unfinished
    <3>3. Doc(t) # d
      BY <3>1, <3>2, <1>a, <1>b DEF PendingVersion, Unfinished
    <3>4. PendingVersion(Doc(t), Version(t))
      BY <3>1, <3>3, <1>a, <1>b, EntryFacts DEF PendingVersion, Unfinished
    <3> QED
      BY <3>1, <3>3, <3>4, <1>a, <1>b, EntryFacts DEF UpdateInv, OwnEntry,
         Unfinished
  <2> QED
    BY <2>1, <2>2
<1>4. NoneComplete'
  BY <1>1, <1>a, <1>b, EntryFacts DEF UpdateInv, NoneComplete, BeforeStore,
     OnItsWay, NoEntry
<1>5. CancelledIsStarted'
  BY <1>1, EntryFacts DEF UpdateInv, CancelledIsStarted
<1>6. WantedIsThere'
  BY <1>a, <1>b DEF UpdateInv, WantedIsThere
<1> QED
  BY <1>2, <1>3, <1>4, <1>5, <1>6 DEF UpdateInv

(* The turns of a creation that store nothing and leave pending_ alone. *)
LEMMA UpdateInvMoves ==
    ASSUME TypeOK, UpdateInv, NEW t \in Started,
           \/ StartBuild(t) \/ Built(t) \/ Indexed(t)
           \/ IndexingFails(t) \/ Throws(t)
    PROVE  UpdateInv'
<1>a. /\ UNCHANGED <<creation, cancelled, pending, sessions, latest, rebuild>>
      /\ Started' = Started
  BY SameStarted DEF StartBuild, Built, Indexed, IndexingFails, Throws,
     otherThanTask, rebuildVars
<1>b. /\ OnItsWay(t)
      /\ pc'[t] \in {"building", "indexing", "storing", "returning", "done"}
      /\ \A u \in Started : u # t => pc'[u] = pc[u]
  BY EntryFacts DEF StartBuild, Built, Indexed, IndexingFails, Throws,
     Compiles, Goto, OnItsWay
<1>c. /\ \A d \in Docs : asked'[d] = "wanted" => asked[d] = "wanted"
      /\ \/ pc'[t] = "returning" => cancelled[t]
         \/ asked'[Doc(t)] = "wanted" => latest[Doc(t)][1] # Version(t)
  <2>1. CASE StartBuild(t) \/ Built(t) \/ Indexed(t)
    BY <2>1, EntryFacts DEF StartBuild, Built, Indexed, Goto
  <2>2. CASE IndexingFails(t) \/ Throws(t)
    BY <2>2, EntryFacts DEF IndexingFails, Throws, GiveUp
  <2> QED
    BY <2>1, <2>2
<1>1. ASSUME NEW d \in Docs PROVE EntryOK(d)'
  <2>1. CASE pending[d] = t
    BY <2>1, <1>a, <1>b, <1>c, EntryFacts DEF UpdateInv, EntryOK, Doc, Version
  <2>2. CASE pending[d] # t
    BY <2>2, <1>a, <1>b, <1>c, EntryFacts DEF UpdateInv, EntryOK, Doc, Version,
       HasSession
  <2> QED
    BY <2>1, <2>2
<1>2. Unfinished' \subseteq Unfinished
  BY <1>a, <1>b DEF Unfinished, OnItsWay
<1>3. OwnEntry' /\ CancelledIsStarted'
  BY <1>2, <1>a DEF UpdateInv, OwnEntry, CancelledIsStarted, PendingVersion,
     Doc, Version
<1>4. NoneComplete'
  BY <1>a, <1>b DEF UpdateInv, NoneComplete, BeforeStore, OnItsWay, Doc
<1>5. WantedIsThere'
  BY <1>a, <1>c DEF UpdateInv, WantedIsThere
<1> QED
  BY <1>1, <1>3, <1>4, <1>5 DEF UpdateInv

(* Phase 1: what passes its test, what it stores, and what it sends on its way
   back. *)
LEMMA UpdateInvPhase1 ==
    ASSUME TypeOK, UpdateInv, InOrder, NEW t \in Started,
           Phase1(t) \/ Phase1Store(t)
    PROVE  UpdateInv'
<1> DEFINE d == Doc(t)
<1>a. /\ UNCHANGED <<creation, cancelled, pending, asked, latest, rebuild>>
      /\ Started' = Started /\ d \in Docs /\ t \in Tasks
      /\ BeforeStore(t) /\ t \in Unfinished
  BY SameStarted, EntryFacts DEF Phase1, Phase1Store, otherThanTask, rebuildVars,
     BeforeStore, Unfinished
<1>b. /\ pc'[t] \in {"stored", "checked", "returning"}
      /\ \A u \in Started : u # t => pc'[u] = pc[u]
  BY EntryFacts DEF Phase1, Phase1Store, Goto
<1>c. \/ /\ pc'[t] = "stored"
         /\ sessions' = [sessions EXCEPT ![d] = [by |-> t, phase |-> "elaborated"]]
      \/ pc'[t] # "stored" /\ sessions' = sessions
  BY <1>a, EntryFacts DEF Phase1, Phase1Store, otherThanTask, Goto
<1>1. pending[d] # None /\ pending[d] # t => pc[pending[d]] # "stored"
  <2> SUFFICES ASSUME pending[d] # None, pending[d] # t
               PROVE  pc[pending[d]] # "stored"
    OBVIOUS
  <2>1. pending[d] \in Started /\ t < pending[d]
    BY <1>a, EntryFacts DEF UpdateInv, EntryOK
  <2> QED
    BY <2>1, <1>a DEF InOrder
<1>2. pending[d] = t /\ pc'[t] = "returning" => cancelled[t]
  BY <1>a, EntryFacts DEF Phase1, Phase1Store, Goto, MayStore, PendingVersion
<1>3. ASSUME NEW e \in Docs PROVE EntryOK(e)'
  <2>1. CASE e # d
    <3>1. pending[e] # t /\ sessions'[e] = sessions[e]
      BY <2>1, <1>a, <1>c, EntryFacts
    <3> QED
      BY <2>1, <3>1, <1>a, <1>b, EntryFacts DEF UpdateInv, EntryOK, Doc,
         Version, HasSession
  <2>2. CASE e = d /\ pending[d] = t
    BY <2>2, <1>2, <1>a, <1>b, <1>c, EntryFacts DEF UpdateInv, EntryOK, Doc,
       Version, HasSession, NoEntry
  <2>3. CASE e = d /\ pending[d] # t
    BY <2>3, <1>1, <1>a, <1>b, <1>c, EntryFacts DEF UpdateInv, EntryOK, Doc,
       Version, HasSession
  <2> QED
    BY <2>1, <2>2, <2>3
<1>4. Unfinished' \subseteq Unfinished
  BY <1>a, <1>b DEF Unfinished
<1>5. OwnEntry' /\ CancelledIsStarted'
  BY <1>4, <1>a DEF UpdateInv, OwnEntry, CancelledIsStarted, PendingVersion,
     Doc, Version
<1>6. NoneComplete'
  BY <1>a, <1>b, <1>c, EntryFacts DEF UpdateInv, NoneComplete, BeforeStore,
     OnItsWay, Doc
<1>7. WantedIsThere'
  BY <1>a, <1>c, EntryFacts DEF UpdateInv, WantedIsThere, NoneComplete
<1> QED
  BY <1>3, <1>5, <1>6, <1>7 DEF UpdateInv

(* Phase 2: it erases its own entry and completes its own session. *)
LEMMA UpdateInvPhase2 ==
    ASSUME TypeOK, UpdateInv, InOrder, NEW t \in Started, Phase2(t)
    PROVE  UpdateInv'
<1> DEFINE d == Doc(t)
<1>a. /\ UNCHANGED <<creation, cancelled, asked, latest, rebuild>>
      /\ Started' = Started /\ d \in Docs /\ t \in Tasks
      /\ pc[t] \in {"stored", "returning"} /\ t \in Unfinished
      /\ pc'[t] = "done" /\ \A u \in Started : u # t => pc'[u] = pc[u]
  BY SameStarted, EntryFacts DEF Phase2, Phase2Turn, historyVars, rebuildVars,
     Goto, Unfinished
<1>b. /\ Unfinished' \subseteq Unfinished
      /\ CancelledIsStarted'
  BY <1>a DEF UpdateInv, CancelledIsStarted, Unfinished
<1>1. CASE PendingVersion(d, Version(t))
  <2>1. pending[d] = t /\ pending' = [pending EXCEPT ![d] = None]
    BY <1>1, <1>a DEF UpdateInv, OwnEntry, Phase2, Phase2Turn
  <2>2. \/ /\ pc[t] = "stored" /\ sessions'[d].phase = "indexed"
           /\ \A e \in Docs \ {d} : sessions'[e] = sessions[e]
        \/ pc[t] = "returning" /\ sessions' = sessions
    <3>1. pc[t] = "stored" => HasSession(d)
      BY <2>1, <1>a, EntryFacts DEF UpdateInv, EntryOK
    <3> QED
      BY <3>1, <1>1, <1>a, EntryFacts DEF Phase2, Phase2Turn
  <2>3. \A e \in Docs : EntryOK(e)'
    <3> SUFFICES ASSUME NEW e \in Docs, pending'[e] # None PROVE EntryOK(e)'
      BY DEF EntryOK
    <3>1. e # d /\ pending'[e] = pending[e] /\ pending[e] # t
      BY <2>1, <1>a, EntryFacts
    <3> QED
      BY <3>1, <2>2, <1>a, EntryFacts DEF UpdateInv, EntryOK, Doc, Version,
         HasSession
  <2>4. OwnEntry'
    BY <2>1, <1>a, <1>b, EntryFacts DEF UpdateInv, OwnEntry, PendingVersion,
       Unfinished, Doc, Version
  <2>5. NoneComplete'
    <3> SUFFICES ASSUME NEW u \in Started, BeforeStore(u)'
                 PROVE  sessions'[Doc(u)].phase # "indexed"
      BY <1>a DEF NoneComplete, Doc
    <3>1. u # t /\ BeforeStore(u) /\ sessions[Doc(u)].phase # "indexed"
      BY <1>a DEF BeforeStore, OnItsWay, UpdateInv, NoneComplete
    <3>2. CASE Doc(u) = d /\ pc[t] = "stored"
      <4>1. u < t
        BY <3>1, <3>2, <2>1, <1>a, EntryFacts DEF UpdateInv, EntryOK
      <4> QED
        BY <3>1, <3>2, <4>1 DEF InOrder
    <3> QED
      BY <3>1, <3>2, <2>2, EntryFacts
  <2>6. WantedIsThere'
    <3>1. pc[t] = "returning" => asked[d] # "wanted" \/ rebuild = "draining"
      BY <2>1, <1>a, EntryFacts DEF UpdateInv, EntryOK
    <3> QED
      BY <3>1, <2>1, <2>2, <1>a, EntryFacts DEF UpdateInv, WantedIsThere
  <2> QED
    BY <2>3, <2>4, <2>5, <2>6, <1>b DEF UpdateInv
<1>2. CASE ~PendingVersion(d, Version(t))
  <2>1. /\ UNCHANGED <<pending, sessions>>
        /\ \A e \in Docs : pending[e] # None => pending[e] # t
    BY <1>2, <1>a, EntryFacts DEF Phase2, Phase2Turn, PendingVersion
  <2>2. \A e \in Docs : EntryOK(e)'
    BY <2>1, <1>a, EntryFacts DEF UpdateInv, EntryOK, Doc, Version, HasSession
  <2>3. OwnEntry' /\ WantedIsThere'
    BY <2>1, <1>a, <1>b DEF UpdateInv, OwnEntry, WantedIsThere, PendingVersion,
       Doc, Version
  <2>4. NoneComplete'
    BY <2>1, <1>a DEF UpdateInv, NoneComplete, BeforeStore, OnItsWay, Doc
  <2> QED
    BY <2>2, <2>3, <2>4, <1>b DEF UpdateInv
<1> QED
  BY <1>1, <1>2

\* The entries, the stored sessions and the creations under way fit what was
\* asked for last.
LEMMA UpdateInvariant == ~ReuseVersions => (Spec => []UpdateInv)
<1> SUFFICES ASSUME ~ReuseVersions PROVE Spec => []UpdateInv
  OBVIOUS
<1>1. Init => UpdateInv
  BY DEF Init, UpdateInv, EntryOK, OwnEntry, NoneComplete, CancelledIsStarted,
     WantedIsThere, Started, Unfinished
<1>2. TypeOK /\ InOrder /\ CleanupInv /\ UpdateInv /\ [Next]_vars => UpdateInv'
  <2> SUFFICES ASSUME TypeOK, InOrder, CleanupInv, UpdateInv, [Next]_vars
               PROVE  UpdateInv'
    OBVIOUS
  <2>1. ASSUME NEW d \in Docs, NEW v \in Versions, NEW c \in Contents,
               UpdateSession(d, v, c)
        PROVE  UpdateInv'
    <3>1. CASE StoredVersion(d, v)
      BY <2>1, <3>1, UpdateKeepsStored DEF UpdateSession, taskVars
    <3>2. CASE ~StoredVersion(d, v) /\ PendingVersion(d, v)
      BY <2>1, <3>2, UpdateKeepsPending DEF UpdateSession, taskVars
    <3>3. CASE ~StoredVersion(d, v) /\ ~PendingVersion(d, v)
      BY <2>1, <3>3, UpdateStartsNew DEF UpdateSession
    <3> QED
      BY <3>1, <3>2, <3>3
  <2>2. ASSUME NEW d \in Docs, InvalidateSessions(d) \/ CancelPendingSession(d)
        PROVE  UpdateInv'
    BY <2>2, UpdateInvErase, EntryFacts DEF InvalidateSessions,
       CancelPendingSession, rebuildVars
  <2>3. ASSUME NEW d \in Docs, CleanupJob(d)
        PROVE  UpdateInv'
    <3>1. CASE timers[d] = "none"
      BY <2>3, <3>1, UpdateInvQuiet DEF CleanupJob, taskVars, rebuildVars,
         historyVars
    <3>2. CASE timers[d] # "none"
      <4>1. asked[d] = "closed" /\ pending[d] = None
        BY <3>2 DEF CleanupInv
      <4>2. /\ pending' = [pending EXCEPT ![d] = None]
            /\ cancelled' = [t \in Tasks |-> cancelled[t] \/ t = pending[d]]
            /\ UNCHANGED <<creation, pc, latest, rebuild, asked>>
            /\ sessions' = [sessions EXCEPT ![d] = NoEntry]
        BY <2>3, <3>2, <4>1, EntryFacts DEF CleanupJob, taskVars, rebuildVars,
           historyVars
      <4> QED
        BY <4>1, <4>2, UpdateInvErase
    <3> QED
      BY <3>1, <3>2
  <2>4. CASE InvalidateAllSessions
    <3>1. /\ UNCHANGED <<creation, pc, pending, sessions, asked, latest>>
          /\ rebuild' = "draining" /\ Started' = Started
          /\ \A t \in Tasks : cancelled'[t] => cancelled[t] \/ t \in Started
      BY <2>4, EntryFacts, SameStarted DEF InvalidateAllSessions, historyVars
    <3>2. \A d \in Docs : EntryOK(d)'
      BY <3>1 DEF UpdateInv, EntryOK, Doc, Version, HasSession
    <3>3. OwnEntry' /\ NoneComplete' /\ CancelledIsStarted' /\ WantedIsThere'
      BY <3>1 DEF UpdateInv, OwnEntry, NoneComplete, CancelledIsStarted,
         WantedIsThere, Unfinished, PendingVersion, BeforeStore, OnItsWay, Doc,
         Version
    <3> QED
      BY <3>2, <3>3 DEF UpdateInv
  <2>5. CASE SessionsDrained
    <3>1. /\ \A d \in Docs : /\ pending'[d] = None /\ sessions'[d] = NoEntry
                             /\ asked'[d] # "wanted"
          /\ UNCHANGED <<creation, pc, cancelled>> /\ Started' = Started
      BY <2>5, SameStarted DEF SessionsDrained, taskVars
    <3> QED
      BY <3>1, EntryFacts DEF UpdateInv, EntryOK, OwnEntry, NoneComplete,
         NoEntry, CancelledIsStarted, WantedIsThere, Unfinished, PendingVersion,
         Doc
  <2>6. ASSUME NEW t \in Started, Step(t)
        PROVE  UpdateInv'
    BY <2>6, UpdateInvMoves, UpdateInvPhase1, UpdateInvPhase2 DEF Step
  <2>7. ASSUME \/ \E d \in Docs : ScheduleCleanup(d) \/ TimerExpires(d)
               \/ UpdatePreambleManager
               \/ \E r \in Requests, d \in Docs, need \in Events :
                     Ask(r, d, need)
               \/ \E r \in Requests : WakeUp(r)
               \/ UNCHANGED vars
        PROVE  UpdateInv'
    <3>1. /\ UNCHANGED <<creation, pc, cancelled, pending, sessions, latest>>
          /\ \A d \in Docs : asked'[d] = "wanted" => asked[d] = "wanted"
          /\ rebuild' = "draining" <=> rebuild = "draining"
      BY <2>7, EntryFacts DEF ScheduleCleanup, TimerExpires, Ask, WakeUp,
         UpdatePreambleManager, Reply, vars, taskVars, rebuildVars, historyVars
    <3> QED
      BY <3>1, UpdateInvQuiet
  <2> QED
    BY <2>1, <2>2, <2>3, <2>4, <2>5, <2>6, <2>7 DEF Next, Call, Cleanup
<1> QED
  BY <1>1, <1>2, TypeCorrect, CreationsKeepOrder, CleanupInvariant, PTL
  DEF Spec

(* No update is lost: a session the client wants is complete, or the creation
   that its entry names runs, unless a rebuild is about to invalidate it; for a
   compilation that throws leaves its entry behind (PendingIsInFlight). *)
THEOREM NoUpdateIsLost ==
    ~ReuseVersions /\ ~MayThrow => (Spec => []NothingLost)
<1>1. UpdateInv /\ PendingInFlight => NothingLost
  BY DEF UpdateInv, WantedIsThere, PendingInFlight, NothingLost
<1> QED
  BY <1>1, UpdateInvariant, PendingIsInFlight, PTL

-----------------------------------------------------------------------------
(* The order of the stores.                                                *)

(* When a session is stored, all creations older than its own have stored
   theirs, or never will. *)
OlderAreOver ==
    \A d \in Docs : HasSession(d) =>
        \A u \in Started : u < sessions[d].by => ~BeforeStore(u)

\* The overlay strand has dealt with all creations older than a stored one.
LEMMA OlderAreOverInvariant == Spec => []OlderAreOver
<1>1. Init => OlderAreOver
  BY DEF Init, OlderAreOver, HasSession
<1>2. TypeOK /\ InOrder /\ OlderAreOver /\ [Next]_vars => OlderAreOver'
  <2> SUFFICES ASSUME TypeOK, InOrder, OlderAreOver, [Next]_vars
               PROVE  OlderAreOver'
    OBVIOUS
  <2>a. /\ \A d \in Docs : HasSession(d) => sessions[d].by \in Started
        /\ sessions \in [Docs -> {NoEntry} \cup Entry]
        /\ Started = 1 .. Len(creation) /\ Len(creation) \in Nat
        /\ pc \in [Tasks -> PC] /\ Started \subseteq Tasks
    BY StartedFacts DEF TypeOK, StoreOK, CreationsOK
  <2>1. \A u \in Started' :
          \/ u \in Started /\ (BeforeStore(u)' => BeforeStore(u))
          \/ \A s \in Started : ~(u < s)
    <3>1. CASE UNCHANGED <<creation, pc>>
      BY <3>1, SameStarted DEF BeforeStore, OnItsWay
    <3>2. ASSUME NEW d \in Docs, NEW v \in Versions, NEW c \in Contents,
                 StartSessionCreation(d, v, c)
          PROVE  \A u \in Started' :
                   \/ u \in Started /\ (BeforeStore(u)' => BeforeStore(u))
                   \/ \A s \in Started : ~(u < s)
      <4>1. PICK n \in Tasks :
              /\ n = Len(creation) + 1
              /\ Started' = Started \cup {n}
              /\ pc' = [pc EXCEPT ![n] = "queued"]
        BY <3>2, StartFacts
      <4> QED
        BY <4>1, <2>a DEF BeforeStore, OnItsWay
    <3>3. ASSUME NEW t \in Started, Step(t)
          PROVE  \A u \in Started' :
                   u \in Started /\ (BeforeStore(u)' => BeforeStore(u))
      <4>1. /\ Started' = Started
            /\ \A u \in Started : u # t => pc'[u] = pc[u]
        BY <3>3, <2>a, StepGoes, SameStarted
      <4>2. BeforeStore(t)' => BeforeStore(t)
        BY <3>3, <2>a DEF Step, StartBuild, Built, Indexed, IndexingFails,
           Throws, Phase1, Phase1Store, Phase2, Phase2Turn, Goto, OnItsWay,
           BeforeStore, Compiles
      <4> QED
        BY <4>1, <4>2 DEF BeforeStore, OnItsWay
    <3> QED
      BY <3>1, <3>2, <3>3, CallsAndSteps
  <2>2. ASSUME NEW d \in Docs, HasSession(d)'
        PROVE  \/ HasSession(d) /\ sessions'[d].by = sessions[d].by
               \/ \E t \in Started : Phase1Store(t) /\ sessions'[d].by = t
    <3>1. CASE Forgets
      BY <2>2, <3>1 DEF Forgets
    <3>2. ASSUME NEW e \in Docs, NEW v \in Versions, NEW c \in Contents,
                 UpdateSession(e, v, c)
          PROVE  HasSession(d) /\ sessions'[d].by = sessions[d].by
      BY <2>2, <3>2, UpdateStarts
    <3>3. ASSUME NEW t \in Started, Phase1Store(t)
          PROVE  \/ HasSession(d) /\ sessions'[d].by = sessions[d].by
                 \/ sessions'[d].by = t
      BY <2>2, <3>3, <2>a DEF Phase1Store, HasSession
    <3> QED
      BY <3>1, <3>2, <3>3, StoreSteps
  <2>3. ASSUME NEW d \in Docs, HasSession(d)',
               NEW u \in Started', u < sessions'[d].by
        PROVE  ~BeforeStore(u)'
    <3>1. CASE HasSession(d) /\ sessions'[d].by = sessions[d].by
      <4>1. ~(\A s \in Started : ~(u < s))
        BY <2>3, <3>1, <2>a
      <4> QED
        BY <2>1, <2>3, <3>1, <4>1 DEF OlderAreOver
    <3>2. ASSUME NEW t \in Started, Phase1Store(t), sessions'[d].by = t
          PROVE  ~BeforeStore(u)'
      <4>1. u < t /\ pc[t] = "checked"
        BY <2>3, <3>2 DEF Phase1Store
      <4>2. u \in Started /\ (BeforeStore(u)' => BeforeStore(u))
        BY <2>1, <4>1
      <4> QED
        BY <4>1, <4>2 DEF InOrder
    <3> QED
      BY <2>2, <2>3, <3>1, <3>2
  <2> QED
    BY <2>3 DEF OlderAreOver
<1> QED
  BY <1>1, <1>2, TypeCorrect, CreationsKeepOrder, PTL DEF Spec

(* A session never takes the place of one that a later UpdateSession started,
   although the store of Phase 1 comes after its test and looks at nothing. *)
THEOREM NewerSessionsStay == Spec => NewestStaysStored
<1> DEFINE A == \A d \in Docs :
                  HasSession(d) /\ HasSession(d)' =>
                    sessions[d].by <= sessions'[d].by
<1>1. TypeOK /\ OlderAreOver /\ [Next]_vars => [A]_vars
  <2> SUFFICES ASSUME TypeOK, OlderAreOver, [Next]_vars,
                      NEW d \in Docs, HasSession(d), HasSession(d)'
               PROVE  sessions[d].by <= sessions'[d].by
    OBVIOUS
  <2>a. /\ sessions[d].by \in Started /\ sessions[d].by \in Int
        /\ \A t \in Started : t \in Int /\ Doc(t) \in Docs
        /\ sessions \in [Docs -> {NoEntry} \cup Entry]
    BY StartedFacts DEF TypeOK, StoreOK, Doc, Creation
  <2>1. CASE Forgets
    <3>1. sessions'[d].by = sessions[d].by
      BY <2>1 DEF Forgets
    <3> QED
      BY <3>1, <2>a
  <2>2. CASE \E e \in Docs, v \in Versions, c \in Contents :
               UpdateSession(e, v, c)
    <3>1. sessions'[d].by = sessions[d].by
      BY <2>2, UpdateStarts
    <3> QED
      BY <3>1, <2>a
  <2>3. ASSUME NEW t \in Started, Phase1Store(t)
        PROVE  sessions[d].by <= sessions'[d].by
    <3>1. BeforeStore(t)
      BY <2>3 DEF Phase1Store, BeforeStore
    <3>2. ~(t < sessions[d].by)
      BY <3>1 DEF OlderAreOver
    <3>3. sessions'[d].by \in {sessions[d].by, t}
      BY <2>3, <2>a DEF Phase1Store
    <3> QED
      BY <3>2, <3>3, <2>a
  <2> QED
    BY <2>1, <2>2, <2>3, StoreSteps
<1> QED
  BY <1>1, TypeCorrect, OlderAreOverInvariant, PTL DEF Spec, NewestStaysStored

-----------------------------------------------------------------------------
(* What the invariant is good for.                                         *)

(* What Phase 1 stores in time is of the entry of its own document. *)
LEMMA StoresOwnEntry ==
    ASSUME TypeOK, UpdateInv, NEW t \in Started, Phase1Store(t), t \notin late'
    PROVE  pending[Doc(t)] = t /\ ~cancelled[t]
<1>1. MayStore(t) /\ t \in Unfinished
  BY DEF Phase1Store, Unfinished
<1> QED
  BY <1>1 DEF MayStore, UpdateInv, OwnEntry

(* Only the store of Phase 1 and Phase 2 change a session that remains. *)
LEMMA SessionSteps ==
    ASSUME TypeOK, [Next]_vars, NEW d \in Docs, HasSession(d)',
           \A t \in Started : ~Phase1Store(t) /\ ~Phase2(t)
    PROVE  HasSession(d) /\ sessions'[d] = sessions[d]
<1>a. sessions \in [Docs -> {NoEntry} \cup Entry]
  BY DEF TypeOK, StoreOK
<1>1. \/ UNCHANGED sessions
      \/ \E e \in Docs : sessions' = [sessions EXCEPT ![e] = NoEntry]
      \/ sessions' = [e \in Docs |-> NoEntry]
  BY DEF Next, Call, Step, Cleanup, UpdateSession, InvalidateSessions,
     CancelPendingSession, ScheduleCleanup, TimerExpires, CleanupJob,
     UpdatePreambleManager, InvalidateAllSessions, SessionsDrained, Ask, WakeUp,
     Reply, StartBuild, Built, Indexed, IndexingFails, Throws, Phase1,
     otherThanTask, vars
<1> QED
  BY <1>1, <1>a DEF HasSession

(* A session has the text of the last update, although UpdateSession and
   Phase 1 compare versions only, or was stored late; and none that was stored
   late is ever completed. *)
THEOREM StoredTextIsLatest == ~ReuseVersions => (Spec => []ContentCurrent)
<1> SUFFICES ASSUME ~ReuseVersions PROVE Spec => []ContentCurrent
  OBVIOUS
<1> DEFINE Current(d) ==
             LET by == sessions[d].by IN
             \/ latest[d] = <<Version(by), creation[by].content>>
             \/ by \in late /\ sessions[d].phase = "elaborated"
           Inv == \A d \in Docs : HasSession(d) => Current(d)
<1>1. Init => Inv
  BY DEF Init, HasSession
<1>2. TypeOK /\ UpdateInv /\ Inv /\ [Next]_vars => Inv'
  <2> SUFFICES ASSUME TypeOK, UpdateInv, Inv, [Next]_vars,
                      NEW d \in Docs, HasSession(d)'
               PROVE  Current(d)'
    OBVIOUS
  <2>a. HasSession(d) => sessions[d].by \in Started
    BY DEF TypeOK, StoreOK
  <2>1. ASSUME NEW e \in Docs, NEW v \in Versions, NEW c \in Contents,
               UpdateSession(e, v, c)
        PROVE  Current(d)'
    <3>1. /\ HasSession(d) /\ sessions'[d] = sessions[d] /\ late' = late
          /\ creation'[sessions[d].by] = creation[sessions[d].by]
      BY <2>1, <2>a, UpdateStarts DEF UpdateSession
    <3>2. CASE e # d
      BY <2>1, <3>1, <3>2, EntryFacts DEF UpdateSession, Version
    <3>3. CASE e = d
      <4>1. StoredVersion(d, v) /\ latest'[d] = <<v, c>> /\ VersionNamesText(d, v, c)
        BY <2>1, <3>3, EntryFacts DEF UpdateSession, HasSession
      <4>2. creation[sessions[d].by].content = c
        BY <4>1, <3>1, <2>a, EntryFacts DEF StoredVersion, VersionNamesText,
           TypeOK, StoreOK
      <4> QED
        BY <3>1, <4>1, <4>2 DEF StoredVersion, Version
    <3> QED
      BY <3>2, <3>3
  <2>2. ASSUME NEW t \in Started, Phase1Store(t)
        PROVE  Current(d)'
    <3>1. UNCHANGED <<creation, latest>> /\ late \subseteq late' /\ Doc(t) \in Docs
      BY <2>2, EntryFacts DEF Phase1Store
    <3>2. CASE d # Doc(t)
      BY <2>2, <3>1, <3>2, EntryFacts DEF Phase1Store, HasSession, Version
    <3>3. CASE d = Doc(t)
      <4>1. sessions'[d] = [by |-> t, phase |-> "elaborated"]
        BY <2>2, <3>1, <3>3, EntryFacts DEF Phase1Store
      <4>2. CASE t \in late'
        BY <4>1, <4>2
      <4>3. CASE t \notin late'
        <5>1. pending[d] = t /\ t # None
          BY <2>2, <3>3, <4>3, StoresOwnEntry, EntryFacts
        <5>2. latest[d] = <<Version(t), creation[t].content>>
          BY <5>1 DEF UpdateInv, EntryOK
        <5> QED
          BY <3>1, <4>1, <5>2 DEF Version
      <4> QED
        BY <4>2, <4>3
    <3> QED
      BY <3>2, <3>3
  <2>3. ASSUME NEW t \in Started, Phase2(t)
        PROVE  Current(d)'
    <3>1. /\ UNCHANGED <<creation, latest, late>> /\ Doc(t) \in Docs
          /\ t \in Unfinished
      BY <2>3, EntryFacts DEF Phase2, Phase2Turn, historyVars, Unfinished
    <3>2. CASE sessions'[d] = sessions[d]
      BY <3>1, <3>2 DEF HasSession, Version
    <3>3. CASE sessions'[d] # sessions[d]
      <4>1. /\ d = Doc(t) /\ pc[t] = "stored" /\ PendingVersion(d, Version(t))
            /\ sessions'[d].by = sessions[d].by
        BY <2>3, <3>1, <3>3, EntryFacts DEF Phase2, Phase2Turn
      <4>2. pending[d] = t /\ t # None
        BY <3>1, <4>1, EntryFacts DEF UpdateInv, OwnEntry
      <4>3. sessions[d].by = t /\ latest[d] = <<Version(t), creation[t].content>>
        BY <4>1, <4>2 DEF UpdateInv, EntryOK
      <4> QED
        BY <3>1, <4>1, <4>3 DEF Version
    <3> QED
      BY <3>2, <3>3
  <2>4. CASE Forgets /\ \A t \in Started : ~Phase1Store(t) /\ ~Phase2(t)
    BY <2>4, SessionSteps DEF Forgets, Version
  <2> QED
    BY <2>1, <2>2, <2>3, <2>4, StoreSteps
<1>3. UpdateInv /\ Inv => ContentCurrent
  BY DEF UpdateInv, EntryOK, ContentCurrent
<1> QED
  BY <1>1, <1>2, <1>3, TypeCorrect, UpdateInvariant, PTL DEF Spec

(* A request is told that there is no session only if the client wants none,
   or a rebuild is about to invalidate all, or, for one that has waited, a
   newer creation is pending. *)
THEOREM RequestsAreNotSentAway ==
    ~ReuseVersions => (Spec => NotFoundOnlyIfUnwanted)
<1> SUFFICES ASSUME ~ReuseVersions PROVE Spec => NotFoundOnlyIfUnwanted
  OBVIOUS
<1> DEFINE A == \A r \in Requests, d \in Docs :
                  /\ request'[r] = Answered("notFound")
                  /\ \/ \E need \in Events : Ask(r, d, need)
                     \/ request[r].on # None /\ d = Doc(request[r].on)
                           /\ WakeUp(r) /\ pending[d] = None
                  => asked[d] # "wanted" \/ rebuild = "draining"
<1>1. TypeOK /\ UpdateInv /\ [Next]_vars => [A]_vars
  <2> SUFFICES ASSUME TypeOK, UpdateInv, NEW r \in Requests, NEW d \in Docs,
                      request'[r] = Answered("notFound"),
                      \/ \E need \in Events : Ask(r, d, need)
                      \/ d = Doc(request[r].on) /\ WakeUp(r)
                            /\ pending[d] = None
               PROVE  asked[d] # "wanted" \/ rebuild = "draining"
    OBVIOUS
  <2>1. r \in DOMAIN request
        /\ (request[r].state = "waiting" => request[r].need \in Events)
    BY DEF TypeOK, ClientOK, Waiting, Idle, Answered
  <2>2. PICK need \in Events, on \in {pending[d], None} :
          /\ Reply(r, d, need, on)
          /\ on = None => pending[d] = None
    BY <2>1 DEF Ask, WakeUp
  <2>3. ~Satisfied(d, need) /\ on = None
    <3>1. request'[r] = IF Satisfied(d, need) THEN Answered("served")
                        ELSE IF on # None
                          THEN [state |-> "waiting", need |-> need, on |-> on]
                          ELSE Answered("notFound")
      BY <2>1, <2>2 DEF Reply
    <3>2. /\ Answered("served") # Answered("notFound")
          /\ [state |-> "waiting", need |-> need, on |-> on]
                # Answered("notFound")
      BY DEF Answered
    <3> QED
      BY <3>1, <3>2
  <2>4. pending[d] = None /\ sessions[d].phase # "indexed"
    BY <2>2, <2>3 DEF Satisfied, Events
  <2> QED
    BY <2>4 DEF UpdateInv, WantedIsThere
<1> QED
  BY <1>1, TypeCorrect, UpdateInvariant, PTL DEF Spec, NotFoundOnlyIfUnwanted

-----------------------------------------------------------------------------
(* The refinement of SessionStore.                                         *)

(* A stored session is that of a creation that has passed Phase 1 and, if the
   document waits for a creation, that one's or of another version. *)
Builds ==
    \A d \in Docs : HasSession(d) =>
        /\ pc[sessions[d].by] \in {"stored", "done"}
        /\ PendingVersion(d, Version(sessions[d].by)) =>
              sessions[d].by = pending[d]

(* Who waited for Phase 2 of a creation finds it gone from pending_; who waited
   for Phase 1 finds it stored or gone. *)
ReadyIsOver ==
    \A t \in Tasks :
        /\ ready[t] # {} => t \in Started
        /\ "session" \in ready[t] => pending[Doc(t)] # t
        /\ "compilation" \in ready[t] =>
              pc[t] = "stored" \/ pending[Doc(t)] # t

StoreInv == Builds /\ ReadyIsOver

(* A step that moves no creation and at most starts one, for a document that
   has no session then. *)
LEMMA StoreInvQuiet ==
    ASSUME TypeOK, StoreInv, UNCHANGED ready, Started \subseteq Started',
           \A t \in Started : pc'[t] = pc[t] /\ creation'[t] = creation[t],
           \A d \in Docs :
              /\ pending'[d] \in {pending[d], None} \cup (Started' \ Started)
              /\ HasSession(d)' =>
                    /\ HasSession(d) /\ sessions'[d].by = sessions[d].by
                    /\ pending'[d] \in {pending[d], None}
    PROVE  StoreInv'
<1>a. /\ None \notin Started /\ Started \subseteq Tasks
      /\ \A t \in Started : Doc(t) \in Docs /\ Doc(t)' = Doc(t)
      /\ \A d \in Docs : HasSession(d) => sessions[d].by \in Started
  BY StartedFacts DEF TypeOK, StoreOK, Doc, Creation
<1>1. Builds'
  BY <1>a DEF StoreInv, Builds, PendingVersion, Version, TypeOK, StoreOK
<1>2. ReadyIsOver'
  <2> SUFFICES ASSUME NEW t \in Tasks, ready[t] # {}
               PROVE  /\ t \in Started'
                      /\ "session" \in ready[t] => pending'[Doc(t)'] # t
                      /\ "compilation" \in ready[t] =>
                            pc'[t] = "stored" \/ pending'[Doc(t)'] # t
    BY DEF ReadyIsOver
  <2>1. t \in Started
    BY DEF StoreInv, ReadyIsOver
  <2>2. pending'[Doc(t)] = t => pending[Doc(t)] = t
    BY <2>1, <1>a
  <2> QED
    BY <2>1, <2>2, <1>a DEF StoreInv, ReadyIsOver
<1> QED
  BY <1>1, <1>2 DEF StoreInv

(* The turns of a creation that store nothing. *)
LEMMA StoreInvMoves ==
    ASSUME TypeOK, UpdateInv, StoreInv, NEW t \in Started,
           \/ StartBuild(t) \/ Built(t) \/ Indexed(t)
           \/ IndexingFails(t) \/ Throws(t) \/ Phase1(t)
    PROVE  StoreInv'
<1>a. /\ UNCHANGED <<creation, ready, pending, sessions>>
      /\ Started' = Started
      /\ BeforeStore(t) /\ \A u \in Tasks : u # t => pc'[u] = pc[u]
  BY SameStarted, EntryFacts DEF StartBuild, Built, Indexed, IndexingFails,
     Throws, Phase1, otherThanTask, Compiles, Goto, OnItsWay, BeforeStore
<1>1. Builds'
  BY <1>a, EntryFacts DEF StoreInv, Builds, HasSession, OnItsWay, BeforeStore,
     PendingVersion, Version, TypeOK, StoreOK
<1>2. ReadyIsOver'
  BY <1>a DEF StoreInv, ReadyIsOver, OnItsWay, BeforeStore, Doc
<1> QED
  BY <1>1, <1>2 DEF StoreInv

(* Phase 1 stores the session of the creation the document waits for, or of a
   version that it does not wait for. *)
LEMMA StoreInvPhase1 ==
    ASSUME TypeOK, UpdateInv, StoreInv, NEW t \in Started, Phase1Store(t)
    PROVE  StoreInv'
<1> DEFINE d == Doc(t)
<1>a. /\ UNCHANGED <<creation, pending>> /\ Started' = Started
      /\ t \in Tasks /\ d \in Docs /\ t \in Unfinished
      /\ pc'[t] = "stored" /\ \A u \in Tasks : u # t => pc'[u] = pc[u]
      /\ sessions' = [sessions EXCEPT ![d] = [by |-> t, phase |-> "elaborated"]]
      /\ ready' = [ready EXCEPT ![t] = @ \cup {"compilation"}]
  BY SameStarted, EntryFacts DEF Phase1Store, Goto, Unfinished
<1>1. PendingVersion(d, Version(t)) => pending[d] = t
  BY <1>a DEF UpdateInv, OwnEntry
<1>2. Builds'
  BY <1>1, <1>a, EntryFacts DEF StoreInv, Builds, HasSession, PendingVersion,
     Version, TypeOK, StoreOK
<1>3. ReadyIsOver'
  BY <1>a DEF StoreInv, ReadyIsOver, Doc, TypeOK, CreationsOK
<1> QED
  BY <1>2, <1>3 DEF StoreInv

(* Phase 2 takes the entry of pending_ away before it sets the events. *)
LEMMA StoreInvPhase2 ==
    ASSUME TypeOK, UpdateInv, StoreInv, NEW t \in Started, Phase2(t)
    PROVE  StoreInv'
<1> DEFINE d == Doc(t)
<1>a. /\ UNCHANGED creation /\ Started' = Started
      /\ t \in Tasks /\ d \in Docs
      /\ pc'[t] = "done" /\ \A u \in Tasks : u # t => pc'[u] = pc[u]
      /\ ready' = [ready EXCEPT ![t] = Events]
  BY SameStarted, EntryFacts DEF Phase2, Phase2Turn, Goto
<1>1. /\ pending'[d] # t
      /\ \A e \in Docs : pending'[e] \in {pending[e], None}
  BY <1>a, EntryFacts DEF Phase2, Phase2Turn, PendingVersion
<1>2. \A e \in Docs : HasSession(e)' =>
        HasSession(e) /\ sessions'[e].by = sessions[e].by
  BY <1>a, EntryFacts DEF Phase2, Phase2Turn, HasSession
<1>3. Builds'
  BY <1>a, <1>1, <1>2, EntryFacts DEF StoreInv, Builds, PendingVersion, Version,
     TypeOK, StoreOK
<1>4. ReadyIsOver'
  <2> SUFFICES ASSUME NEW u \in Tasks, u # t, ready[u] # {}
               PROVE  /\ u \in Started
                      /\ "session" \in ready[u] => pending'[Doc(u)] # u
                      /\ "compilation" \in ready[u] =>
                            pc[u] = "stored" \/ pending'[Doc(u)] # u
    BY <1>a, <1>1 DEF ReadyIsOver, Doc, TypeOK, CreationsOK
  <2>1. u \in Started /\ Doc(u) \in Docs /\ u # None
    BY EntryFacts DEF StoreInv, ReadyIsOver
  <2> QED
    BY <2>1, <1>1 DEF StoreInv, ReadyIsOver
<1> QED
  BY <1>3, <1>4 DEF StoreInv

\* What is stored, awaited and signalled fits together.
LEMMA StoreInvariant == ~ReuseVersions => (Spec => []StoreInv)
<1> SUFFICES ASSUME ~ReuseVersions PROVE Spec => []StoreInv
  OBVIOUS
<1>1. Init => StoreInv
  BY DEF Init, StoreInv, Builds, ReadyIsOver, HasSession
<1>2. TypeOK /\ UpdateInv /\ StoreInv /\ [Next]_vars => StoreInv'
  <2> SUFFICES ASSUME TypeOK, UpdateInv, StoreInv, [Next]_vars PROVE StoreInv'
    OBVIOUS
  <2>1. ASSUME NEW d \in Docs, NEW v \in Versions, NEW c \in Contents,
               UpdateSession(d, v, c)
        PROVE  StoreInv'
    <3>1. CASE StoredVersion(d, v) \/ PendingVersion(d, v)
      <4>1. /\ UNCHANGED <<creation, pc, ready, pending>>
            /\ \A e \in Docs : HasSession(e)' =>
                  HasSession(e) /\ sessions'[e] = sessions[e]
        BY <2>1, <3>1, UpdateStarts DEF UpdateSession, taskVars
      <4> QED
        BY <4>1, SameStarted, StoreInvQuiet
    <3>2. CASE ~(StoredVersion(d, v) \/ PendingVersion(d, v))
      <4>1. /\ StartSessionCreation(d, v, c) /\ UNCHANGED ready
            /\ sessions' = [sessions EXCEPT ![d] = NoEntry]
        BY <2>1, <3>2 DEF UpdateSession
      <4>2. PICK n \in Tasks :
              /\ n \notin Started /\ Started' = Started \cup {n}
              /\ \A t \in Started : creation'[t] = creation[t]
              /\ pc' = [pc EXCEPT ![n] = "queued"]
              /\ pending' = [pending EXCEPT ![d] = n]
        BY <4>1, StartFacts
      <4>3. \A t \in Started : pc'[t] = pc[t] /\ creation'[t] = creation[t]
        BY <4>2, EntryFacts
      <4>4. \A e \in Docs :
              /\ pending'[e] \in {pending[e], None} \cup (Started' \ Started)
              /\ HasSession(e)' =>
                    /\ HasSession(e) /\ sessions'[e].by = sessions[e].by
                    /\ pending'[e] \in {pending[e], None}
        BY <4>1, <4>2, EntryFacts DEF HasSession
      <4> QED
        BY <4>1, <4>2, <4>3, <4>4, StoreInvQuiet
    <3> QED
      BY <3>1, <3>2
  <2>2. ASSUME NEW t \in Started, Step(t)
        PROVE  StoreInv'
    BY <2>2, StoreInvMoves, StoreInvPhase1, StoreInvPhase2 DEF Step
  <2>3. ASSUME Forgets, UNCHANGED <<pc, ready>>
        PROVE  StoreInv'
    BY <2>3, SameStarted, StoreInvQuiet DEF Forgets
  <2>4. ASSUME ~UNCHANGED <<pc, ready>>
        PROVE  \/ \E d \in Docs, v \in Versions, c \in Contents :
                     UpdateSession(d, v, c)
               \/ \E t \in Started : Step(t)
    BY <2>4 DEF Next, Call, Cleanup, InvalidateSessions, CancelPendingSession,
       ScheduleCleanup, TimerExpires, CleanupJob, UpdatePreambleManager,
       InvalidateAllSessions, SessionsDrained, Ask, WakeUp, Reply, taskVars,
       vars
  <2> QED
    BY <2>1, <2>2, <2>3, <2>4, StoreSteps DEF Step
<1> QED
  BY <1>1, <1>2, TypeCorrect, UpdateInvariant, PTL DEF Spec

(* What the steps below know of the state they start from. *)
StoreHyp ==
    /\ TypeOK /\ UpdateInv /\ CleanupInv /\ PreambleInv
    /\ ContentCurrent /\ StoreInv

(* What the abstract store shows of a document. *)
LEMMA StoreView ==
    ASSUME TypeOK, NEW d \in Docs
    PROVE  /\ Store!IsCreating(d) <=> pending[d] # None
           /\ CreationOf(d).number = pending[d]
           /\ pending[d] = None => CreationOf(d) = Store!NoCreation
           /\ SessionOf(d) = Store!NoSession <=> ~HasSession(d)
           /\ SessionOf(d).phase = sessions[d].phase
           /\ \A need : Store!Satisfied(d, need) <=> Satisfied(d, need)
<1>1. /\ pending[d] \in {None} \cup Started /\ None \notin Started
      /\ sessions[d] \in {NoEntry} \cup Entry
  BY StartedFacts DEF TypeOK, StoreOK
<1>2. /\ CreationOf(d).number = pending[d]
      /\ CreationOf(d) = Store!NoCreation <=> pending[d] = None
  BY DEF CreationOf, Store!NoCreation, None
<1>3. SessionOf(d).phase = sessions[d].phase
  BY DEF SessionOf, HasSession, NoEntry
<1>4. SessionOf(d) = Store!NoSession <=> ~HasSession(d)
  <2>1. HasSession(d) => sessions[d].phase # "none"
    BY <1>1 DEF HasSession, Entry
  <2> QED
    BY <2>1, <1>3 DEF SessionOf, Store!NoSession
<1> QED
  BY <1>2, <1>3, <1>4 DEF Store!IsCreating, Store!Satisfied, Satisfied

(* Parts of the state that a step leaves alone look as before. *)
LEMMA StoreKept ==
    ASSUME TypeOK, Started \subseteq Started',
           \A t \in Started : creation'[t] = creation[t]
    PROVE  /\ \A d \in Docs :
                 pending'[d] = pending[d] => CreationOf(d)' = CreationOf(d)
           /\ \A d \in Docs :
                 sessions'[d] = sessions[d] => SessionOf(d)' = SessionOf(d)
           /\ \A r \in Requests :
                 request'[r] = request[r] => RequestOf(r)' = RequestOf(r)
<1>1. /\ \A d \in Docs : pending[d] # None => pending[d] \in Started
      /\ \A d \in Docs : HasSession(d) => sessions[d].by \in Started
      /\ \A r \in Requests : request[r].state = "waiting" => request[r].on \in Started
  BY DEF TypeOK, StoreOK, ClientOK
<1>2. ASSUME NEW d \in Docs, pending'[d] = pending[d]
      PROVE  CreationOf(d)' = CreationOf(d)
  BY <1>1, <1>2 DEF CreationOf
<1>3. ASSUME NEW d \in Docs, sessions'[d] = sessions[d]
      PROVE  SessionOf(d)' = SessionOf(d)
  BY <1>1, <1>3 DEF SessionOf, HasSession
<1>4. ASSUME NEW r \in Requests, request'[r] = request[r]
      PROVE  RequestOf(r)' = RequestOf(r)
  BY <1>1, <1>4 DEF RequestOf, Doc
<1> QED
  BY <1>2, <1>3, <1>4

(* An update that finds what it asks for keeps it: versions name texts. *)
LEMMA UpdateFinds ==
    ASSUME StoreHyp, NEW d \in Docs, NEW v \in Versions, NEW c \in Contents,
           OneTextPerOpening(d, v, c), VersionNamesText(d, v, c)
    PROVE  /\ StoredVersion(d, v) =>
                 /\ latest[d] = <<v, c>> /\ SessionOf(d).text = <<v, c>>
                 /\ pending[d] # None \/ sessions[d].phase = "indexed"
           /\ ~StoredVersion(d, v) /\ PendingVersion(d, v) =>
                 latest[d] = <<v, c>> /\ SessionOf(d).text # <<v, c>>
           /\ ~StoredVersion(d, v) /\ ~PendingVersion(d, v)
                 /\ latest[d] = <<v, c>> =>
                 pending[d] = None /\ sessions[d].phase # "indexed"
<1>a. TypeOK /\ UpdateInv /\ CleanupInv /\ ContentCurrent
  BY DEF StoreHyp
<1>1. CASE StoredVersion(d, v)
  <2> DEFINE s == sessions[d].by
  <2>1. s \in Started /\ Doc(s) = d /\ Version(s) = v /\ s # None
    BY <1>1, <1>a, EntryFacts DEF StoredVersion, TypeOK, StoreOK
  <2>2. /\ creation[s].content = c
        /\ pending[d] = s \/ sessions[d].phase = "indexed"
    BY <2>1 DEF VersionNamesText
  <2>3. latest[d] = <<v, c>>
    BY <1>1, <1>a, <2>1, <2>2 DEF ContentCurrent, StoredVersion
  <2>4. SessionOf(d).text = <<v, c>>
    BY <1>1, <2>1, <2>2 DEF SessionOf, StoredVersion, Version
  <2> QED
    BY <1>1, <2>1, <2>2, <2>3, <2>4
<1>2. CASE ~StoredVersion(d, v) /\ PendingVersion(d, v)
  <2> DEFINE p == pending[d]
  <2>1. p \in Started /\ Doc(p) = d /\ Version(p) = v /\ p # None
    BY <1>2, <1>a, EntryFacts DEF PendingVersion
  <2>2. latest[d] = <<v, creation[p].content>>
    BY <2>1, <1>a DEF UpdateInv, EntryOK
  <2>3. SessionOf(d).text # <<v, c>>
    BY <1>2 DEF SessionOf, StoredVersion, Version
  <2>4. asked[d] \notin {"withdrawn", "closed"}
    BY <2>1, <1>a DEF CleanupInv
  <2>5. creation[p].content = c
    BY <2>2, <2>4 DEF OneTextPerOpening
  <2> QED
    BY <1>2, <2>2, <2>3, <2>5
<1>3. CASE ~StoredVersion(d, v) /\ ~PendingVersion(d, v) /\ latest[d] = <<v, c>>
  <2>1. pending[d] = None
    BY <1>3, <1>a DEF ContentCurrent, PendingVersion
  <2>2. HasSession(d) => sessions[d].phase = "elaborated"
    BY <1>3, <1>a DEF ContentCurrent, StoredVersion
  <2>3. sessions[d].phase # "indexed"
    BY <2>2 DEF HasSession, NoEntry
  <2> QED
    BY <1>3, <2>1, <2>3
<1> QED
  BY <1>1, <1>2, <1>3

(* UpdateSession. *)
LEMMA UpdateIsUpdate ==
    ASSUME ~ReuseVersions, StoreHyp,
           NEW d \in Docs, NEW v \in Versions, NEW c \in Contents,
           UpdateSession(d, v, c)
    PROVE  Store!Update(d, <<v, c>>)
<1>a. /\ OneTextPerOpening(d, v, c) /\ VersionNamesText(d, v, c) /\ TypeOK
      /\ latest' = [latest EXCEPT ![d] = <<v, c>>]
      /\ asked' = [asked EXCEPT ![d] = "wanted"]
      /\ UNCHANGED <<preamble, rebuild, request>>
  BY DEF UpdateSession, StoreHyp
<1>b. pending \in [Docs -> {None} \cup Started]
      /\ sessions \in [Docs -> {NoEntry} \cup Entry]
  BY <1>a DEF TypeOK, StoreOK
<1>1. CASE StoredVersion(d, v) \/ PendingVersion(d, v)
  <2>1. UNCHANGED <<creation, pending>>
    BY <1>1 DEF UpdateSession
  <2>2. /\ \A e \in Docs : CreationOf(e)' = CreationOf(e)
        /\ \A r \in Requests : RequestOf(r)' = RequestOf(r)
    BY <2>1, <1>a, StoreKept, SameStarted
  <2>3. \A e \in Docs : SessionOf(e)' =
          IF e = d /\ SessionOf(d).text # <<v, c>> THEN Store!NoSession
          ELSE SessionOf(e)
    <3>1. CASE StoredVersion(d, v)
      BY <3>1, <2>1, <1>a, UpdateFinds, StoreKept, SameStarted DEF UpdateSession
    <3>2. CASE ~StoredVersion(d, v)
      <4>1. sessions' = [sessions EXCEPT ![d] = NoEntry]
        BY <3>2 DEF UpdateSession
      <4>2. SessionOf(d)' = Store!NoSession
        BY <4>1, <1>b DEF SessionOf, HasSession, Store!NoSession
      <4>3. \A e \in Docs \ {d} : SessionOf(e)' = SessionOf(e)
        BY <4>1, <2>1, <1>a, <1>b, StoreKept, SameStarted
      <4>4. SessionOf(d).text # <<v, c>>
        BY <3>2, <1>1, <1>a, UpdateFinds
      <4> QED
        BY <4>2, <4>3, <4>4
    <3> QED
      BY <3>1, <3>2
  <2>4. /\ latest[d] = <<v, c>>
        /\ Store!IsCreating(d) \/ SessionOf(d).phase = "indexed"
    BY <1>1, <1>a, UpdateFinds, StoreView DEF PendingVersion
  <2> QED
    BY <2>1, <2>2, <2>3, <2>4, <1>a DEF Store!Update
<1>2. CASE ~StoredVersion(d, v) /\ ~PendingVersion(d, v)
  <2>1. /\ StartSessionCreation(d, v, c)
        /\ sessions' = [sessions EXCEPT ![d] = NoEntry]
    BY <1>2 DEF UpdateSession
  <2>2. PICK n \in Tasks :
          /\ n \notin Started /\ Started' = Started \cup {n}
          /\ n = Len(creation) + 1 /\ Len(creation') = n
          /\ \A t \in Started : creation'[t] = creation[t]
          /\ creation'[n] = [doc |-> d, version |-> v, content |-> c,
                             preamble |-> preamble]
          /\ pending' = [pending EXCEPT ![d] = n]
    BY <2>1, <1>a, StartFacts
  <2>3. /\ CreationOf(d)' = [number |-> n, preamble |-> preamble]
        /\ SessionOf(d)' = Store!NoSession
    BY <2>1, <2>2, <1>b, BoundsAssumption DEF CreationOf, SessionOf, HasSession,
       Store!NoSession, Tasks, None
  <2>4. /\ \A e \in Docs \ {d} : CreationOf(e)' = CreationOf(e)
                              /\ SessionOf(e)' = SessionOf(e)
        /\ \A r \in Requests : RequestOf(r)' = RequestOf(r)
    BY <2>1, <2>2, <1>a, <1>b, StoreKept
  <2>5. \/ latest[d] # <<v, c>>
        \/ ~Store!IsCreating(d) /\ SessionOf(d).phase # "indexed"
    BY <1>2, <1>a, UpdateFinds, StoreView
  <2> QED
    BY <2>2, <2>3, <2>4, <2>5, <1>a DEF Store!Update
<1> QED
  BY <1>1, <1>2

(* CancelPendingSession and InvalidateSessions. *)
LEMMA ErasureIsErasure ==
    ASSUME TypeOK, NEW d \in Docs
    PROVE  /\ CancelPendingSession(d) => Store!Cancel(d)
           /\ InvalidateSessions(d) => Store!Invalidate(d)
<1>a. pending \in [Docs -> {None} \cup Started]
      /\ sessions \in [Docs -> {NoEntry} \cup Entry]
  BY DEF TypeOK, StoreOK
<1>1. ASSUME CancelPendingSession(d) \/ InvalidateSessions(d)
      PROVE  /\ UNCHANGED <<creation, preamble, rebuild, latest>>
             /\ CreationOf(d)' = Store!NoCreation
             /\ \A e \in Docs \ {d} : CreationOf(e)' = CreationOf(e)
                                   /\ SessionOf(e)' = SessionOf(e)
             /\ \A r \in Requests : RequestOf(r)' = RequestOf(r)
  <2>1. /\ UNCHANGED <<creation, preamble, rebuild, request, latest>>
        /\ pending' = [pending EXCEPT ![d] = None]
        /\ \A e \in Docs \ {d} : sessions'[e] = sessions[e]
    BY <1>1, <1>a DEF CancelPendingSession, InvalidateSessions, rebuildVars
  <2>2. CreationOf(d)' = Store!NoCreation
    BY <2>1, <1>a DEF CreationOf, Store!NoCreation, None
  <2> QED
    BY <2>1, <2>2, <1>a, StoreKept, SameStarted
<1>2. ASSUME CancelPendingSession(d) PROVE Store!Cancel(d)
  <2>1. SessionOf(d)' = SessionOf(d)
    BY <1>2, SameStarted, StoreKept DEF CancelPendingSession
  <2>2. asked' = [asked EXCEPT ![d] = IF @ = "closed" THEN @ ELSE "withdrawn"]
    BY <1>2 DEF CancelPendingSession
  <2> QED
    BY <1>1, <1>2, <2>1, <2>2 DEF Store!Cancel
<1>3. ASSUME InvalidateSessions(d) PROVE Store!Invalidate(d)
  <2>1. SessionOf(d)' = Store!NoSession
    BY <1>3, <1>a DEF InvalidateSessions, SessionOf, HasSession, Store!NoSession
  <2>2. asked' = [asked EXCEPT ![d] = "never"]
    BY <1>3 DEF InvalidateSessions
  <2> QED
    BY <1>1, <1>3, <2>1, <2>2 DEF Store!Invalidate
<1> QED
  BY <1>2, <1>3

(* ScheduleCleanup, and the cleanup coroutine of a timer that is registered. *)
LEMMA CleanupIsForget ==
    ASSUME TypeOK, CleanupInv, NEW d \in Docs
    PROVE  /\ ScheduleCleanup(d) => Store!Close(d)
           /\ CleanupJob(d) /\ timers[d] # "none" => Store!Forget(d)
<1>a. sessions \in [Docs -> {NoEntry} \cup Entry]
  BY DEF TypeOK, StoreOK
<1>1. ASSUME ScheduleCleanup(d) PROVE Store!Close(d)
  <2>1. UNCHANGED <<creation, pending, sessions, request, preamble, rebuild, latest>>
    BY <1>1 DEF ScheduleCleanup, rebuildVars
  <2>2. /\ \A e \in Docs : CreationOf(e)' = CreationOf(e) /\ SessionOf(e)' = SessionOf(e)
        /\ \A r \in Requests : RequestOf(r)' = RequestOf(r)
    BY <2>1, SameStarted, StoreKept
  <2> QED
    BY <1>1, <2>1, <2>2 DEF ScheduleCleanup, Store!Close
<1>2. ASSUME CleanupJob(d), timers[d] # "none" PROVE Store!Forget(d)
  <2>1. /\ UNCHANGED <<creation, pending, request, preamble, rebuild, latest, asked>>
        /\ sessions' = [sessions EXCEPT ![d] = NoEntry]
    BY <1>2 DEF CleanupJob, rebuildVars, historyVars
  <2>2. /\ \A e \in Docs : CreationOf(e)' = CreationOf(e)
        /\ \A e \in Docs \ {d} : SessionOf(e)' = SessionOf(e)
        /\ \A r \in Requests : RequestOf(r)' = RequestOf(r)
    BY <2>1, <1>a, SameStarted, StoreKept
  <2>3. SessionOf(d)' = Store!NoSession
    BY <2>1, <1>a DEF SessionOf, HasSession, Store!NoSession
  <2>4. asked[d] = "closed"
    BY <1>2 DEF CleanupInv
  <2> QED
    BY <2>1, <2>2, <2>3, <2>4 DEF Store!Forget
<1> QED
  BY <1>1, <1>2

(* RebuildWorkspace and InvalidateAllSessions. *)
LEMMA RebuildIsRebuild ==
    ASSUME TypeOK
    PROVE  /\ UpdatePreambleManager => Store!Swap
           /\ InvalidateAllSessions => Store!Drain
           /\ SessionsDrained => Store!Clear
<1>1. ASSUME UpdatePreambleManager \/ InvalidateAllSessions
      PROVE  /\ UNCHANGED <<creation, asked, latest>>
             /\ \A d \in Docs : CreationOf(d)' = CreationOf(d)
                             /\ SessionOf(d)' = SessionOf(d)
             /\ \A r \in Requests : RequestOf(r)' = RequestOf(r)
  <2>1. UNCHANGED <<creation, pending, sessions, request, asked, latest>>
    BY <1>1 DEF UpdatePreambleManager, InvalidateAllSessions, historyVars
  <2> QED
    BY <2>1, SameStarted, StoreKept
<1>2. UpdatePreambleManager => Store!Swap
  BY <1>1 DEF UpdatePreambleManager, Store!Swap
<1>3. InvalidateAllSessions => Store!Drain
  BY <1>1 DEF InvalidateAllSessions, Store!Drain
<1>4. ASSUME SessionsDrained PROVE Store!Clear
  <2>1. /\ UNCHANGED <<creation, request, preamble, latest>>
        /\ \A d \in Docs : pending'[d] = None /\ sessions'[d] = NoEntry
    BY <1>4 DEF SessionsDrained
  <2>2. /\ \A d \in Docs : CreationOf(d)' = Store!NoCreation
                        /\ SessionOf(d)' = Store!NoSession
        /\ \A r \in Requests : RequestOf(r)' = RequestOf(r)
    BY <2>1, SameStarted, StoreKept DEF CreationOf, SessionOf, HasSession,
       Store!NoCreation, Store!NoSession, None
  <2> QED
    BY <1>4, <2>1, <2>2 DEF SessionsDrained, Store!Clear
<1> QED
  BY <1>2, <1>3, <1>4

(* Steps that change neither what documents have nor requests cannot be seen,
   except that the client may give a document up. *)
LEMMA MovesAreHidden ==
    ASSUME TypeOK, UpdateInv, NEW t \in Started,
           \/ StartBuild(t) \/ Built(t) \/ Indexed(t)
           \/ IndexingFails(t) \/ Throws(t) \/ Phase1(t)
    PROVE  Store!GiveUp(Doc(t)) \/ UNCHANGED Store!storeVars
<1> DEFINE d == Doc(t)
<1>a. /\ UNCHANGED <<creation, pending, sessions, request, preamble, rebuild, latest>>
      /\ BeforeStore(t) /\ d \in Docs
  BY EntryFacts DEF StartBuild, Built, Indexed, IndexingFails, Throws, Phase1,
     otherThanTask, rebuildVars, Compiles, OnItsWay, BeforeStore
<1>b. /\ \A e \in Docs : CreationOf(e)' = CreationOf(e) /\ SessionOf(e)' = SessionOf(e)
      /\ \A r \in Requests : RequestOf(r)' = RequestOf(r)
  BY <1>a, SameStarted, StoreKept
<1>1. CASE UNCHANGED asked
  BY <1>1, <1>a, <1>b DEF Store!storeVars
<1>2. CASE ~UNCHANGED asked
  <2>1. asked' = [asked EXCEPT ![d] =
                    IF @ = "wanted" /\ latest[d][1] = Version(t) THEN "never" ELSE @]
    BY <1>2 DEF StartBuild, Built, Indexed, IndexingFails, Throws, Phase1, GiveUp
  <2>2. asked[d] = "wanted" /\ asked' = [asked EXCEPT ![d] = "never"]
    BY <2>1, <1>2, EntryFacts
  <2>3. sessions[d].phase # "indexed"
    BY <1>a DEF UpdateInv, NoneComplete
  <2>4. pending[d] # None \/ rebuild = "draining"
    BY <2>2, <2>3, <1>a DEF UpdateInv, WantedIsThere
  <2> QED
    BY <2>2, <2>3, <2>4, <1>a, <1>b, StoreView DEF Store!GiveUp
<1> QED
  BY <1>1, <1>2

(* Phase 1 stores the session of the creation the document waits for, or a
   trace of one that has been replaced or withdrawn. *)
LEMMA Phase1IsElaborate ==
    ASSUME StoreHyp, NEW t \in Started,
           NEW d \in Docs, d = Doc(t), Phase1Store(t)
    PROVE  Store!Elaborate(d) \/ Store!LeaveTrace(d)
<1> DEFINE x == <<Version(t), creation[t].content>>
           p == creation[t].preamble
<1>a. /\ UNCHANGED <<creation, pending, request, preamble, rebuild, asked, latest>>
      /\ TypeOK /\ UpdateInv /\ PreambleInv /\ StoreInv
      /\ BeforeStore(t) /\ t \in Unfinished /\ pc[t] = "checked" /\ t # None
  BY StartedFacts DEF Phase1Store, rebuildVars, StoreHyp, BeforeStore, Unfinished
<1>b. /\ \A e \in Docs : CreationOf(e)' = CreationOf(e)
      /\ \A r \in Requests : RequestOf(r)' = RequestOf(r)
  BY <1>a, SameStarted, StoreKept
<1>1. /\ \A e \in Docs \ {d} : SessionOf(e)' = SessionOf(e)
      /\ SessionOf(d)' = [text |-> x, preamble |-> p, phase |-> "elaborated"]
  <2>1. sessions' = [sessions EXCEPT ![d] = [by |-> t, phase |-> "elaborated"]]
    BY DEF Phase1Store
  <2>2. sessions'[d] = [by |-> t, phase |-> "elaborated"]
        /\ \A e \in Docs \ {d} : sessions'[e] = sessions[e]
    BY <2>1, <1>a, EntryFacts
  <2>3. \A e \in Docs \ {d} : SessionOf(e)' = SessionOf(e)
    BY <2>2, <1>a, SameStarted, StoreKept
  <2> QED
    BY <2>2, <2>3, <1>a DEF SessionOf, HasSession, NoEntry, Version
<1>2. CASE pending[d] = t
  <2>1. latest[d] = x /\ CreationOf(d).preamble = p /\ Store!IsCreating(d)
    BY <1>2, <1>a, StoreView DEF UpdateInv, EntryOK, CreationOf
  <2>2. SessionOf(d).text # latest[d]
    <3>1. HasSession(d) => Version(sessions[d].by) # Version(t)
      BY <1>2, <1>a DEF StoreInv, Builds, PendingVersion
    <3> QED
      BY <3>1, <2>1 DEF SessionOf, Version
  <2> QED
    BY <2>1, <2>2, <1>1, <1>a, <1>b DEF Store!Elaborate
<1>3. CASE pending[d] # t
  <2>1. SessionOf(d).phase # "indexed"
    BY <1>a, StoreView DEF UpdateInv, NoneComplete
  <2>2. x \in Versions \X Contents
    BY <1>a, StartedFacts DEF Creation, Version
  <2>3. Store!IsCreating(d) => x # latest[d]
    <3>1. pending[d] # None => Version(pending[d]) # Version(t)
      BY <1>3, <1>a DEF UpdateInv, OwnEntry, PendingVersion
    <3>2. pending[d] # None => latest[d][1] = Version(pending[d])
      BY <1>a DEF UpdateInv, EntryOK
    <3> QED
      BY <3>1, <3>2, <1>a, StoreView
  <2>4. p \in IF rebuild = "idle" THEN {preamble} ELSE {preamble - 1, preamble}
    BY <1>a DEF PreambleInv, HeldIn
  <2>5. /\ p \in {preamble, preamble - 1}
        /\ rebuild = "idle" => p = preamble
    BY <2>4
  <2> QED
    BY <2>1, <2>2, <2>3, <2>5, <1>1, <1>a, <1>b DEF Store!LeaveTrace
<1> QED
  BY <1>2, <1>3

(* Phase 2 completes the session of the creation the document waits for, or
   ends that creation without a session. *)
LEMMA Phase2IsIndex ==
    ASSUME StoreHyp, NEW t \in Started,
           NEW d \in Docs, d = Doc(t), Phase2(t)
    PROVE  Store!Index(d) \/ Store!End(d) \/ UNCHANGED Store!storeVars
<1>a. /\ UNCHANGED <<creation, request, preamble, rebuild, asked, latest>>
      /\ d \in Docs /\ TypeOK /\ UpdateInv
      /\ pc[t] \in {"stored", "returning"}
  BY EntryFacts DEF Phase2, Phase2Turn, rebuildVars, historyVars, StoreHyp
<1>b. \A r \in Requests : RequestOf(r)' = RequestOf(r)
  BY <1>a, SameStarted, StoreKept
<1>1. CASE PendingVersion(d, Version(t))
  <2>1. pending[d] = t /\ t # None /\ pending' = [pending EXCEPT ![d] = None]
    BY <1>1, <1>a, EntryFacts DEF UpdateInv, OwnEntry, Unfinished, Phase2, Phase2Turn
  <2>2. \A e \in Docs \ {d} : CreationOf(e)' = CreationOf(e)
    BY <2>1, <1>a, EntryFacts, SameStarted, StoreKept
  <2>3. CreationOf(d)' = Store!NoCreation
    BY <2>1, <1>a, EntryFacts DEF CreationOf, Store!NoCreation, None
  <2>4. CASE pc[t] = "stored"
    <3>1. HasSession(d) /\ sessions[d].by = t /\ sessions[d].phase = "elaborated"
      BY <2>1, <2>4, <1>a, EntryFacts DEF UpdateInv, EntryOK, HasSession, Entry
    <3>2. sessions' = [sessions EXCEPT ![d] = [by |-> @.by, phase |-> "indexed"]]
      BY <1>1, <2>4, <3>1 DEF Phase2, Phase2Turn
    <3>3. sessions'[d] = [by |-> t, phase |-> "indexed"]
      BY <3>1, <3>2, <1>a, EntryFacts
    <3>4. SessionOf(d)' = [SessionOf(d) EXCEPT !.phase = "indexed"]
      BY <3>1, <3>3, <1>a DEF SessionOf, HasSession, NoEntry
    <3>5. \A e \in Docs \ {d} : SessionOf(e)' = SessionOf(e)
      BY <3>2, <1>a, EntryFacts, SameStarted, StoreKept
    <3>6. SessionOf(d).text = latest[d]
      BY <2>1, <3>1, <1>a DEF UpdateInv, EntryOK, SessionOf, Version
    <3>7. Store!Index(d)
      BY <2>1, <2>2, <2>3, <3>1, <3>4, <3>5, <3>6, <1>a, <1>b, StoreView
      DEF Store!Index
    <3> QED
      BY <3>7
  <2>5. CASE pc[t] = "returning"
    <3>1. SessionOf(d).text # latest[d]
      <4>1. HasSession(d) => Version(sessions[d].by) # Version(t)
        BY <2>1, <2>5, <1>a DEF StoreHyp, StoreInv, Builds, PendingVersion
      <4>2. latest[d] = <<Version(t), creation[t].content>>
        BY <2>1, <1>a DEF UpdateInv, EntryOK
      <4> QED
        BY <4>1, <4>2 DEF SessionOf, Version
    <3>2. asked[d] # "wanted" \/ rebuild = "draining"
      BY <2>1, <2>5, <1>a DEF UpdateInv, EntryOK
    <3>3. UNCHANGED sessions
      BY <2>5 DEF Phase2, Phase2Turn
    <3>4. \A e \in Docs : SessionOf(e)' = SessionOf(e)
      BY <3>3, <1>a, SameStarted, StoreKept
    <3>5. Store!End(d)
      BY <2>1, <2>2, <2>3, <3>1, <3>2, <3>4, <1>a, <1>b, StoreView DEF Store!End
    <3> QED
      BY <3>5
  <2> QED
    BY <2>4, <2>5, <1>a
<1>2. CASE ~PendingVersion(d, Version(t))
  <2>1. UNCHANGED <<pending, sessions>>
    BY <1>2, <1>a, EntryFacts DEF Phase2, Phase2Turn
  <2>2. \A e \in Docs : CreationOf(e)' = CreationOf(e) /\ SessionOf(e)' = SessionOf(e)
    BY <2>1, <1>a, SameStarted, StoreKept
  <2> QED
    BY <2>2, <1>a, <1>b DEF Store!storeVars
<1> QED
  BY <1>1, <1>2

(* WithSession and WithCompilationState, when they are called. *)
LEMMA AskIsAsk ==
    ASSUME TypeOK, NEW r \in Requests, NEW d \in Docs, NEW need \in Events,
           Ask(r, d, need)
    PROVE  Store!Ask(r, d, need)
<1>1. /\ UNCHANGED <<creation, pending, sessions, preamble, rebuild, asked, latest>>
      /\ request[r].state # "waiting"
      /\ request' = [request EXCEPT ![r] =
                       IF Satisfied(d, need) THEN Answered("served")
                       ELSE IF pending[d] # None
                         THEN [state |-> "waiting", need |-> need, on |-> pending[d]]
                         ELSE Answered("notFound")]
  BY DEF Ask, Reply, rebuildVars, historyVars
<1>2. /\ request \in [Requests -> Waiting \cup
                         {Idle, Answered("served"), Answered("notFound")}]
      /\ pending[d] # None => Doc(pending[d]) = d
  BY DEF TypeOK, ClientOK, StoreOK
<1>3. /\ \A e \in Docs : CreationOf(e)' = CreationOf(e) /\ SessionOf(e)' = SessionOf(e)
      /\ \A q \in Requests \ {r} : RequestOf(q)' = RequestOf(q)
  BY <1>1, <1>2, SameStarted, StoreKept
<1>4. RequestOf(r)' =
        IF Satisfied(d, need) THEN Store!NotWaiting("served")
        ELSE IF pending[d] # None
          THEN [state |-> "waiting", need |-> need, doc |-> d, number |-> pending[d]]
          ELSE Store!NotWaiting("notFound")
  BY <1>1, <1>2 DEF RequestOf, Answered, Store!NotWaiting, None, Doc
<1>5. RequestOf(r).state # "waiting"
  BY <1>1 DEF RequestOf
<1> QED
  BY <1>1, <1>3, <1>4, <1>5, StoreView DEF Store!Ask

(* And when the event they wait for is set. *)
LEMMA WakeUpIsAnswer ==
    ASSUME StoreHyp, NEW r \in Requests, WakeUp(r)
    PROVE  Store!Answer(r)
<1> DEFINE on == request[r].on
           d == Doc(on)
           need == request[r].need
<1>a. TypeOK /\ UpdateInv
  BY DEF StoreHyp
<1>1. /\ UNCHANGED <<creation, pending, sessions, preamble, rebuild, asked, latest>>
      /\ request[r].state = "waiting" /\ need \in ready[on]
      /\ request' = [request EXCEPT ![r] =
                       IF Satisfied(d, need) THEN Answered("served")
                                             ELSE Answered("notFound")]
  BY DEF WakeUp, Reply, rebuildVars, historyVars
<1>2. /\ request \in [Requests -> Waiting \cup
                         {Idle, Answered("served"), Answered("notFound")}]
      /\ on \in Started /\ need \in Events
      /\ d \in Docs /\ on \in Tasks /\ on # None
  BY <1>a, <1>1, EntryFacts DEF TypeOK, ClientOK, Waiting, Idle, Answered
<1>3. /\ \A e \in Docs : CreationOf(e)' = CreationOf(e) /\ SessionOf(e)' = SessionOf(e)
      /\ \A q \in Requests \ {r} : RequestOf(q)' = RequestOf(q)
  BY <1>1, <1>2, <1>a, SameStarted, StoreKept
<1>4. RequestOf(r)' = IF Satisfied(d, need) THEN Store!NotWaiting("served")
                                            ELSE Store!NotWaiting("notFound")
  BY <1>1, <1>2 DEF RequestOf, Answered, Store!NotWaiting, None
<1>5. /\ RequestOf(r).state = "waiting" /\ RequestOf(r).need = need
      /\ RequestOf(r).doc = d /\ RequestOf(r).number = on
  BY <1>1 DEF RequestOf
<1>6. ~Satisfied(d, need) => pending[d] # on
  <2>1. pending[d] = on /\ need = "compilation" => Satisfied(d, need)
    <3> SUFFICES ASSUME pending[d] = on, need = "compilation"
                 PROVE  Satisfied(d, need)
      OBVIOUS
    <3>1. pc[on] = "stored"
      BY <1>1, <1>2 DEF StoreHyp, StoreInv, ReadyIsOver
    <3>2. HasSession(d)
      BY <3>1, <1>2, <1>a DEF UpdateInv, EntryOK
    <3> QED
      BY <3>2, <1>2, <1>a, EntryFacts DEF Satisfied, HasSession, Entry
  <2>2. need = "session" => pending[d] # on
    BY <1>1, <1>2 DEF StoreHyp, StoreInv, ReadyIsOver
  <2> QED
    BY <2>1, <2>2, <1>2 DEF Events
<1>7. /\ CreationOf(d).number = pending[d]
      /\ Store!Satisfied(d, need) <=> Satisfied(d, need)
  BY <1>2, <1>a, StoreView
<1> QED
  BY <1>1, <1>2, <1>3, <1>4, <1>5, <1>6, <1>7 DEF Store!Answer

(* SessionManager is a store with one creation and one session per document, if
   versions name texts: of the interleavings of creations, cancellations,
   cleanups, rebuilds and requests nothing shows outside but the traces of
   creations that were told to stop too late, even if compilations throw. *)
THEOREM StoreImplemented == ~ReuseVersions => (Spec => ImplementsStore)
<1> SUFFICES ASSUME ~ReuseVersions PROVE Spec => ImplementsStore
  OBVIOUS
<1>1. Init => Store!Init
  BY DEF Init, Store!Init, CreationOf, SessionOf, RequestOf, HasSession, Idle,
     Store!NoCreation, Store!NoSession, Store!NotWaiting, None
<1>2. StoreHyp /\ [Next]_vars => [Store!Next]_Store!storeVars
  <2> SUFFICES ASSUME StoreHyp, [Next]_vars
               PROVE  Store!Next \/ UNCHANGED Store!storeVars
    OBVIOUS
  <2>a. TypeOK /\ UpdateInv /\ CleanupInv
    BY DEF StoreHyp
  <2>1. ASSUME NEW d \in Docs, NEW v \in Versions, NEW c \in Contents,
               UpdateSession(d, v, c)
        PROVE  Store!Next
    <3>1. <<v, c>> \in Versions \X Contents /\ Store!Update(d, <<v, c>>)
      BY <2>1, UpdateIsUpdate
    <3> QED
      BY <3>1 DEF Store!Next
  <2>2. ASSUME NEW d \in Docs,
               \/ CancelPendingSession(d) \/ InvalidateSessions(d)
               \/ ScheduleCleanup(d)
        PROVE  Store!Next
    <3>1. Store!Cancel(d) \/ Store!Invalidate(d) \/ Store!Close(d)
      BY <2>2, <2>a, ErasureIsErasure, CleanupIsForget
    <3> QED
      BY <3>1 DEF Store!Next
  <2>3. CASE UpdatePreambleManager \/ InvalidateAllSessions \/ SessionsDrained
    <3>1. Store!Swap \/ Store!Drain \/ Store!Clear
      BY <2>3, <2>a, RebuildIsRebuild
    <3> QED
      BY <3>1 DEF Store!Next
  <2>4. ASSUME NEW r \in Requests, NEW d \in Docs, NEW need \in Events,
               Ask(r, d, need)
        PROVE  Store!Next
    <3>1. Store!Ask(r, d, need)
      BY <2>4, <2>a, AskIsAsk
    <3> QED
      BY <3>1 DEF Store!Next, Events
  <2>5. ASSUME NEW r \in Requests, WakeUp(r)
        PROVE  Store!Next
    <3>1. Store!Answer(r)
      BY <2>5, WakeUpIsAnswer
    <3> QED
      BY <3>1 DEF Store!Next
  <2>6. ASSUME NEW t \in Started, Step(t)
        PROVE  Store!Next \/ UNCHANGED Store!storeVars
    <3>1. Doc(t) \in Docs
      BY <2>a, EntryFacts
    <3>2. \/ Store!GiveUp(Doc(t)) \/ Store!Progress(Doc(t))
          \/ Store!LeaveTrace(Doc(t)) \/ UNCHANGED Store!storeVars
      BY <2>6, <3>1, <2>a, MovesAreHidden, Phase1IsElaborate, Phase2IsIndex
      DEF Step, Store!Progress
    <3> QED
      BY <3>1, <3>2 DEF Store!Next
  <2>7. ASSUME NEW d \in Docs, CleanupJob(d), timers[d] # "none"
        PROVE  Store!Next
    <3>1. Store!Forget(d)
      BY <2>7, <2>a, CleanupIsForget
    <3> QED
      BY <3>1 DEF Store!Next
  <2>8. ASSUME \/ \E d \in Docs : TimerExpires(d)
               \/ \E d \in Docs : CleanupJob(d) /\ timers[d] = "none"
               \/ UNCHANGED vars
        PROVE  UNCHANGED Store!storeVars
    <3>1. UNCHANGED <<creation, pending, sessions, request, preamble, rebuild,
                      asked, latest>>
      BY <2>8 DEF TimerExpires, CleanupJob, rebuildVars, historyVars, vars
    <3>2. /\ \A d \in Docs : CreationOf(d)' = CreationOf(d)
                          /\ SessionOf(d)' = SessionOf(d)
          /\ \A r \in Requests : RequestOf(r)' = RequestOf(r)
      BY <3>1, <2>a, SameStarted, StoreKept
    <3> QED
      BY <3>1, <3>2 DEF Store!storeVars
  <2> QED
    BY <2>1, <2>2, <2>3, <2>4, <2>5, <2>6, <2>7, <2>8 DEF Next, Call, Cleanup
<1> QED
  BY <1>1, <1>2, TypeCorrect, UpdateInvariant, CleanupInvariant,
     PreambleInvariant, StoredTextIsLatest, StoreInvariant, PTL
  DEF Spec, StoreHyp, ImplementsStore, Store!Spec

=============================================================================
