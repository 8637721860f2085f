------------------------ MODULE SessionManagerProofs ------------------------
(* Proofs about SessionManager, for every number of documents, versions,    *)
(* creations, preambles and requests.                                       *)
EXTENDS SessionManager, TLAPS

(* What has been started is numbered from 1, and each record is immutable. *)
LEMMA StartedFacts ==
    ASSUME TypeOK
    PROVE  /\ Started = 1 .. Len(creation)
           /\ Len(creation) \in Nat
           /\ Started \subseteq Tasks
           /\ None \notin Started
           /\ \A t \in Started : creation[t] \in Creation /\ pc[t] # "unused"
<1>1. /\ creation \in Seq(Creation) /\ Len(creation) <= MaxTasks
      /\ \A t \in Tasks : pc[t] = "unused" <=> t > Len(creation)
  BY DEF TypeOK, CreationsOK
<1> QED
  BY <1>1, BoundsAssumption DEF Started, Tasks, None

(* StartSessionCreation adds one creation after all others. *)
LEMMA StartFacts ==
    ASSUME TypeOK, NEW d \in Docs, NEW v \in Versions, NEW c \in Contents,
           StartSessionCreation(d, v, c)
    PROVE  \E n \in Tasks :
           /\ n \notin Started /\ Started' = Started \cup {n}
           /\ creation' \in Seq(Creation)
           /\ n = Len(creation) + 1 /\ Len(creation') = n
           /\ \A t \in Started : creation'[t] = creation[t]
           /\ creation'[n] = [doc |-> d, version |-> v, content |-> c,
                              preamble |-> preamble]
           /\ pc' = [pc EXCEPT ![n] = "queued"]
           /\ pending' = [pending EXCEPT ![d] = n]
           /\ active' = active \cup {n}
<1> DEFINE n == Len(creation) + 1
           new == [doc |-> d, version |-> v, content |-> c,
                   preamble |-> preamble]
<1>1. new \in Creation
  BY DEF TypeOK, RebuildOK, Creation
<1>2. creation \in Seq(Creation) /\ creation' = Append(creation, new)
  BY DEF TypeOK, CreationsOK, RebuildOK, StartSessionCreation
<1>3. n \in Tasks
  BY DEF StartSessionCreation
<1>4. /\ creation' \in Seq(Creation)
      /\ Len(creation') = n
      /\ \A t \in 1 .. Len(creation) : creation'[t] = creation[t]
      /\ creation'[n] = new
  BY <1>1, <1>2
<1>5. /\ Started = 1 .. Len(creation)
      /\ Started' = Started \cup {n} /\ n \notin Started
  BY <1>2, <1>4 DEF Started
<1>6. /\ pc' = [pc EXCEPT ![n] = "queued"]
      /\ pending' = [pending EXCEPT ![d] = n]
      /\ active' = active \cup {n}
  BY DEF StartSessionCreation
<1> WITNESS n \in Tasks
<1> QED
  BY <1>4, <1>5, <1>6

(* Steps that neither start nor forget a creation. *)
LEMMA SameStarted == UNCHANGED creation => Started' = Started
BY DEF Started

\* Sessions, creations, rebuilds and timers stay within their types.
THEOREM TypeCorrect == Spec => []TypeOK
<1>1. Init => TypeOK
  BY BoundsAssumption DEF Init, TypeOK, CreationsOK, StoreOK, CleanupOK,
     RebuildOK, ClientOK, Tasks, None, NoEntry, Idle, Started, HasSession, PC,
     Waiting
<1>2. TypeOK /\ [Next]_vars => TypeOK'
  <2> SUFFICES ASSUME TypeOK, [Next]_vars PROVE TypeOK'
    OBVIOUS
  <2>a. CreationsOK /\ StoreOK /\ CleanupOK /\ RebuildOK /\ ClientOK
    BY DEF TypeOK
  <2>b. UNCHANGED <<creation, pc, cancelled, ready>> => CreationsOK'
    BY <2>a DEF CreationsOK
  <2>c. UNCHANGED <<creation, pending, sessions>> => StoreOK'
    BY <2>a DEF StoreOK, Started, HasSession, Doc
  <2>d. UNCHANGED <<timers, jobs>> => CleanupOK'
    BY <2>a DEF CleanupOK
  <2>e. UNCHANGED <<creation, preamble, active, drain, rebuild>> => RebuildOK'
    BY <2>a DEF RebuildOK, Started
  <2>f. UNCHANGED <<creation, request, asked, latest, late>> => ClientOK'
    BY <2>a DEF ClientOK, Started
  <2>1. ASSUME NEW d \in Docs, NEW v \in Versions, NEW c \in Contents,
               UpdateSession(d, v, c)
        PROVE  TypeOK'
    <3>1. CleanupOK'
      BY <2>1, <2>a DEF CleanupOK, UpdateSession, ForgetTimer
    <3>2. /\ request' = request
          /\ asked' \in [Docs -> {"never", "wanted", "withdrawn", "closed"}]
          /\ latest' \in [Docs -> {<<>>} \cup (Versions \X Contents)]
          /\ UNCHANGED <<preamble, drain, rebuild, late>>
      BY <2>1, <2>a DEF ClientOK, UpdateSession, ForgetTimer
    <3>3. \/ /\ UNCHANGED <<creation, taskVars, active, pending>>
             /\ sessions' \in {sessions, [sessions EXCEPT ![d] = NoEntry]}
          \/ /\ sessions' = [sessions EXCEPT ![d] = NoEntry]
             /\ cancelled' = [t \in Tasks |-> cancelled[t] \/ t = pending[d]]
             /\ StartSessionCreation(d, v, c)
             /\ UNCHANGED ready
      BY <2>1 DEF UpdateSession, ForgetTimer
    <3>4. CASE /\ UNCHANGED <<creation, taskVars, active, pending>>
               /\ sessions' \in {sessions, [sessions EXCEPT ![d] = NoEntry]}
      <4>1. CreationsOK' /\ RebuildOK'
        BY <3>2, <3>4, <2>b, <2>e DEF taskVars
      <4>2. StoreOK'
        BY <3>4, <2>a, SameStarted DEF StoreOK, HasSession, Doc
      <4>3. ClientOK'
        BY <3>2, <3>4, <2>a, SameStarted DEF ClientOK
      <4> QED
        BY <3>1, <4>1, <4>2, <4>3 DEF TypeOK
    <3>5. CASE /\ sessions' = [sessions EXCEPT ![d] = NoEntry]
               /\ cancelled' = [t \in Tasks |-> cancelled[t] \/ t = pending[d]]
               /\ StartSessionCreation(d, v, c)
               /\ UNCHANGED ready
      <4>1. PICK n \in Tasks :
              /\ n \notin Started /\ Started' = Started \cup {n}
              /\ creation' \in Seq(Creation)
              /\ n = Len(creation) + 1 /\ Len(creation') = n
              /\ \A t \in Started : creation'[t] = creation[t]
              /\ creation'[n] = [doc |-> d, version |-> v, content |-> c,
                                 preamble |-> preamble]
              /\ pc' = [pc EXCEPT ![n] = "queued"]
              /\ pending' = [pending EXCEPT ![d] = n]
              /\ active' = active \cup {n}
        BY <3>5, StartFacts
      <4>2. CreationsOK'
        BY <3>5, <4>1, <2>a, BoundsAssumption DEF CreationsOK, PC, Tasks
      <4>3. StoreOK'
        <5>1. None \notin Started
          BY StartedFacts
        <5>2. \A e \in Docs : HasSession(e)' =>
                 e # d /\ HasSession(e) /\ sessions'[e] = sessions[e]
          BY <3>5, <2>a DEF StoreOK, HasSession
        <5>3. \A e \in Docs : pending'[e] = IF e = d THEN n ELSE pending[e]
          BY <4>1, <2>a DEF StoreOK
        <5>4. /\ pending' \in [Docs -> {None} \cup Started']
              /\ sessions' \in [Docs -> {NoEntry} \cup Entry]
          BY <3>5, <4>1, <2>a DEF StoreOK
        <5> QED
          BY <4>1, <5>1, <5>2, <5>3, <5>4, <2>a DEF StoreOK, Doc
      <4>4. RebuildOK'
        BY <3>2, <4>1, <2>a DEF RebuildOK
      <4>5. ClientOK'
        BY <3>2, <4>1, <2>a DEF ClientOK
      <4> QED
        BY <3>1, <4>2, <4>3, <4>4, <4>5 DEF TypeOK
    <3> QED
      BY <3>3, <3>4, <3>5
  <2>2. ASSUME NEW d \in Docs, InvalidateSessions(d)
        PROVE  TypeOK'
    <3>1. CreationsOK' /\ CleanupOK' /\ ClientOK'
      BY <2>2, <2>a, SameStarted DEF InvalidateSessions, ForgetTimer, CreationsOK,
         CleanupOK, ClientOK
    <3>2. StoreOK' /\ RebuildOK'
      BY <2>2, <2>a, <2>e, SameStarted DEF InvalidateSessions, ForgetTimer, StoreOK,
         HasSession, Doc, rebuildVars
    <3> QED
      BY <3>1, <3>2 DEF TypeOK
  <2>3. ASSUME NEW d \in Docs, CancelPendingSession(d)
        PROVE  TypeOK'
    <3>1. CreationsOK' /\ CleanupOK' /\ ClientOK'
      BY <2>3, <2>a, <2>d, SameStarted DEF CancelPendingSession, CreationsOK,
         ClientOK, timerVars
    <3>2. StoreOK' /\ RebuildOK'
      BY <2>3, <2>a, <2>e, SameStarted DEF CancelPendingSession, StoreOK,
         HasSession, Doc, rebuildVars
    <3> QED
      BY <3>1, <3>2 DEF TypeOK
  <2>4. ASSUME NEW d \in Docs, ScheduleCleanup(d)
        PROVE  TypeOK'
    <3>1. CleanupOK' /\ ClientOK'
      BY <2>4, <2>a, SameStarted DEF ScheduleCleanup, CleanupOK, ClientOK
    <3> QED
      BY <2>4, <2>b, <2>c, <2>e, <3>1 DEF ScheduleCleanup, TypeOK, taskVars,
         rebuildVars
  <2>5. ASSUME NEW d \in Docs, TimerExpires(d)
        PROVE  TypeOK'
    <3>1. CleanupOK'
      BY <2>5, <2>a, BoundsAssumption DEF TimerExpires, CleanupOK
    <3> QED
      BY <2>5, <2>b, <2>c, <2>e, <2>f, <3>1 DEF TimerExpires, TypeOK,
         taskVars, rebuildVars, historyVars
  <2>6. ASSUME NEW d \in Docs, CleanupJob(d)
        PROVE  TypeOK'
    <3>1. CleanupOK'
      BY <2>6, <2>a, BoundsAssumption DEF CleanupJob, CleanupOK
    <3>2. StoreOK'
      BY <2>6, <2>a, SameStarted DEF CleanupJob, StoreOK, HasSession, Doc
    <3> QED
      BY <2>6, <2>b, <2>e, <2>f, <3>1, <3>2 DEF CleanupJob, TypeOK,
         taskVars, rebuildVars, historyVars
  <2>7. CASE UpdatePreambleManager
    <3>1. RebuildOK'
      BY <2>7, <2>a, SameStarted, BoundsAssumption DEF UpdatePreambleManager,
         RebuildOK
    <3> QED
      BY <2>7, <2>b, <2>c, <2>d, <2>f, <3>1 DEF UpdatePreambleManager, TypeOK,
         taskVars, timerVars, historyVars
  <2>8. CASE InvalidateAllSessions
    <3>1. CreationsOK' /\ CleanupOK' /\ RebuildOK'
      BY <2>8, <2>a, SameStarted DEF InvalidateAllSessions, CreationsOK,
         CleanupOK, RebuildOK
    <3> QED
      BY <2>8, <2>c, <2>f, <3>1 DEF InvalidateAllSessions, TypeOK, historyVars
  <2>9. CASE SessionsDrained
    <3>1. CleanupOK' /\ RebuildOK' /\ ClientOK'
      BY <2>9, <2>a, SameStarted DEF SessionsDrained, Drained, CleanupOK, RebuildOK,
         ClientOK
    <3>2. StoreOK'
      BY <2>9, <2>a, SameStarted DEF SessionsDrained, Drained, StoreOK, HasSession, Doc
    <3> QED
      BY <2>9, <2>b, <3>1, <3>2 DEF SessionsDrained, Drained, TypeOK, taskVars
  <2>10. ASSUME NEW t \in Started, Step(t)
         PROVE  TypeOK'
    <3>0. t \in Tasks /\ pc[t] # "unused" /\ Doc(t) \in Docs
      BY StartedFacts DEF Doc, Creation
    <3>1. ASSUME NEW label \in PC \ {"unused"}, Goto(t, label),
                 ready' \in [Tasks -> SUBSET Events],
                 UNCHANGED <<creation, cancelled>>
          PROVE  CreationsOK'
      BY <3>0, <3>1, <2>a DEF CreationsOK, Goto
    <3>2. GiveUp(t) /\ UNCHANGED <<creation, request, latest, late>> => ClientOK'
      BY <3>0, <2>a, SameStarted DEF GiveUp, ClientOK
    <3>3. CASE StartBuild(t) \/ Built(t) \/ Indexed(t) \/ Phase1(t)
      <4>1. CreationsOK'
        BY <3>1, <3>3, <2>a DEF StartBuild, Built, Indexed, Phase1, otherThanTask,
           PC, CreationsOK
      <4> QED
        BY <3>3, <4>1, <2>c, <2>d, <2>e, <2>f DEF StartBuild, Built, Indexed,
           Phase1, otherThanTask, TypeOK, timerVars, rebuildVars
    <3>4. CASE IndexingFails(t) \/ Throws(t)
      <4>1. CreationsOK'
        BY <3>1, <3>4, <2>a DEF IndexingFails, Throws, otherThanTask, PC,
           CreationsOK
      <4> QED
        BY <3>2, <3>4, <4>1, <2>c, <2>d, <2>e DEF IndexingFails, Throws,
           otherThanTask, TypeOK, timerVars, rebuildVars
    <3>5. CASE Phase1Store(t)
      <4>1. CreationsOK'
        BY <3>0, <3>1, <3>5, <2>a DEF Phase1Store, PC, CreationsOK, Events
      <4>2. StoreOK'
        BY <3>0, <3>5, <2>a, SameStarted DEF Phase1Store, StoreOK,
           HasSession, Entry, NoEntry, Doc
      <4>3. ClientOK'
        BY <3>5, <2>a, SameStarted DEF Phase1Store, ClientOK
      <4> QED
        BY <3>5, <4>1, <4>2, <4>3, <2>d, <2>e DEF Phase1Store, TypeOK, timerVars,
           rebuildVars
    <3>6. CASE Phase2(t)
      <4>1. CreationsOK'
        BY <3>0, <3>1, <3>6, <2>a DEF Phase2, Phase2Turn, PC, CreationsOK
      <4>2. StoreOK'
        BY <3>0, <3>6, <2>a, SameStarted DEF Phase2, Phase2Turn, StoreOK,
           HasSession, Entry, NoEntry, Doc
      <4> QED
        BY <3>6, <4>1, <4>2, <2>d, <2>e, <2>f DEF Phase2, Phase2Turn, TypeOK, timerVars,
           rebuildVars, historyVars
    <3> QED
      BY <2>10, <3>3, <3>4, <3>5, <3>6 DEF Step
  <2>11. ASSUME NEW r \in Requests, NEW d \in Docs, NEW need \in Events,
                Ask(r, d, need)
         PROVE  TypeOK'
    <3>1. pending[d] # None => pending[d] \in Started
      BY <2>a DEF StoreOK
    <3>2. ClientOK'
      <4>1. PICK new \in Waiting \cup {Answered("served"), Answered("notFound")} :
              /\ request' = [request EXCEPT ![r] = new]
              /\ new.state = "waiting" => new.on \in Started
        <5> DEFINE wait == [state |-> "waiting", need |-> need,
                            on |-> pending[d]]
        <5>1. CASE Satisfied(d, need) \/ pending[d] = None
          <6>1. \E answer \in {"served", "notFound"} :
                  request' = [request EXCEPT ![r] = Answered(answer)]
            BY <2>11, <5>1 DEF Ask, Reply
          <6>2. \A answer \in {"served", "notFound"} :
                  Answered(answer).state # "waiting"
            BY DEF Answered
          <6> QED
            BY <6>1, <6>2
        <5>2. CASE ~Satisfied(d, need) /\ pending[d] # None
          <6>1. wait \in Waiting /\ wait.on \in Started
            BY <3>1, <5>2, StartedFacts DEF Waiting
          <6>2. request' = [request EXCEPT ![r] = wait]
            BY <2>11, <5>2 DEF Ask, Reply
          <6> QED
            BY <6>1, <6>2
        <5> QED
          BY <5>1, <5>2
      <4> QED
        BY <2>11, <2>a, <4>1, SameStarted DEF Ask, Reply, ClientOK, historyVars
    <3> QED
      BY <2>11, <2>b, <2>c, <2>d, <2>e, <3>2 DEF Ask, Reply, TypeOK, taskVars,
         timerVars, rebuildVars
  <2>12. ASSUME NEW r \in Requests, WakeUp(r)
         PROVE  TypeOK'
    <3>1. ClientOK'
      <4>1. \E answer \in {"served", "notFound"} :
              request' = [request EXCEPT ![r] = Answered(answer)]
        BY <2>12 DEF WakeUp, Reply
      <4>2. \A answer \in {"served", "notFound"} :
              Answered(answer).state # "waiting"
        BY DEF Answered
      <4>3. PICK new \in {Answered("served"), Answered("notFound")} :
              request' = [request EXCEPT ![r] = new] /\ new.state # "waiting"
        BY <4>1, <4>2
      <4> QED
        BY <2>12, <2>a, <4>3, SameStarted DEF WakeUp, Reply, ClientOK, historyVars
    <3> QED
      BY <2>12, <2>b, <2>c, <2>d, <2>e, <3>1 DEF WakeUp, Reply, TypeOK, taskVars,
         timerVars, rebuildVars
  <2>13. CASE UNCHANGED vars
    BY <2>13, <2>b, <2>c, <2>d, <2>e, <2>f DEF TypeOK, vars
  <2> QED
    BY <2>1, <2>2, <2>3, <2>4, <2>5, <2>6, <2>7, <2>8, <2>9, <2>10, <2>11,
       <2>12, <2>13 DEF Next, Call, Cleanup
<1> QED
  BY <1>1, <1>2, PTL DEF Spec

-----------------------------------------------------------------------------
(* The store: steps that only forget, and the two that add.                *)

Forgets ==
    /\ UNCHANGED <<creation, latest, late>>
    /\ \A d \in Docs :
          /\ pending'[d] \in {pending[d], None}
          /\ HasSession(d)' => HasSession(d) /\ sessions'[d].by = sessions[d].by

(* Every step but UpdateSession and the store of Phase 1 leaves each document with what
   it had, or with less. *)
LEMMA StoreSteps ==
    ASSUME TypeOK, [Next]_vars
    PROVE  \/ Forgets
           \/ \E d \in Docs, v \in Versions, c \in Contents :
                 UpdateSession(d, v, c)
           \/ \E t \in Started : Phase1Store(t)
<1>a. /\ pending \in [Docs -> {None} \cup Started]
      /\ sessions \in [Docs -> {NoEntry} \cup Entry]
  BY DEF TypeOK, StoreOK
<1>1. ASSUME UNCHANGED <<creation, latest, late>>, UNCHANGED <<pending, sessions>>
      PROVE  Forgets
  BY <1>1, <1>a DEF Forgets, HasSession
<1>2. ASSUME NEW d \in Docs,
             \/ InvalidateSessions(d) \/ CancelPendingSession(d)
             \/ ScheduleCleanup(d) \/ Cleanup(d)
      PROVE  Forgets
  BY <1>2, <1>a DEF InvalidateSessions, ForgetTimer, CancelPendingSession, ScheduleCleanup,
     Cleanup, TimerExpires, CleanupJob, Forgets, HasSession, historyVars
<1>3. CASE UpdatePreambleManager \/ InvalidateAllSessions
  BY <1>1, <1>3 DEF UpdatePreambleManager, InvalidateAllSessions, historyVars
<1>4. CASE SessionsDrained
  BY <1>4, <1>a DEF SessionsDrained, Drained, Forgets, HasSession
<1>5. ASSUME NEW t \in Started, Step(t), ~Phase1Store(t)
      PROVE  Forgets
  <2>1. CASE StartBuild(t) \/ Built(t) \/ Indexed(t) \/ IndexingFails(t)
             \/ Throws(t) \/ Phase1(t)
    BY <1>1, <2>1 DEF StartBuild, Built, Indexed, IndexingFails, Throws,
       Phase1, otherThanTask
  <2>2. CASE Phase2(t)
    BY <2>2, <1>a DEF Phase2, Phase2Turn, Forgets, HasSession, historyVars
  <2> QED
    BY <1>5, <2>1, <2>2 DEF Step
<1>6. ASSUME NEW r \in Requests,
             WakeUp(r) \/ \E d \in Docs, need \in Events : Ask(r, d, need)
      PROVE  Forgets
  BY <1>1, <1>6 DEF WakeUp, Ask, Reply, historyVars
<1>7. CASE UNCHANGED vars
  BY <1>1, <1>7 DEF vars
<1> QED
  BY <1>2, <1>3, <1>4, <1>5, <1>6, <1>7 DEF Next, Call

-----------------------------------------------------------------------------
(* Creations: they are started by UpdateSession only, and never restarted. *)

Progresses == creation' = creation /\ Unfinished' \subseteq Unfinished

\* A step of a creation starts none, and none that is done goes on.
LEMMA StepProgresses ==
    ASSUME TypeOK, NEW t \in Started, Step(t)
    PROVE  Progresses
<1>1. creation' = creation
  BY DEF Step, StartBuild, Built, Indexed, IndexingFails, Throws,
     Phase1, Phase1Store, Phase2, Phase2Turn, otherThanTask
<1>2. \E label \in PC : Goto(t, label)
  BY DEF Step, StartBuild, Built, Indexed, IndexingFails, Throws,
     Phase1, Phase1Store, Phase2, Phase2Turn, PC
<1>3. pc[t] # "done"
  BY DEF Step, StartBuild, Built, Indexed, IndexingFails, Throws,
     Compiles, Phase1, Phase1Store, Phase2, Phase2Turn
<1> QED
  BY <1>1, <1>2, <1>3, SameStarted DEF Progresses, Unfinished, Goto

\* Only UpdateSession starts a creation.
LEMMA CreationSteps ==
    ASSUME TypeOK, [Next]_vars
    PROVE  \/ Progresses
           \/ \E d \in Docs, v \in Versions, c \in Contents :
                 UpdateSession(d, v, c)
<1>1. UNCHANGED <<creation, pc>> => Progresses
  BY DEF Progresses, Unfinished, Started
<1>2. ASSUME NEW t \in Started, Step(t)
      PROVE  Progresses
  BY <1>2, StepProgresses
<1>3. ASSUME NEW d \in Docs,
             \/ InvalidateSessions(d) \/ CancelPendingSession(d)
             \/ ScheduleCleanup(d) \/ Cleanup(d)
      PROVE  Progresses
  BY <1>1, <1>3 DEF InvalidateSessions, ForgetTimer, CancelPendingSession, ScheduleCleanup,
     Cleanup, TimerExpires, CleanupJob, taskVars
<1>4. CASE UpdatePreambleManager \/ InvalidateAllSessions \/ SessionsDrained
  BY <1>1, <1>4 DEF UpdatePreambleManager, InvalidateAllSessions,
     SessionsDrained, Drained, taskVars
<1>5. ASSUME NEW r \in Requests,
             WakeUp(r) \/ \E d \in Docs, need \in Events : Ask(r, d, need)
      PROVE  Progresses
  BY <1>1, <1>5 DEF WakeUp, Ask, Reply, taskVars
<1>6. CASE UNCHANGED vars
  BY <1>1, <1>6 DEF vars
<1> QED
  BY <1>2, <1>3, <1>4, <1>5, <1>6 DEF Next, Call

(* A new creation runs for the current preamble and is tracked. *)
LEMMA UpdateStarts ==
    ASSUME TypeOK, NEW d \in Docs, NEW v \in Versions, NEW c \in Contents,
           UpdateSession(d, v, c)
    PROVE  /\ UNCHANGED <<preamble, drain, rebuild>>
           /\ \A e \in Docs : HasSession(e)' =>
                 HasSession(e) /\ sessions'[e] = sessions[e]
           /\ \A t \in Started : creation'[t] = creation[t]
           /\ \/ UNCHANGED <<creation, pc, cancelled, active, pending>>
              \/ \E n \in Tasks :
                   /\ n \notin Started
                   /\ Started' = Started \cup {n}
                   /\ creation'[n].preamble = preamble
                   /\ creation'[n].doc = d
                   /\ pc' = [pc EXCEPT ![n] = "queued"]
                   /\ cancelled' = [t \in Tasks |->
                                      cancelled[t] \/ t = pending[d]]
                   /\ pending' = [pending EXCEPT ![d] = n]
                   /\ active' = active \cup {n}
                   /\ Unfinished' = Unfinished \cup {n}
<1>a. sessions \in [Docs -> {NoEntry} \cup Entry]
      /\ pc \in [Tasks -> PC]
  BY DEF TypeOK, StoreOK, CreationsOK
<1>1. UNCHANGED <<preamble, drain, rebuild>>
  BY DEF UpdateSession, ForgetTimer
<1>2. \A e \in Docs : HasSession(e)' =>
         HasSession(e) /\ sessions'[e] = sessions[e]
  BY <1>a DEF UpdateSession, ForgetTimer, HasSession
<1>3. CASE UNCHANGED <<creation, taskVars, pending, active>>
  BY <1>1, <1>2, <1>3 DEF taskVars
<1>4. CASE /\ StartSessionCreation(d, v, c)
           /\ cancelled' = [t \in Tasks |-> cancelled[t] \/ t = pending[d]]
  <2>1. PICK n \in Tasks :
          /\ n \notin Started
          /\ Started' = Started \cup {n}
          /\ \A t \in Started : creation'[t] = creation[t]
          /\ creation'[n] = [doc |-> d, version |-> v, content |-> c,
                             preamble |-> preamble]
          /\ pc' = [pc EXCEPT ![n] = "queued"]
          /\ pending' = [pending EXCEPT ![d] = n]
          /\ active' = active \cup {n}
    BY <1>4, StartFacts
  <2>2. Unfinished' = Unfinished \cup {n}
    BY <2>1, <1>a, StartedFacts DEF Unfinished
  <2>3. creation'[n].preamble = preamble /\ creation'[n].doc = d
    BY <2>1
  <2>4. \E m \in Tasks :
          /\ m \notin Started
          /\ Started' = Started \cup {m}
          /\ creation'[m].preamble = preamble
          /\ creation'[m].doc = d
          /\ pc' = [pc EXCEPT ![m] = "queued"]
          /\ cancelled' = [t \in Tasks |-> cancelled[t] \/ t = pending[d]]
          /\ pending' = [pending EXCEPT ![d] = m]
          /\ active' = active \cup {m}
          /\ Unfinished' = Unfinished \cup {m}
    <3> WITNESS n \in Tasks
    <3> QED
      BY <1>4, <2>1, <2>2, <2>3
  <2> QED
    BY <1>1, <1>2, <2>1, <2>4
<1> QED
  BY <1>3, <1>4 DEF UpdateSession, ForgetTimer

(* Which preambles a state keeps alive, and where the creations that keep
   them are tracked: inductive, where OldPreambleReleased alone is not,
   because clearing the maps frees the old preamble only if every creation
   that captured it was among the tasks waited for. *)
HeldIn(allowed) ==
    /\ \A t \in Unfinished : creation[t].preamble \in allowed
    /\ \A d \in Docs :
          HasSession(d) => creation[sessions[d].by].preamble \in allowed

PreambleInv ==
    /\ HeldIn(IF rebuild = "idle" THEN {preamble} ELSE {preamble - 1, preamble})
    /\ Unfinished \subseteq active \cup drain
    /\ rebuild # "draining" => drain = {}
    /\ rebuild = "draining" =>
          \A t \in Unfinished : creation[t].preamble = preamble \/ t \in drain

\* HeldIn says which preambles are held.
LEMMA HeldFacts ==
    \A allowed : PreamblesHeld \subseteq allowed <=> HeldIn(allowed)
BY DEF PreamblesHeld, HeldIn

(* Steps that only forget keep no preamble alive that was not. *)
LEMMA HeldStep ==
    ASSUME Forgets, Progresses, NEW allowed, HeldIn(allowed)
    PROVE  HeldIn(allowed)'
BY DEF Forgets, Progresses, HeldIn, Unfinished

\* A preamble is kept by what is stored, or tracked and running.
LEMMA PreambleInvariant == Spec => []PreambleInv
<1>1. Init => PreambleInv
  BY DEF Init, PreambleInv, HeldIn, Unfinished, Started, HasSession
<1>2. TypeOK /\ PreambleInv /\ [Next]_vars => PreambleInv'
  <2> SUFFICES ASSUME TypeOK, PreambleInv, [Next]_vars
               PROVE  PreambleInv'
    OBVIOUS
  <2>a. preamble \in Nat /\ active \subseteq Started
    BY BoundsAssumption DEF TypeOK, RebuildOK
  <2>1. CASE Forgets /\ Progresses /\ UNCHANGED rebuildVars
    <3> DEFINE allowed == IF rebuild = "idle" THEN {preamble}
                          ELSE {preamble - 1, preamble}
    <3>1. HeldIn(allowed)'
      BY <2>1, HeldStep DEF PreambleInv, rebuildVars
    <3> QED
      BY <2>1, <3>1 DEF PreambleInv, rebuildVars, Progresses
  <2>2. CASE UpdatePreambleManager
    <3>1. Forgets /\ Progresses
      BY <2>2, <2>a DEF UpdatePreambleManager, Forgets, Progresses, taskVars,
         Unfinished, Started, HasSession, historyVars
    <3> QED
      BY <2>2, <2>a, <3>1 DEF PreambleInv, UpdatePreambleManager, HeldIn,
         Progresses, Forgets
  <2>3. CASE InvalidateAllSessions
    <3>1. Forgets /\ Progresses
      BY <2>3 DEF InvalidateAllSessions, Forgets, Progresses, Unfinished,
         Started, HasSession, historyVars
    <3> QED
      BY <2>3, <3>1 DEF PreambleInv, InvalidateAllSessions, HeldIn,
         Progresses, Forgets
  <2>4. CASE SessionsDrained
    <3>1. Unfinished' = Unfinished /\ creation' = creation
      BY <2>4 DEF SessionsDrained, Drained, taskVars, Unfinished, Started
    <3>2. \A t \in Unfinished : t \notin drain
      BY <2>4 DEF SessionsDrained, Drained, Unfinished
    <3>3. \A d \in Docs : ~HasSession(d)'
      BY <2>4 DEF SessionsDrained, Drained, HasSession
    <3> QED
      BY <2>4, <3>1, <3>2, <3>3 DEF PreambleInv, SessionsDrained, Drained, HeldIn
  <2>5. ASSUME NEW d \in Docs, NEW v \in Versions, NEW c \in Contents,
               UpdateSession(d, v, c)
        PROVE  PreambleInv'
    <3>1. \A e \in Docs : HasSession(e) => sessions[e].by \in Started
      BY DEF TypeOK, StoreOK
    <3>2. CASE UNCHANGED <<creation, pc, active>>
      BY <2>5, <3>1, <3>2, UpdateStarts DEF PreambleInv, HeldIn, Unfinished,
         Started
    <3>3. CASE \E n \in Tasks :
                 /\ creation'[n].preamble = preamble
                 /\ active' = active \cup {n}
                 /\ Unfinished' = Unfinished \cup {n}
      BY <2>5, <3>1, <3>3, UpdateStarts DEF PreambleInv, HeldIn, Unfinished
    <3> QED
      BY <2>5, <3>2, <3>3, UpdateStarts
  <2>6. ASSUME NEW t \in Started, Phase1Store(t)
        PROVE  PreambleInv'
    <3>1. Progresses
      BY <2>6, StepProgresses DEF Step
    <3>2. \A d \in Docs : HasSession(d)' =>
            \/ HasSession(d) /\ sessions'[d] = sessions[d]
            \/ sessions'[d].by \in Unfinished
      BY <2>6, TypeOK DEF Phase1Store, HasSession, Unfinished, TypeOK, StoreOK
    <3> QED
      BY <2>6, <3>1, <3>2 DEF PreambleInv, HeldIn, Phase1Store, rebuildVars,
         Progresses
  <2>7. \/ UNCHANGED rebuildVars
        \/ UpdatePreambleManager \/ InvalidateAllSessions \/ SessionsDrained
        \/ \E d \in Docs, v \in Versions, c \in Contents :
              UpdateSession(d, v, c)
    BY DEF Next, Call, Step, Cleanup, InvalidateSessions, ForgetTimer,
       CancelPendingSession, ScheduleCleanup, TimerExpires, CleanupJob,
       StartBuild, Built, Indexed, IndexingFails, Throws, Phase1, Phase1Store, Phase2, Phase2Turn,
       Ask, Reply, WakeUp, otherThanTask, vars, rebuildVars
  <2> QED
    BY <2>1, <2>2, <2>3, <2>4, <2>5, <2>6, <2>7, StoreSteps, CreationSteps
<1> QED
  BY <1>1, <1>2, TypeCorrect, PTL DEF Spec

(* A workspace rebuild ends with no session and no running creation of an
   older preamble, so that at most two preambles are alive at any time. *)
THEOREM OldPreambleIsReleased == Spec => []OldPreambleReleased
<1>1. PreambleInv => OldPreambleReleased
  BY HeldFacts DEF PreambleInv, OldPreambleReleased
<1> QED
  BY <1>1, PreambleInvariant, PTL

-----------------------------------------------------------------------------
(* The entries of pending_.                                                *)

(* PendingInFlight is inductive together with an entry being of its own
   document (part of StoreOK: cancelling one leaves the others alone) and with
   the flag of a creation being clear until it is started. *)
PendingInv ==
    /\ PendingInFlight
    /\ \A t \in Tasks : cancelled[t] => t \in Started

(* Unless a build throws, an entry of pending_ is a creation that runs, which
   nobody but InvalidateAllSessions has cancelled: every path that cancels a
   creation erases the entry in the same turn, and Phase 2 erases it. *)
THEOREM PendingIsInFlight == ~MayThrow => (Spec => []PendingInFlight)
<1> SUFFICES ASSUME ~MayThrow PROVE Spec => []PendingInFlight
  OBVIOUS
<1>1. Init => PendingInv
  BY DEF Init, PendingInv, PendingInFlight
<1>2. TypeOK /\ PendingInv /\ [Next]_vars => PendingInv'
  <2> SUFFICES ASSUME TypeOK, PendingInv, [Next]_vars
               PROVE  PendingInv'
    OBVIOUS
  <2>a. /\ pending \in [Docs -> {None} \cup Started]
        /\ cancelled \in [Tasks -> BOOLEAN]
        /\ pc \in [Tasks -> PC]
        /\ Started \subseteq Tasks /\ None \notin Tasks
    BY StartedFacts, BoundsAssumption DEF TypeOK, StoreOK, CreationsOK, None,
       Tasks
  <2>b. \A d \in Docs : pending[d] # None =>
          /\ pending[d] \in Unfinished /\ Doc(pending[d]) = d
          /\ cancelled[pending[d]] => rebuild = "draining"
    BY DEF PendingInv, PendingInFlight, TypeOK, StoreOK
  <2>1. CASE /\ UNCHANGED <<creation, pc, cancelled, pending>>
             /\ rebuild = "draining" => rebuild' = "draining"
    BY <2>1 DEF PendingInv, PendingInFlight, Unfinished, Started
  <2>2. ASSUME NEW d \in Docs, InvalidateSessions(d) \/ CancelPendingSession(d)
        PROVE  PendingInv'
    <3>1. /\ UNCHANGED <<creation, pc, rebuild>>
          /\ cancelled' = [t \in Tasks |-> cancelled[t] \/ t = pending[d]]
          /\ pending' = [pending EXCEPT ![d] = None]
      BY <2>2 DEF InvalidateSessions, ForgetTimer, CancelPendingSession, rebuildVars
    <3>2. Unfinished' = Unfinished /\ Started' = Started
      BY <3>1 DEF Unfinished, Started
    <3>3. \A t \in Tasks : cancelled'[t] => t \in Started
      BY <3>1, <2>a DEF PendingInv
    <3>4. ASSUME NEW e \in Docs, pending'[e] # None
          PROVE  /\ pending'[e] \in Unfinished
                 /\ cancelled'[pending'[e]] => rebuild = "draining"
      <4>1. e # d /\ pending'[e] = pending[e]
        BY <3>1, <3>4, <2>a
      <4>2. pending[e] # pending[d]
        BY <3>4, <4>1, <2>b
      <4> QED
        BY <3>1, <3>4, <4>1, <4>2, <2>a, <2>b
    <3> QED
      BY <3>1, <3>2, <3>3, <3>4 DEF PendingInv, PendingInFlight
  <2>3. CASE InvalidateAllSessions
    BY <2>3, <2>a DEF InvalidateAllSessions, PendingInv, PendingInFlight,
       Unfinished, Started
  <2>4. CASE SessionsDrained
    BY <2>4 DEF SessionsDrained, Drained, PendingInv, PendingInFlight, taskVars, Started
  <2>5. ASSUME NEW d \in Docs, NEW v \in Versions, NEW c \in Contents,
               UpdateSession(d, v, c)
        PROVE  PendingInv'
    <3>1. CASE UNCHANGED <<creation, pc, cancelled, pending>>
      BY <2>1, <2>5, <3>1, UpdateStarts
    <3>2. ASSUME NEW n \in Tasks,
                 n \notin Started, Started' = Started \cup {n},
                 cancelled' = [t \in Tasks |-> cancelled[t] \/ t = pending[d]],
                 pending' = [pending EXCEPT ![d] = n],
                 Unfinished' = Unfinished \cup {n}
          PROVE  PendingInv'
      <4>1. rebuild' = rebuild
        BY <2>5 DEF UpdateSession, ForgetTimer
      <4>2. \A t \in Tasks : cancelled'[t] => t \in Started'
        BY <3>2, <2>a DEF PendingInv
      <4>3. n # pending[d] /\ ~cancelled[n]
        BY <3>2, <2>a, StartedFacts DEF PendingInv, None, Tasks
      <4>4. ASSUME NEW e \in Docs, pending'[e] # None
            PROVE  /\ pending'[e] \in Unfinished'
                   /\ cancelled'[pending'[e]] => rebuild = "draining"
        <5>1. CASE e = d
          BY <3>2, <4>3, <5>1, <2>a
        <5>2. CASE e # d
          BY <3>2, <4>4, <5>2, <2>a, <2>b
        <5> QED
          BY <5>1, <5>2
      <4> QED
        BY <4>1, <4>2, <4>4 DEF PendingInv, PendingInFlight
    <3> QED
      BY <2>5, <3>1, <3>2, UpdateStarts
  <2>6. ASSUME NEW t \in Started, Step(t)
        PROVE  PendingInv'
    <3>1. UNCHANGED <<creation, cancelled, rebuild>>
      BY <2>6 DEF Step, StartBuild, Built, Indexed, IndexingFails, Throws,
         Phase1, Phase1Store, Phase2, Phase2Turn, otherThanTask, rebuildVars
    <3>2. CASE pending' = pending
               /\ \E label \in PC \ {"done"} : Goto(t, label)
      BY <3>1, <3>2, <2>a, SameStarted DEF PendingInv, PendingInFlight,
         Unfinished, Goto
    <3>3. CASE Phase2(t)
      <4>1. Doc(t) \in Docs
        BY StartedFacts DEF Doc, Creation
      <4>2. \A d \in Docs : pending'[d] \in {pending[d], None}
                           /\ pending'[d] # t
        <5>1. \A d \in Docs : pending[d] = t => d = Doc(t)
          BY <2>a, <2>b
        <5>2. pending[Doc(t)] = t => PendingVersion(Doc(t), Version(t))
          BY <2>a DEF PendingVersion
        <5> QED
          BY <3>3, <4>1, <5>1, <5>2, <2>a DEF Phase2, Phase2Turn
      <4>3. \A u \in Unfinished : u # t => u \in Unfinished'
        BY <3>1, <3>3, <2>a, SameStarted DEF Phase2, Phase2Turn, Goto, Unfinished
      <4> QED
        BY <3>1, <4>2, <4>3, SameStarted DEF PendingInv, PendingInFlight
    <3> QED
      BY <2>6, <3>2, <3>3 DEF Step, StartBuild, Built, Indexed, IndexingFails,
         Throws, Phase1, Phase1Store, otherThanTask, PC
  <2>7. ASSUME NEW d \in Docs, ScheduleCleanup(d) \/ Cleanup(d)
        PROVE  PendingInv'
    BY <2>1, <2>7 DEF ScheduleCleanup, Cleanup, TimerExpires, CleanupJob,
       taskVars, rebuildVars
  <2>8. CASE UpdatePreambleManager
    BY <2>1, <2>8 DEF UpdatePreambleManager, taskVars
  <2>9. ASSUME NEW r \in Requests,
               WakeUp(r) \/ \E d \in Docs, need \in Events : Ask(r, d, need)
        PROVE  PendingInv'
    BY <2>1, <2>9 DEF WakeUp, Ask, Reply, taskVars, rebuildVars
  <2>10. CASE UNCHANGED vars
    BY <2>1, <2>10 DEF vars
  <2> QED
    BY <2>2, <2>3, <2>4, <2>5, <2>6, <2>7, <2>8, <2>9, <2>10 DEF Next, Call
<1> QED
  BY <1>1, <1>2, TypeCorrect, PTL DEF Spec, PendingInv

-----------------------------------------------------------------------------
(* Closed documents.                                                       *)

(* What makes ClosedIsDoomed inductive: a withdrawn document has no pending
   entry, hence none but a late creation can store a session behind the timer's
   back, and a timer that is registered but not armed has its job posted, or
   was stopped by a rebuild that will clear the map. *)
CleanupInv ==
    \A d \in Docs :
        /\ asked[d] \in {"withdrawn", "closed"} => pending[d] = None
        /\ timers[d] # "none" => asked[d] = "closed"
        /\ asked[d] = "closed" /\ HasSession(d) /\ sessions[d].by \notin late =>
              timers[d] # "none"
        /\ timers[d] = "expired" => jobs[d] > 0
        /\ timers[d] = "stopped" => rebuild = "draining"

\* The cleanup of a document belongs to one that is closed.
LEMMA CleanupInvariant == Spec => []CleanupInv
<1>1. Init => CleanupInv
  BY DEF Init, CleanupInv, HasSession
<1>2. TypeOK /\ CleanupInv /\ [Next]_vars => CleanupInv'
  <2> SUFFICES ASSUME TypeOK, CleanupInv, [Next]_vars PROVE CleanupInv'
    OBVIOUS
  <2>a. /\ pending \in [Docs -> {None} \cup Started]
        /\ sessions \in [Docs -> {NoEntry} \cup Entry]
        /\ timers \in [Docs -> {"none", "armed", "stopped", "expired"}]
        /\ jobs \in [Docs -> 0 .. MaxJobs]
        /\ asked \in [Docs -> {"never", "wanted", "withdrawn", "closed"}]
    BY DEF TypeOK, StoreOK, CleanupOK, ClientOK
  <2>b. MaxJobs \in Nat
    BY BoundsAssumption
  <2>1. CASE /\ UNCHANGED <<timers, jobs, sessions, rebuild, late>>
             /\ \A d \in Docs : pending'[d] \in {pending[d], None}
             /\ \A d \in Docs :
                   \/ asked'[d] = asked[d]
                   \/ asked[d] = "wanted" /\ asked'[d] = "never"
    BY <2>1 DEF CleanupInv, HasSession
  <2>2. ASSUME NEW d \in Docs, NEW v \in Versions, NEW c \in Contents,
               UpdateSession(d, v, c)
        PROVE  CleanupInv'
    <3>1. /\ timers' = [timers EXCEPT ![d] = "none"]
          /\ asked' = [asked EXCEPT ![d] = "wanted"]
          /\ UNCHANGED <<jobs, rebuild, late>>
      BY <2>2 DEF UpdateSession, ForgetTimer
    <3>2. \A e \in Docs \ {d} : /\ pending'[e] = pending[e]
                                /\ sessions'[e] = sessions[e]
      BY <2>2, <2>a DEF UpdateSession, ForgetTimer, StartSessionCreation
    <3> QED
      BY <3>1, <3>2, <2>a DEF CleanupInv, HasSession
  <2>3. ASSUME NEW d \in Docs, InvalidateSessions(d)
        PROVE  CleanupInv'
    BY <2>3, <2>a DEF InvalidateSessions, ForgetTimer, CleanupInv, HasSession, rebuildVars
  <2>4. ASSUME NEW d \in Docs, CancelPendingSession(d)
        PROVE  CleanupInv'
    BY <2>4, <2>a DEF CancelPendingSession, CleanupInv, HasSession,
       timerVars, rebuildVars
  <2>5. ASSUME NEW d \in Docs, ScheduleCleanup(d)
        PROVE  CleanupInv'
    BY <2>5, <2>a DEF ScheduleCleanup, CleanupInv, HasSession, rebuildVars
  <2>6. ASSUME NEW d \in Docs, TimerExpires(d)
        PROVE  CleanupInv'
    BY <2>6, <2>a, <2>b DEF TimerExpires, CleanupInv, HasSession, rebuildVars,
       historyVars
  <2>7. ASSUME NEW d \in Docs, CleanupJob(d)
        PROVE  CleanupInv'
    <3>1. CASE timers[d] # "none"
      BY <2>7, <3>1, <2>a, <2>b DEF CleanupJob, CleanupInv, HasSession,
         rebuildVars, historyVars
    <3>2. CASE timers[d] = "none"
      BY <2>7, <3>2, <2>a, <2>b DEF CleanupJob, CleanupInv, HasSession,
         rebuildVars, historyVars
    <3> QED
      BY <3>1, <3>2
  <2>8. CASE UpdatePreambleManager
    BY <2>8 DEF UpdatePreambleManager, CleanupInv, HasSession, timerVars,
       historyVars
  <2>9. CASE InvalidateAllSessions
    BY <2>9, <2>a DEF InvalidateAllSessions, CleanupInv, HasSession,
       historyVars
  <2>10. CASE SessionsDrained
    BY <2>10, <2>a DEF SessionsDrained, Drained, CleanupInv, HasSession
  <2>11. ASSUME NEW t \in Started, Phase1Store(t)
         PROVE  CleanupInv'
    <3>1. UNCHANGED <<pending, asked, timers, jobs, rebuild>> /\ late \subseteq late'
      BY <2>11 DEF Phase1Store, timerVars, rebuildVars
    <3>2. ASSUME NEW d \in Docs, HasSession(d)', sessions'[d].by \notin late'
          PROVE  \/ pending[d] # None
                 \/ HasSession(d) /\ sessions[d].by \notin late
      BY <2>11, <3>1, <3>2, <2>a DEF Phase1Store, MayStore, HasSession,
         PendingVersion
    <3> QED
      BY <3>1, <3>2 DEF CleanupInv
  <2>12. ASSUME NEW t \in Started, Phase2(t)
         PROVE  CleanupInv'
    <3>1. \A d \in Docs : /\ HasSession(d)' => /\ HasSession(d)
                                              /\ sessions'[d].by = sessions[d].by
                          /\ pending'[d] \in {pending[d], None}
      BY <2>12, <2>a DEF Phase2, Phase2Turn, HasSession
    <3> QED
      BY <2>12, <3>1 DEF Phase2, Phase2Turn, CleanupInv, timerVars, rebuildVars,
         historyVars
  <2>13. ASSUME NEW t \in Started,
                \/ StartBuild(t) \/ Built(t) \/ Indexed(t)
                \/ IndexingFails(t) \/ Throws(t) \/ Phase1(t)
         PROVE  CleanupInv'
    <3>1. UNCHANGED <<timers, jobs, sessions, rebuild, pending, late>>
      BY <2>13 DEF StartBuild, Built, Indexed, IndexingFails, Throws, Phase1,
         otherThanTask, timerVars, rebuildVars
    <3>2. \A d \in Docs : \/ asked'[d] = asked[d]
                          \/ asked[d] = "wanted" /\ asked'[d] = "never"
      BY <2>13, <2>a DEF StartBuild, Built, Indexed, IndexingFails, Throws,
         Phase1, GiveUp
    <3> QED
      BY <2>1, <3>1, <3>2
  <2>14. ASSUME NEW r \in Requests,
                WakeUp(r) \/ \E d \in Docs, need \in Events : Ask(r, d, need)
         PROVE  CleanupInv'
    BY <2>1, <2>14 DEF WakeUp, Ask, Reply, timerVars, rebuildVars, historyVars
  <2>15. CASE UNCHANGED vars
    BY <2>1, <2>15 DEF vars
  <2> QED
    BY <2>2, <2>3, <2>4, <2>5, <2>6, <2>7, <2>8, <2>9, <2>10, <2>11, <2>12,
       <2>13, <2>14, <2>15 DEF Next, Call, Step, Cleanup
<1> QED
  BY <1>1, <1>2, TypeCorrect, PTL DEF Spec

(* A cleanup timer is registered for closed documents only: a document that
   is open again cannot lose its session to a callback already posted. *)
THEOREM OpenSessionsAreSafe == Spec => []CleanupOnlyIfClosed
<1>1. CleanupInv => CleanupOnlyIfClosed
  BY DEF CleanupInv, CleanupOnlyIfClosed
<1> QED
  BY <1>1, CleanupInvariant, PTL

(* The session of a closed document is always on its way out, unless it was
   stored when the creation should no longer have: whatever the callers do with
   versions, and whether or not a build throws. *)
THEOREM ClosedSessionsAreDoomed == Spec => []ClosedIsDoomed
<1>1. TypeOK /\ CleanupInv => ClosedIsDoomed
  BY DEF TypeOK, CleanupOK, CleanupInv, ClosedIsDoomed
<1> QED
  BY <1>1, TypeCorrect, CleanupInvariant, PTL

=============================================================================
