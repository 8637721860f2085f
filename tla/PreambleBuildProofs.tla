------------------------- MODULE PreambleBuildProofs -------------------------
(* Proofs about PreambleBuild, for every number of source files.            *)
EXTENDS PreambleBuild, FiniteSetTheorems, TLAPS

(* What a file's place in the loop and in the pool says about the count: the
   Barrier counts those that have arrived, a parse that was posted is below
   the loop counter, and the event is set only by the one that counts to the
   number of files. *)
BarrierInv ==
    /\ completed = Cardinality(Arrived)
    /\ pc = "start" => files = 0 /\ index = 1
    /\ pc \in {"start", "posting"} =>
          \A i \in Indices : worker[i] # "none" => i < index
    /\ \A i \in Indices : worker[i] # "none" => i <= files
    /\ fired \/ (\E i \in Indices : worker[i] = "last") =>
          completed = files /\ files > 0
    /\ pc \in {"collecting", "done"} => fired \/ files = 0

\* The build's counters, workers and waiter stay within their types.
THEOREM BuildTypes == Spec => []TypeOK
<1>1. Init => TypeOK
  <2> SUFFICES ASSUME Init PROVE TypeOK
    OBVIOUS
  <2>1. fired = FALSE /\ waiter \in [{Build} -> Event!State]
    BY DEF Init, Event!Init, Event!State
  <2>2. index \in 1 .. MaxFiles + 1 /\ files \in 0 .. MaxFiles
    BY FilesAssumption DEF Init
  <2>3. /\ worker \in [Indices ->
                      {"none", "posted", "parsed", "last", "gone"}]
        /\ results \in [Indices -> {"tree", "nullopt"}]
    BY DEF Init
  <2> QED
    BY <2>1, <2>2, <2>3 DEF Init, TypeOK
<1>2. TypeOK /\ [Next]_vars => TypeOK'
  <2> SUFFICES ASSUME TypeOK, [Next]_vars PROVE TypeOK'
    OBVIOUS
  <2> USE FilesAssumption DEF TypeOK, Indices
  <2>1. CASE Coroutine
    <3>1. CASE \E n \in 0 .. MaxFiles : GetSourceFiles(n)
      BY <3>1 DEF GetSourceFiles
    <3>2. CASE PostParse
      BY <3>2 DEF PostParse
    <3>3. CASE AwaitBarrier
      BY <3>3 DEF AwaitBarrier, Event!Wait, Event!State, Build
    <3>4. CASE ResumeBuild
      BY <3>4 DEF ResumeBuild, Event!Wake, Event!State, Build
    <3>5. CASE Collect
      <4>1. index \in Indices /\ index' \in 1 .. MaxFiles + 1
        BY <3>5 DEF Collect
      <4>2. added' \subseteq Indices /\ failed' \subseteq Indices
        BY <3>5, <4>1 DEF Collect
      <4> QED
        BY <3>5, <4>1, <4>2 DEF Collect
    <3>6. CASE Return
      BY <3>6 DEF Return
    <3> QED
      BY <2>1, <3>1, <3>2, <3>3, <3>4, <3>5, <3>6 DEF Coroutine
  <2>2. ASSUME NEW i \in Indices, Worker(i)
        PROVE  TypeOK'
    <3>1. ASSUME NEW result \in {"tree", "nullopt"}, Parse(i, result)
          PROVE  TypeOK'
      BY <3>1 DEF Parse
    <3>2. CASE Arrive(i)
      BY <3>2 DEF Arrive
    <3>3. CASE SetEvent(i)
      BY <3>3 DEF SetEvent, Event!Fire
    <3> QED
      BY <2>2, <3>1, <3>2, <3>3 DEF Worker
  <2>3. CASE UNCHANGED vars
    BY <2>3 DEF vars
  <2> QED
    BY <2>1, <2>2, <2>3 DEF Next
<1> QED
  BY <1>1, <1>2, PTL DEF Spec

\* The workers that have arrived are some of those posted, counted.
LEMMA ArrivedFacts ==
    ASSUME TypeOK
    PROVE  /\ IsFiniteSet(Arrived) /\ Cardinality(Arrived) \in Nat
           /\ Cardinality(Arrived) <= files
           /\ Cardinality(1 .. files) = files
           /\ Arrived \subseteq 1 .. files
           /\ Cardinality(Arrived) = files => Arrived = 1 .. files
<1>1. files \in Nat
  BY FilesAssumption DEF TypeOK
<1>2. IsFiniteSet(1 .. files) /\ Cardinality(1 .. files) = files
  BY <1>1, FS_Interval
<1>3. Arrived \subseteq 1 .. files
  BY DEF Arrived
<1> QED
  BY <1>2, <1>3, FS_Subset, FS_CardinalityType

\* The counter is that of the arrivals, and the last of them fires.
LEMMA BarrierInvariant == Spec => []BarrierInv
<1>1. Init => BarrierInv
  <2> SUFFICES ASSUME Init PROVE BarrierInv
    OBVIOUS
  <2>1. Arrived = {}
    BY DEF Init, Arrived
  <2>2. completed = Cardinality(Arrived)
    BY <2>1, FS_EmptySet DEF Init
  <2> QED
    BY <2>2 DEF Init, BarrierInv, Event!Init
<1>2. TypeOK /\ BarrierInv /\ [Next]_vars => BarrierInv'
  <2> SUFFICES ASSUME TypeOK, BarrierInv, [Next]_vars PROVE BarrierInv'
    OBVIOUS
  <2>a. /\ files \in Nat /\ index \in Nat /\ completed \in Nat
        /\ worker \in [Indices -> {"none", "posted", "parsed", "last", "gone"}]
        /\ MaxFiles \in Nat
    BY FilesAssumption DEF TypeOK
  <2>b. Indices = 1 .. MaxFiles
    BY DEF Indices
  <2>1. ASSUME NEW n \in 0 .. MaxFiles, GetSourceFiles(n)
        PROVE  BarrierInv'
    <3>1. \A i \in Indices : worker[i] = "none"
      BY <2>1, <2>a, <2>b DEF GetSourceFiles, BarrierInv
    <3>2. /\ pc = "start" /\ files = 0 /\ completed = 0 /\ ~fired
      <4>1. Arrived = {}
        BY <2>1, <2>a DEF GetSourceFiles, BarrierInv, Arrived
      <4> QED
        BY <2>1, <4>1, FS_EmptySet DEF GetSourceFiles, BarrierInv
    <3>3. Arrived' = {}
      BY <2>1, <3>1, <2>a, <2>b DEF GetSourceFiles, Arrived
    <3>4. completed' = Cardinality(Arrived')
      BY <2>1, <3>2, <3>3, FS_EmptySet DEF GetSourceFiles
    <3> QED
      BY <2>1, <3>1, <3>2, <3>4 DEF GetSourceFiles, BarrierInv
  <2>2. CASE PostParse
    <3>1. /\ worker' = [worker EXCEPT ![index] = "posted"]
          /\ index <= files /\ index' = index + 1 /\ pc = "posting"
          /\ UNCHANGED <<pc, files, completed, fired>>
      BY <2>2 DEF PostParse
    <3>2. index \in Indices /\ worker[index] = "none"
      BY <3>1, <2>a, <2>b DEF BarrierInv, TypeOK
    <3>3. Arrived' = Arrived
      BY <3>1, <3>2, <2>a, <2>b DEF Arrived, TypeOK
    <3>4. \A i \in Indices : worker'[i] # "none" => worker[i] # "none" \/ i = index
      BY <3>1, <2>a
    <3>5. \A i \in Indices : worker'[i] = "last" => worker[i] = "last"
      BY <3>1, <2>a
    <3> QED
      BY <3>1, <3>3, <3>4, <3>5, <2>a, <2>b DEF BarrierInv
  <2>3. CASE AwaitBarrier
    BY <2>3 DEF AwaitBarrier, BarrierInv, Event!Wait, Arrived
  <2>4. CASE ResumeBuild
    BY <2>4 DEF ResumeBuild, BarrierInv, Event!Wake, Arrived
  <2>5. CASE Collect
    BY <2>5 DEF Collect, BarrierInv, Arrived
  <2>6. CASE Return
    BY <2>6 DEF Return, BarrierInv, Arrived
  <2>7. ASSUME NEW i \in Indices, NEW result \in {"tree", "nullopt"},
               Parse(i, result)
        PROVE  BarrierInv'
    <3>1. /\ worker[i] = "posted"
          /\ worker' = [worker EXCEPT ![i] = "parsed"]
          /\ UNCHANGED <<pc, files, index, completed, fired>>
      BY <2>7 DEF Parse
    <3>2. Arrived' = Arrived
      BY <3>1, <2>a DEF Arrived, TypeOK, Indices
    <3> QED
      BY <3>1, <3>2, <2>a DEF BarrierInv
  <2>8. ASSUME NEW i \in Indices, Arrive(i)
        PROVE  BarrierInv'
    <3>1. /\ worker[i] = "parsed"
          /\ completed' = completed + 1
          /\ worker' = [worker EXCEPT ![i] =
                          IF completed' = files THEN "last" ELSE "gone"]
          /\ UNCHANGED <<pc, files, index, fired>>
      BY <2>8 DEF Arrive
    <3>2. i \in 1 .. files /\ i \notin Arrived
      BY <3>1, <2>a, <2>b DEF BarrierInv, Arrived
    <3>3. Arrived' = Arrived \cup {i}
      BY <3>1, <3>2, <2>a, <2>b DEF Arrived, TypeOK
    <3>4. Cardinality(Arrived') = Cardinality(Arrived) + 1
      BY <3>2, <3>3, ArrivedFacts, FS_AddElement
    <3>5. completed < files
      <4>1. Cardinality(Arrived) # files
        BY <3>2, ArrivedFacts
      <4>2. Cardinality(Arrived) <= files
        BY ArrivedFacts
      <4> QED
        BY <4>1, <4>2, <2>a DEF BarrierInv
    <3>6. ~fired /\ \A j \in Indices : worker[j] # "last"
      BY <3>5, <2>a DEF BarrierInv
    <3>7. \A j \in Indices : worker'[j] = "last" =>
             j = i /\ completed' = files
      BY <3>1, <3>6, <2>a
    <3>8. \A j \in Indices : worker'[j] # "none" => worker[j] # "none"
      BY <3>1, <2>a
    <3> QED
      BY <3>1, <3>2, <3>4, <3>5, <3>6, <3>7, <3>8, <2>a DEF BarrierInv
  <2>9. ASSUME NEW i \in Indices, SetEvent(i)
        PROVE  BarrierInv'
    <3>1. /\ worker[i] = "last"
          /\ worker' = [worker EXCEPT ![i] = "gone"]
          /\ UNCHANGED <<pc, files, index, completed>>
      BY <2>9 DEF SetEvent
    <3>2. Arrived' = Arrived
      BY <3>1, <2>a, <2>b DEF Arrived, TypeOK
    <3>3. fired' /\ completed = files /\ files > 0
      BY <2>9, <3>1 DEF SetEvent, Event!Fire, BarrierInv
    <3> QED
      BY <3>1, <3>2, <3>3, <2>a DEF BarrierInv
  <2>10. CASE UNCHANGED vars
    BY <2>10 DEF vars, BarrierInv, Arrived
  <2> QED
    BY <2>1, <2>2, <2>3, <2>4, <2>5, <2>6, <2>7, <2>8, <2>9, <2>10
       DEF Next, Coroutine, Worker
<1> QED
  BY <1>1, <1>2, BuildTypes, PTL DEF Spec

(* The coroutine never leaves its wait before the last parse has counted
   itself, so no parse uses a frame that is gone. *)
THEOREM ParsesEndInTime == Spec => []FrameOutlivesParses
<1>1. TypeOK /\ BarrierInv => FrameOutlivesParses
  <2> SUFFICES ASSUME TypeOK, BarrierInv, pc \in {"collecting", "done"}
               PROVE  Arrived = 1 .. files
    BY DEF FrameOutlivesParses
  <2>1. CASE fired
    BY <2>1, ArrivedFacts DEF BarrierInv
  <2>2. CASE files = 0
    BY <2>2 DEF Arrived
  <2> QED
    BY <2>1, <2>2 DEF BarrierInv
<1> QED
  BY <1>1, BuildTypes, BarrierInvariant, PTL

(* The loop has sorted the files before its counter, and nothing has been
   sorted before the loop.  Inductive because no parse is left that could
   still change a result the loop has read. *)
CollectInv ==
    /\ pc \in {"start", "posting", "waiting"} => added = {} /\ failed = {}
    /\ pc = "collecting" =>
          /\ index <= files + 1
          /\ added = {i \in 1 .. index - 1 : results[i] = "tree"}
          /\ failed = (1 .. index - 1) \ added
    /\ PreambleComplete

(* The preamble is built from the trees of all files that parsed, whatever the
   order in which the pool parsed them. *)
THEOREM PreambleIsComplete == Spec => []PreambleComplete
<1>1. Init => CollectInv
  BY DEF Init, CollectInv, PreambleComplete
<1>2. TypeOK /\ BarrierInv /\ FrameOutlivesParses /\ CollectInv /\ [Next]_vars
        => CollectInv'
  <2> SUFFICES ASSUME TypeOK, BarrierInv, FrameOutlivesParses, CollectInv,
                      [Next]_vars
               PROVE  CollectInv'
    OBVIOUS
  <2>a. files \in Nat /\ index \in Nat /\ index >= 1
    BY FilesAssumption DEF TypeOK
  <2>1. ASSUME NEW n \in 0 .. MaxFiles, GetSourceFiles(n)
        PROVE  CollectInv'
    BY <2>1 DEF GetSourceFiles, CollectInv, PreambleComplete
  <2>2. CASE PostParse \/ AwaitBarrier
    BY <2>2 DEF PostParse, AwaitBarrier, CollectInv, PreambleComplete
  <2>3. CASE ResumeBuild
    <3>1. /\ pc = "waiting" /\ pc' = "collecting" /\ index' = 1
          /\ UNCHANGED <<files, added, failed>>
      BY <2>3 DEF ResumeBuild
    <3>2. 1 .. index' - 1 = {}
      BY <3>1
    <3>3. {i \in 1 .. index' - 1 : results'[i] = "tree"} = {}
      BY <3>2
    <3> QED
      BY <3>1, <3>2, <3>3, <2>a DEF CollectInv, PreambleComplete
  <2>4. CASE Collect
    <3>1. /\ pc = "collecting" /\ index <= files /\ index' = index + 1
          /\ UNCHANGED <<pc, files, results>>
      BY <2>4 DEF Collect
    <3>2. 1 .. index' - 1 = (1 .. index - 1) \cup {index}
          /\ index \notin 1 .. index - 1
      BY <3>1, <2>a
    <3>3. CASE results[index] = "tree"
      BY <2>4, <3>1, <3>2, <3>3, <2>a DEF Collect, CollectInv, PreambleComplete
    <3>4. CASE results[index] # "tree"
      BY <2>4, <3>1, <3>2, <3>4, <2>a DEF Collect, CollectInv, PreambleComplete
    <3> QED
      BY <3>3, <3>4
  <2>5. CASE Return
    <3>1. /\ pc = "collecting" /\ pc' = "done" /\ index > files
          /\ UNCHANGED <<files, results, added, failed>>
      BY <2>5 DEF Return
    <3>2. index - 1 = files
      BY <3>1, <2>a DEF CollectInv
    <3> QED
      BY <3>1, <3>2 DEF CollectInv, PreambleComplete
  <2>6. ASSUME NEW i \in Indices, NEW result \in {"tree", "nullopt"},
               Parse(i, result)
        PROVE  CollectInv'
    <3>1. i \in 1 .. files /\ i \notin Arrived
      BY <2>6, <2>a, FilesAssumption DEF Parse, BarrierInv, Arrived, Indices
    <3>2. pc \notin {"collecting", "done"}
      BY <3>1 DEF FrameOutlivesParses
    <3> QED
      BY <2>6, <3>2 DEF Parse, CollectInv, PreambleComplete
  <2>7. ASSUME NEW i \in Indices, Arrive(i) \/ SetEvent(i)
        PROVE  CollectInv'
    BY <2>7 DEF Arrive, SetEvent, CollectInv, PreambleComplete
  <2>8. CASE UNCHANGED vars
    BY <2>8 DEF vars, CollectInv, PreambleComplete
  <2> QED
    BY <2>1, <2>2, <2>3, <2>4, <2>5, <2>6, <2>7, <2>8
       DEF Next, Coroutine, Worker
<1>3. CollectInv => PreambleComplete
  BY DEF CollectInv
<1> QED
  BY <1>1, <1>2, <1>3, BuildTypes, BarrierInvariant, ParsesEndInTime, PTL
  DEF Spec

=============================================================================
