------------------------- MODULE SlangdServerProofs -------------------------
(***************************************************************************)
(* Theorems of SlangdServer, for every workspace, every configuration and  *)
(* every number of changes.                                                *)
(***************************************************************************)
EXTENDS SlangdServer, WellFoundedInduction, TLAPS

-----------------------------------------------------------------------------

\* What a scan builds is selected: the filter is applied to all sources, and
\* without discovery only the named and listed files are left.
LEMMA BuildIsSelected ==
    ASSUME NEW c, NEW d, NEW path \in BuildFromConfig(c, d)
    PROVE  Selected(c, path)
  BY DEF BuildFromConfig, Selected, ExplicitFiles

\* What AddFile and RemoveFile leave is selected.
LEMMA IncrementIsSelected ==
    ASSUME FilesAreSelected, NEW path, config' = config,
           AddFile(path) \/ RemoveFile(path)
    PROVE  FilesAreSelected'
  <1> DEFINE Now(files) == \A p \in files : Selected(config, p)
  <1>1. CASE UNCHANGED layout
    BY <1>1 DEF FilesAreSelected, Selected
  <1>2. CASE /\ config.autoDiscover /\ ShouldIncludeFile(config, Relative(path))
             /\ SetFiles(layout.files \cup {path})
    BY <1>2 DEF FilesAreSelected, Selected, SetFiles
  <1>3. CASE SetFiles(layout.files \ {path})
    BY <1>3 DEF FilesAreSelected, Selected, SetFiles
  <1> QED
    BY <1>1, <1>2, <1>3 DEF AddFile, RemoveFile

\* FilesAreSelected for every run of the server.
THEOREM LayoutIsSelected == Spec => []FilesAreSelected
  <1>1. Init => FilesAreSelected
    BY DEF Init, FilesAreSelected
  <1>2. FilesAreSelected /\ [Next]_vars => FilesAreSelected'
    <2> SUFFICES ASSUME FilesAreSelected, [Next]_vars PROVE FilesAreSelected'
      OBVIOUS
    <2>1. CASE UNCHANGED layoutVars
      BY <2>1 DEF layoutVars, FilesAreSelected, Selected
    <2>2. ASSUME NEW loaded, RebuildLayout(loaded) PROVE FilesAreSelected'
      BY <2>2, BuildIsSelected DEF RebuildLayout, FilesAreSelected
    <2>3. CASE LoadConfig
      BY <2>2, <2>3 DEF LoadConfig
    <2>4. CASE HandleSourceFileChange
      BY <2>4, IncrementIsSelected DEF HandleSourceFileChange
    <2>5. CASE HandleConfigChange
      BY <2>1, <2>2, <2>5 DEF HandleConfigChange, HandleConfigFileChange
    <2>6. CASE LifeCycle \/ World \/ Registers
      BY <2>1, <2>6 DEF LifeCycle, OnInitialize, OnInitialized, OnExit, World,
         ChangeFile, EditConfig, Ask, Registers, RegisterCapability
    <2>7. CASE OnDidChangeWatchedFiles \/ WorkspaceReady \/ ResumeHandler
      BY <2>1, <2>7 DEF OnDidChangeWatchedFiles, WorkspaceReady, ResumeHandler
    <2>8. CASE RebuildEnds \/ TimerExpires \/ ProcessEnds
      BY <2>1, <2>8 DEF RebuildEnds, TimerExpires,
         ProcessEnds
    <2>9. CASE \E r \in Requests : Answer(r)
      BY <2>1, <2>9 DEF Answer
    <2>10. CASE UNCHANGED vars
      BY <2>1, <2>10 DEF vars
    <2> QED
      BY <2>3, <2>4, <2>5, <2>6, <2>7, <2>8, <2>9, <2>10
      DEF Next, Initializing, Handling
  <1> QED
    BY <1>1, <1>2, PTL DEF Spec

-----------------------------------------------------------------------------
\* What the provers know of the sequences of the state.

\* Appending and taking off keep the elements what they are.
LEMMA AppendFacts ==
    ASSUME NEW S, NEW s \in Seq(S), NEW e \in S
    PROVE  /\ Append(s, e) \in Seq(S)
           /\ Range(Append(s, e)) = Range(s) \cup {e}
  <1>1. /\ Append(s, e) \in Seq(S) /\ Len(s) \in Nat
        /\ DOMAIN s = 1 .. Len(s)
        /\ DOMAIN Append(s, e) = 1 .. Len(s) + 1
        /\ Append(s, e)[Len(s) + 1] = e
        /\ \A i \in 1 .. Len(s) : Append(s, e)[i] = s[i]
    OBVIOUS
  <1>2. 1 .. Len(s) + 1 = (1 .. Len(s)) \cup {Len(s) + 1}
    BY <1>1
  <1> QED
    BY <1>1, <1>2 DEF Range

\* What is behind the head of a sequence.
LEMMA TailFacts ==
    ASSUME NEW S, NEW s \in Seq(S), s # <<>>
    PROVE  /\ Tail(s) \in Seq(S) /\ Head(s) \in S
           /\ Head(s) = s[1] /\ Head(s) \in Range(s)
           /\ Range(Tail(s)) \subseteq Range(s)
           /\ Len(Tail(s)) = Len(s) - 1
           /\ \A i \in 1 .. Len(s) - 1 : Tail(s)[i] = s[i + 1]
  BY DEF Range

\* What is left of a handler, if anything, goes to the end of the queue.
LEMMA GoesOnFacts ==
    ASSUME NEW queue \in Seq(Handlers), NEW h \in Handlers
    PROVE  /\ GoesOn(queue, h) \in Seq(Handlers)
           /\ \A g \in Range(GoesOn(queue, h)) :
                 \/ g \in Range(queue)
                 \/ g = h /\ (h.todo # <<>> \/ h.reload)
  <1>1. CASE h = Handler(<<>>, FALSE)
    BY <1>1 DEF GoesOn
  <1>2. CASE h # Handler(<<>>, FALSE)
    <2>1. h.todo # <<>> \/ h.reload
      BY <1>2 DEF Handlers, Handler
    <2> QED
      BY <1>2, <2>1, AppendFacts DEF GoesOn
  <1> QED
    BY <1>1, <1>2

\* The scan of a configuration finds paths only.
LEMMA ScanFinds ==
    ASSUME NEW new \in Texts, NEW d \in SUBSET Paths
    PROVE  BuildFromConfig(ConfigOf(new), d) \subseteq Paths
  BY ListsAssumption DEF BuildFromConfig, DiscoveredFiles, ExplicitFiles,
     FindSystemVerilogFilesInDirectory

\* The parts of the type invariant that one or two components of the system
\* change together.
ClientOK ==
    /\ client \in [stage : {"start", "rejected", "accepted", "running", "exited"},
                  events : Seq(Changes \cup {ConfigChange})]
    /\ client.stage \in {"start", "rejected", "accepted"} => init = "none"
    /\ missed \subseteq Paths \cup {ConfigChange.path}
WorldOK ==
    /\ disk \subseteq Paths /\ text \in Texts /\ made \in 0 .. MaxDeeds
    /\ asked \in [Requests -> {"unasked", "definition", "symbols", "answered"}]
    /\ folder \in {NoFolder, Root}
    /\ watcher \in {"none", "sent", "watching", "failed"}
    /\ process \in {"running", "released", "held", "ended", "crashed"}
LayoutOK ==
    /\ init \in {"none", "loading", "building", "ready"}
    /\ layout \in [built : BOOLEAN, files : SUBSET Paths]
    /\ layout.built <=> init \in {"building", "ready"}
    /\ preamble \subseteq Paths
QueueOK ==
    /\ waiting \in Seq(Handlers) /\ strand \in Seq(Handlers)
    /\ \A h \in Range(waiting) \cup Range(strand) : h.todo # <<>> \/ h.reload
    /\ \A h \in Range(strand) : h.todo # <<>> => h.todo[1].type # "changed"
RebuildOK ==
    /\ timer \in BOOLEAN
    /\ rebuild \in [state : {"idle", "inProgress", "pendingNext"},
                   at : {"none", "building"}, files : SUBSET Paths]
    /\ rebuild.state = "idle" <=> rebuild.at = "none"
ReadyOK == strand # <<>> \/ timer \/ rebuild.state # "idle" => Ready

\* The parts are the whole.
LEMMA TypeParts ==
    /\ TypeOK <=> ClientOK /\ WorldOK /\ LayoutOK /\ QueueOK /\ RebuildOK /\ ReadyOK
    /\ TypeOK' <=> /\ ClientOK' /\ WorldOK' /\ LayoutOK'
                   /\ QueueOK' /\ RebuildOK' /\ ReadyOK'
  BY DEF TypeOK, ClientOK, WorldOK, LayoutOK, QueueOK, RebuildOK, ReadyOK

\* A part stays when the variables that it reads do.
LEMMA PartsStay ==
    ASSUME TypeOK
    PROVE  /\ UNCHANGED <<client, init, missed>> => ClientOK'
           /\ UNCHANGED <<fileVars, asked, folder, watcher, process>> => WorldOK'
           /\ UNCHANGED <<init, layout, preamble>> => LayoutOK'
           /\ UNCHANGED queueVars => QueueOK'
           /\ UNCHANGED <<timer, rebuild>> => RebuildOK'
           /\ UNCHANGED <<init, strand, timer, rebuild>> => ReadyOK'
  BY TypeParts DEF ClientOK, WorldOK, LayoutOK, QueueOK, RebuildOK, ReadyOK,
     fileVars, queueVars, Ready

-----------------------------------------------------------------------------
\* The filter of a notification.

\* The least-number principle, for sets.
LEMMA LeastNumber ==
    ASSUME NEW T \in SUBSET Nat, T # {}
    PROVE  \E m \in T : \A n \in T : m <= n
  <1>1. PICK m \in T : \A n \in T : <<n, m>> \notin OpToRel(<, Nat)
    BY NatLessThanWellFounded, WFMin
  <1>2. ASSUME NEW n \in T, ~(m <= n) PROVE FALSE
    <2>1. n < m /\ <<n, m>> \in Nat \X Nat
      BY <1>2
    <2>2. <<n, m>>[1] = n /\ <<n, m>>[2] = m
      BY <2>1
    <2>3. <<n, m>> \in {ss \in Nat \X Nat : ss[1] < ss[2]}
      BY <2>1, <2>2
    <2>4. <<n, m>> \in OpToRel(<, Nat)
      BY <2>3 DEF OpToRel
    <2> QED
      BY <1>1, <2>4
  <1> QED
    BY <1>2

\* Induction along an interval, for sets.
LEMMA IntervalInduction ==
    ASSUME NEW L \in Nat, NEW S, 0 \in S,
           \A n \in 1 .. L : n - 1 \in S => n \in S
    PROVE  \A n \in 0 .. L : n \in S
  <1> DEFINE T == (0 .. L) \ S
  <1> SUFFICES ASSUME T # {} PROVE FALSE
    OBVIOUS
  <1>a. T \in SUBSET Nat
    OBVIOUS
  <1> HIDE DEF T
  <1>b. PICK m \in T : \A n \in T : m <= n
    BY <1>a, LeastNumber
  <1> USE DEF T
  <1>1. m \in (0 .. L) \ S /\ \A n \in (0 .. L) \ S : m <= n
    BY <1>b
  <1>2. m # 0 /\ m \in 1 .. L /\ m - 1 \in 0 .. L /\ ~(m <= m - 1)
    BY <1>1
  <1> QED
    BY <1>1, <1>2

\* What the loop has kept of the first n events: those that are no change of
\* the configuration, in their order.
Kept(events, n, kept) ==
    /\ kept \in Seq(Changes)
    /\ \E at \in [1 .. Len(kept) -> 1 .. n] :
          /\ \A i \in 1 .. Len(kept) : kept[i] = events[at[i]]
          /\ \A i, j \in 1 .. Len(kept) : i < j => at[i] < at[j]
          /\ \A m \in 1 .. n : events[m] # ConfigChange =>
                \E i \in 1 .. Len(kept) : at[i] = m

\* One turn of the loop that keeps nothing, and one that keeps an event.
LEMMA KeptSkips ==
    ASSUME NEW events \in Seq(Changes \cup {ConfigChange}),
           NEW n \in 1 .. Len(events), NEW kept, Kept(events, n - 1, kept),
           events[n] = ConfigChange
    PROVE  Kept(events, n, kept)
  <1>1. PICK at \in [1 .. Len(kept) -> 1 .. n - 1] :
          /\ \A i \in 1 .. Len(kept) : kept[i] = events[at[i]]
          /\ \A i, j \in 1 .. Len(kept) : i < j => at[i] < at[j]
          /\ \A m \in 1 .. n - 1 : events[m] # ConfigChange =>
                \E i \in 1 .. Len(kept) : at[i] = m
    BY DEF Kept
  <1>2. kept \in Seq(Changes) /\ n \in Nat /\ Len(kept) \in Nat
    BY DEF Kept
  <1>3. at \in [1 .. Len(kept) -> 1 .. n]
    BY <1>1, <1>2
  <1>4. \A m \in 1 .. n : events[m] # ConfigChange => m \in 1 .. n - 1
    BY <1>2
  <1> QED
    BY <1>1, <1>2, <1>3, <1>4 DEF Kept

\* A change that is kept comes behind those kept before.
LEMMA KeptAppends ==
    ASSUME NEW events \in Seq(Changes \cup {ConfigChange}),
           NEW n \in 1 .. Len(events), NEW kept, Kept(events, n - 1, kept),
           events[n] # ConfigChange
    PROVE  Kept(events, n, Append(kept, events[n]))
  <1>1. PICK at \in [1 .. Len(kept) -> 1 .. n - 1] :
          /\ \A i \in 1 .. Len(kept) : kept[i] = events[at[i]]
          /\ \A i, j \in 1 .. Len(kept) : i < j => at[i] < at[j]
          /\ \A m \in 1 .. n - 1 : events[m] # ConfigChange =>
                \E i \in 1 .. Len(kept) : at[i] = m
    BY DEF Kept
  <1>a. kept \in Seq(Changes) /\ n \in Nat /\ Len(kept) \in Nat
    BY DEF Kept
  <1> DEFINE more == Append(kept, events[n])
             to == [i \in 1 .. Len(kept) + 1 |->
                       IF i = Len(kept) + 1 THEN n ELSE at[i]]
  <1>2. /\ more \in Seq(Changes) /\ Len(more) = Len(kept) + 1
        /\ more[Len(kept) + 1] = events[n]
        /\ \A i \in 1 .. Len(kept) : more[i] = kept[i]
    BY <1>a
  <1>3. /\ to \in [1 .. Len(more) -> 1 .. n]
        /\ to[Len(kept) + 1] = n
        /\ \A i \in 1 .. Len(kept) : to[i] = at[i] /\ at[i] \in 1 .. n - 1
    <2>1. \A i \in 1 .. Len(kept) : at[i] \in 1 .. n - 1
      BY <1>1
    <2>2. \A i \in 1 .. Len(kept) + 1 :
             (IF i = Len(kept) + 1 THEN n ELSE at[i]) \in 1 .. n
      BY <2>1, <1>a
    <2>3. to \in [1 .. Len(kept) + 1 -> 1 .. n]
      BY <2>2
    <2>4. 1 .. Len(more) = 1 .. Len(kept) + 1
      BY <1>2
    <2>5. to[Len(kept) + 1] = n /\ \A i \in 1 .. Len(kept) : to[i] = at[i]
      BY <1>a
    <2> HIDE DEF to, more
    <2> QED
      BY <2>1, <2>3, <2>4, <2>5
  <1> HIDE DEF more, to
  <1>4. \A i \in 1 .. Len(more) : i \in 1 .. Len(kept) \/ i = Len(kept) + 1
    BY <1>2, <1>a
  <1>5. \A i \in 1 .. Len(more) : more[i] = events[to[i]]
    BY <1>1, <1>2, <1>3, <1>4
  <1>6. ASSUME NEW i \in 1 .. Len(more), NEW j \in 1 .. Len(more), i < j
        PROVE  to[i] < to[j]
    <2>1. i \in 1 .. Len(kept)
      BY <1>2, <1>6, <1>a
    <2>2. CASE j \in 1 .. Len(kept)
      BY <1>1, <1>3, <1>6, <2>1, <2>2
    <2>3. CASE j = Len(kept) + 1
      BY <1>3, <1>a, <2>1, <2>3
    <2> QED
      BY <1>4, <2>2, <2>3
  <1>7. ASSUME NEW m \in 1 .. n, events[m] # ConfigChange
        PROVE  \E i \in 1 .. Len(more) : to[i] = m
    <2>1. CASE m = n
      BY <1>2, <1>3, <1>a, <2>1
    <2>2. CASE m # n
      <3>1. PICK i \in 1 .. Len(kept) : at[i] = m
        BY <1>1, <1>7, <1>a, <2>2
      <3>2. i \in 1 .. Len(more) /\ to[i] = m
        BY <1>2, <1>3, <1>a, <3>1
      <3> QED
        BY <3>2
    <2> QED
      BY <2>1, <2>2
  <1>8. Kept(events, n, more)
    BY <1>2, <1>3, <1>5, <1>6, <1>7 DEF Kept
  <1> QED
    BY <1>8 DEF more

\* The function that describes the first n turns of the loop.
Turn(events, g, i) ==
    IF i = 0 THEN <<>>
    ELSE IF events[i] = ConfigChange THEN g[i - 1]
    ELSE Append(g[i - 1], events[i])
Loop(events, n, g) == g = [i \in 0 .. n |-> Turn(events, g, i)]

\* From the function that describes n - 1 turns comes that for n.
LEMMA LoopStep ==
    ASSUME NEW events, NEW n \in Nat \ {0}, NEW g, Loop(events, n - 1, g)
    PROVE  \E h : Loop(events, n, h)
  <1> DEFINE h == [i \in 0 .. n |-> IF i = n THEN Turn(events, g, n) ELSE g[i]]
  <1>1. \A i \in 0 .. n - 1 : g[i] = Turn(events, g, i)
    BY DEF Loop
  <1>2. \A i \in 0 .. n - 1 : h[i] = g[i]
    OBVIOUS
  <1>3. h[n] = Turn(events, g, n)
    OBVIOUS
  <1>4. \A i \in 0 .. n : Turn(events, h, i) = Turn(events, g, i)
    <2> HIDE DEF h
    <2> QED
      BY <1>2 DEF Turn
  <1>5. \A i \in 0 .. n : h[i] = Turn(events, h, i)
    <2> HIDE DEF h
    <2>1. \A i \in 0 .. n : i = n \/ i \in 0 .. n - 1
      OBVIOUS
    <2> QED
      BY <2>1, <1>1, <1>2, <1>3, <1>4
  <1>6. h = [i \in 0 .. n |-> h[i]]
    OBVIOUS
  <1>7. h = [i \in 0 .. n |-> Turn(events, h, i)]
    <2> HIDE DEF h
    <2> QED
      BY <1>5, <1>6
  <1> QED
    BY <1>7 DEF Loop

\* The loop over the events is described by a function.
LEMMA LoopExists ==
    ASSUME NEW events, NEW L \in Nat
    PROVE  \E g : Loop(events, L, g)
  <1> DEFINE S == {n \in 0 .. L : \E g : Loop(events, n, g)}
  <1>1. 0 \in S
    <2> DEFINE g == [i \in 0 .. 0 |-> <<>>]
    <2>1. g = [i \in 0 .. 0 |-> Turn(events, g, i)]
      BY DEF Turn
    <2>2. Loop(events, 0, g)
      BY <2>1 DEF Loop
    <2> QED
      BY <2>2
  <1>2. ASSUME NEW n \in 1 .. L, n - 1 \in S PROVE n \in S
    BY <1>2, LoopStep
  <1>3. \A n \in 0 .. L : n \in S
    <2> HIDE DEF S
    <2> QED
      BY <1>1, <1>2, IntervalInduction
  <1> QED
    BY <1>3

\* A notification's handler has its changes of source files, in their order.
LEMMA SourceChangesKeep ==
    ASSUME NEW events \in Seq(Changes \cup {ConfigChange})
    PROVE  Kept(events, Len(events), SourceChanges(events))
  <1> DEFINE L == Len(events)
             kept == CHOOSE g : Loop(events, L, g)
             S == {n \in 0 .. L : Kept(events, n, kept[n])}
  <1>1. L \in Nat /\ Loop(events, L, kept)
    BY LoopExists
  <1>2. SourceChanges(events) = kept[L]
    BY DEF SourceChanges, Loop, Turn
  <1> HIDE DEF kept, L
  <1>3. \A n \in 0 .. L : kept[n] = Turn(events, kept, n)
    BY <1>1 DEF Loop
  <1>4. 0 \in S
    <2> DEFINE at == [i \in 1 .. 0 |-> 1]
    <2>1. <<>> \in Seq(Changes) /\ Len(<<>>) = 0 /\ at \in [1 .. 0 -> 1 .. 0]
      OBVIOUS
    <2>2. Kept(events, 0, <<>>)
      <3>1. \E at1 \in [1 .. Len(<<>>) -> 1 .. 0] : TRUE
        BY <2>1
      <3>2. 1 .. 0 = {} /\ 1 .. Len(<<>>) = {}
        OBVIOUS
      <3> QED
        BY <2>1, <3>1, <3>2 DEF Kept
    <2>3. kept[0] = <<>>
      BY <1>1, <1>3 DEF Turn
    <2> QED
      BY <1>1, <2>2, <2>3
  <1>5. ASSUME NEW n \in 1 .. L, n - 1 \in S PROVE n \in S
    <2>1. /\ n \in 0 .. L /\ n # 0 /\ Kept(events, n - 1, kept[n - 1])
          /\ n \in 1 .. Len(events)
      BY <1>1, <1>5 DEF L
    <2>2. CASE events[n] = ConfigChange
      <3>1. kept[n] = kept[n - 1]
        BY <1>3, <2>1, <2>2 DEF Turn
      <3> QED
        BY <2>1, <2>2, <3>1, KeptSkips
    <2>3. CASE events[n] # ConfigChange
      <3>1. kept[n] = Append(kept[n - 1], events[n])
        BY <1>3, <2>1, <2>3 DEF Turn
      <3> QED
        BY <2>1, <2>3, <3>1, KeptAppends
    <2> QED
      BY <2>2, <2>3
  <1>6. \A n \in 0 .. L : n \in S
    <2> HIDE DEF S
    <2> QED
      BY <1>1, <1>4, <1>5, IntervalInduction
  <1> QED
    BY <1>1, <1>2, <1>6 DEF L

-----------------------------------------------------------------------------

\* A handler that is resumed has a tail of its changes left.
LEMMA RestFacts ==
    ASSUME NEW h \in Handlers, h.todo # <<>>
    PROVE  /\ [h EXCEPT !.todo = Tail(@)] \in Handlers
           /\ Head(h.todo) = h.todo[1] /\ h.todo[1] \in Changes
  BY DEF Handlers

\* What a notification starts is a handler.
LEMMA HandlerFacts ==
    ASSUME NEW todo \in Seq(Changes), NEW reload \in BOOLEAN
    PROVE  Handler(todo, reload) \in Handlers
  BY DEF Handler, Handlers

\* The types under the requests of the client's life cycle.
LEMMA LifeCycleTypes == ASSUME TypeOK, LifeCycle PROVE TypeOK'
  <1> USE DEF ClientOK, WorldOK, LayoutOK, ReadyOK
  <1>1. ASSUME NEW given \in BOOLEAN,
               NEW folders \in {<<>>, <<Root>>, <<Root, Root>>},
               OnInitialize(given, folders)
        PROVE  TypeOK'
    <2>1. WorldOK'
      <3>1. given /\ Len(folders) = 1 => Head(folders) = Root
        OBVIOUS
      <3> QED
        BY <1>1, <3>1, TypeParts DEF OnInitialize, fileVars
    <2>2. ClientOK'
      BY <1>1, TypeParts DEF OnInitialize, fileVars
    <2> QED
      BY <1>1, <2>1, <2>2, TypeParts, PartsStay
      DEF OnInitialize, layoutVars, queueVars, rebuildVars
  <1>2. ASSUME OnInitialized PROVE TypeOK'
    <2>1. ClientOK' /\ WorldOK'
      BY <1>2, TypeParts DEF OnInitialized, fileVars
    <2>2. LayoutOK' /\ ReadyOK'
      BY <1>2, TypeParts DEF OnInitialized, layoutVars, rebuildVars, queueVars, Ready
    <2> QED
      BY <1>2, <2>1, <2>2, TypeParts, PartsStay
      DEF OnInitialized, queueVars, rebuildVars
  <1>3. ASSUME NEW closes \in BOOLEAN, OnExit(closes) PROVE TypeOK'
    <2>1. ClientOK' /\ WorldOK'
      BY <1>3, TypeParts DEF OnExit, fileVars, Shutdown
    <2> QED
      BY <1>3, <2>1, TypeParts, PartsStay
      DEF OnExit, layoutVars, queueVars, rebuildVars
  <1> QED
    BY <1>1, <1>2, <1>3 DEF LifeCycle

\* The types under what the client and the disk do.
LEMMA WorldTypes == ASSUME TypeOK, World PROVE TypeOK'
  <1>1. ASSUME NEW change \in Changes \cup {ConfigChange}, Report(change),
               UNCHANGED init
        PROVE  ClientOK'
    <2>1. CASE /\ client' = [client EXCEPT !.events = Append(@, change)]
               /\ UNCHANGED missed
      <3>1. Append(client.events, change) \in Seq(Changes \cup {ConfigChange})
        BY TypeParts, AppendFacts DEF ClientOK
      <3> QED
        BY <1>1, <2>1, <3>1, TypeParts DEF ClientOK
    <2>2. CASE /\ missed' = missed \cup (IF layout.built THEN {change.path} ELSE {})
               /\ UNCHANGED client
      <3>1. change.path \in Paths \cup {ConfigChange.path}
        BY DEF Changes
      <3> QED
        BY <1>1, <2>2, <3>1, TypeParts DEF ClientOK
    <2> QED
      BY <1>1, <2>1, <2>2 DEF Report
  <1>2. ASSUME NEW path \in Changing, NEW type \in {"created", "deleted", "changed"},
               ChangeFile(type, path)
        PROVE  TypeOK'
    <2>1. Change(type, path) \in Changes
      BY PathsAssumption DEF Change, Changes
    <2>2. ClientOK'
      BY <1>1, <1>2, <2>1 DEF ChangeFile
    <2>3. WorldOK'
      <3>1. disk' \subseteq Paths
        BY <1>2, PathsAssumption, TypeParts DEF ChangeFile, WorldOK
      <3>2. made' \in 0 .. MaxDeeds
        BY <1>2, DeedsAssumption, TypeParts DEF ChangeFile, WorldOK, Deed
      <3> QED
        BY <1>2, <3>1, <3>2, TypeParts DEF ChangeFile, WorldOK, serverVars
    <2> QED
      BY <1>2, <2>2, <2>3, TypeParts, PartsStay
      DEF ChangeFile, layoutVars, queueVars, rebuildVars
  <1>3. ASSUME NEW new \in Texts, EditConfig(new) PROVE TypeOK'
    <2>1. ClientOK'
      BY <1>1, <1>3 DEF EditConfig
    <2>2. made' \in 0 .. MaxDeeds
      BY <1>3, DeedsAssumption, TypeParts DEF EditConfig, WorldOK, Deed
    <2>3. WorldOK'
      BY <1>3, <2>2, TypeParts DEF EditConfig, WorldOK, serverVars
    <2> QED
      BY <1>3, <2>1, <2>3, TypeParts, PartsStay
      DEF EditConfig, layoutVars, queueVars, rebuildVars
  <1>4. ASSUME NEW r \in Requests, NEW what \in {"definition", "symbols", "unopened"},
               Ask(r, what)
        PROVE  TypeOK'
    <2>1. made' \in 0 .. MaxDeeds
      BY <1>4, DeedsAssumption, TypeParts DEF Ask, WorldOK, Deed
    <2>2. WorldOK'
      BY <1>4, <2>1, TypeParts DEF Ask, WorldOK, serverVars
    <2> QED
      BY <1>4, <2>2, TypeParts, PartsStay
      DEF Ask, layoutVars, queueVars, rebuildVars
  <1> QED
    BY <1>2, <1>3, <1>4 DEF World

\* The types under notifications and the handlers that they start.
LEMMA QueueTypes ==
    ASSUME TypeOK, OnDidChangeWatchedFiles \/ Handling PROVE TypeOK'
  <1>1. CASE OnDidChangeWatchedFiles
    <2> DEFINE h == Handler(SourceChanges(client.events),
                            ConfigChange \in Range(client.events))
    <2>1. client.events \in Seq(Changes \cup {ConfigChange})
      BY TypeParts DEF ClientOK
    <2>2. h \in Handlers
      <3> DEFINE reload == ConfigChange \in Range(client.events)
      <3>1. SourceChanges(client.events) \in Seq(Changes)
        BY <2>1, SourceChangesKeep DEF Kept
      <3>2. reload \in BOOLEAN
        OBVIOUS
      <3> HIDE DEF reload
      <3>3. Handler(SourceChanges(client.events), reload) \in Handlers
        BY <3>1, <3>2, HandlerFacts
      <3> QED
        BY <3>3 DEF reload
    <2>3. QueueOK'
      BY <1>1, <2>2, TypeParts, GoesOnFacts DEF OnDidChangeWatchedFiles, QueueOK
    <2>4. missed' \subseteq Paths \cup {ConfigChange.path}
      BY <1>1, TypeParts DEF OnDidChangeWatchedFiles, Overtaken, ClientOK
    <2>5. ClientOK'
      <3>1. <<>> \in Seq(Changes \cup {ConfigChange})
        OBVIOUS
      <3>2. client' = [client EXCEPT !.events = <<>>] /\ UNCHANGED init
        BY <1>1 DEF OnDidChangeWatchedFiles
      <3> QED
        BY <2>4, <3>1, <3>2, TypeParts DEF ClientOK
    <2> QED
      BY <1>1, <2>3, <2>5, TypeParts, PartsStay
      DEF OnDidChangeWatchedFiles, layoutVars, serverVars, rebuildVars
  <1>2. CASE ResumeHandler
    <2> DEFINE h == Head(waiting)
    <2>1. /\ waiting \in Seq(Handlers) /\ waiting # <<>>
          /\ Tail(waiting) \in Seq(Handlers) /\ h \in Handlers
          /\ h \in Range(waiting) /\ Range(Tail(waiting)) \subseteq Range(waiting)
      BY <1>2, TypeParts, TailFacts DEF ResumeHandler, QueueOK
    <2> HIDE DEF h
    <2>2. CASE /\ h.todo # <<>> /\ Head(h.todo).type = "changed"
               /\ waiting' = GoesOn(Tail(waiting), [h EXCEPT !.todo = Tail(@)])
               /\ timer' = TRUE /\ UNCHANGED strand
      <3>1. [h EXCEPT !.todo = Tail(@)] \in Handlers
        BY <2>1, <2>2, RestFacts
      <3>2. /\ waiting' \in Seq(Handlers)
            /\ \A g \in Range(waiting') :
                  g \in Range(waiting) \/ g.todo # <<>> \/ g.reload
        <4> DEFINE rest == [h EXCEPT !.todo = Tail(@)]
        <4>1. rest \in Handlers /\ waiting' = GoesOn(Tail(waiting), rest)
          BY <2>2, <3>1
        <4> HIDE DEF rest
        <4> DEFINE queue == Tail(waiting)
        <4>2. queue \in Seq(Handlers) /\ Range(queue) \subseteq Range(waiting)
          BY <2>1
        <4>3. waiting' = GoesOn(queue, rest)
          BY <4>1
        <4> HIDE DEF queue
        <4> QED
          BY <4>1, <4>2, <4>3, GoesOnFacts
      <3>4. QueueOK'
        BY <2>2, <3>2, TypeParts DEF QueueOK
      <3>3. RebuildOK' /\ ReadyOK'
        BY <1>2, <2>2, TypeParts DEF ResumeHandler, RebuildOK, ReadyOK, Ready
      <3> QED
        BY <1>2, <3>3, <3>4, TypeParts, PartsStay
        DEF ResumeHandler, layoutVars, serverVars, clientVars
    <2>3. CASE /\ ~(h.todo # <<>> /\ Head(h.todo).type = "changed")
               /\ waiting' = Tail(waiting) /\ strand' = Append(strand, h)
               /\ UNCHANGED timer
      <3>1. strand' \in Seq(Handlers) /\ Range(strand') = Range(strand) \cup {h}
        BY <2>1, <2>3, TypeParts, AppendFacts DEF QueueOK
      <3>2. h.todo # <<>> => h.todo[1].type # "changed"
        BY <2>1, <2>3, RestFacts
      <3>3. QueueOK'
        BY <2>1, <2>3, <3>1, <3>2, TypeParts DEF QueueOK
      <3>4. RebuildOK' /\ ReadyOK'
        BY <1>2, <2>3, TypeParts DEF ResumeHandler, RebuildOK, ReadyOK, Ready
      <3> QED
        BY <1>2, <3>3, <3>4, TypeParts, PartsStay
        DEF ResumeHandler, layoutVars, serverVars, clientVars
    <2> QED
      BY <1>2, <2>2, <2>3 DEF ResumeHandler, ScheduleWorkspaceRebuild, h
  <1>3. ASSUME strand # <<>>
        PROVE  /\ Tail(strand) \in Seq(Handlers) /\ Head(strand) \in Handlers
               /\ Head(strand) \in Range(strand)
               /\ Range(Tail(strand)) \subseteq Range(strand)
    BY <1>3, TypeParts, TailFacts DEF QueueOK
  <1>4. CASE HandleSourceFileChange
    <2> DEFINE h == Head(strand)
               rest == [h EXCEPT !.todo = Tail(@)]
    <2>1. strand # <<>> /\ h \in Handlers /\ h.todo # <<>>
      BY <1>3, <1>4 DEF HandleSourceFileChange
    <2>2. rest \in Handlers /\ Head(h.todo) \in Changes
      BY <2>1, RestFacts
    <2>3. QueueOK'
      <3>1. waiting' = GoesOn(waiting, rest) /\ strand' = Tail(strand)
        BY <1>4 DEF HandleSourceFileChange
      <3> HIDE DEF rest
      <3>2. waiting \in Seq(Handlers)
        BY TypeParts DEF QueueOK
      <3>3. /\ waiting' \in Seq(Handlers)
            /\ \A g \in Range(waiting') :
                  g \in Range(waiting) \/ g.todo # <<>> \/ g.reload
        BY <2>2, <3>1, <3>2, GoesOnFacts
      <3> QED
        BY <3>1, <3>3, <2>1, <1>3, TypeParts DEF QueueOK
    <2>4. Head(h.todo).path \in Paths
      BY <2>2 DEF Changes
    <2>5. LayoutOK'
      <3>1. AddFile(Head(h.todo).path) \/ RemoveFile(Head(h.todo).path)
        BY <1>4 DEF HandleSourceFileChange
      <3>2. UNCHANGED <<init, preamble>>
        BY <1>4 DEF HandleSourceFileChange
      <3> HIDE DEF h
      <3>3. /\ layout' \in [built : BOOLEAN, files : SUBSET Paths]
            /\ layout'.built = layout.built
        <4>1. layout \in [built : BOOLEAN, files : SUBSET Paths]
          BY TypeParts DEF LayoutOK
        <4>2. CASE UNCHANGED layout
          BY <4>1, <4>2
        <4>3. CASE layout.built /\ SetFiles(layout.files \cup {Head(h.todo).path})
          BY <2>4, <4>1, <4>3 DEF SetFiles
        <4>4. CASE layout.built /\ SetFiles(layout.files \ {Head(h.todo).path})
          BY <4>1, <4>4 DEF SetFiles
        <4> QED
          BY <3>1, <4>2, <4>3, <4>4 DEF AddFile, RemoveFile
      <3> QED
        BY <3>2, <3>3, TypeParts DEF LayoutOK
    <2>6. RebuildOK' /\ ReadyOK'
      BY <1>4, TypeParts DEF HandleSourceFileChange, RebuildOK, ReadyOK, Ready,
         ScheduleWorkspaceRebuild
    <2> QED
      BY <1>4, <2>3, <2>5, <2>6, TypeParts, PartsStay
      DEF HandleSourceFileChange, serverVars, clientVars
  <1>5. CASE HandleConfigChange
    <2>1. QueueOK'
      BY <1>3, <1>5, TypeParts DEF HandleConfigChange, QueueOK
    <2>2. Ready
      BY <1>5, TypeParts DEF HandleConfigChange, ReadyOK
    <2>3. LayoutOK'
      <3>1. text \in Texts /\ disk \in SUBSET Paths
        BY TypeParts DEF WorldOK
      <3>2. CASE UNCHANGED layoutVars
        BY <1>5, <3>2, TypeParts, PartsStay DEF HandleConfigChange, layoutVars
      <3>3. CASE RebuildLayout(ConfigOf(text))
        <4>1. BuildFromConfig(ConfigOf(text), disk) \in SUBSET Paths
          BY <3>1, ScanFinds
        <4>2. /\ layout' = [built |-> TRUE,
                            files |-> BuildFromConfig(ConfigOf(text), disk)]
              /\ UNCHANGED <<init, preamble>>
          BY <1>5, <3>3 DEF RebuildLayout, HandleConfigChange
        <4> QED
          BY <2>2, <4>1, <4>2, TypeParts DEF LayoutOK, Ready
      <3> QED
        BY <1>5, <3>2, <3>3 DEF HandleConfigChange, HandleConfigFileChange
    <2>4. RebuildOK' /\ ReadyOK'
      <3>1. layout'.files \in SUBSET Paths
        BY <2>3 DEF LayoutOK
      <3> QED
        BY <1>5, <2>2, <3>1, TypeParts DEF HandleConfigChange, RebuildWorkspace,
           RebuildOK, ReadyOK, Ready
    <2> QED
      BY <1>5, <2>1, <2>3, <2>4, TypeParts, PartsStay
      DEF HandleConfigChange, serverVars, clientVars
  <1> QED
    BY <1>1, <1>2, <1>4, <1>5 DEF Handling

\* The types under initialization, rebuilds and the timer.
LEMMA WorkTypes ==
    ASSUME TypeOK, Initializing \/ RebuildEnds \/ TimerExpires PROVE TypeOK'
  <1> USE TypeParts DEF RebuildOK, ReadyOK, LayoutOK, Ready
  <1>1. CASE LoadConfig
    <2>1. BuildFromConfig(ConfigOf(text), disk) \subseteq Paths
      BY ScanFinds DEF WorldOK
    <2>2. LayoutOK' /\ ReadyOK'
      BY <1>1, <2>1 DEF LoadConfig, RebuildLayout, queueVars, rebuildVars
    <2>3. ClientOK'
      BY <1>1 DEF LoadConfig, ClientOK, clientVars
    <2> QED
      BY <1>1, <2>2, <2>3, PartsStay
      DEF LoadConfig, serverVars, clientVars, queueVars, rebuildVars
  <1>2. CASE WorkspaceReady
    <2>1. LayoutOK' /\ ReadyOK'
      BY <1>2 DEF WorkspaceReady, layoutVars, queueVars
    <2>2. ClientOK'
      BY <1>2 DEF WorkspaceReady, ClientOK, clientVars
    <2> QED
      BY <1>2, <2>1, <2>2, PartsStay
      DEF WorkspaceReady, serverVars, clientVars, queueVars
  <1>3. CASE TimerExpires
    <2>1. RebuildOK' /\ ReadyOK'
      BY <1>3 DEF TimerExpires, RebuildWorkspace, queueVars
    <2> QED
      BY <1>3, <2>1, PartsStay
      DEF TimerExpires, serverVars, clientVars, queueVars, layoutVars
  <1>4. CASE RebuildEnds
    <2>1. RebuildOK' /\ ReadyOK' /\ LayoutOK'
      BY <1>4 DEF RebuildEnds, ScheduleWorkspaceRebuild, queueVars, layoutVars
    <2> QED
      BY <1>4, <2>1, PartsStay
      DEF RebuildEnds, serverVars, clientVars, queueVars, layoutVars
  <1> QED
    BY <1>1, <1>2, <1>3, <1>4 DEF Initializing

\* TypeOK for every run of the server.
THEOREM ServerTypes == Spec => []TypeOK
  <1>1. Init => TypeOK
    <2> SUFFICES ASSUME Init PROVE TypeOK
      OBVIOUS
    <2>1. ClientOK
      <3>1. <<>> \in Seq(Changes \cup {ConfigChange})
        OBVIOUS
      <3> QED
        BY <3>1 DEF Init, ClientOK
    <2>2. WorldOK
      BY DeedsAssumption DEF Init, WorldOK
    <2>3. LayoutOK /\ RebuildOK /\ ReadyOK
      BY DEF Init, LayoutOK, RebuildOK, ReadyOK
    <2>4. QueueOK
      <3>1. <<>> \in Seq(Handlers) /\ Range(<<>>) = {}
        BY DEF Range
      <3> QED
        BY <3>1 DEF Init, QueueOK
    <2> QED
      BY <2>1, <2>2, <2>3, <2>4, TypeParts
  <1>2. TypeOK /\ [Next]_vars => TypeOK'
    <2> SUFFICES ASSUME TypeOK, [Next]_vars PROVE TypeOK'
      OBVIOUS
    <2>1. CASE UNCHANGED vars
      BY <2>1, PartsStay, TypeParts
      DEF vars, serverVars, clientVars, queueVars, layoutVars, rebuildVars
    <2>2. ASSUME NEW result \in {"watching", "failed"}, RegisterCapability(result)
          PROVE  TypeOK'
      <3>1. WorldOK'
        BY <2>2, TypeParts DEF RegisterCapability, WorldOK, fileVars, clientVars
      <3> QED
        BY <2>2, <3>1, PartsStay, TypeParts
        DEF RegisterCapability, clientVars, queueVars, layoutVars, rebuildVars
    <2>3. ASSUME NEW r \in Requests, Answer(r) PROVE TypeOK'
      <3>1. WorldOK'
        BY <2>3, TypeParts DEF Answer, WorldOK, fileVars, serverVars
      <3> QED
        BY <2>3, <3>1, PartsStay, TypeParts
        DEF Answer, queueVars, layoutVars, rebuildVars
    <2>4. CASE ProcessEnds
      <3>1. WorldOK'
        BY <2>4, TypeParts DEF ProcessEnds, WorldOK, fileVars, clientVars
      <3> QED
        BY <2>4, <3>1, PartsStay, TypeParts
        DEF ProcessEnds, clientVars, queueVars, layoutVars, rebuildVars
    <2> QED
      BY <2>1, <2>2, <2>3, <2>4, LifeCycleTypes, WorldTypes, QueueTypes, WorkTypes
      DEF Next, Registers
  <1> QED
    BY <1>1, <1>2, PTL DEF Spec

-----------------------------------------------------------------------------
\* Why the layout follows the disk: for a file whose changes are told in
\* order, the last change under way is what the disk says, and when none is
\* under way the layout has the file as a scan would.

\* The change creates or deletes p.
Speaks(change, p) == change.path = p /\ change.type \in {"created", "deleted"}
Silent(todo, p)   == \A i \in 1 .. Len(todo) : ~Speaks(todo[i], p)
Agrees(change, p, d) == change.type = "created" <=> p \in d

\* The last of these changes that creates or deletes p.
LastAgrees(todo, p, d) ==
    \A i \in 1 .. Len(todo) :
        Speaks(todo[i], p) /\ (\A j \in 1 .. Len(todo) : j > i => ~Speaks(todo[j], p))
            => Agrees(todo[i], p, d)

\* The handlers, in the order in which each has its next turn.
Queue == strand \o waiting
AllSilent(q, p) == \A k \in 1 .. Len(q) : Silent(q[k].todo, p)

\* No handler is overtaken in what it says of p after its next turn.
NotOvertaken(q, p) ==
    \A j, k \in 1 .. Len(q) : \A i \in 1 .. Len(q[j].todo) :
        j < k /\ i > 1 /\ Speaks(q[j].todo[i], p) => Silent(q[k].todo, p)

\* The last handler that creates or deletes p ends with what is true.
QueueAgrees(q, p, d) ==
    \A k \in 1 .. Len(q) :
        (\A m \in 1 .. Len(q) : m > k => Silent(q[m].todo, p))
            => LastAgrees(q[k].todo, p, d)

\* The layout has p as a scan would.
Settled(p) ==
    config.autoDiscover /\ p \notin ListedFiles(config) /\ Scanned(config, p)
        => (p \in layout.files <=> p \in BuildFromConfig(config, disk))

FileInv(p) ==
    /\ ~InWorkspace(p) => Silent(client.events, p) /\ AllSilent(Queue, p)
    /\ LastAgrees(client.events, p, disk)
    /\ NotOvertaken(Queue, p)
    /\ Silent(client.events, p) => QueueAgrees(Queue, p, disk)
    /\ layout.built /\ Silent(client.events, p) /\ AllSilent(Queue, p) => Settled(p)

LayoutInv == client.stage # "exited" => \A p \in Paths \ missed : FileInv(p)

\* A change is appended to what is to be told.
LEMMA AppendSpeaks ==
    ASSUME NEW S, NEW s \in Seq(S), NEW e \in S, NEW p, NEW d
    PROVE  /\ Silent(Append(s, e), p) <=> Silent(s, p) /\ ~Speaks(e, p)
           /\ Speaks(e, p) /\ Agrees(e, p, d) => LastAgrees(Append(s, e), p, d)
           /\ ~Speaks(e, p) /\ LastAgrees(s, p, d) => LastAgrees(Append(s, e), p, d)
  <1> DEFINE t == Append(s, e)
             n == Len(s)
  <1>1. /\ n \in Nat /\ Len(t) = n + 1 /\ t[n + 1] = e
        /\ \A i \in 1 .. n : t[i] = s[i]
    OBVIOUS
  <1> HIDE DEF t
  <1>2. \A i \in 1 .. Len(t) : i \in 1 .. n \/ i = n + 1
    BY <1>1
  <1>3. \A i \in 1 .. n : i \in 1 .. Len(t) /\ n + 1 > i
    BY <1>1
  <1>4. n + 1 \in 1 .. Len(t)
    BY <1>1
  <1> HIDE DEF n
  <1>5. Silent(t, p) <=> Silent(s, p) /\ ~Speaks(e, p)
    BY <1>1, <1>2, <1>3, <1>4 DEF Silent, n
  <1>6. Speaks(e, p) /\ Agrees(e, p, d) => LastAgrees(t, p, d)
    BY <1>1, <1>2, <1>3, <1>4 DEF LastAgrees
  <1>7. ~Speaks(e, p) /\ LastAgrees(s, p, d) => LastAgrees(t, p, d)
    BY <1>1, <1>2, <1>3 DEF LastAgrees, n
  <1> QED
    BY <1>5, <1>6, <1>7 DEF t

\* A handler has had its turn with the first of its changes.
LEMMA TailSpeaks ==
    ASSUME NEW S, NEW s \in Seq(S), s # <<>>, NEW p, NEW d
    PROVE  /\ Silent(s, p) <=> ~Speaks(s[1], p) /\ Silent(Tail(s), p)
           /\ LastAgrees(s, p, d) => LastAgrees(Tail(s), p, d)
           /\ LastAgrees(s, p, d) /\ Speaks(s[1], p) /\ Silent(Tail(s), p)
                => Agrees(s[1], p, d)
  <1> DEFINE t == Tail(s)
             n == Len(t)
  <1>1. /\ n \in Nat /\ Len(s) = n + 1
        /\ \A i \in 1 .. n : t[i] = s[i + 1]
    BY TailFacts
  <1>2. /\ \A i \in 1 .. n : i + 1 \in 1 .. Len(s) /\ i + 1 > 1
        /\ \A i \in 1 .. Len(s) : i = 1 \/ (i - 1 \in 1 .. n /\ (i - 1) + 1 = i)
        /\ 1 \in 1 .. Len(s)
    BY <1>1
  <1>3. \A i \in 2 .. Len(s) : i - 1 \in 1 .. n /\ t[i - 1] = s[i]
    BY <1>1
  <1> HIDE DEF t
  <1>4. Silent(s, p) <=> ~Speaks(s[1], p) /\ Silent(t, p)
    BY <1>1, <1>2 DEF Silent
  <1>5. ASSUME LastAgrees(s, p, d) PROVE LastAgrees(t, p, d)
    <2> SUFFICES ASSUME NEW i \in 1 .. n, Speaks(t[i], p),
                        \A j \in 1 .. n : j > i => ~Speaks(t[j], p)
                 PROVE  Agrees(t[i], p, d)
      BY DEF LastAgrees
    <2>1. i + 1 \in 1 .. Len(s) /\ Speaks(s[i + 1], p)
      BY <1>1, <1>2
    <2>2. ASSUME NEW j \in 1 .. Len(s), j > i + 1 PROVE ~Speaks(s[j], p)
      <3>1. j - 1 \in 1 .. n /\ j - 1 > i /\ t[j - 1] = s[j]
        BY <1>1, <1>3, <2>2
      <3> QED
        BY <3>1
    <2>3. Agrees(s[i + 1], p, d)
      BY <1>5, <2>1, <2>2 DEF LastAgrees
    <2> QED
      BY <1>1, <2>3
  <1>6. ASSUME LastAgrees(s, p, d), Speaks(s[1], p), Silent(t, p)
        PROVE  Agrees(s[1], p, d)
    <2>1. \A j \in 1 .. Len(s) : j > 1 => ~Speaks(s[j], p)
      BY <1>1, <1>3, <1>6 DEF Silent
    <2> QED
      BY <1>2, <1>6, <2>1 DEF LastAgrees
  <1> QED
    BY <1>4, <1>5, <1>6 DEF t

\* The handler of a notification has what the notification says of p.
LEMMA KeptSpeaks ==
    ASSUME NEW events \in Seq(Changes \cup {ConfigChange}), NEW todo,
           Kept(events, Len(events), todo), NEW p, NEW d
    PROVE  /\ Silent(todo, p) <=> Silent(events, p)
           /\ LastAgrees(events, p, d) => LastAgrees(todo, p, d)
  <1> DEFINE n == Len(todo)
             L == Len(events)
  <1>1. PICK at \in [1 .. n -> 1 .. L] :
          /\ \A i \in 1 .. n : todo[i] = events[at[i]]
          /\ \A i, j \in 1 .. n : i < j => at[i] < at[j]
          /\ \A m \in 1 .. L : events[m] # ConfigChange =>
                \E i \in 1 .. n : at[i] = m
    BY DEF Kept
  <1>2. ~Speaks(ConfigChange, p)
    BY DEF Speaks, ConfigChange, Change
  <1>3. n \in Nat /\ L \in Nat
    BY DEF Kept
  <1>4. \A i \in 1 .. n : at[i] \in 1 .. L
    BY <1>1
  <1>5. ASSUME NEW m \in 1 .. L, Speaks(events[m], p)
        PROVE  \E i \in 1 .. n : at[i] = m /\ todo[i] = events[m]
    BY <1>1, <1>2, <1>5
  <1>6. Silent(todo, p) <=> Silent(events, p)
    BY <1>1, <1>4, <1>5 DEF Silent
  <1>7. ASSUME LastAgrees(events, p, d) PROVE LastAgrees(todo, p, d)
    <2> SUFFICES ASSUME NEW i \in 1 .. n, Speaks(todo[i], p),
                        \A j \in 1 .. n : j > i => ~Speaks(todo[j], p)
                 PROVE  Agrees(todo[i], p, d)
      BY DEF LastAgrees
    <2>1. ASSUME NEW m \in 1 .. L, m > at[i] PROVE ~Speaks(events[m], p)
      <3> SUFFICES ASSUME Speaks(events[m], p) PROVE FALSE
        OBVIOUS
      <3>1. PICK j \in 1 .. n : at[j] = m /\ todo[j] = events[m]
        BY <1>5
      <3>2. i \in Int /\ j \in Int /\ at[i] \in Int /\ at[j] \in Int
        BY <1>3, <1>4
      <3>3. i < j \/ i = j \/ j < i
        BY <3>2
      <3>4. ~(j < i) /\ i # j
        BY <1>1, <2>1, <3>1, <3>2
      <3> QED
        BY <3>1, <3>2, <3>3, <3>4
    <2>2. at[i] \in 1 .. L /\ todo[i] = events[at[i]]
      BY <1>1, <1>4
    <2> QED
      BY <1>7, <2>1, <2>2 DEF LastAgrees
  <1> QED
    BY <1>6, <1>7

\* The handler at place k has had its turn: what it has left, if anything, is
\* now at the end.
Requeued(q, k, q2) ==
    /\ q \in Seq(Handlers) /\ q2 \in Seq(Handlers) /\ k \in 1 .. Len(q)
    /\ \A i \in 1 .. Len(q) - 1 : q2[i] = q[IF i < k THEN i ELSE i + 1]
    /\ \/ /\ Len(q2) = Len(q)
          /\ q[k].todo # <<>> /\ q2[Len(q)].todo = Tail(q[k].todo)
       \/ /\ Len(q2) = Len(q) - 1
          /\ q[k].todo = <<>> \/ Tail(q[k].todo) = <<>>

\* What a turn does to what the queue says of p, if what it took says nothing
\* of p or is the first of all.
LEMMA RequeueSpeaks ==
    ASSUME NEW q, NEW k, NEW q2, Requeued(q, k, q2), NEW p, NEW d,
           NotOvertaken(q, p),
           k = 1 \/ q[k].todo = <<>> \/ ~Speaks(q[k].todo[1], p)
    PROVE  /\ NotOvertaken(q2, p)
           /\ QueueAgrees(q, p, d) => QueueAgrees(q2, p, d)
           /\ AllSilent(q2, p) => \A m \in 1 .. Len(q) : m # k => Silent(q[m].todo, p)
           /\ AllSilent(q2, p) /\ q[k].todo # <<>> => Silent(Tail(q[k].todo), p)
           /\ AllSilent(q, p) => AllSilent(q2, p)
  <1> DEFINE n == Len(q)
             old(i) == IF i < k THEN i ELSE i + 1
             new(m) == IF m < k THEN m ELSE m - 1
             rest == Tail(q[k].todo)
  <1>1. /\ n \in Nat /\ k \in 1 .. n /\ q[k] \in Handlers
        /\ Len(q2) = n \/ Len(q2) = n - 1
        /\ \A m \in 1 .. n : q[m].todo \in Seq(Changes)
    <2>1. q \in Seq(Handlers) /\ \A m \in 1 .. n : q[m] \in Handlers
      BY DEF Requeued
    <2>2. \A h \in Handlers : h.todo \in Seq(Changes)
      BY DEF Handlers
    <2> QED
      BY <2>1, <2>2 DEF Requeued
  <1>2. \A i \in 1 .. n - 1 : /\ old(i) \in 1 .. n /\ old(i) # k
                              /\ i \in 1 .. Len(q2)
                              /\ q2[i] = q[old(i)]
    BY <1>1 DEF Requeued
  <1>3. \A m \in 1 .. n : m # k => new(m) \in 1 .. n - 1 /\ old(new(m)) = m
    BY <1>1
  <1>4. \A i, j \in 1 .. n - 1 : i < j <=> old(i) < old(j)
    BY <1>1
  <1>5. \A i \in 1 .. Len(q2) : i \in 1 .. n - 1 \/ i = n
    BY <1>1
  <1>6. n \in 1 .. Len(q2) => q[k].todo # <<>> /\ q2[n].todo = rest
    BY <1>1 DEF Requeued
  <1>7. n \notin 1 .. Len(q2) => q[k].todo = <<>> \/ rest = <<>>
    BY <1>1 DEF Requeued
  <1>8. Silent(<<>>, p)
    BY DEF Silent
  <1>9. ASSUME q[k].todo # <<>>
        PROVE  /\ Len(rest) \in Nat /\ Len(q[k].todo) = Len(rest) + 1
               /\ \A i \in 1 .. Len(rest) : rest[i] = q[k].todo[i + 1]
               /\ Silent(q[k].todo, p) <=> ~Speaks(q[k].todo[1], p) /\ Silent(rest, p)
               /\ LastAgrees(q[k].todo, p, d) => LastAgrees(rest, p, d)
    <2> DEFINE s == q[k].todo
    <2>1. s \in Seq(Changes) /\ s # <<>>
      BY <1>1, <1>9
    <2> HIDE DEF s
    <2>2. /\ Len(Tail(s)) \in Nat /\ Len(s) = Len(Tail(s)) + 1
          /\ \A i \in 1 .. Len(Tail(s)) : Tail(s)[i] = s[i + 1]
      BY <2>1, TailFacts
    <2>3. /\ Silent(s, p) <=> ~Speaks(s[1], p) /\ Silent(Tail(s), p)
          /\ LastAgrees(s, p, d) => LastAgrees(Tail(s), p, d)
      BY <2>1, TailSpeaks
    <2> QED
      BY <2>2, <2>3 DEF s
  <1> HIDE DEF n, old, new, rest
  <1>10. AllSilent(q2, p) => \A m \in 1 .. n : m # k => Silent(q[m].todo, p)
    BY <1>2, <1>3 DEF AllSilent
  <1>11. AllSilent(q2, p) /\ q[k].todo # <<>> => Silent(rest, p)
    BY <1>6, <1>7, <1>8 DEF AllSilent
  <1>12. AllSilent(q, p) => AllSilent(q2, p)
    BY <1>1, <1>2, <1>5, <1>6, <1>9 DEF AllSilent, n
  <1>13. ASSUME NEW m \in 1 .. n, m > k, q[k].todo # <<>>, ~Silent(rest, p)
         PROVE  Silent(q[m].todo, p)
    <2>1. PICK i \in 1 .. Len(rest) : Speaks(rest[i], p)
      BY <1>13 DEF Silent
    <2>2. /\ i + 1 \in 1 .. Len(q[k].todo) /\ i + 1 > 1
          /\ Speaks(q[k].todo[i + 1], p)
      BY <1>9, <1>13, <2>1
    <2> QED
      BY <1>1, <1>13, <2>2 DEF NotOvertaken, n
  <1>14. NotOvertaken(q2, p)
    <2> SUFFICES ASSUME NEW i \in 1 .. Len(q2), NEW j \in 1 .. Len(q2),
                        NEW a \in 1 .. Len(q2[i].todo),
                        i < j, a > 1, Speaks(q2[i].todo[a], p)
                 PROVE  Silent(q2[j].todo, p)
      BY DEF NotOvertaken
    <2>1. i \in 1 .. n - 1
      BY <1>1, <1>5
    <2>2. /\ old(i) \in 1 .. n /\ a \in 1 .. Len(q[old(i)].todo)
          /\ Speaks(q[old(i)].todo[a], p) /\ ~Silent(q[old(i)].todo, p)
      BY <1>2, <2>1 DEF Silent
    <2>3. CASE j \in 1 .. n - 1
      <3>1. old(i) < old(j) /\ old(j) \in 1 .. n /\ q2[j] = q[old(j)]
        BY <1>2, <1>4, <2>1, <2>3
      <3> QED
        BY <2>2, <3>1 DEF NotOvertaken, n
    <2>4. CASE j = n
      <3>1. q[k].todo # <<>> /\ q2[n].todo = rest
        BY <1>6, <2>4
      <3>2. CASE old(i) > k
        BY <1>13, <2>2, <2>4, <3>1, <3>2
      <3>3. CASE old(i) < k
        <4>1. Silent(q[k].todo, p)
          BY <1>1, <2>2, <3>3 DEF NotOvertaken, n
        <4> QED
          BY <1>9, <2>4, <3>1, <4>1
      <3> QED
        BY <1>1, <1>2, <2>1, <2>2, <3>2, <3>3
    <2> QED
      BY <1>5, <2>3, <2>4
  <1>15. ASSUME QueueAgrees(q, p, d) PROVE QueueAgrees(q2, p, d)
    <2> SUFFICES ASSUME NEW i \in 1 .. Len(q2),
                        \A m \in 1 .. Len(q2) : m > i => Silent(q2[m].todo, p)
                 PROVE  LastAgrees(q2[i].todo, p, d)
      BY DEF QueueAgrees
    <2>1. CASE i = n
      <3>1. q[k].todo # <<>> /\ q2[i].todo = rest
        BY <1>6, <2>1
      <3>2. CASE Silent(rest, p)
        BY <3>1, <3>2 DEF LastAgrees, Silent
      <3>3. CASE ~Silent(rest, p)
        <4>1. LastAgrees(q[k].todo, p, d)
          BY <1>1, <1>13, <1>15, <3>1, <3>3 DEF QueueAgrees, n
        <4> QED
          BY <1>9, <3>1, <4>1
      <3> QED
        BY <3>2, <3>3
    <2>2. CASE i \in 1 .. n - 1
      <3>1. old(i) \in 1 .. n /\ q2[i] = q[old(i)] /\ old(i) # k
        BY <1>2, <2>2
      <3>2. ASSUME NEW m \in 1 .. n, m > old(i), m # k PROVE Silent(q[m].todo, p)
        <4>1. new(m) \in 1 .. n - 1 /\ old(new(m)) = m
          BY <1>3, <3>2
        <4>2. i < new(m)
          BY <1>4, <2>2, <3>2, <4>1
        <4>3. new(m) \in 1 .. Len(q2) /\ q2[new(m)] = q[m]
          BY <1>2, <4>1
        <4>4. new(m) > i
          BY <4>1, <4>2
        <4> QED
          BY <4>3, <4>4
      <3>3. k > old(i) => Silent(q[k].todo, p)
        <4> SUFFICES ASSUME k > old(i) PROVE Silent(q[k].todo, p)
          OBVIOUS
        <4>1. k # 1 /\ n > i /\ i \in Int
          BY <1>1, <2>2, <3>1
        <4>2. CASE q[k].todo = <<>>
          BY <1>8, <4>2
        <4>3. CASE q[k].todo # <<>>
          <5>1. Silent(rest, p)
            BY <1>6, <1>7, <1>8, <4>1, <4>3
          <5> QED
            BY <1>9, <4>1, <4>3, <5>1
        <4> QED
          BY <4>2, <4>3
      <3>4. LastAgrees(q[old(i)].todo, p, d)
        BY <1>15, <3>1, <3>2, <3>3 DEF QueueAgrees, n
      <3> QED
        BY <3>1, <3>4
    <2> QED
      BY <1>5, <2>1, <2>2
  <1> QED
    BY <1>10, <1>11, <1>12, <1>14, <1>15 DEF n, rest

\* What the provers know of two queues in a row.
LEMMA QueueFacts ==
    ASSUME NEW s \in Seq(Handlers), NEW w \in Seq(Handlers)
    PROVE  /\ s \o w \in Seq(Handlers) /\ Len(s) \in Nat /\ Len(w) \in Nat
           /\ Len(s \o w) = Len(s) + Len(w)
           /\ \A i \in 1 .. Len(s) : (s \o w)[i] = s[i]
           /\ \A i \in 1 .. Len(w) : (s \o w)[Len(s) + i] = w[i]
           /\ \A i \in Len(s) + 1 .. Len(s) + Len(w) : (s \o w)[i] = w[i - Len(s)]
  OBVIOUS

\* The handler at place k is taken out of the queue q, and goes on at its end.
LEMMA GoesOnRequeues ==
    ASSUME NEW q \in Seq(Handlers), NEW k \in 1 .. Len(q),
           NEW between \in Seq(Handlers), Len(between) = Len(q) - 1,
           \A i \in 1 .. Len(q) - 1 : between[i] = q[IF i < k THEN i ELSE i + 1],
           q[k].todo # <<>>
    PROVE  Requeued(q, k, GoesOn(between, [q[k] EXCEPT !.todo = Tail(@)]))
  <1> DEFINE h == q[k]
             rest == [h EXCEPT !.todo = Tail(@)]
             q2 == GoesOn(between, rest)
  <1>1. h \in Handlers /\ rest \in Handlers /\ rest.todo = Tail(h.todo)
    <2>1. h \in Handlers
      OBVIOUS
    <2> HIDE DEF h
    <2>2. h.todo # <<>>
      BY DEF h
    <2> QED
      BY <2>1, <2>2, RestFacts DEF Handlers
  <1> HIDE DEF rest
  <1>2. CASE rest = Handler(<<>>, FALSE)
    <2>1. Tail(h.todo) = <<>>
      BY <1>1, <1>2 DEF Handler
    <2>2. q2 = between
      BY <1>2 DEF GoesOn
    <2> QED
      BY <2>1, <2>2 DEF Requeued, rest
  <1>3. CASE rest # Handler(<<>>, FALSE)
    <2>1. q2 = Append(between, rest)
      BY <1>3 DEF GoesOn
    <2>2. /\ q2 \in Seq(Handlers) /\ Len(q2) = Len(between) + 1
          /\ q2[Len(between) + 1] = rest
          /\ \A i \in 1 .. Len(between) : q2[i] = between[i]
      BY <1>1, <2>1
    <2> HIDE DEF q2
    <2>3. Len(q) \in Nat /\ Len(between) + 1 = Len(q)
      OBVIOUS
    <2>4. Requeued(q, k, q2)
      BY <1>1, <2>2, <2>3 DEF Requeued
    <2> QED
      BY <2>4 DEF q2, rest
  <1> QED
    BY <1>2, <1>3

\* The handler at the head of the strand runs to its next wait.
LEMMA StrandTurn ==
    ASSUME strand \in Seq(Handlers), waiting \in Seq(Handlers), strand # <<>>,
           Head(strand).todo # <<>>, strand' = Tail(strand),
           waiting' = GoesOn(waiting, [Head(strand) EXCEPT !.todo = Tail(@)])
    PROVE  Requeued(Queue, 1, Queue')
  <1> DEFINE rest == [Head(strand) EXCEPT !.todo = Tail(@)]
             between == Tail(strand) \o waiting
  <1>1. /\ Tail(strand) \in Seq(Handlers) /\ Len(Tail(strand)) = Len(strand) - 1
        /\ Head(strand) = strand[1] /\ Len(strand) \in Nat /\ Len(strand) >= 1
        /\ \A i \in 1 .. Len(strand) - 1 : Tail(strand)[i] = strand[i + 1]
    BY TailFacts
  <1>2. /\ Queue \in Seq(Handlers) /\ Len(Queue) = Len(strand) + Len(waiting)
        /\ Len(waiting) \in Nat
        /\ \A i \in 1 .. Len(strand) : Queue[i] = strand[i]
        /\ \A i \in Len(strand) + 1 .. Len(Queue) : Queue[i] = waiting[i - Len(strand)]
    BY QueueFacts DEF Queue
  <1>3. /\ between \in Seq(Handlers)
        /\ Len(between) = Len(strand) - 1 + Len(waiting)
        /\ \A i \in 1 .. Len(strand) - 1 : between[i] = Tail(strand)[i]
        /\ \A i \in Len(strand) .. Len(between) :
              between[i] = waiting[i - (Len(strand) - 1)]
    <2> DEFINE t == Tail(strand)
    <2>1. t \in Seq(Handlers) /\ Len(t) = Len(strand) - 1
      BY <1>1
    <2> HIDE DEF t
    <2>2. /\ t \o waiting \in Seq(Handlers)
          /\ Len(t \o waiting) = Len(t) + Len(waiting)
          /\ \A i \in 1 .. Len(t) : (t \o waiting)[i] = t[i]
          /\ \A i \in Len(t) + 1 .. Len(t) + Len(waiting) :
                (t \o waiting)[i] = waiting[i - Len(t)]
      BY <2>1, QueueFacts
    <2>3. (Len(strand) - 1) + 1 = Len(strand)
      BY <1>1
    <2>4. /\ t \o waiting \in Seq(Handlers)
          /\ Len(t \o waiting) = Len(strand) - 1 + Len(waiting)
          /\ \A i \in 1 .. Len(strand) - 1 : (t \o waiting)[i] = t[i]
          /\ \A i \in Len(strand) .. Len(strand) - 1 + Len(waiting) :
                (t \o waiting)[i] = waiting[i - (Len(strand) - 1)]
      BY <2>1, <2>2, <2>3
    <2> QED
      BY <2>4 DEF t
  <1>4. Queue' = GoesOn(between, rest)
    <2>1. Queue' = Tail(strand) \o GoesOn(waiting, rest)
      BY DEF Queue
    <2> HIDE DEF rest
    <2>2. rest \in Handlers
      <3>1. Head(strand) \in Handlers
        BY TailFacts
      <3> QED
        BY <3>1, RestFacts DEF rest
    <2>3. Tail(strand) \o Append(waiting, rest) = Append(Tail(strand) \o waiting, rest)
      BY <1>1, <2>2
    <2> QED
      BY <2>1, <2>3 DEF GoesOn
  <1>5. 1 \in 1 .. Len(Queue) /\ Queue[1] = Head(strand)
    BY <1>1, <1>2
  <1> HIDE DEF between
  <1>6. \A i \in 1 .. Len(Queue) - 1 : between[i] = Queue[IF i < 1 THEN i ELSE i + 1]
    <2> SUFFICES ASSUME NEW i \in 1 .. Len(Queue) - 1 PROVE between[i] = Queue[i + 1]
      OBVIOUS
    <2>1. CASE i \in 1 .. Len(strand) - 1
      BY <1>1, <1>2, <1>3, <2>1
    <2>2. CASE i \in Len(strand) .. Len(between)
      <3>1. i + 1 \in Len(strand) + 1 .. Len(Queue)
        BY <1>1, <1>2, <1>3, <2>2
      <3>2. (i + 1) - Len(strand) = i - (Len(strand) - 1)
        BY <1>1
      <3> QED
        BY <1>2, <1>3, <2>2, <3>1, <3>2
    <2> QED
      BY <1>1, <1>2, <1>3, <2>1, <2>2
  <1>7. Len(between) = Len(Queue) - 1
    BY <1>1, <1>2, <1>3
  <1> DEFINE q == Queue
  <1>8. Requeued(q, 1, GoesOn(between, [q[1] EXCEPT !.todo = Tail(@)]))
    <2>1. /\ q \in Seq(Handlers) /\ 1 \in 1 .. Len(q) /\ Len(between) = Len(q) - 1
          /\ \A i \in 1 .. Len(q) - 1 : between[i] = q[IF i < 1 THEN i ELSE i + 1]
          /\ q[1].todo # <<>>
      BY <1>2, <1>5, <1>6, <1>7
    <2> HIDE DEF q
    <2> QED
      BY <2>1, <1>3, GoesOnRequeues
  <1> QED
    BY <1>4, <1>5, <1>8

\* The handler at the head of the strand has loaded the configuration.
LEMMA ConfigTurn ==
    ASSUME strand \in Seq(Handlers), waiting \in Seq(Handlers), strand # <<>>,
           Head(strand).todo = <<>>, strand' = Tail(strand), UNCHANGED waiting
    PROVE  Requeued(Queue, 1, Queue')
  <1>1. /\ Tail(strand) \in Seq(Handlers) /\ Len(Tail(strand)) = Len(strand) - 1
        /\ Head(strand) = strand[1] /\ Len(strand) \in Nat /\ Len(strand) >= 1
        /\ \A i \in 1 .. Len(strand) - 1 : Tail(strand)[i] = strand[i + 1]
    BY TailFacts
  <1>2. /\ Queue \in Seq(Handlers) /\ Len(Queue) = Len(strand) + Len(waiting)
        /\ Queue[1] = Head(strand) /\ 1 \in 1 .. Len(Queue)
    BY <1>1, QueueFacts DEF Queue
  <1>3. Queue' = Tail(Queue)
    <2>1. Tail(strand) \o waiting = Tail(strand \o waiting)
      OBVIOUS
    <2> QED
      BY <2>1 DEF Queue
  <1> DEFINE q == Queue
             q2 == Queue'
  <1>4. /\ q2 \in Seq(Handlers) /\ Len(q2) = Len(q) - 1
        /\ \A i \in 1 .. Len(q) - 1 : q2[i] = q[i + 1]
    <2>1. q \in Seq(Handlers) /\ q # <<>> /\ q2 = Tail(q)
      BY <1>2, <1>3
    <2> HIDE DEF q, q2
    <2> QED
      BY <2>1, TailFacts
  <1>5. q \in Seq(Handlers) /\ 1 \in 1 .. Len(q) /\ q[1].todo = <<>>
    BY <1>2
  <1> HIDE DEF q, q2
  <1>6. \A i \in 1 .. Len(q) - 1 : q2[i] = q[IF i < 1 THEN i ELSE i + 1]
    BY <1>4
  <1>7. Requeued(q, 1, q2)
    BY <1>4, <1>5, <1>6 DEF Requeued
  <1> QED
    BY <1>7 DEF q, q2

\* The oldest waiter passes over a modified file.
LEMMA WaiterTurn ==
    ASSUME strand \in Seq(Handlers), waiting \in Seq(Handlers), waiting # <<>>,
           Head(waiting).todo # <<>>, UNCHANGED strand,
           waiting' = GoesOn(Tail(waiting), [Head(waiting) EXCEPT !.todo = Tail(@)])
    PROVE  /\ Requeued(Queue, Len(strand) + 1, Queue')
           /\ Queue[Len(strand) + 1] = Head(waiting)
  <1> DEFINE rest == [Head(waiting) EXCEPT !.todo = Tail(@)]
             between == strand \o Tail(waiting)
             k == Len(strand) + 1
  <1>1. /\ Tail(waiting) \in Seq(Handlers) /\ Len(Tail(waiting)) = Len(waiting) - 1
        /\ Head(waiting) = waiting[1] /\ Len(waiting) \in Nat /\ Len(waiting) >= 1
        /\ \A i \in 1 .. Len(waiting) - 1 : Tail(waiting)[i] = waiting[i + 1]
    BY TailFacts
  <1>2. /\ Queue \in Seq(Handlers) /\ Len(Queue) = Len(strand) + Len(waiting)
        /\ Len(strand) \in Nat
        /\ \A i \in 1 .. Len(strand) : Queue[i] = strand[i]
        /\ \A i \in Len(strand) + 1 .. Len(Queue) : Queue[i] = waiting[i - Len(strand)]
    BY QueueFacts DEF Queue
  <1>3. /\ between \in Seq(Handlers)
        /\ Len(between) = Len(strand) + (Len(waiting) - 1)
        /\ \A i \in 1 .. Len(strand) : between[i] = strand[i]
        /\ \A i \in Len(strand) + 1 .. Len(between) :
              between[i] = Tail(waiting)[i - Len(strand)]
    <2> DEFINE t == Tail(waiting)
    <2>1. t \in Seq(Handlers) /\ Len(t) = Len(waiting) - 1
      BY <1>1
    <2> HIDE DEF t
    <2>2. /\ strand \o t \in Seq(Handlers)
          /\ Len(strand \o t) = Len(strand) + Len(t)
          /\ \A i \in 1 .. Len(strand) : (strand \o t)[i] = strand[i]
          /\ \A i \in Len(strand) + 1 .. Len(strand) + Len(t) :
                (strand \o t)[i] = t[i - Len(strand)]
      BY <2>1, QueueFacts
    <2>3. /\ strand \o t \in Seq(Handlers)
          /\ Len(strand \o t) = Len(strand) + (Len(waiting) - 1)
          /\ \A i \in 1 .. Len(strand) : (strand \o t)[i] = strand[i]
          /\ \A i \in Len(strand) + 1 .. Len(strand \o t) :
                (strand \o t)[i] = t[i - Len(strand)]
      BY <2>1, <2>2
    <2> QED
      BY <2>3 DEF t
  <1>4. Queue' = GoesOn(between, rest)
    <2>1. Queue' = strand \o GoesOn(Tail(waiting), rest)
      BY DEF Queue
    <2> HIDE DEF rest
    <2>2. rest \in Handlers
      <3>1. Head(waiting) \in Handlers
        BY TailFacts
      <3> QED
        BY <3>1, RestFacts DEF rest
    <2>3. strand \o Append(Tail(waiting), rest) = Append(strand \o Tail(waiting), rest)
      BY <1>1, <2>2
    <2> QED
      BY <2>1, <2>3 DEF GoesOn
  <1>5. k \in 1 .. Len(Queue) /\ Queue[k] = Head(waiting)
    <2>1. k - Len(strand) = 1 /\ k \in Len(strand) + 1 .. Len(Queue)
      BY <1>1, <1>2
    <2> QED
      BY <1>1, <1>2, <2>1
  <1> HIDE DEF between
  <1>6. \A i \in 1 .. Len(Queue) - 1 : between[i] = Queue[IF i < k THEN i ELSE i + 1]
    <2> SUFFICES ASSUME NEW i \in 1 .. Len(Queue) - 1
                 PROVE  between[i] = Queue[IF i < k THEN i ELSE i + 1]
      OBVIOUS
    <2>1. CASE i < k
      <3>1. i \in 1 .. Len(strand)
        BY <1>2, <2>1
      <3> QED
        BY <1>2, <1>3, <2>1, <3>1
    <2>2. CASE ~(i < k)
      <3>1. /\ i \in Len(strand) + 1 .. Len(between)
            /\ i + 1 \in Len(strand) + 1 .. Len(Queue)
            /\ i - Len(strand) \in 1 .. Len(waiting) - 1
            /\ (i + 1) - Len(strand) = (i - Len(strand)) + 1
        BY <1>1, <1>2, <1>3, <2>2
      <3>2. between[i] = Tail(waiting)[i - Len(strand)]
        BY <1>3, <3>1
      <3>3. Tail(waiting)[i - Len(strand)] = waiting[(i - Len(strand)) + 1]
        BY <1>1, <3>1
      <3>4. Queue[i + 1] = waiting[(i + 1) - Len(strand)]
        BY <1>2, <3>1
      <3> QED
        BY <2>2, <3>1, <3>2, <3>3, <3>4
    <2> QED
      BY <2>1, <2>2
  <1>7. Len(between) = Len(Queue) - 1
    BY <1>1, <1>2, <1>3
  <1> DEFINE q == Queue
  <1> HIDE DEF k
  <1>8. Requeued(q, k, GoesOn(between, [q[k] EXCEPT !.todo = Tail(@)]))
    <2>1. /\ q \in Seq(Handlers) /\ k \in 1 .. Len(q) /\ Len(between) = Len(q) - 1
          /\ \A i \in 1 .. Len(q) - 1 : between[i] = q[IF i < k THEN i ELSE i + 1]
          /\ q[k].todo # <<>>
      BY <1>2, <1>5, <1>6, <1>7
    <2> HIDE DEF q
    <2> QED
      BY <2>1, <1>3, GoesOnRequeues
  <1> QED
    BY <1>4, <1>5, <1>8 DEF k

-----------------------------------------------------------------------------

\* Where a scan looks, it finds what exists and passes the filters.
LEMMA ScanIsLocal ==
    ASSUME NEW c, NEW d, NEW p \in Paths, c.autoDiscover, p \notin ListedFiles(c),
           Scanned(c, p)
    PROVE  p \in BuildFromConfig(c, d) <=> p \in d /\ ShouldIncludeFile(c, Relative(p))
  BY DEF Scanned, BuildFromConfig, DiscoveredFiles, ExplicitFiles,
     FindSystemVerilogFilesInDirectory

\* As long as p is not touched, it stays settled.
LEMMA SettledStays ==
    ASSUME NEW p \in Paths, Settled(p), UNCHANGED config,
           p \in layout.files <=> p \in layout'.files, p \in disk <=> p \in disk'
    PROVE  Settled(p)'
  BY ScanIsLocal DEF Settled, Scanned

\* A new scan settles every file.
LEMMA ScanSettles ==
    ASSUME NEW p, NEW loaded, RebuildLayout(loaded), UNCHANGED disk
    PROVE  Settled(p)'
  BY DEF RebuildLayout, Settled

\* What a handler does to the layout when it is told the truth.
LEMMA IncrementSettles ==
    ASSUME FilesAreSelected, layout.built, NEW p \in Paths, NEW change \in Changes,
           Speaks(change, p), Agrees(change, p, disk), UNCHANGED <<config, disk>>,
           IF change.type = "created" THEN AddFile(p) ELSE RemoveFile(p)
    PROVE  Settled(p)'
  <1> SUFFICES ASSUME config.autoDiscover, p \notin ListedFiles(config),
                      Scanned(config, p)
               PROVE  p \in layout'.files <=> p \in BuildFromConfig(config, disk)
    BY DEF Settled, Scanned
  <1>1. p \in BuildFromConfig(config, disk)
           <=> p \in disk /\ ShouldIncludeFile(config, Relative(p))
    BY ScanIsLocal
  <1>2. CASE change.type = "created"
    <2>1. p \in disk /\ AddFile(p)
      BY <1>2 DEF Agrees
    <2>2. p \in layout.files => ShouldIncludeFile(config, Relative(p))
      BY DEF FilesAreSelected, Selected
    <2> QED
      BY <1>1, <2>1, <2>2 DEF AddFile, SetFiles
  <1>3. CASE change.type # "created"
    BY <1>1, <1>3 DEF Agrees, RemoveFile, SetFiles
  <1> QED
    BY <1>2, <1>3

\* What leaves files, events, handlers and layout alone.
LEMMA FileInvStays ==
    ASSUME NEW p \in Paths, FileInv(p), UNCHANGED <<queueVars, layoutVars, disk>>,
           UNCHANGED client.events
    PROVE  FileInv(p)'
  <1>1. UNCHANGED <<Queue, layout, config>>
    BY DEF Queue, queueVars, layoutVars
  <1>2. Settled(p) => Settled(p)'
    BY <1>1 DEF Settled, Scanned
  <1> QED
    BY <1>1, <1>2 DEF FileInv

\* A change of the files: it is told, or p is another file.
LEMMA WorldSettles ==
    ASSUME TypeOK, LayoutInv, World, client'.stage # "exited",
           NEW p \in Paths \ missed'
    PROVE  FileInv(p)'
  <1>1. /\ client.events \in Seq(Changes \cup {ConfigChange})
        /\ client.stage # "exited" => p \in missed \/ FileInv(p)
    BY TypeParts DEF ClientOK, LayoutInv
  <1>2. ASSUME NEW change \in Changes \cup {ConfigChange}, Report(change),
               UNCHANGED <<queueVars, layoutVars>>,
               \/ /\ change.path = p /\ change \in Changes
                  /\ p \in disk <=> change.type # "created"
                  /\ p \in disk' <=> change.type # "deleted"
                  /\ Watching \/ layout.built
               \/ /\ ~Speaks(change, p)
                  /\ p \in disk <=> p \in disk'
        PROVE  FileInv(p)'
    <2>1. UNCHANGED <<Queue, layout, config>>
      BY <1>2 DEF Queue, queueVars, layoutVars
    <2>2. client.stage # "exited" /\ p \notin missed /\ FileInv(p)
      <3>1. client \in [stage : {"start", "rejected", "accepted", "running", "exited"},
                        events : Seq(Changes \cup {ConfigChange})]
        BY TypeParts DEF ClientOK
      <3>2. client'.stage = client.stage /\ missed \subseteq missed'
        BY <1>2, <3>1 DEF Report
      <3> QED
        BY <1>1, <3>2
    <2>3. ASSUME ~Speaks(change, p), client' = client, p \in disk <=> p \in disk'
          PROVE  FileInv(p)'
      <3>1. Settled(p) => Settled(p)'
        BY <2>1, <2>3, SettledStays
      <3>2. LastAgrees(client.events, p, disk) => LastAgrees(client.events, p, disk')
        BY <2>3 DEF LastAgrees, Agrees
      <3>3. QueueAgrees(Queue, p, disk) => QueueAgrees(Queue, p, disk')
        BY <2>3 DEF QueueAgrees, LastAgrees, Agrees
      <3> QED
        BY <2>1, <2>2, <2>3, <3>1, <3>2, <3>3 DEF FileInv
    <2>4. CASE Watching /\ (change = ConfigChange \/ InWorkspace(change.path))
      <3> DEFINE E == client.events
      <3>1. client'.events = Append(E, change)
        <4>1. client \in [stage : {"start", "rejected", "accepted", "running", "exited"},
                          events : Seq(Changes \cup {ConfigChange})]
          BY TypeParts DEF ClientOK
        <4> QED
          BY <1>2, <2>4, <4>1 DEF Report
      <3>2. /\ Silent(client'.events, p) <=> Silent(E, p) /\ ~Speaks(change, p)
            /\ Speaks(change, p) /\ Agrees(change, p, disk')
                 => LastAgrees(client'.events, p, disk')
            /\ ~Speaks(change, p) /\ LastAgrees(E, p, disk')
                 => LastAgrees(client'.events, p, disk')
        <4> DEFINE d == disk'
        <4> HIDE DEF E, d
        <4>1. E \in Seq(Changes \cup {ConfigChange})
          BY <1>1 DEF E
        <4>2. /\ Silent(Append(E, change), p) <=> Silent(E, p) /\ ~Speaks(change, p)
              /\ Speaks(change, p) /\ Agrees(change, p, d)
                   => LastAgrees(Append(E, change), p, d)
              /\ ~Speaks(change, p) /\ LastAgrees(E, p, d)
                   => LastAgrees(Append(E, change), p, d)
          BY <1>2, <4>1, AppendSpeaks
        <4> QED
          BY <3>1, <4>2 DEF d
      <3>3. CASE Speaks(change, p)
        <4>1. Agrees(change, p, disk') /\ InWorkspace(p)
          BY <1>2, <2>4, <3>3 DEF Speaks, Agrees, ConfigChange, Change
        <4> QED
          BY <2>1, <2>2, <3>2, <3>3, <4>1 DEF FileInv
      <3>4. CASE ~Speaks(change, p)
        <4>1. p \in disk <=> p \in disk'
          BY <1>2, <3>4 DEF Speaks, Changes
        <4>2. Settled(p) => Settled(p)'
          BY <2>1, <4>1, SettledStays
        <4>3. LastAgrees(E, p, disk) => LastAgrees(E, p, disk')
          BY <4>1 DEF LastAgrees, Agrees
        <4>4. QueueAgrees(Queue, p, disk) => QueueAgrees(Queue, p, disk')
          BY <4>1 DEF QueueAgrees, LastAgrees, Agrees
        <4> QED
          BY <2>1, <2>2, <3>2, <3>4, <4>1, <4>2, <4>3, <4>4 DEF FileInv
      <3> QED
        BY <3>3, <3>4
    <2>5. CASE ~(Watching /\ (change = ConfigChange \/ InWorkspace(change.path)))
      <3>1. /\ UNCHANGED client
            /\ missed' = missed \cup (IF layout.built THEN {change.path} ELSE {})
        BY <1>2, <2>5 DEF Report
      <3>2. CASE ~Speaks(change, p) /\ (p \in disk <=> p \in disk')
        BY <2>3, <3>1, <3>2
      <3>3. CASE change.path = p /\ (Watching \/ layout.built)
        <4>1. ~layout.built /\ ~InWorkspace(p)
          BY <2>5, <3>1, <3>3
        <4>2. Silent(client.events, p) /\ AllSilent(Queue, p)
          BY <2>2, <4>1 DEF FileInv
        <4>3. /\ LastAgrees(client.events, p, disk')
              /\ QueueAgrees(Queue, p, disk')
          BY <4>2 DEF LastAgrees, Silent, QueueAgrees, AllSilent
        <4> QED
          BY <2>1, <2>2, <3>1, <4>1, <4>2, <4>3 DEF FileInv
      <3> QED
        BY <1>2, <3>2, <3>3
    <2> QED
      BY <2>4, <2>5
  <1>3. ASSUME NEW path \in Changing, NEW type \in {"created", "deleted", "changed"},
               ChangeFile(type, path)
        PROVE  FileInv(p)'
    <2> DEFINE change == Change(type, path)
    <2>1. change \in Changes /\ change.path = path /\ change.type = type
      BY PathsAssumption DEF Change, Changes
    <2>2. /\ path \in disk <=> type # "created"
          /\ disk' = CASE type = "created" -> disk \cup {path}
                       [] type = "deleted" -> disk \ {path}
                       [] OTHER -> disk
          /\ UNCHANGED <<queueVars, layoutVars>>
          /\ Watching \/ layout.built
          /\ Report(change)
      BY <1>3 DEF ChangeFile, FilesMayChange
    <2> HIDE DEF change
    <2>3. CASE path = p
      <3>1. p \in disk' <=> type # "deleted"
        BY <2>2, <2>3
      <3> QED
        BY <1>2, <2>1, <2>2, <2>3, <3>1
    <2>4. CASE path # p
      <3>1. p \in disk <=> p \in disk'
        BY <2>2, <2>4
      <3>2. ~Speaks(change, p)
        BY <2>1, <2>4 DEF Speaks
      <3> QED
        BY <1>2, <2>1, <2>2, <3>1, <3>2
    <2> QED
      BY <2>3, <2>4
  <1>4. ASSUME NEW new \in Texts, EditConfig(new) PROVE FileInv(p)'
    <2>1. ~Speaks(ConfigChange, p)
      BY DEF Speaks, ConfigChange, Change
    <2>2. Report(ConfigChange) /\ UNCHANGED <<queueVars, layoutVars, disk>>
      BY <1>4 DEF EditConfig
    <2> QED
      BY <1>2, <2>1, <2>2
  <1>5. ASSUME NEW r \in Requests, NEW what \in {"definition", "symbols", "unopened"},
               Ask(r, what)
        PROVE  FileInv(p)'
    BY <1>1, <1>5, FileInvStays DEF Ask, LayoutInv
  <1> QED
    BY <1>3, <1>4, <1>5 DEF World

\* A notification becomes the last handler, or nothing.
LEMMA NotificationSettles ==
    ASSUME TypeOK, LayoutInv, OnDidChangeWatchedFiles, NEW p \in Paths \ missed'
    PROVE  FileInv(p)'
  <1> DEFINE E == client.events
             todo == SourceChanges(E)
             h == Handler(todo, ConfigChange \in Range(E))
             n == Len(Queue)
  <1>1. /\ E \in Seq(Changes \cup {ConfigChange}) /\ client.stage # "exited"
        /\ p \notin missed /\ FileInv(p)
    BY TypeParts DEF ClientOK, LayoutInv, OnDidChangeWatchedFiles
  <1>2. /\ UNCHANGED <<strand, layout, config, disk>> /\ waiting' = GoesOn(waiting, h)
        /\ missed' = missed \cup (Overtaken \cap {e.path : e \in Range(E)})
    BY DEF OnDidChangeWatchedFiles, layoutVars, fileVars
  <1>3. client'.events = <<>>
    <2>1. client \in [stage : {"start", "rejected", "accepted", "running", "exited"},
                      events : Seq(Changes \cup {ConfigChange})]
      BY TypeParts DEF ClientOK
    <2> QED
      BY <2>1 DEF OnDidChangeWatchedFiles
  <1>4. /\ Kept(E, Len(E), todo) /\ todo \in Seq(Changes)
        /\ Silent(todo, p) <=> Silent(E, p)
        /\ LastAgrees(E, p, disk) => LastAgrees(todo, p, disk)
    <2> HIDE DEF E
    <2>1. Kept(E, Len(E), todo)
      BY <1>1, SourceChangesKeep
    <2> HIDE DEF todo
    <2> QED
      BY <1>1, <2>1, KeptSpeaks DEF Kept
  <1>5. h \in Handlers /\ h.todo = todo
    <2> DEFINE reload == ConfigChange \in Range(E)
    <2>1. reload \in BOOLEAN
      OBVIOUS
    <2> HIDE DEF reload, todo
    <2>2. Handler(todo, reload) \in Handlers /\ Handler(todo, reload).todo = todo
      BY <1>4, <2>1, HandlerFacts DEF Handler
    <2> QED
      BY <2>2 DEF reload
  <1>6. /\ strand \in Seq(Handlers) /\ waiting \in Seq(Handlers)
        /\ Queue \in Seq(Handlers)
        /\ \A k \in 1 .. n : \E g \in Range(waiting) \cup Range(strand) : Queue[k] = g
    <2>1. strand \in Seq(Handlers) /\ waiting \in Seq(Handlers)
      BY TypeParts DEF QueueOK
    <2>2. ASSUME NEW k \in 1 .. n
          PROVE  \E g \in Range(waiting) \cup Range(strand) : Queue[k] = g
      <3>1. /\ Len(strand) \in Nat /\ Len(waiting) \in Nat
            /\ n = Len(strand) + Len(waiting)
            /\ \A i \in 1 .. Len(strand) : Queue[i] = strand[i]
            /\ \A i \in Len(strand) + 1 .. n : Queue[i] = waiting[i - Len(strand)]
        BY <2>1, QueueFacts DEF Queue
      <3> HIDE DEF n
      <3>2. CASE k \in 1 .. Len(strand)
        BY <2>1, <3>1, <3>2 DEF Range
      <3>3. CASE k \in Len(strand) + 1 .. n
        <4>1. k - Len(strand) \in 1 .. Len(waiting)
          BY <3>1, <3>3
        <4> QED
          BY <2>1, <3>1, <3>3, <4>1 DEF Range
      <3> QED
        BY <3>1, <3>2, <3>3
    <2> QED
      BY <2>1, <2>2, QueueFacts DEF Queue
  <1> HIDE DEF h, todo
  <1>7. CASE h = Handler(<<>>, FALSE)
    <2>1. Queue' = Queue
      BY <1>2, <1>7 DEF Queue, GoesOn
    <2>2. Silent(E, p)
      <3>1. todo = <<>>
        BY <1>5, <1>7 DEF Handler
      <3> QED
        BY <1>4, <3>1 DEF Silent
    <2>3. Settled(p) => Settled(p)'
      BY <1>2, SettledStays
    <2>4. Silent(<<>>, p) /\ LastAgrees(<<>>, p, disk)
      BY DEF Silent, LastAgrees
    <2> QED
      BY <1>1, <1>2, <1>3, <2>1, <2>2, <2>3, <2>4 DEF FileInv
  <1>8. CASE h # Handler(<<>>, FALSE)
    <2> DEFINE q == Queue
               q2 == Append(q, h)
    <2>1. Queue' = q2
      <3>1. strand \o Append(waiting, h) = Append(strand \o waiting, h)
        BY <1>5, <1>6
      <3> QED
        BY <1>2, <1>8, <3>1 DEF Queue, GoesOn
    <2> HIDE DEF q
    <2>2. /\ q \in Seq(Handlers) /\ Len(q) \in Nat /\ n = Len(q)
          /\ Len(q2) = n + 1 /\ q2[n + 1] = h
          /\ \A i \in 1 .. n : q2[i] = q[i]
      <3>1. q \in Seq(Handlers)
        BY <1>6 DEF q
      <3>2. n = Len(q)
        BY DEF q
      <3> QED
        BY <1>5, <3>1, <3>2
    <2> HIDE DEF q2, n
    <2>3. /\ \A i \in 1 .. Len(q2) : i \in 1 .. n \/ i = n + 1
          /\ \A i \in 1 .. n : i \in 1 .. Len(q2) /\ n + 1 > i /\ ~(n + 1 < i)
          /\ n + 1 \in 1 .. Len(q2) /\ ~(n + 1 < n + 1)
      BY <2>2
    <2>4. AllSilent(q2, p) <=> AllSilent(q, p) /\ Silent(E, p)
      BY <1>4, <1>5, <2>2, <2>3 DEF AllSilent
    <2>5. NotOvertaken(q2, p)
      <3> SUFFICES ASSUME NEW j \in 1 .. Len(q2), NEW k \in 1 .. Len(q2),
                          NEW i \in 1 .. Len(q2[j].todo),
                          j < k, i > 1, Speaks(q2[j].todo[i], p)
                   PROVE  Silent(q2[k].todo, p)
        BY DEF NotOvertaken
      <3>1. j \in 1 .. n
        BY <2>2, <2>3
      <3>2. CASE k \in 1 .. n
        BY <1>1, <2>2, <3>1, <3>2 DEF FileInv, NotOvertaken, q
      <3>3. CASE k = n + 1
        <4> SUFFICES ASSUME ~Silent(todo, p) PROVE FALSE
          BY <1>5, <2>2, <3>3
        <4>1. PICK m \in 1 .. Len(E) : Speaks(E[m], p)
          BY <1>4 DEF Silent
        <4>2. p \in {e.path : e \in Range(E)}
          BY <1>1, <4>1 DEF Speaks, Range
        <4>3. PICK g \in Range(waiting) \cup Range(strand) : q[j] = g
          BY <1>6, <3>1 DEF n, q
        <4>4. g \in Handlers /\ g.todo \in Seq(Changes)
          <5>1. q[j] \in Handlers
            BY <2>2, <3>1
          <5> QED
            BY <4>3, <5>1 DEF Handlers
        <4>5. g.todo # <<>> /\ i \in 1 .. Len(g.todo) /\ g.todo[i].path = p
          BY <2>2, <3>1, <4>3, <4>4 DEF Speaks
        <4> DEFINE s == g.todo
        <4>6. s \in Seq(Changes) /\ s # <<>> /\ i \in 1 .. Len(s) /\ s[i].path = p
          BY <4>4, <4>5
        <4> HIDE DEF s
        <4>7. \E change \in Range(Tail(s)) : change.path = p
          <5>1. /\ Tail(s) \in Seq(Changes) /\ Len(Tail(s)) = Len(s) - 1
                /\ \A a \in 1 .. Len(s) - 1 : Tail(s)[a] = s[a + 1]
            BY <4>6, TailFacts
          <5>2. i - 1 \in 1 .. Len(s) - 1 /\ (i - 1) + 1 = i
            BY <4>6
          <5>3. Tail(s)[i - 1] = s[i] /\ i - 1 \in 1 .. Len(Tail(s))
            BY <5>1, <5>2
          <5>4. Tail(s)[i - 1] \in Range(Tail(s))
            BY <5>1, <5>3 DEF Range
          <5> QED
            BY <4>6, <5>3, <5>4
        <4>8. p \in Overtaken
          BY <4>3, <4>5, <4>7 DEF Overtaken, s
        <4> QED
          BY <1>2, <4>2, <4>8
      <3> QED
        BY <2>3, <3>2, <3>3
    <2>6. QueueAgrees(q2, p, disk)
      <3> SUFFICES ASSUME NEW k \in 1 .. Len(q2),
                          \A m \in 1 .. Len(q2) : m > k => Silent(q2[m].todo, p)
                   PROVE  LastAgrees(q2[k].todo, p, disk)
        BY DEF QueueAgrees
      <3>1. CASE k = n + 1
        BY <1>1, <1>4, <1>5, <2>2, <3>1 DEF FileInv
      <3>2. CASE k \in 1 .. n
        <4>1. Silent(E, p)
          BY <1>4, <1>5, <2>2, <2>3, <3>2
        <4>2. QueueAgrees(q, p, disk)
          BY <1>1, <4>1 DEF FileInv, q
        <4>3. \A m \in 1 .. Len(q) : m > k => Silent(q[m].todo, p)
          BY <2>2, <2>3
        <4>4. k \in 1 .. Len(q) /\ q2[k] = q[k]
          BY <2>2, <3>2
        <4>5. LastAgrees(q[k].todo, p, disk)
          BY <4>2, <4>3, <4>4 DEF QueueAgrees
        <4> QED
          BY <4>4, <4>5
      <3> QED
        BY <2>3, <3>1, <3>2
    <2>7. Settled(p) => Settled(p)'
      BY <1>2, SettledStays
    <2>8. Silent(<<>>, p) /\ LastAgrees(<<>>, p, disk)
      BY DEF Silent, LastAgrees
    <2>9. /\ ~InWorkspace(p) => Silent(E, p) /\ AllSilent(q, p)
          /\ layout.built /\ Silent(E, p) /\ AllSilent(q, p) => Settled(p)
      BY <1>1 DEF FileInv, q
    <2> QED
      BY <1>2, <1>3, <2>1, <2>4, <2>5, <2>6, <2>7, <2>8, <2>9 DEF FileInv
  <1> QED
    BY <1>7, <1>8

\* A turn of a handler.
LEMMA HandlingSettles ==
    ASSUME TypeOK, FilesAreSelected, LayoutInv, Handling,
           client.stage # "exited", NEW p \in Paths \ missed'
    PROVE  FileInv(p)'
  <1>1. /\ UNCHANGED <<client, disk, missed>>
        /\ strand \in Seq(Handlers) /\ waiting \in Seq(Handlers)
    BY TypeParts DEF Handling, ResumeHandler, HandleSourceFileChange,
       HandleConfigChange, fileVars, clientVars, QueueOK
  <1>2. FileInv(p)
    BY <1>1 DEF LayoutInv
  <1>3. ASSUME NEW k, Requeued(Queue, k, Queue'),
               k = 1 \/ Queue[k].todo = <<>> \/ ~Speaks(Queue[k].todo[1], p),
               \/ Settled(p)'
               \/ /\ Queue[k].todo # <<>> => ~Speaks(Queue[k].todo[1], p)
                  /\ Settled(p) => Settled(p)'
                  /\ layout'.built => layout.built
        PROVE  FileInv(p)'
    <2> DEFINE q == Queue
               q2 == Queue'
               d == disk
    <2>1. /\ NotOvertaken(q2, p)
          /\ QueueAgrees(q, p, d) => QueueAgrees(q2, p, d)
          /\ AllSilent(q2, p) => \A m \in 1 .. Len(q) : m # k => Silent(q[m].todo, p)
          /\ AllSilent(q2, p) /\ q[k].todo # <<>> => Silent(Tail(q[k].todo), p)
          /\ AllSilent(q, p) => AllSilent(q2, p)
      <3>1. /\ Requeued(q, k, q2) /\ NotOvertaken(q, p)
            /\ k = 1 \/ q[k].todo = <<>> \/ ~Speaks(q[k].todo[1], p)
        BY <1>2, <1>3 DEF FileInv
      <3> HIDE DEF q, q2, d
      <3> QED
        BY <3>1, RequeueSpeaks
    <2>2. CASE Settled(p)'
      BY <1>1, <1>2, <2>1, <2>2 DEF FileInv
    <2>3. CASE /\ q[k].todo # <<>> => ~Speaks(q[k].todo[1], p)
               /\ Settled(p) => Settled(p)'
               /\ layout'.built => layout.built
      <3>1. ASSUME AllSilent(q2, p) PROVE AllSilent(q, p)
        <4>1. Silent(q[k].todo, p)
          <5>1. CASE q[k].todo = <<>>
            BY <5>1 DEF Silent
          <5>2. CASE q[k].todo # <<>>
            <6> DEFINE s == q[k].todo
            <6>1. s \in Seq(Changes)
              <7>1. q[k] \in Handlers
                BY <1>3 DEF Requeued
              <7> QED
                BY <7>1 DEF Handlers
            <6>2. s # <<>> /\ ~Speaks(s[1], p) /\ Silent(Tail(s), p)
              BY <2>1, <2>3, <3>1, <5>2
            <6> HIDE DEF s
            <6>3. Silent(s, p)
              BY <6>1, <6>2, TailSpeaks
            <6> QED
              BY <6>3 DEF s
          <5> QED
            BY <5>1, <5>2
        <4> QED
          BY <2>1, <3>1, <4>1 DEF AllSilent
      <3>2. /\ ~InWorkspace(p) => Silent(client.events, p) /\ AllSilent(q, p)
            /\ LastAgrees(client.events, p, d)
            /\ Silent(client.events, p) => QueueAgrees(q, p, d)
            /\ layout.built /\ Silent(client.events, p) /\ AllSilent(q, p)
                 => Settled(p)
        BY <1>2 DEF FileInv
      <3>3. /\ ~InWorkspace(p) => Silent(client.events, p) /\ AllSilent(q2, p)
            /\ Silent(client.events, p) => QueueAgrees(q2, p, d)
            /\ layout'.built /\ Silent(client.events, p) /\ AllSilent(q2, p)
                 => Settled(p)'
        <4> HIDE DEF q, q2, d
        <4> QED
          BY <2>1, <2>3, <3>1, <3>2
      <3> QED
        BY <1>1, <2>1, <3>2, <3>3 DEF FileInv
    <2> QED
      BY <1>3, <2>2, <2>3
  <1>4. CASE ResumeHandler
    <2> DEFINE h == Head(waiting)
    <2>1. /\ waiting # <<>> /\ h \in Handlers /\ UNCHANGED <<layout, config>>
      BY <1>1, <1>4, TailFacts DEF ResumeHandler, layoutVars
    <2>2. Settled(p) => Settled(p)'
      BY <1>1, <2>1, SettledStays
    <2>3. CASE /\ h.todo # <<>> /\ Head(h.todo).type = "changed"
               /\ waiting' = GoesOn(Tail(waiting), [h EXCEPT !.todo = Tail(@)])
               /\ UNCHANGED strand
      <3>1. /\ Requeued(Queue, Len(strand) + 1, Queue')
            /\ Queue[Len(strand) + 1] = h
        BY <1>1, <2>1, <2>3, WaiterTurn
      <3>2. ~Speaks(h.todo[1], p)
        BY <2>1, <2>3, RestFacts DEF Speaks
      <3> QED
        BY <1>3, <2>1, <2>2, <3>1, <3>2
    <2>4. CASE waiting' = Tail(waiting) /\ strand' = Append(strand, h)
      <3>1. Append(strand, h) \o Tail(waiting) = strand \o waiting
        BY <1>1, <2>1
      <3>2. UNCHANGED Queue
        BY <2>4, <3>1 DEF Queue
      <3> QED
        BY <1>1, <1>2, <2>1, <2>2, <3>2 DEF FileInv
    <2> QED
      BY <1>4, <2>3, <2>4 DEF ResumeHandler
  <1>5. ASSUME strand # <<>>
        PROVE  /\ Head(strand) \in Handlers /\ Head(strand) \in Range(strand)
               /\ Queue[1] = Head(strand) /\ Queue \in Seq(Handlers)
    <2>1. /\ Head(strand) \in Handlers /\ Head(strand) = strand[1]
          /\ Head(strand) \in Range(strand)
      BY <1>1, <1>5, TailFacts
    <2>2. 1 \in 1 .. Len(strand)
      BY <1>1, <1>5
    <2> QED
      BY <1>1, <2>1, <2>2, QueueFacts DEF Queue
  <1>6. CASE HandleSourceFileChange
    <2> DEFINE h == Head(strand)
               change == Head(h.todo)
    <2>1. /\ strand # <<>> /\ h.todo # <<>> /\ h \in Handlers /\ h \in Range(strand)
          /\ strand' = Tail(strand) /\ Queue[1] = h
          /\ waiting' = GoesOn(waiting, [h EXCEPT !.todo = Tail(@)])
          /\ IF change.type = "created" THEN AddFile(change.path)
                                        ELSE RemoveFile(change.path)
          /\ UNCHANGED config
      BY <1>5, <1>6 DEF HandleSourceFileChange
    <2>2. Requeued(Queue, 1, Queue')
      BY <1>1, <2>1, StrandTurn
    <2>3. change \in Changes /\ change = h.todo[1] /\ change.type # "changed"
      <3>1. change = h.todo[1] /\ change \in Changes
        BY <2>1, RestFacts
      <3>2. h.todo[1].type # "changed"
        BY <2>1, TypeParts DEF QueueOK
      <3> QED
        BY <3>1, <3>2
    <2>4. layout.built /\ layout \in [built : BOOLEAN, files : SUBSET Paths]
      BY <2>1, TypeParts DEF ReadyOK, LayoutOK, Ready
    <2> HIDE DEF h, change
    <2>5. CASE Speaks(change, p)
      <3>1. CASE Silent(client.events, p) /\ AllSilent(Queue', p)
        <4>1. /\ \A m \in 1 .. Len(Queue) : m # 1 => Silent(Queue[m].todo, p)
              /\ Silent(Tail(h.todo), p)
          <5> DEFINE q == Queue
                     q2 == Queue'
          <5>1. Requeued(q, 1, q2) /\ NotOvertaken(q, p) /\ AllSilent(q2, p)
                /\ q[1].todo # <<>>
            BY <1>2, <2>1, <2>2, <3>1 DEF FileInv
          <5> HIDE DEF q, q2
          <5>2. /\ \A m \in 1 .. Len(q) : m # 1 => Silent(q[m].todo, p)
                /\ Silent(Tail(q[1].todo), p)
            BY <5>1, RequeueSpeaks
          <5> QED
            BY <2>1, <5>2 DEF q
        <4>2. LastAgrees(h.todo, p, disk)
          <5>1. QueueAgrees(Queue, p, disk)
            BY <1>2, <3>1 DEF FileInv
          <5>2. 1 \in 1 .. Len(Queue)
            BY <2>2 DEF Requeued
          <5>3. \A m \in 1 .. Len(Queue) : m > 1 => Silent(Queue[m].todo, p)
            BY <4>1
          <5> QED
            BY <2>1, <5>1, <5>2, <5>3 DEF QueueAgrees
        <4>3. Agrees(change, p, disk)
          <5> DEFINE s == h.todo
          <5>1. /\ s \in Seq(Changes) /\ s # <<>> /\ LastAgrees(s, p, disk)
                /\ Speaks(s[1], p) /\ Silent(Tail(s), p)
            BY <2>1, <2>3, <2>5, <4>1, <4>2 DEF Handlers
          <5> HIDE DEF s
          <5>2. Agrees(s[1], p, disk)
            BY <5>1, TailSpeaks
          <5> QED
            BY <2>3, <5>2 DEF s
        <4>4. Settled(p)'
          <5>1. change.path = p
            BY <2>5 DEF Speaks
          <5> QED
            BY <1>1, <2>1, <2>3, <2>4, <2>5, <4>3, <5>1, IncrementSettles
        <4> QED
          BY <1>3, <2>2, <4>4
      <3>2. CASE ~(Silent(client.events, p) /\ AllSilent(Queue', p))
        <4> DEFINE q == Queue
                   q2 == Queue'
                   d == disk
        <4>1. /\ NotOvertaken(q2, p)
              /\ QueueAgrees(q, p, d) => QueueAgrees(q2, p, d)
              /\ AllSilent(q, p) => AllSilent(q2, p)
          <5>1. Requeued(q, 1, q2) /\ NotOvertaken(q, p)
            BY <1>2, <2>2 DEF FileInv
          <5> HIDE DEF q, q2, d
          <5> QED
            BY <5>1, RequeueSpeaks
        <4> QED
          BY <1>1, <1>2, <3>2, <4>1 DEF FileInv
      <3> QED
        BY <3>1, <3>2
    <2>6. CASE ~Speaks(change, p)
      <3>1. change.path # p
        BY <2>3, <2>6 DEF Speaks, Changes
      <3>2. p \in layout.files <=> p \in layout'.files
        BY <2>1, <2>4, <3>1 DEF AddFile, RemoveFile, SetFiles
      <3>3. Settled(p) => Settled(p)'
        <4>1. p \in disk <=> p \in disk'
          BY <1>1
        <4> QED
          BY <2>1, <3>2, <4>1, SettledStays
      <3> QED
        BY <1>3, <2>1, <2>2, <2>3, <2>4, <2>6, <3>3
    <2> QED
      BY <2>5, <2>6
  <1>7. CASE HandleConfigChange
    <2>1. /\ strand # <<>> /\ Head(strand).todo = <<>> /\ strand' = Tail(strand)
          /\ UNCHANGED waiting
      BY <1>7 DEF HandleConfigChange
    <2>2. Requeued(Queue, 1, Queue') /\ Queue[1].todo = <<>>
      BY <1>1, <1>5, <2>1, ConfigTurn
    <2>3. CASE UNCHANGED layoutVars
      <3>1. UNCHANGED <<layout, config>>
        BY <2>3 DEF layoutVars
      <3>2. Settled(p) => Settled(p)'
        BY <1>1, <3>1, SettledStays
      <3> QED
        BY <1>3, <2>2, <3>1, <3>2
    <2>4. CASE RebuildLayout(ConfigOf(text))
      <3>1. Settled(p)'
        BY <1>1, <2>4, ScanSettles
      <3> QED
        BY <1>3, <2>2, <3>1
    <2> QED
      BY <1>7, <2>3, <2>4 DEF HandleConfigChange, HandleConfigFileChange
  <1> QED
    BY <1>4, <1>6, <1>7 DEF Handling

\* LayoutFollowsDisk for every run of the server, from the invariant above.
THEOREM LayoutIsThatOfDisk == Spec => []LayoutFollowsDisk
  <1>1. Init => LayoutInv
    <2> SUFFICES ASSUME Init, NEW p \in Paths PROVE FileInv(p)
      BY DEF LayoutInv
    <2>1. client.events = <<>> /\ Queue = <<>> /\ ~layout.built
      BY DEF Init, Queue
    <2>2. Silent(<<>>, p) /\ LastAgrees(<<>>, p, disk)
      BY DEF Silent, LastAgrees
    <2>3. AllSilent(<<>>, p) /\ NotOvertaken(<<>>, p) /\ QueueAgrees(<<>>, p, disk)
      BY DEF AllSilent, NotOvertaken, QueueAgrees
    <2> QED
      BY <2>1, <2>2, <2>3 DEF FileInv
  <1>2. TypeOK /\ FilesAreSelected /\ LayoutInv /\ [Next]_vars => LayoutInv'
    <2> SUFFICES ASSUME TypeOK, FilesAreSelected, LayoutInv, [Next]_vars,
                        client'.stage # "exited", NEW p \in Paths \ missed'
                 PROVE  FileInv(p)'
      BY DEF LayoutInv
    <2>1. ASSUME client.stage # "exited", UNCHANGED <<disk, missed>>,
                 UNCHANGED <<queueVars, layoutVars>>, UNCHANGED client.events
          PROVE  FileInv(p)'
      BY <2>1, FileInvStays DEF LayoutInv
    <2>2. CASE LifeCycle
      <3>1. client \in [stage : {"start", "rejected", "accepted", "running", "exited"},
                        events : Seq(Changes \cup {ConfigChange})]
        BY TypeParts DEF ClientOK
      <3>2. ASSUME NEW given, NEW folders, OnInitialize(given, folders)
            PROVE  FileInv(p)'
        BY <2>1, <3>1, <3>2 DEF OnInitialize, fileVars
      <3>3. ASSUME OnInitialized PROVE FileInv(p)'
        BY <2>1, <3>1, <3>3 DEF OnInitialized, fileVars
      <3>4. ASSUME NEW closes, OnExit(closes) PROVE FALSE
        BY <3>4 DEF OnExit
      <3> QED
        BY <2>2, <3>2, <3>3, <3>4 DEF LifeCycle
    <2>3. CASE World
      BY <2>3, WorldSettles
    <2>4. CASE OnDidChangeWatchedFiles
      BY <2>4, NotificationSettles
    <2>5. CASE Handling
      <3>1. client.stage # "exited"
        BY <2>5 DEF Handling, ResumeHandler, HandleSourceFileChange,
           HandleConfigChange, clientVars
      <3> QED
        BY <2>5, <3>1, HandlingSettles
    <2>6. CASE LoadConfig
      <3>1. Settled(p)'
        BY <2>6, ScanSettles DEF LoadConfig, fileVars
      <3>2. FileInv(p) /\ UNCHANGED <<Queue, client, disk>>
        BY <2>6 DEF LoadConfig, LayoutInv, Queue, fileVars, queueVars, clientVars
      <3> QED
        BY <3>1, <3>2 DEF FileInv
    <2>7. CASE Registers
      BY <2>1, <2>7 DEF Registers, RegisterCapability, fileVars, clientVars
    <2>8. CASE WorkspaceReady \/ RebuildEnds \/ TimerExpires \/ ProcessEnds
      BY <2>1, <2>8 DEF WorkspaceReady, RebuildEnds,
         TimerExpires, ProcessEnds, fileVars, clientVars
    <2>9. CASE \E r \in Requests : Answer(r)
      BY <2>1, <2>9 DEF Answer, fileVars
    <2>10. CASE UNCHANGED vars
      BY <2>1, <2>10 DEF vars, fileVars, clientVars
    <2> QED
      BY <2>2, <2>3, <2>4, <2>5, <2>6, <2>7, <2>8, <2>9, <2>10
      DEF Next, Initializing
  <1>3. TypeOK /\ LayoutInv => LayoutFollowsDisk
    <2> SUFFICES ASSUME TypeOK, LayoutInv, Told, client.stage # "exited",
                        config.autoDiscover,
                        NEW p \in Paths \ (missed \cup ListedFiles(config)),
                        Scanned(config, p)
                 PROVE  p \in layout.files <=> p \in BuildFromConfig(config, disk)
      BY DEF LayoutFollowsDisk
    <2>1. FileInv(p) /\ layout.built
      BY TypeParts DEF LayoutInv, Told, LayoutOK, Ready
    <2>2. Silent(client.events, p) /\ AllSilent(Queue, p)
      <3>1. Queue = <<>> /\ client.events = <<>>
        BY DEF Told, Queue
      <3> QED
        BY <3>1 DEF Silent, AllSilent
    <2> QED
      BY <2>1, <2>2 DEF FileInv, Settled
  <1> QED
    BY <1>1, <1>2, <1>3, ServerTypes, LayoutIsSelected, PTL DEF Spec

-----------------------------------------------------------------------------

\* What a rebuild owes: when the preamble, or the files a rebuild has read, are
\* not those of the layout, the timer runs, or a rebuild has read the right
\* ones, or it is marked to be followed by another.
RebuildIsDue ==
    /\ Ready /\ preamble # layout.files =>
          \/ timer \/ rebuild.state = "pendingNext"
          \/ rebuild.at = "building" /\ rebuild.files = layout.files
    /\ rebuild.at = "building" /\ rebuild.files # layout.files =>
          timer \/ rebuild.state = "pendingNext"

\* No change of the layout is forgotten: at any time, also while a rebuild
\* builds from what it has read, something is under way that brings the
\* preamble up to date.  PreambleFollowsLayout is this and fairness.
THEOREM NoRebuildIsForgotten == Spec => []RebuildIsDue
  <1>1. Init => RebuildIsDue
    BY DEF Init, RebuildIsDue, Ready
  <1>2. TypeOK /\ RebuildIsDue /\ [Next]_vars => RebuildIsDue'
    <2> SUFFICES ASSUME TypeOK, RebuildIsDue, [Next]_vars PROVE RebuildIsDue'
      OBVIOUS
    <2> USE TypeParts DEF RebuildIsDue, Ready, LayoutOK, RebuildOK, ReadyOK
    <2>1. ASSUME UNCHANGED <<init, preamble, layout, timer, rebuild>>
          PROVE  RebuildIsDue'
      BY <2>1
    <2>2. CASE LifeCycle \/ World \/ Registers
      <3>1. ASSUME OnInitialized PROVE RebuildIsDue'
        BY <3>1 DEF OnInitialized, ClientOK, layoutVars, rebuildVars
      <3> QED
        BY <2>1, <2>2, <3>1 DEF LifeCycle, OnInitialize, OnExit, World, ChangeFile,
           EditConfig, Ask, Registers, RegisterCapability, rebuildVars, layoutVars
    <2>3. CASE OnDidChangeWatchedFiles \/ ProcessEnds
      BY <2>1, <2>3 DEF OnDidChangeWatchedFiles, ProcessEnds, rebuildVars, layoutVars
    <2>4. CASE \E r \in Requests : Answer(r)
      BY <2>1, <2>4 DEF Answer, rebuildVars, layoutVars
    <2>5. CASE LoadConfig
      BY <2>5 DEF LoadConfig, rebuildVars
    <2>6. CASE WorkspaceReady
      BY <2>6 DEF WorkspaceReady, layoutVars
    <2>7. CASE ResumeHandler
      BY <2>7 DEF ResumeHandler, ScheduleWorkspaceRebuild, layoutVars
    <2>8. CASE HandleSourceFileChange
      BY <2>8 DEF HandleSourceFileChange, ScheduleWorkspaceRebuild
    <2>9. CASE HandleConfigChange
      <3>1. RebuildWorkspace(layout'.files) /\ UNCHANGED <<timer, preamble, init>>
        BY <2>9 DEF HandleConfigChange
      <3> QED
        BY <3>1 DEF RebuildWorkspace
    <2>10. CASE TimerExpires
      BY <2>10 DEF TimerExpires, RebuildWorkspace, layoutVars
    <2>11. CASE RebuildEnds
      BY <2>11 DEF RebuildEnds, ScheduleWorkspaceRebuild, layoutVars
    <2>12. CASE UNCHANGED vars
      BY <2>1, <2>12 DEF vars, layoutVars, rebuildVars
    <2> QED
      BY <2>2, <2>3, <2>4, <2>5, <2>6, <2>7, <2>8, <2>9, <2>10, <2>11, <2>12
      DEF Next, Initializing, Handling
  <1> QED
    BY <1>1, <1>2, ServerTypes, PTL DEF Spec

=============================================================================
