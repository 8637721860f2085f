---------------------------- MODULE SlangdServer ----------------------------
(***************************************************************************)
(* The life of the server from "initialize" to the end of the process, the *)
(* project layout that it keeps, and the files and the client around it.   *)
(*                                                                         *)
(* All handlers are coroutines on the one thread of the io_context.  The   *)
(* handler of a file notification is what it still has to do: a sequence   *)
(* of changes, and whether the configuration is to be reloaded after them. *)
(* It suspends where it awaits workspace_ready_ ("waiting") and where it   *)
(* posts itself to the strand of ProjectLayoutService ("strand").          *)
(***************************************************************************)
EXTENDS ProjectLayout, FiniteSets

CONSTANTS
    Paths,          \* the source files that may exist or that a list names
    Changing,       \* those that come and go while the server runs
    Texts,          \* what .slangd may say: names in Settings, or others
    Requests,       \* identifiers of requests
    MaxDeeds        \* bound: changes of files, and requests

ASSUME PathsAssumption == Changing \subseteq Paths
ASSUME ListsAssumption ==
    \A new \in Texts : ListedFiles(ConfigOf(new)) \subseteq Paths
ASSUME DeedsAssumption == MaxDeeds \in Nat

VARIABLES
    disk,       \* the source files that exist
    text,       \* the configuration file
    client,     \* the client: its stage, and the file events it has not sent
    asked,      \* the requests: what for, or that they are answered
    folder,     \* workspace_folder_
    init,       \* where InitializeWorkspace is
    watcher,    \* the registration of the file watcher
    config,     \* config_
    layout,     \* cached_layout_: is there one, and its files
    waiting,    \* handlers that await workspace_ready_
    strand,     \* handlers posted to the strand of ProjectLayoutService
    timer,      \* does workspace_rebuild_timer_ run?
    rebuild,    \* RebuildWorkspace: its state, its position, the files it read
    preamble,   \* the files of the current preamble
    process,    \* the process, and whether work_guard_ holds it
    made,       \* how many changes and requests were made
    missed      \* history: the files whose changes were not told in order

fileVars    == <<disk, text, made>>
clientVars  == <<client, asked>>
serverVars  == <<folder, process, watcher>>
layoutVars  == <<config, layout>>
queueVars   == <<waiting, strand>>
rebuildVars == <<timer, rebuild, preamble>>
vars == <<fileVars, missed, clientVars, serverVars, init, layoutVars,
          queueVars, rebuildVars>>

-----------------------------------------------------------------------------

NoFolder == <<>>
Alive == process \in {"running", "released"}
Ready == init = "ready"
Watching == watcher = "watching"

Handler(todo, reload) == [todo |-> todo, reload |-> reload]
Change(type, path)    == [type |-> type, path |-> path]
ConfigChange          == Change("config", <<>>)

\* A handler goes on to its next wait, unless nothing is left to do.
GoesOn(queue, handler) ==
    IF handler = Handler(<<>>, FALSE) THEN queue ELSE Append(queue, handler)

Init ==
    /\ disk \in {Paths, Paths \ Changing}
    /\ text \in Texts
    /\ client = [stage |-> "start", events |-> <<>>]
    /\ asked = [r \in Requests |-> "unasked"]
    /\ folder = NoFolder
    /\ init = "none"
    /\ watcher = "none"
    /\ config = DefaultConfig
    /\ layout = [built |-> FALSE, files |-> {}]
    /\ waiting = <<>>
    /\ strand = <<>>
    /\ timer = FALSE
    /\ rebuild = [state |-> "idle", at |-> "none", files |-> {}]
    /\ preamble = {}
    /\ process = "running"
    /\ made = 0
    /\ missed = {}

-----------------------------------------------------------------------------
(* The life cycle. *)

\* The client may send no list of folders at all.
OnInitialize(given, folders) ==
    /\ client.stage = "start"
    /\ IF given /\ Len(folders) # 1
         THEN /\ client' = [client EXCEPT !.stage = "rejected"]
              /\ UNCHANGED folder
         ELSE /\ client' = [client EXCEPT !.stage = "accepted"]
              /\ folder' = IF given THEN Head(folders) ELSE NoFolder
    /\ UNCHANGED <<fileVars, missed, asked, process, watcher, init,
                   layoutVars, queueVars, rebuildVars>>

\* Without a folder the registration reads an empty optional: it may be sent
\* with whatever is found there, or the process dies.
OnInitialized ==
    /\ client.stage = "accepted"
    /\ client' = [client EXCEPT !.stage = "running"]
    /\ init' = IF folder = NoFolder THEN "none" ELSE "loading"
    /\ \/ watcher' = "sent" /\ UNCHANGED process
       \/ folder = NoFolder /\ process' = "crashed" /\ UNCHANGED watcher
    /\ UNCHANGED <<fileVars, missed, asked, folder, layoutVars, queueVars,
                   rebuildVars>>

\* The client answers the registration; a refusal is only logged.
RegisterCapability(result) ==
    /\ client.stage = "running" /\ Alive
    /\ watcher = "sent"
    /\ watcher' = result
    /\ UNCHANGED <<fileVars, missed, clientVars, folder, process, init,
                   layoutVars, queueVars, rebuildVars>>

\* Mutant: the guard is kept.
Shutdown_KeepsGuard(closes) ==
    process' = IF closes THEN process ELSE "held"

\* The endpoint may fail to close; then work_guard_ holds the process, and
\* nobody can talk to it any more.
Shutdown(closes) ==
    process' = IF closes THEN "released" ELSE "held"

\* With or without a "shutdown" before it.  The endpoint, as it closes, fails
\* the call that waits for the client.
OnExit(closes) ==
    /\ client.stage \in {"rejected", "accepted", "running"} /\ Alive
    /\ client' = [stage |-> "exited", events |-> <<>>]
    /\ watcher' = IF watcher = "sent" THEN "failed" ELSE watcher
    /\ Shutdown(closes)
    /\ UNCHANGED <<fileVars, missed, asked, folder, init, layoutVars,
                   queueVars, rebuildVars>>

\* io_context::run returns when no coroutine and no timer is left.
ProcessEnds ==
    /\ process = "released"
    /\ init \in {"none", "ready"}
    /\ watcher # "sent"
    /\ waiting = <<>> /\ strand = <<>>
    /\ ~timer /\ rebuild.state = "idle"
    /\ \A r \in Requests : asked[r] \in {"unasked", "answered"}
    /\ process' = "ended"
    /\ UNCHANGED <<fileVars, missed, clientVars, folder, watcher, init,
                   layoutVars, queueVars, rebuildVars>>

-----------------------------------------------------------------------------
(* InitializeWorkspace. *)

RebuildLayout(loaded) ==
    /\ config' = loaded
    /\ layout' = [built |-> TRUE, files |-> BuildFromConfig(loaded, disk)]

\* Mutant: only a configuration that loads makes the service ready.
LoadConfig_NeedsFile ==
    /\ Alive /\ init = "loading" /\ Loads(text)
    /\ RebuildLayout(ConfigOf(text))
    /\ init' = "building"
    /\ UNCHANGED <<fileVars, missed, clientVars, serverVars, queueVars,
                   rebuildVars>>

\* A turn of the strand; config_ready_ is set after it.
LoadConfig ==
    /\ Alive /\ init = "loading"
    /\ RebuildLayout(ConfigOf(text))
    /\ init' = "building"
    /\ UNCHANGED <<fileVars, missed, clientVars, serverVars, queueVars,
                   rebuildVars>>

\* The first preamble; then workspace_ready_ is set.
WorkspaceReady ==
    /\ Alive /\ init = "building"
    /\ init' = "ready"
    /\ preamble' = layout.files
    /\ UNCHANGED <<fileVars, missed, clientVars, serverVars, layoutVars,
                   queueVars, timer, rebuild>>

-----------------------------------------------------------------------------
(* Requests. *)

Deed ==
    /\ made < MaxDeeds
    /\ made' = made + 1

\* The symbols of a document that is not open are answered at once.
Ask(r, what) ==
    /\ client.stage = "running" /\ Alive
    /\ Deed
    /\ asked[r] = "unasked"
    /\ asked' = [asked EXCEPT ![r] = IF what = "unopened" THEN "answered" ELSE what]
    /\ UNCHANGED <<disk, text, missed, client, serverVars, init, layoutVars,
                   queueVars, rebuildVars>>

\* Symbols need the configuration, definitions the workspace.
Answer(r) ==
    /\ Alive
    /\ \/ asked[r] = "symbols" /\ init \in {"building", "ready"}
       \/ asked[r] = "definition" /\ Ready
    /\ asked' = [asked EXCEPT ![r] = "answered"]
    /\ UNCHANGED <<fileVars, missed, client, serverVars, init, layoutVars,
                   queueVars, rebuildVars>>

-----------------------------------------------------------------------------
(* The files, and the client that watches them. *)

\* What changes before anybody looks is another initial state.
FilesMayChange ==
    /\ client.stage = "running" /\ Alive
    /\ Watching \/ layout.built

\* A change after the scan is missed if nobody watches, or if it is outside
\* the folder, to which the watchers are scoped.
Report(change) ==
    IF Watching /\ (change = ConfigChange \/ InWorkspace(change.path))
      THEN /\ client' = [client EXCEPT !.events = Append(@, change)]
           /\ UNCHANGED missed
      ELSE /\ missed' = missed \cup (IF layout.built THEN {change.path} ELSE {})
           /\ UNCHANGED client

ChangeFile(type, path) ==
    /\ FilesMayChange
    /\ Deed
    /\ path \in disk <=> type # "created"
    /\ disk' = CASE type = "created" -> disk \cup {path}
                 [] type = "deleted" -> disk \ {path}
                 [] OTHER -> disk
    /\ Report(Change(type, path))
    /\ UNCHANGED <<text, asked, serverVars, init, layoutVars, queueVars,
                   rebuildVars>>

EditConfig(new) ==
    /\ FilesMayChange
    /\ Deed
    /\ new # text
    /\ text' = new
    /\ Report(ConfigChange)
    /\ UNCHANGED <<disk, asked, serverVars, init, layoutVars, queueVars,
                   rebuildVars>>

\* The changes of which an earlier handler comes to know only after others of
\* its own: a later notification may overtake them.
Overtaken == {path \in Paths :
    \E h \in Range(waiting) \cup Range(strand) :
        h.todo # <<>> /\ \E change \in Range(Tail(h.todo)) : change.path = path}

\* Mutant: only the first source file of the notification.
SourceChanges_First(events) ==
    LET all == SelectSeq(events, LAMBDA e : e # ConfigChange)
    IN  SubSeq(all, 1, Min({1, Len(all)}))

\* The loop over the notification puts what is no configuration aside.
SourceChanges(events) ==
    LET kept[n \in 0 .. Len(events)] ==
            IF n = 0 THEN <<>>
            ELSE IF events[n] = ConfigChange THEN kept[n - 1]
            ELSE Append(kept[n - 1], events[n])
    IN  kept[Len(events)]

OnDidChangeWatchedFiles ==
    /\ client.stage = "running" /\ Alive
    /\ client.events # <<>>
    /\ waiting' = GoesOn(waiting, Handler(SourceChanges(client.events),
                                          ConfigChange \in Range(client.events)))
    /\ client' = [client EXCEPT !.events = <<>>]
    /\ missed' = missed \cup (Overtaken \cap {e.path : e \in Range(client.events)})
    /\ UNCHANGED <<fileVars, asked, serverVars, init, layoutVars, strand,
                   rebuildVars>>

-----------------------------------------------------------------------------
(* RebuildWorkspace. *)

ScheduleWorkspaceRebuild == timer' = TRUE

\* The build reads the files of the layout in the turn in which it starts,
\* before its first wait.
RebuildWorkspace(files) ==
    rebuild' = IF rebuild.state = "idle"
                 THEN [state |-> "inProgress", at |-> "building", files |-> files]
                 ELSE [rebuild EXCEPT !.state = "pendingNext"]

TimerExpires ==
    /\ Alive /\ timer
    /\ timer' = FALSE
    /\ RebuildWorkspace(layout.files)
    /\ UNCHANGED <<fileVars, missed, clientVars, serverVars, init, layoutVars,
                   queueVars, preamble>>

\* Mutant: the mark is erased and no rebuild scheduled.
RebuildEnds_ForgetsMark ==
    /\ Alive /\ rebuild.at = "building"
    /\ preamble' = rebuild.files
    /\ rebuild' = [state |-> "idle", at |-> "none", files |-> {}]
    /\ UNCHANGED <<fileVars, missed, clientVars, serverVars, init, layoutVars,
                   queueVars, timer>>

\* Mutant: the state stays what it was.
RebuildEnds_StateStays ==
    /\ Alive /\ rebuild.at = "building"
    /\ preamble' = rebuild.files
    /\ rebuild' = [rebuild EXCEPT !.at = "none"]
    /\ UNCHANGED <<fileVars, missed, clientVars, serverVars, init, layoutVars,
                   queueVars, timer>>

\* The new preamble is taken over; if calls came meanwhile, the next rebuild
\* is scheduled.
RebuildEnds ==
    /\ Alive /\ rebuild.at = "building"
    /\ preamble' = rebuild.files
    /\ rebuild' = [state |-> "idle", at |-> "none", files |-> {}]
    /\ IF rebuild.state = "pendingNext"
         THEN ScheduleWorkspaceRebuild
         ELSE UNCHANGED timer
    /\ UNCHANGED <<fileVars, missed, clientVars, serverVars, init, layoutVars,
                   queueVars>>

-----------------------------------------------------------------------------
(* The handlers of file notifications. *)

SetFiles(files) == layout' = [built |-> TRUE, files |-> files]

\* Mutant: the filter is not applied to files that are added.
AddFile_Unfiltered(path) ==
    IF config.autoDiscover /\ layout.built /\ path \notin layout.files
      THEN SetFiles(layout.files \cup {path})
      ELSE UNCHANGED layout

AddFile(path) ==
    IF /\ config.autoDiscover
       /\ ShouldIncludeFile(config, Relative(path))
       /\ layout.built
       /\ path \notin layout.files
      THEN SetFiles(layout.files \cup {path})
      ELSE UNCHANGED layout

RemoveFile(path) ==
    IF layout.built /\ path \in layout.files
      THEN SetFiles(layout.files \ {path})
      ELSE UNCHANGED layout

\* The new text is loaded only if the folder is found to lie below the file.
HandleConfigFileChange ==
    IF IsSubPathOf(Root, Append(Root, ".slangd"))
      THEN RebuildLayout(ConfigOf(text))
      ELSE UNCHANGED layoutVars

\* The oldest waiter runs: a modified file needs no change of the layout, the
\* rest goes to the strand.
ResumeHandler ==
    /\ Alive /\ Ready /\ waiting # <<>>
    /\ LET h == Head(waiting)
       IN  IF h.todo # <<>> /\ Head(h.todo).type = "changed"
             THEN /\ waiting' = GoesOn(Tail(waiting), [h EXCEPT !.todo = Tail(@)])
                  /\ ScheduleWorkspaceRebuild
                  /\ UNCHANGED strand
             ELSE /\ waiting' = Tail(waiting)
                  /\ strand' = Append(strand, h)
                  /\ UNCHANGED timer
    /\ UNCHANGED <<fileVars, missed, clientVars, serverVars, init, layoutVars,
                   rebuild, preamble>>

\* HandleSourceFileChange after its post, to the next wait of the handler.
HandleSourceFileChange ==
    /\ Alive /\ strand # <<>> /\ Head(strand).todo # <<>>
    /\ LET h == Head(strand)
           change == Head(h.todo)
       IN  /\ IF change.type = "created" THEN AddFile(change.path)
                                         ELSE RemoveFile(change.path)
           /\ waiting' = GoesOn(waiting, [h EXCEPT !.todo = Tail(@)])
    /\ strand' = Tail(strand)
    /\ ScheduleWorkspaceRebuild
    /\ UNCHANGED <<fileVars, missed, clientVars, serverVars, init, config,
                   rebuild, preamble>>

\* HandleConfigChange after its post: the rebuild is not debounced.
HandleConfigChange ==
    /\ Alive /\ strand # <<>> /\ Head(strand).todo = <<>>
    /\ HandleConfigFileChange
    /\ strand' = Tail(strand)
    /\ RebuildWorkspace(layout'.files)
    /\ UNCHANGED <<fileVars, missed, clientVars, serverVars, init, waiting,
                   timer, preamble>>

-----------------------------------------------------------------------------

LifeCycle ==
    \/ OnInitialize(FALSE, <<>>)
    \/ \E folders \in {<<>>, <<Root>>, <<Root, Root>>} : OnInitialize(TRUE, folders)
    \/ OnInitialized
    \/ \E closes \in BOOLEAN : OnExit(closes)

World ==
    \/ \E path \in Changing, type \in {"created", "deleted", "changed"} :
          ChangeFile(type, path)
    \/ \E new \in Texts : EditConfig(new)
    \/ \E r \in Requests, what \in {"definition", "symbols", "unopened"} : Ask(r, what)

Registers == \E result \in {"watching", "failed"} : RegisterCapability(result)

Initializing == LoadConfig \/ WorkspaceReady
Handling == ResumeHandler \/ HandleSourceFileChange \/ HandleConfigChange

Next ==
    \/ LifeCycle
    \/ World
    \/ Registers
    \/ OnDidChangeWatchedFiles
    \/ Initializing
    \/ Handling
    \/ RebuildEnds
    \/ TimerExpires
    \/ \E r \in Requests : Answer(r)
    \/ ProcessEnds

Spec == Init /\ [][Next]_vars

\* The executor runs what it was given and timers expire.  What the client
\* does is its own affair.
Fairness ==
    /\ WF_vars(Initializing)
    /\ WF_vars(Handling)
    /\ WF_vars(RebuildEnds)
    /\ WF_vars(TimerExpires)
    /\ \A r \in Requests : WF_vars(Answer(r))
    /\ WF_vars(ProcessEnds)

FairSpec == Spec /\ Fairness

-----------------------------------------------------------------------------
(* Properties. *)

Changes == [type : {"created", "deleted", "changed"}, path : Paths]
Handlers == [todo : Seq(Changes), reload : BOOLEAN]

\* Types, and how the parts of the state go together: there is a layout once
\* the configuration is loaded, no handler gets to the strand before the
\* workspace is ready, each handler has something to do, on the strand no
\* modified file, and a rebuild is waiting for its build exactly when
\* it is not idle.
TypeOK ==
    /\ disk \subseteq Paths /\ text \in Texts
    /\ client \in [stage : {"start", "rejected", "accepted", "running", "exited"},
                  events : Seq(Changes \cup {ConfigChange})]
    /\ asked \in [Requests -> {"unasked", "definition", "symbols", "answered"}]
    /\ folder \in {NoFolder, Root}
    /\ init \in {"none", "loading", "building", "ready"}
    /\ watcher \in {"none", "sent", "watching", "failed"}
    /\ layout \in [built : BOOLEAN, files : SUBSET Paths]
    /\ waiting \in Seq(Handlers) /\ strand \in Seq(Handlers)
    /\ timer \in BOOLEAN
    /\ rebuild \in [state : {"idle", "inProgress", "pendingNext"},
                   at : {"none", "building"}, files : SUBSET Paths]
    /\ preamble \subseteq Paths
    /\ process \in {"running", "released", "held", "ended", "crashed"}
    /\ made \in 0 .. MaxDeeds
    /\ missed \subseteq Paths \cup {ConfigChange.path}
    /\ client.stage \in {"start", "rejected", "accepted"} => init = "none"
    /\ layout.built <=> init \in {"building", "ready"}
    /\ strand # <<>> \/ timer \/ rebuild.state # "idle" => Ready
    /\ \A h \in Range(waiting) \cup Range(strand) : h.todo # <<>> \/ h.reload
    /\ \A h \in Range(strand) : h.todo # <<>> => h.todo[1].type # "changed"
    /\ rebuild.state = "idle" <=> rebuild.at = "none"

\* Where a scan with this configuration would look.
Scanned(c, path) == path \in DiscoveredFiles(c, Paths)

\* Nothing that happened to the files is still to be handled.
Told == Ready /\ client.events = <<>> /\ waiting = <<>> /\ strand = <<>>

\* docs/SERVER_ARCHITECTURE.md: the layout "tracks files using
\* AddFile/RemoveFile".  When every change has been handled, the layout is
\* what a scan of the disk would give, whatever the order of scan,
\* registration, changes and handlers, for each file whose changes the client
\* could report and which no later notification overtook.  The increments do
\* not know of DiscoverDirs, hidden directories and .f files.
LayoutFollowsDisk ==
    Told /\ client.stage # "exited" /\ config.autoDiscover =>
        \A path \in Paths \ (missed \cup ListedFiles(config)) :
            Scanned(config, path) =>
                (path \in layout.files <=> path \in BuildFromConfig(config, disk))

\* A file that the configuration lets in, and that is named when nothing is
\* discovered.
Selected(c, path) ==
    /\ ShouldIncludeFile(c, Relative(path))
    /\ c.autoDiscover \/ path \in NamedFiles(c) \cup ListedFiles(c)

\* Whatever is scanned, added and removed in whatever order, the layout
\* contains only files that the loaded configuration selects: no increment
\* gets past its filters or AutoDiscover (AddFile, RemoveFile, RebuildLayout).
FilesAreSelected == \A path \in layout.files : Selected(config, path)

\* The last change that reaches the layout reaches the preamble, also when it
\* comes after a rebuild has read the layout and before it ends
\* (HandleSourceFileChange, RebuildWorkspace, workspace_rebuild_state_).
PreambleFollowsLayout == <>[](Alive => preamble = layout.files)

\* With a folder, every request is answered: whether or not there is a
\* configuration, whether or not the watcher could be registered, and also
\* those asked before the workspace is ready (config_ready_, workspace_ready_).
RequestsAnswered ==
    \A r \in Requests :
        asked[r] # "unasked" /\ folder # NoFolder
            ~> asked[r] = "answered" \/ client.stage = "exited"

\* An exit ends the process, once the endpoint has closed: no coroutine is
\* left waiting and no timer is restarted for ever (LspServer::Shutdown).
ExitEndsProcess ==
    client.stage = "exited" /\ folder # NoFolder
        ~> process \in {"ended", "held"}

\* docs/CONFIGURATION.md:11: "Changes to the configuration file trigger a
\* rebuild of the project layout."  When every change has been handled, the
\* configuration is that of the file.
ConfigFollowsFile ==
    Told /\ Watching /\ ConfigChange.path \notin missed => config = ConfigOf(text)
=============================================================================
