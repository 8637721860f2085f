---------------------------- MODULE PreambleBuild ----------------------------
(***************************************************************************)
(* PreambleManager::CreateFromProjectLayout of slangd: a coroutine posts   *)
(* one parse per source file to the thread pool, awaits a Barrier, and     *)
(* then adds the trees to the compilation one after the other.             *)
(*                                                                         *)
(* The parses run on any number of threads and write to a vector in the    *)
(* frame of the coroutine.  The event of the Barrier is the abstract one,  *)
(* which BroadcastEvent implements.                                        *)
(***************************************************************************)
EXTENDS Integers, FiniteSets

CONSTANT MaxFiles   \* bound: source files of the project

ASSUME FilesAssumption == MaxFiles \in Nat

VARIABLES
    pc,         \* where the coroutine is
    files,      \* source_files.size(), also Barrier::target_
    index,      \* the counter of its two loops
    worker,     \* where the parse of each file is
    results,    \* the vector of optional trees
    completed,  \* Barrier::completed_
    fired,      \* Barrier::event_
    waiter,     \* the coroutines that await it: this one
    added,      \* trees added to preamble_compilation_
    failed      \* failed_files

vars == <<pc, files, index, worker, results, completed, fired, waiter, added,
          failed>>

Build == "build"
Indices == 1 .. MaxFiles
Event == INSTANCE OnceEvent WITH Waiters <- {Build}

Init ==
    /\ pc = "start"
    /\ files = 0
    /\ index = 1
    /\ worker = [i \in Indices |-> "none"]
    /\ results = [i \in Indices |-> "nullopt"]
    /\ completed = 0
    /\ Event!Init
    /\ added = {}
    /\ failed = {}

-----------------------------------------------------------------------------

(* Mutant: no early return. *)
GetSourceFiles_NoReturn(n) ==
    /\ pc = "start"
    /\ files' = n
    /\ pc' = "posting"
    /\ UNCHANGED <<index, worker, results, completed, fired, waiter, added,
                   failed>>

(* The layout has n files; there is nothing to wait for if it has none. *)
GetSourceFiles(n) ==
    /\ pc = "start"
    /\ files' = n
    /\ pc' = IF n = 0 THEN "done" ELSE "posting"
    /\ UNCHANGED <<index, worker, results, completed, fired, waiter, added,
                   failed>>

PostParse ==
    /\ pc = "posting"
    /\ index <= files
    /\ worker' = [worker EXCEPT ![index] = "posted"]
    /\ index' = index + 1
    /\ UNCHANGED <<pc, files, results, completed, fired, waiter, added,
                   failed>>

AwaitBarrier ==
    /\ pc = "posting"
    /\ index > files
    /\ pc' = "waiting"
    /\ Event!Wait(Build)
    /\ UNCHANGED <<files, index, worker, results, completed, added, failed>>

(* A pool thread parses the file. *)
Parse(i, result) ==
    /\ worker[i] = "posted"
    /\ worker' = [worker EXCEPT ![i] = "parsed"]
    /\ results' = [results EXCEPT ![i] = result]
    /\ UNCHANGED <<pc, files, index, completed, fired, waiter, added, failed>>

(* Mutant: the last but one takes itself for the last. *)
Arrive_OffByOne(i) ==
    /\ worker[i] = "parsed"
    /\ completed' = completed + 1
    /\ worker' = [worker EXCEPT
                    ![i] = IF completed' >= files - 1 THEN "last" ELSE "gone"]
    /\ UNCHANGED <<pc, files, index, results, fired, waiter, added, failed>>

(* Counting is atomic; the call of Set that may follow is a step of its own. *)
Arrive(i) ==
    /\ worker[i] = "parsed"
    /\ completed' = completed + 1
    /\ worker' = [worker EXCEPT
                    ![i] = IF completed' = files THEN "last" ELSE "gone"]
    /\ UNCHANGED <<pc, files, index, results, fired, waiter, added, failed>>

SetEvent(i) ==
    /\ worker[i] = "last"
    /\ worker' = [worker EXCEPT ![i] = "gone"]
    /\ IF fired THEN UNCHANGED <<fired, waiter>> ELSE Event!Fire
    /\ UNCHANGED <<pc, files, index, results, completed, added, failed>>

ResumeBuild ==
    /\ pc = "waiting"
    /\ Event!Wake(Build)
    /\ pc' = "collecting"
    /\ index' = 1
    /\ UNCHANGED <<files, worker, results, completed, added, failed>>

Collect ==
    /\ pc = "collecting"
    /\ index <= files
    /\ IF results[index] = "tree"
         THEN added' = added \cup {index} /\ UNCHANGED failed
         ELSE failed' = failed \cup {index} /\ UNCHANGED added
    /\ index' = index + 1
    /\ UNCHANGED <<pc, files, worker, results, completed, fired, waiter>>

Return ==
    /\ pc = "collecting"
    /\ index > files
    /\ pc' = "done"
    /\ UNCHANGED <<files, index, worker, results, completed, fired, waiter,
                   added, failed>>

-----------------------------------------------------------------------------

Coroutine ==
    \/ \E n \in 0 .. MaxFiles : GetSourceFiles(n)
    \/ PostParse \/ AwaitBarrier \/ ResumeBuild \/ Collect \/ Return

Worker(i) ==
    \/ \E result \in {"tree", "nullopt"} : Parse(i, result)
    \/ Arrive(i)
    \/ SetEvent(i)

Next == Coroutine \/ \E i \in Indices : Worker(i)

Spec == Init /\ [][Next]_vars

(* The coroutine and the parses posted to the pool run. *)
FairSpec ==
    Spec /\ WF_vars(Coroutine) /\ \A i \in Indices : WF_vars(Worker(i))

-----------------------------------------------------------------------------
(* Properties.                                                             *)

Arrived == {i \in 1 .. files : worker[i] \in {"last", "gone"}}

TypeOK ==
    /\ pc \in {"start", "posting", "waiting", "collecting", "done"}
    /\ files \in 0 .. MaxFiles
    /\ index \in 1 .. MaxFiles + 1
    /\ worker \in [Indices -> {"none", "posted", "parsed", "last", "gone"}]
    /\ results \in [Indices -> {"tree", "nullopt"}]
    /\ completed \in Nat
    /\ fired \in BOOLEAN
    /\ waiter \in [{Build} -> Event!State]
    /\ added \subseteq Indices
    /\ failed \subseteq Indices

(* The parses refer to locals of the coroutine: once it has left its wait, no
   parse that was posted is still to run or running. *)
FrameOutlivesParses ==
    pc \in {"collecting", "done"} => Arrived = 1 .. files

(* The preamble has the tree of every file that parsed, and of no other. *)
PreambleComplete ==
    pc = "done" =>
        /\ added = {i \in 1 .. files : results[i] = "tree"}
        /\ failed = 1 .. files \ added

(* The wait ends, whatever the number of files, and the preamble is built. *)
BuildEnds == <>(pc = "done")

=============================================================================
