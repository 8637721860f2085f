--------------------------- MODULE BroadcastEvent ---------------------------
(***************************************************************************)
(* BroadcastEvent of slangd: coroutines wait for an event that threads of  *)
(* any executor set.  AsyncWait and Set only post a handler to the strand  *)
(* of the event; the handlers run one at a time, in the order of their     *)
(* posts, and post the continuations of the waiters to the executor, where *)
(* they run in any order.                                                  *)
(***************************************************************************)
EXTENDS Naturals, Sequences

CONSTANTS
    Waiters,    \* coroutines that await the event
    Setters     \* the calls of Set, wherever they are made

ASSUME CallersAssumption == Waiters \cap Setters = {}

VARIABLES
    strand,     \* handlers posted and not run: of AsyncWait by the coroutine,
                \* of Set by the call
    ready,      \* State::ready
    waiters,    \* State::waiters
    posted,     \* continuations posted to the executor
    waiter,     \* where each coroutine is
    setter      \* the calls of Set made so far

eventVars == <<strand, ready, waiters, posted, waiter, setter>>

Init ==
    /\ strand = <<>>
    /\ ready = FALSE
    /\ waiters = {}
    /\ posted = {}
    /\ waiter = [w \in Waiters |-> "running"]
    /\ setter = {}

-----------------------------------------------------------------------------

AsyncWait(w) ==
    /\ waiter[w] # "suspended"
    /\ waiter' = [waiter EXCEPT ![w] = "suspended"]
    /\ strand' = Append(strand, w)
    /\ UNCHANGED <<ready, waiters, posted, setter>>

Set(s) ==
    /\ s \notin setter
    /\ setter' = setter \cup {s}
    /\ strand' = Append(strand, s)
    /\ UNCHANGED <<ready, waiters, posted, waiter>>

(* The strand takes its oldest handler. *)
Runs(handler) ==
    /\ strand # <<>>
    /\ Head(strand) = handler
    /\ strand' = Tail(strand)
    /\ UNCHANGED <<waiter, setter>>

(* Mutant: the flag is not looked at again on the strand. *)
RunWait_NoCheck(w) ==
    /\ Runs(w)
    /\ waiters' = waiters \cup {w}
    /\ UNCHANGED <<posted, ready>>

(* A late joiner completes at once, any other is queued. *)
RunWait(w) ==
    /\ Runs(w)
    /\ IF ready
         THEN posted' = posted \cup {w} /\ UNCHANGED waiters
         ELSE waiters' = waiters \cup {w} /\ UNCHANGED posted
    /\ UNCHANGED ready

(* Mutant: the list is not cleared. *)
RunSet_KeepsWaiters(s) ==
    /\ Runs(s)
    /\ ready' = TRUE
    /\ posted' = IF ready THEN posted ELSE posted \cup waiters
    /\ UNCHANGED waiters

(* Only the first call has an effect. *)
RunSet(s) ==
    /\ Runs(s)
    /\ ready' = TRUE
    /\ IF ready
         THEN UNCHANGED <<waiters, posted>>
         ELSE posted' = posted \cup waiters /\ waiters' = {}

(* The executor runs the continuation of a waiter. *)
Resume(w) ==
    /\ w \in posted
    /\ posted' = posted \ {w}
    /\ waiter' = [waiter EXCEPT ![w] = "resumed"]
    /\ UNCHANGED <<strand, ready, waiters, setter>>

-----------------------------------------------------------------------------

Internal ==
    \/ \E w \in Waiters : RunWait(w) \/ Resume(w)
    \/ \E s \in Setters : RunSet(s)

Next ==
    \/ \E w \in Waiters : AsyncWait(w)
    \/ \E s \in Setters : Set(s)
    \/ Internal

Spec == Init /\ [][Next]_eventVars

(* The strand and the executor run what has been posted.  Nobody has to wait
   or to call Set. *)
Fairness ==
    /\ \A w \in Waiters :
          WF_eventVars(RunWait(w)) /\ WF_eventVars(Resume(w))
    /\ \A s \in Setters : WF_eventVars(RunSet(s))

FairSpec == Spec /\ Fairness

-----------------------------------------------------------------------------
(* Properties.                                                             *)

OnStrand(h) == \E i \in 1 .. Len(strand) : strand[i] = h

TypeOK ==
    /\ strand \in Seq(Waiters \cup Setters)
    /\ ready \in BOOLEAN
    /\ waiters \subseteq Waiters
    /\ posted \subseteq Waiters
    /\ waiter \in [Waiters -> {"running", "suspended", "resumed"}]
    /\ setter \subseteq Setters

(* The continuation of a suspended coroutine exists exactly once: on the
   strand, in the list of waiters while the flag is down, or with the executor.
   None is lost when Set empties the list, none is left behind for a second
   Set that would do nothing, and none can be invoked twice. *)
HeldOnce ==
    /\ \A i, j \in 1 .. Len(strand) : strand[i] = strand[j] => i = j
    /\ \A w \in Waiters :
          /\ waiter[w] = "suspended"
                <=> OnStrand(w) \/ w \in waiters \/ w \in posted
          /\ OnStrand(w) => w \notin waiters /\ w \notin posted
          /\ w \in waiters => w \notin posted /\ ~ready

(* The abstract event. *)
Event == INSTANCE OnceEvent WITH fired <- ready

ImplementsEvent     == Event!Spec
ImplementsFairEvent == Event!FairSpec

=============================================================================
