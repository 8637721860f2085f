------------------------ MODULE BroadcastEventProofs ------------------------
(* Proofs about BroadcastEvent, for every set of waiters and of callers.    *)
EXTENDS BroadcastEvent, SequenceTheorems, TLAPS

Handlers == Waiters \cup Setters

NoDuplicates == \A i, j \in 1 .. Len(strand) : strand[i] = strand[j] => i = j

(* Posting puts a handler behind the others. *)
LEMMA PostFacts ==
    ASSUME strand \in Seq(Handlers), NEW h \in Handlers,
           strand' = Append(strand, h)
    PROVE  /\ strand' \in Seq(Handlers)
           /\ \A x : OnStrand(x)' <=> OnStrand(x) \/ x = h
           /\ NoDuplicates /\ ~OnStrand(h) => NoDuplicates'
<1>1. /\ strand' \in Seq(Handlers)
      /\ Len(strand') = Len(strand) + 1
      /\ Len(strand) \in Nat
      /\ \A i \in 1 .. Len(strand) : strand'[i] = strand[i]
      /\ strand'[Len(strand) + 1] = h
  OBVIOUS
<1>2. \A i : i \in 1 .. Len(strand') <=>
               i \in 1 .. Len(strand) \/ i = Len(strand) + 1
  BY <1>1
<1>3. \A x : OnStrand(x)' <=> OnStrand(x) \/ x = h
  BY <1>1, <1>2 DEF OnStrand
<1>4. ASSUME NoDuplicates, ~OnStrand(h),
             NEW i \in 1 .. Len(strand'), NEW j \in 1 .. Len(strand'),
             strand'[i] = strand'[j]
      PROVE  i = j
  BY <1>1, <1>2, <1>4 DEF OnStrand, NoDuplicates
<1> QED
  BY <1>1, <1>3, <1>4 DEF NoDuplicates

(* Running a handler takes it, and only it, from the strand. *)
LEMMA RunFacts ==
    ASSUME strand \in Seq(Handlers), NoDuplicates, NEW h, Runs(h)
    PROVE  /\ strand' \in Seq(Handlers)
           /\ OnStrand(h)
           /\ \A x : OnStrand(x)' <=> OnStrand(x) /\ x # h
           /\ NoDuplicates'
<1>1. strand # <<>> /\ h = Head(strand) /\ strand' = Tail(strand)
  BY DEF Runs
<1>2. /\ strand' \in Seq(Handlers)
      /\ Len(strand) \in Nat /\ Len(strand) > 0
      /\ Len(strand') = Len(strand) - 1
      /\ h = strand[1]
      /\ \A i \in 1 .. Len(strand') : strand'[i] = strand[i + 1]
  BY <1>1
<1>3. OnStrand(h)
  BY <1>2 DEF OnStrand
<1>4. ASSUME NEW x, OnStrand(x)'
      PROVE  OnStrand(x) /\ x # h
  <2>1. PICK i \in 1 .. Len(strand') : strand'[i] = x
    BY <1>4 DEF OnStrand
  <2>2. i + 1 \in 1 .. Len(strand) /\ 1 \in 1 .. Len(strand)
        /\ strand[i + 1] = x /\ i + 1 # 1
    BY <1>2, <2>1
  <2> QED
    BY <1>2, <2>2 DEF OnStrand, NoDuplicates
<1>5. ASSUME NEW x, OnStrand(x), x # h
      PROVE  OnStrand(x)'
  <2>1. PICK i \in 1 .. Len(strand) : strand[i] = x
    BY <1>5 DEF OnStrand
  <2>2. i - 1 \in 1 .. Len(strand') /\ strand'[i - 1] = x
    BY <1>2, <1>5, <2>1
  <2> QED
    BY <2>2 DEF OnStrand
<1>6. NoDuplicates'
  <2> SUFFICES ASSUME NEW i \in 1 .. Len(strand'), NEW j \in 1 .. Len(strand'),
                      strand'[i] = strand'[j]
               PROVE  i = j
    BY DEF NoDuplicates
  <2>1. /\ i + 1 \in 1 .. Len(strand) /\ j + 1 \in 1 .. Len(strand)
        /\ strand[i + 1] = strand[j + 1]
    BY <1>2
  <2> QED
    BY <2>1, <1>2 DEF NoDuplicates
<1> QED
  BY <1>2, <1>3, <1>4, <1>5, <1>6

(* HeldOnce is inductive with where handlers come from: those of Set from
   calls that were made, and the continuations that the executor has from an
   event that is set. *)
EventInv ==
    /\ TypeOK
    /\ HeldOnce
    /\ \A s \in Setters : OnStrand(s) => s \in setter
    /\ posted # {} => ready
    /\ ready => setter # {}

\* No waiter is lost between its registration and its continuation.
LEMMA EventInvariant == Spec => []EventInv
<1>1. Init => EventInv
  <2> SUFFICES ASSUME Init PROVE EventInv
    OBVIOUS
  <2>1. strand \in Seq(Waiters \cup Setters) /\ 1 .. Len(strand) = {}
    BY DEF Init
  <2> QED
    BY <2>1 DEF Init, EventInv, TypeOK, HeldOnce, OnStrand
<1>2. EventInv /\ [Next]_eventVars => EventInv'
  <2> SUFFICES ASSUME EventInv, [Next]_eventVars PROVE EventInv'
    OBVIOUS
  <2>a. /\ strand \in Seq(Handlers) /\ NoDuplicates
        /\ ready \in BOOLEAN /\ waiters \subseteq Waiters
        /\ posted \subseteq Waiters /\ setter \subseteq Setters
        /\ waiter \in [Waiters -> {"running", "suspended", "resumed"}]
    BY DEF EventInv, TypeOK, HeldOnce, NoDuplicates, Handlers
  <2>b. \A w \in Waiters :
          /\ waiter[w] = "suspended"
                <=> OnStrand(w) \/ w \in waiters \/ w \in posted
          /\ OnStrand(w) => w \notin waiters /\ w \notin posted
          /\ w \in waiters => w \notin posted /\ ~ready
    BY DEF EventInv, HeldOnce
  <2>c. /\ \A s \in Setters : OnStrand(s) => s \in setter
        /\ posted # {} => ready
        /\ ready => setter # {}
    BY DEF EventInv
  <2>d. ASSUME strand' \in Seq(Handlers), NoDuplicates',
               ready' \in BOOLEAN, waiters' \subseteq Waiters,
               posted' \subseteq Waiters, setter' \subseteq Setters,
               waiter' \in [Waiters -> {"running", "suspended", "resumed"}],
               \A w \in Waiters :
                  /\ waiter'[w] = "suspended"
                        <=> OnStrand(w)' \/ w \in waiters' \/ w \in posted'
                  /\ OnStrand(w)' => w \notin waiters' /\ w \notin posted'
                  /\ w \in waiters' => w \notin posted' /\ ~ready',
               \A s \in Setters : OnStrand(s)' => s \in setter',
               posted' # {} => ready',
               ready' => setter' # {}
        PROVE  EventInv'
    BY <2>d DEF EventInv, TypeOK, HeldOnce, NoDuplicates, Handlers
  <2>1. ASSUME NEW w \in Waiters, AsyncWait(w)
        PROVE  EventInv'
    <3>1. /\ strand' = Append(strand, w) /\ w \in Handlers
          /\ waiter[w] # "suspended"
          /\ waiter' = [waiter EXCEPT ![w] = "suspended"]
          /\ UNCHANGED <<ready, waiters, posted, setter>>
      BY <2>1 DEF AsyncWait, Handlers
    <3>2. ~OnStrand(w) /\ w \notin waiters /\ w \notin posted
      BY <3>1, <2>b
    <3>3. /\ strand' \in Seq(Handlers) /\ NoDuplicates'
          /\ \A x : OnStrand(x)' <=> OnStrand(x) \/ x = w
      BY <3>1, <3>2, <2>a, PostFacts
    <3>4. \A s \in Setters : s # w
      BY CallersAssumption
    <3> QED
      BY <3>1, <3>2, <3>3, <3>4, <2>a, <2>b, <2>c, <2>d
  <2>2. ASSUME NEW s \in Setters, Set(s)
        PROVE  EventInv'
    <3>1. /\ strand' = Append(strand, s) /\ s \in Handlers
          /\ s \notin setter /\ setter' = setter \cup {s}
          /\ UNCHANGED <<ready, waiters, posted, waiter>>
      BY <2>2 DEF Set, Handlers
    <3>2. /\ strand' \in Seq(Handlers) /\ NoDuplicates'
          /\ \A x : OnStrand(x)' <=> OnStrand(x) \/ x = s
      BY <3>1, <2>a, <2>c, PostFacts
    <3>3. \A w \in Waiters : s # w
      BY CallersAssumption
    <3> QED
      BY <3>1, <3>2, <3>3, <2>a, <2>b, <2>c, <2>d
  <2>3. ASSUME NEW w \in Waiters, RunWait(w)
        PROVE  EventInv'
    <3>1. Runs(w) /\ UNCHANGED <<waiter, setter, ready>>
      BY <2>3 DEF RunWait, Runs
    <3>2. /\ strand' \in Seq(Handlers) /\ NoDuplicates' /\ OnStrand(w)
          /\ \A x : OnStrand(x)' <=> OnStrand(x) /\ x # w
      BY <3>1, <2>a, RunFacts
    <3>3. w \notin waiters /\ w \notin posted /\ waiter[w] = "suspended"
      BY <3>2, <2>b
    <3>4. CASE ready /\ posted' = posted \cup {w} /\ waiters' = waiters
      BY <3>1, <3>2, <3>3, <3>4, <2>a, <2>b, <2>c, <2>d
    <3>5. CASE ~ready /\ waiters' = waiters \cup {w} /\ posted' = posted
      BY <3>1, <3>2, <3>3, <3>5, <2>a, <2>b, <2>c, <2>d
    <3> QED
      BY <2>3, <3>4, <3>5 DEF RunWait
  <2>4. ASSUME NEW s \in Setters, RunSet(s)
        PROVE  EventInv'
    <3>1. Runs(s) /\ UNCHANGED <<waiter, setter>> /\ ready' = TRUE
      BY <2>4 DEF RunSet, Runs
    <3>2. /\ strand' \in Seq(Handlers) /\ NoDuplicates' /\ OnStrand(s)
          /\ \A x : OnStrand(x)' <=> OnStrand(x) /\ x # s
      BY <3>1, <2>a, RunFacts
    <3>3. s \in setter /\ \A w \in Waiters : s # w
      BY <3>2, <2>c, CallersAssumption
    <3>4. CASE ready /\ UNCHANGED <<waiters, posted>>
      BY <3>1, <3>2, <3>3, <3>4, <2>a, <2>b, <2>c, <2>d
    <3>5. CASE ~ready /\ posted' = posted \cup waiters /\ waiters' = {}
      BY <3>1, <3>2, <3>3, <3>5, <2>a, <2>b, <2>c, <2>d
    <3> QED
      BY <2>4, <3>4, <3>5 DEF RunSet
  <2>5. ASSUME NEW w \in Waiters, Resume(w)
        PROVE  EventInv'
    <3>1. /\ w \in posted /\ posted' = posted \ {w}
          /\ waiter' = [waiter EXCEPT ![w] = "resumed"]
          /\ UNCHANGED <<strand, ready, waiters, setter>>
      BY <2>5 DEF Resume
    <3>2. NoDuplicates' /\ \A x : OnStrand(x)' <=> OnStrand(x)
      BY <3>1, <2>a DEF NoDuplicates, OnStrand
    <3> QED
      BY <3>1, <3>2, <2>a, <2>b, <2>c, <2>d
  <2>6. CASE UNCHANGED eventVars
    <3>1. NoDuplicates' /\ \A x : OnStrand(x)' <=> OnStrand(x)
      BY <2>6, <2>a DEF eventVars, NoDuplicates, OnStrand
    <3> QED
      BY <2>6, <3>1, <2>a, <2>b, <2>c, <2>d DEF eventVars
  <2> QED
    BY <2>1, <2>2, <2>3, <2>4, <2>5, <2>6 DEF Next, Internal
<1> QED
  BY <1>1, <1>2, PTL DEF Spec

(* No wake-up is lost or doubled: the continuation of every coroutine that
   waits is in exactly one place, and in the list of waiters only as long as
   the event is not set. *)
THEOREM WaitersAreHeldOnce == Spec => []HeldOnce
<1>1. EventInv => HeldOnce
  BY DEF EventInv
<1> QED
  BY <1>1, EventInvariant, PTL

(* BroadcastEvent implements the abstract event: whoever is resumed was
   waiting, for an event that is set. *)
THEOREM EventImplemented == Spec => ImplementsEvent
<1>1. Init => Event!Init
  BY DEF Init, Event!Init
<1>2. EventInv /\ [Next]_eventVars => [Event!Next]_<<ready, waiter>>
  <2> SUFFICES ASSUME EventInv, [Next]_eventVars
               PROVE  [Event!Next]_<<ready, waiter>>
    OBVIOUS
  <2>1. ASSUME NEW w \in Waiters, AsyncWait(w)
        PROVE  Event!Wait(w)
    BY <2>1 DEF AsyncWait, Event!Wait
  <2>2. ASSUME NEW w \in Waiters, Resume(w)
        PROVE  Event!Wake(w)
    BY <2>2 DEF Resume, Event!Wake, EventInv, HeldOnce
  <2>3. ASSUME NEW s \in Setters, RunSet(s)
        PROVE  Event!Fire \/ UNCHANGED <<ready, waiter>>
    BY <2>3 DEF RunSet, Runs, Event!Fire, EventInv, TypeOK
  <2>4. ASSUME NEW w \in Waiters, RunWait(w)
        PROVE  UNCHANGED <<ready, waiter>>
    BY <2>4 DEF RunWait, Runs
  <2>5. ASSUME NEW s \in Setters, Set(s)
        PROVE  UNCHANGED <<ready, waiter>>
    BY <2>5 DEF Set
  <2>6. CASE UNCHANGED eventVars
    BY <2>6 DEF eventVars
  <2> QED
    BY <2>1, <2>2, <2>3, <2>4, <2>5, <2>6 DEF Next, Internal, Event!Next
<1> QED
  BY <1>1, <1>2, EventInvariant, PTL DEF Spec, ImplementsEvent, Event!Spec

=============================================================================
