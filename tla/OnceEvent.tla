------------------------------ MODULE OnceEvent ------------------------------
(***************************************************************************)
(* What an event promises to those who use it: it fires at most once, and  *)
(* whoever waits for it, before or after, is woken exactly once and not    *)
(* before it has fired.  BroadcastEvent implements it.                     *)
(***************************************************************************)
CONSTANT Waiters

VARIABLES fired,    \* has the event happened?
          waiter    \* where each coroutine is

State == {"running", "suspended", "resumed"}

Init == fired = FALSE /\ waiter = [w \in Waiters |-> "running"]

Fire == ~fired /\ fired' = TRUE /\ UNCHANGED waiter

(* A coroutine that has been woken may wait again. *)
Wait(w) ==
    /\ waiter[w] # "suspended"
    /\ waiter' = [waiter EXCEPT ![w] = "suspended"]
    /\ UNCHANGED fired

Wake(w) ==
    /\ fired
    /\ waiter[w] = "suspended"
    /\ waiter' = [waiter EXCEPT ![w] = "resumed"]
    /\ UNCHANGED fired

Next == Fire \/ \E w \in Waiters : Wait(w) \/ Wake(w)

Spec == Init /\ [][Next]_<<fired, waiter>>

FairSpec == Spec /\ \A w \in Waiters : WF_<<fired, waiter>>(Wake(w))

=============================================================================
