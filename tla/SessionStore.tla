---------------------------- MODULE SessionStore ----------------------------
(***************************************************************************)
(* What SessionManager promises to those who use it.  A document has at    *)
(* most one creation under way and at most one session; a session that is  *)
(* complete has the text of the last update.  As long as the client wants  *)
(* the session it is complete or under way; a request that waits for a     *)
(* creation is sent away only when that creation is over or has been       *)
(* replaced.  Cancelled flags, timers and strands are no part of it, and   *)
(* of the creations that were replaced only the trace that they may leave: *)
(* a session that is not complete, and never will be.  SessionManager      *)
(* implements it for a client that does not reuse versions.                *)
(***************************************************************************)
EXTENDS Integers

CONSTANTS Docs, Texts, Requests

VARIABLES
    text,      \* the text of the last update of each document
    wish,      \* does the client want a session of it?
    started,   \* how many creations there have been
    creating,  \* the creation that each document waits for
    session,   \* the session of each document
    preamble,  \* the current preamble
    rebuild,   \* how far the rebuild of the preamble is
    request    \* what became of each request

storeVars == <<text, wish, started, creating, session, preamble, rebuild, request>>

NoCreation == [number |-> 0, preamble |-> 0]
NoSession  == [text |-> <<>>, preamble |-> 0, phase |-> "none"]
NotWaiting(state) == [state |-> state, need |-> "session", doc |-> <<>>, number |-> 0]

IsCreating(d) == creating[d] # NoCreation

(* A request needs a complete session, or is content with its first phase. *)
Satisfied(d, need) ==
    session[d].phase \in
        IF need = "session" THEN {"indexed"} ELSE {"elaborated", "indexed"}

Init ==
    /\ text = [d \in Docs |-> <<>>]
    /\ wish = [d \in Docs |-> "never"]
    /\ started = 0
    /\ creating = [d \in Docs |-> NoCreation]
    /\ session = [d \in Docs |-> NoSession]
    /\ preamble = 1
    /\ rebuild = "idle"
    /\ request = [r \in Requests |-> NotWaiting("idle")]

-----------------------------------------------------------------------------
(* The client.                                                             *)

(* What there is of this text already is kept, if it is or will be complete;
   anything else makes way, for a new creation or for the one under way. *)
Update(d, x) ==
    /\ text' = [text EXCEPT ![d] = x]
    /\ wish' = [wish EXCEPT ![d] = "wanted"]
    /\ \/ /\ text[d] = x
          /\ IsCreating(d) \/ session[d].phase = "indexed"
          /\ session' = [session EXCEPT
                            ![d] = IF @.text = x THEN @ ELSE NoSession]
          /\ UNCHANGED <<started, creating>>
       \/ /\ text[d] # x \/ (~IsCreating(d) /\ session[d].phase # "indexed")
          /\ started' = started + 1
          /\ creating' = [creating EXCEPT
                            ![d] = [number |-> started', preamble |-> preamble]]
          /\ session' = [session EXCEPT ![d] = NoSession]
    /\ UNCHANGED <<preamble, rebuild, request>>

Cancel(d) ==
    /\ creating' = [creating EXCEPT ![d] = NoCreation]
    /\ wish' = [wish EXCEPT ![d] = IF @ = "closed" THEN @ ELSE "withdrawn"]
    /\ UNCHANGED <<text, started, session, preamble, rebuild, request>>

Close(d) ==
    /\ wish[d] \in {"withdrawn", "closed"}
    /\ wish' = [wish EXCEPT ![d] = "closed"]
    /\ UNCHANGED <<text, started, creating, session, preamble, rebuild, request>>

Invalidate(d) ==
    /\ creating' = [creating EXCEPT ![d] = NoCreation]
    /\ session' = [session EXCEPT ![d] = NoSession]
    /\ wish' = [wish EXCEPT ![d] = "never"]
    /\ UNCHANGED <<text, started, preamble, rebuild, request>>

(* A request that cannot be served waits for the creation, if there is one. *)
Ask(r, d, need) ==
    /\ request[r].state # "waiting"
    /\ request' = [request EXCEPT ![r] =
                     IF Satisfied(d, need) THEN NotWaiting("served")
                     ELSE IF IsCreating(d)
                       THEN [state |-> "waiting", need |-> need, doc |-> d,
                             number |-> creating[d].number]
                       ELSE NotWaiting("notFound")]
    /\ UNCHANGED <<text, wish, started, creating, session, preamble, rebuild>>

-----------------------------------------------------------------------------
(* The rebuild of the preamble.                                            *)

Swap ==
    /\ rebuild = "idle"
    /\ rebuild' = "swapped"
    /\ preamble' = preamble + 1
    /\ UNCHANGED <<text, wish, started, creating, session, request>>

Drain ==
    /\ rebuild = "swapped"
    /\ rebuild' = "draining"
    /\ UNCHANGED <<text, wish, started, creating, session, preamble, request>>

(* Nothing that was started before the swap survives it. *)
Clear ==
    /\ rebuild = "draining"
    /\ rebuild' = "idle"
    /\ creating' = [d \in Docs |-> NoCreation]
    /\ session' = [d \in Docs |-> NoSession]
    /\ wish' = [d \in Docs |-> IF wish[d] = "wanted" THEN "never" ELSE wish[d]]
    /\ UNCHANGED <<text, started, preamble, request>>

-----------------------------------------------------------------------------
(* The creation a document waits for.                                      *)

Elaborate(d) ==
    /\ IsCreating(d)
    /\ session[d].text # text[d]
    /\ session' = [session EXCEPT
                     ![d] = [text |-> text[d], preamble |-> creating[d].preamble,
                             phase |-> "elaborated"]]
    /\ UNCHANGED <<text, wish, started, creating, preamble, rebuild, request>>

Index(d) ==
    /\ IsCreating(d)
    /\ session[d].phase = "elaborated"
    /\ session[d].text = text[d]
    /\ session' = [session EXCEPT ![d] = [@ EXCEPT !.phase = "indexed"]]
    /\ creating' = [creating EXCEPT ![d] = NoCreation]
    /\ UNCHANGED <<text, wish, started, preamble, rebuild, request>>

(* The text has no session: the client cannot want it any more. *)
GiveUp(d) ==
    /\ wish[d] = "wanted"
    /\ IsCreating(d) \/ rebuild = "draining"
    /\ session[d].phase # "indexed"
    /\ wish' = [wish EXCEPT ![d] = "never"]
    /\ UNCHANGED <<text, started, creating, session, preamble, rebuild, request>>

(* A creation ends without a session only if nobody wants it. *)
End(d) ==
    /\ IsCreating(d)
    /\ session[d].text # text[d]
    /\ wish[d] # "wanted" \/ rebuild = "draining"
    /\ creating' = [creating EXCEPT ![d] = NoCreation]
    /\ UNCHANGED <<text, wish, started, session, preamble, rebuild, request>>

(* A creation that was told to stop when it was about to store does store the
   first phase of its session, but over no complete one.  If there is a
   creation under way it is of another text, and will be replaced. *)
LeaveTrace(d) ==
    /\ session[d].phase # "indexed"
    /\ \E x \in Texts, p \in {preamble, preamble - 1} :
          /\ IsCreating(d) => x # text[d]
          /\ rebuild = "idle" => p = preamble
          /\ session' = [session EXCEPT
                           ![d] = [text |-> x, preamble |-> p,
                                   phase |-> "elaborated"]]
    /\ UNCHANGED <<text, wish, started, creating, preamble, rebuild, request>>

(* The session of a closed document is dropped. *)
Forget(d) ==
    /\ wish[d] = "closed"
    /\ session' = [session EXCEPT ![d] = NoSession]
    /\ UNCHANGED <<text, wish, started, creating, preamble, rebuild, request>>

(* A request that waits is served, or told that there is nothing to wait for. *)
Answer(r) ==
    LET d == request[r].doc IN
    /\ request[r].state = "waiting"
    /\ \/ /\ Satisfied(d, request[r].need)
          /\ request' = [request EXCEPT ![r] = NotWaiting("served")]
       \/ /\ ~Satisfied(d, request[r].need)
          /\ creating[d].number # request[r].number
          /\ request' = [request EXCEPT ![r] = NotWaiting("notFound")]
    /\ UNCHANGED <<text, wish, started, creating, session, preamble, rebuild>>

-----------------------------------------------------------------------------

Progress(d) == Elaborate(d) \/ Index(d) \/ End(d)

Next ==
    \/ \E d \in Docs : \/ \E x \in Texts : Update(d, x)
                       \/ Cancel(d) \/ Close(d) \/ Invalidate(d) \/ Forget(d)
                       \/ Progress(d) \/ GiveUp(d) \/ LeaveTrace(d)
                       \/ \E r \in Requests, need \in {"compilation", "session"} :
                             Ask(r, d, need)
    \/ Swap \/ Drain \/ Clear
    \/ \E r \in Requests : Answer(r)

Spec == Init /\ [][Next]_storeVars

=============================================================================
