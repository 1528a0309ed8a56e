----------------------------- MODULE CancelFlag -----------------------------
(***************************************************************************)
(* What the cancellation API of core/interruptible.hpp promises to a       *)
(* thread that has its token: a single flag per thread, set by a cancel,   *)
(* taken by the next cancellation point, which then (and only then) fails. *)
(* The registry, the shared pointers and the mutex of the real class do    *)
(* not appear; Interruptible.tla is shown to implement this module.        *)
(***************************************************************************)
CONSTANT Tids              \* the std::thread::id values

VARIABLES
  attached,   \* threads that own their cancellation token
  cancelled,  \* threads with a cancellation they have not seen yet
  calling,    \* threads inside synchronize or yield
  passed      \* those of them that are past the cancellation point

vars == <<attached, cancelled, calling, passed>>

TypeOK == /\ attached \subseteq Tids
          /\ cancelled \subseteq attached
          /\ passed \subseteq calling
          /\ calling \subseteq attached

Init == attached = {} /\ cancelled = {} /\ calling = {} /\ passed = {}

(* A thread claims its token, which may have been cancelled before, in its   *)
(* first call.                                                               *)
Attach(t) == /\ t \notin attached
             /\ attached' = attached \cup {t}
             /\ calling' = calling \cup {t}
             /\ cancelled' \in {cancelled, cancelled \cup {t}}
             /\ UNCHANGED passed

Begin(t) == /\ t \in attached \ calling
            /\ calling' = calling \cup {t}
            /\ UNCHANGED <<attached, cancelled, passed>>

Cancel(t) == /\ t \in attached
             /\ cancelled' = cancelled \cup {t}
             /\ UNCHANGED <<attached, calling, passed>>

(* The cancellation point passes. *)
Pass(t) == /\ t \in calling \ (cancelled \cup passed)
           /\ passed' = passed \cup {t}
           /\ UNCHANGED <<attached, cancelled, calling>>

(* The cancellation point throws interrupted_exception and resets the flag. *)
Interrupt(t) == /\ t \in (calling \cap cancelled) \ passed
                /\ cancelled' = cancelled \ {t}
                /\ calling' = calling \ {t}
                /\ UNCHANGED <<attached, passed>>

(* The device is not ready: around the loop, to the next cancellation point. *)
Again(t) == /\ t \in passed
            /\ passed' = passed \ {t}
            /\ UNCHANGED <<attached, cancelled, calling>>

(* The query answered: return to the caller. *)
Leave(t) == /\ t \in passed
            /\ passed' = passed \ {t}
            /\ calling' = calling \ {t}
            /\ UNCHANGED <<attached, cancelled>>

Detach(t) == /\ t \in attached \ calling
             /\ attached' = attached \ {t}
             /\ cancelled' = cancelled \ {t}
             /\ UNCHANGED <<calling, passed>>

Next == \E t \in Tids : \/ Attach(t) \/ Begin(t) \/ Cancel(t) \/ Pass(t)
                        \/ Interrupt(t) \/ Again(t) \/ Leave(t) \/ Detach(t)

Spec == Init /\ [][Next]_vars
=============================================================================
