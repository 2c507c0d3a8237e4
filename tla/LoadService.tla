------------------------------ MODULE LoadService ------------------------------
(***************************************************************************)
(* What a caller of AsyncChunkManager::loadAsync is promised, without      *)
(* queues, priorities or threads: every coordinate has at most one load    *)
(* under way, every accepted load is answered at most once, and only the   *)
(* destruction of the manager breaks a promise.                            *)
(***************************************************************************)
CONSTANT  Coords     (* chunk coordinates                              *)

VARIABLES open,      (* coordinates whose load is not answered yet     *)
          answered,  (* answered, but not yet open to a new request    *)
          alive      (* whether the manager still exists               *)

serviceVars == <<open, answered, alive>>

Init == open = {} /\ answered = {} /\ alive = TRUE

Request(c) ==
    /\ alive
    /\ c \notin open \cup answered
    /\ open' = open \cup {c}
    /\ UNCHANGED <<answered, alive>>

Answer(c) ==
    /\ c \in open
    /\ open' = open \ {c}
    /\ answered' = answered \cup {c}
    /\ UNCHANGED alive

Forget(c) ==
    /\ c \in answered
    /\ answered' = answered \ {c}
    /\ UNCHANGED <<open, alive>>

(* The destructor has joined the workers: nothing is half answered. *)
Abandon ==
    /\ alive
    /\ answered = {}
    /\ alive' = FALSE
    /\ open' = {}
    /\ UNCHANGED answered

Next == Abandon \/ \E c \in Coords : Request(c) \/ Answer(c) \/ Forget(c)

Spec == Init /\ [][Next]_serviceVars

=============================================================================
