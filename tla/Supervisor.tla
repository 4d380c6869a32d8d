----------------------------- MODULE Supervisor -----------------------------
(***************************************************************************)
(* What every command of aru that keeps a project's process running        *)
(* promises: the abstract specification of `aru dev` (DevLoop), `aru       *)
(* serve` (ServeOnce) and `aru native:dev` (NativeDev).                    *)
(*                                                                         *)
(* At most one process runs at a time, a new one is launched only after    *)
(* the previous one is gone, and the session closes only over a dead       *)
(* process.  The one exception is the escape hatch: once a session is      *)
(* stopping, the user may abandon it with a second signal, and what was    *)
(* running then outlives it.                                               *)
(***************************************************************************)
EXTENDS Naturals

VARIABLES
    up,       \* the processes that are alive, as a set of launch numbers
    session   \* "open", "stopping", "closed" or "abandoned"

vars == <<up, session>>

TypeOK ==
    /\ up \subseteq Nat
    /\ session \in {"open", "stopping", "closed", "abandoned"}

Init ==
    /\ up = {}
    /\ session = "open"

Launch ==
    /\ session = "open"
    /\ up = {}
    /\ \E p \in up' : p \in Nat /\ up' = {p}
    /\ UNCHANGED session

Exit ==
    /\ \E p \in up : up' = up \ {p}
    /\ UNCHANGED session

RequestStop ==
    /\ session = "open"
    /\ session' = "stopping"
    /\ UNCHANGED up

Close ==
    /\ session \in {"open", "stopping"}
    /\ up = {}
    /\ session' = "closed"
    /\ UNCHANGED up

Abandon ==
    /\ session = "stopping"
    /\ session' = "abandoned"
    /\ UNCHANGED up

Next == Launch \/ Exit \/ RequestStop \/ Close \/ Abandon

Spec == Init /\ [][Next]_vars
=============================================================================
