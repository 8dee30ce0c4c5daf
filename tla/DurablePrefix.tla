---------------------------- MODULE DurablePrefix ----------------------------
(***************************************************************************)
(* What the resume protocol of the load promises its operator: a phase     *)
(* advances a durable prefix of the generator's output, at most one batch  *)
(* at a time; stopping it, in whatever way, loses nothing of the prefix;   *)
(* it reports success only when the prefix is everything; and it is        *)
(* refused by the database only while the prefix is empty.                 *)
(***************************************************************************)
EXTENDS Integers

CONSTANTS N, BatchSize

VARIABLES
    done,   \* the parents 1..done are durable in every table
    phase   \* what the operator sees of the phase

Init == done = 0 /\ phase = "stopped"

Begin ==
    /\ phase # "running"
    /\ phase' = "running"
    /\ UNCHANGED done

Advance ==
    /\ phase = "running"
    /\ \E k \in 1..BatchSize : done' = done + k /\ done + k <= N
    /\ UNCHANGED phase

Succeed ==
    /\ phase = "running"
    /\ done = N
    /\ phase' = "loaded"
    /\ UNCHANGED done

Stop ==
    /\ phase = "running"
    /\ phase' = "stopped"
    /\ UNCHANGED done

Refused ==
    /\ phase = "running"
    /\ done = 0
    /\ phase' = "refused"
    /\ UNCHANGED done

Next == Begin \/ Advance \/ Succeed \/ Stop \/ Refused

Spec == Init /\ [][Next]_<<done, phase>>
=============================================================================
