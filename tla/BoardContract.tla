---------------------------- MODULE BoardContract ----------------------------
(***************************************************************************)
(* What a Board promises a frontend, in terms of status() and of whether a *)
(* sketch process exists: a process is born only when a prepared or        *)
(* stopped board goes running, there is never more than one, it may die at *)
(* any time, and the board leaves running and suspended only over its dead *)
(* body.                                                                   *)
(***************************************************************************)
VARIABLES status, alive

cvars == <<status, alive>>

Init == status = "clean" /\ alive = FALSE

Configure ==
    /\ status \in {"clean", "configured"}
    /\ status' = "configured"
    /\ UNCHANGED alive

Prepare ==
    /\ status \in {"configured", "stopped"}
    /\ status' = "prepared"
    /\ UNCHANGED alive

Launch ==
    /\ status \in {"prepared", "stopped"}
    /\ ~alive
    /\ status' = "running"
    /\ alive' = TRUE

Suspend == status = "running" /\ status' = "suspended" /\ UNCHANGED alive
Resume == status = "suspended" /\ status' = "running" /\ UNCHANGED alive

Die == alive /\ alive' = FALSE /\ UNCHANGED status

Settle ==
    /\ status \in {"running", "suspended"}
    /\ ~alive
    /\ status' = "stopped"
    /\ UNCHANGED alive

Reset ==
    /\ status \notin {"running", "suspended"}
    /\ status' = "clean"
    /\ UNCHANGED alive

Next ==
    \/ Configure \/ Prepare \/ Launch \/ Suspend \/ Resume \/ Die \/ Settle
    \/ Reset

Spec == Init /\ [][Next]_cvars
==============================================================================
