------------------------------ MODULE Lifecycle ------------------------------
(***************************************************************************)
(* What the core promises whoever starts and stops the daemon, without its *)
(* flags, loops and phases: objects come alive while the daemon is up; a   *)
(* stop that is wanted turns the daemon down; then the live objects are    *)
(* stopped in the order of their shutdown priority, none of them comes     *)
(* back, and the process is gone only after the last of them.              *)
(***************************************************************************)
EXTENDS Integers

CONSTANTS
    Objects,
    ShutdownPriority

VARIABLES
    phase,    \* "up", "down" or "gone"
    alive,    \* the objects that are started and not stopped
    wanted    \* somebody wants the daemon to stop

vars == <<phase, alive, wanted>>

Init == phase = "up" /\ alive = {} /\ wanted = FALSE

Want == wanted' = TRUE /\ UNCHANGED <<phase, alive>>

\* An object comes alive; its start may itself make a stop wanted.
Enter(o) ==
    /\ phase = "up"
    /\ alive' = alive \cup {o}
    /\ wanted' \in {wanted, TRUE}
    /\ UNCHANGED phase

Turn == phase = "up" /\ wanted /\ phase' = "down" /\ UNCHANGED <<alive, wanted>>

Leave(o) ==
    /\ phase = "down"
    /\ o \in alive
    /\ \A p \in alive : ShutdownPriority[o] <= ShutdownPriority[p]
    /\ alive' = alive \ {o}
    /\ UNCHANGED <<phase, wanted>>

End == phase = "down" /\ alive = {} /\ phase' = "gone" /\ UNCHANGED <<alive, wanted>>

Down == Turn \/ (\E o \in Objects : Leave(o)) \/ End

Next == Want \/ (\E o \in Objects : Enter(o)) \/ Down

SafeSpec == Init /\ [][Next]_vars
Spec == SafeSpec /\ WF_vars(Down)
=============================================================================
