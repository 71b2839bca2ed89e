--------------------------------- MODULE App ---------------------------------
(***************************************************************************)
(* What a srvApp process promises the program that calls Run: it is up     *)
(* until someone asks it to stop, the first request fixes the code, and    *)
(* then Run returns with that code or the process ends in a panic.  A      *)
(* panic may also come from what is left running when Run has returned.    *)
(***************************************************************************)
CONSTANT AppCode   \* the codes someone may ask for

VARIABLES phase,   \* "up", "stopping", "stopped" or "crashed"
          code     \* the code of the first request, 0 before it

Init == phase = "up" /\ code = 0

Ask(c) == phase = "up" /\ phase' = "stopping" /\ code' = c

Stop == phase = "stopping" /\ phase' = "stopped" /\ UNCHANGED code

Crash == phase # "crashed" /\ phase' = "crashed" /\ UNCHANGED code

Next == (\E c \in AppCode : Ask(c)) \/ Stop \/ Crash

vars == <<phase, code>>

Spec == Init /\ [][Next]_vars
==============================================================================
