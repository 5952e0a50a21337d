--------------------------- MODULE ProcessLifecycle ---------------------------
(***************************************************************************)
(* What a Process promises its host, as the lifecycle of spec section 4.1: *)
(* NEW -> SCHEDULED -> (RUNNING) -> BLOCKED <-> (RUNNING) -> STOPPED ->    *)
(* FREED.  RUNNING is only ever seen inside a handler (guest code runs     *)
(* until it yields or exits before the handler returns), so it is not a   *)
(* state here: a start or a wake-up goes straight to BLOCKED or STOPPED.  *)
(* armed is the set of waiters that can still wake the process, used the  *)
(* waiters ever armed (a waiter is never reused).  The promises: the guest *)
(* is started once; at most one waiter is armed, and only when the guest *)
(* yields; a wake-up disarms its waiter; a stopped process is never       *)
(* resumed, so a stale wake-up arms nothing; a process is freed only when *)
(* no waiter can call back into it.  A process that never started is     *)
(* freed too, when the simulation ends before its start time or when no   *)
(* start was posted because its stop time is not after its start time.    *)
(***************************************************************************)
CONSTANT Waiters

VARIABLES life, armed, used

States == {"NEW", "SCHEDULED", "BLOCKED", "STOPPED", "FREED"}

TypeOK == life \in States /\ armed \subseteq used /\ used \subseteq Waiters

Init == life = "NEW" /\ armed = {} /\ used = {}

(* The guest yields, with a fresh waiter armed or with none.              *)
Yield ==
    /\ life' = "BLOCKED"
    /\ armed' \in {{}} \cup {{w} : w \in Waiters \ used}
    /\ used' = used \cup armed'

(* The guest exits.                                                       *)
Exit == life' = "STOPPED" /\ armed' = {} /\ UNCHANGED used

Schedule == life = "NEW" /\ life' = "SCHEDULED" /\ UNCHANGED <<armed, used>>

Start == life = "SCHEDULED" /\ armed = {} /\ (Yield \/ Exit)

(* Waiter w fires: a blocked guest resumes to its next yield or exit; a   *)
(* stopped one is not resumed.                                            *)
Wake(w) ==
    /\ w \in armed
    /\ \/ life = "BLOCKED" /\ (Yield \/ Exit)
       \/ life = "STOPPED" /\ armed' = armed \ {w} /\ UNCHANGED <<life, used>>

Stop == life = "BLOCKED" /\ life' = "STOPPED" /\ UNCHANGED <<armed, used>>

Free ==
    /\ armed = {}
    /\ life \in {"SCHEDULED", "BLOCKED", "STOPPED"}
    /\ life' = "FREED"
    /\ UNCHANGED <<armed, used>>

Next == Schedule \/ Start \/ (\E w \in Waiters : Wake(w)) \/ Stop \/ Free

Spec == Init /\ [][Next]_<<life, armed, used>>
=============================================================================
