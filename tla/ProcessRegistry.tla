-------------------------- MODULE ProcessRegistry --------------------------
(***************************************************************************)
(* What the scheduler's queue promises, without the array, its shifting,   *)
(* the history blocks and the loop index: a map from the processes that    *)
(* have announced themselves to what is known of each, bounded in size,    *)
(* and passes that settle every process in it exactly once, in any order,  *)
(* or drop it because it is dead.  SchedulerQueue implements it.           *)
(***************************************************************************)
EXTENDS Naturals, FiniteSets

CONSTANTS Pids,
          Capacity     \* how many processes the map can have

VARIABLES entry,       \* the map: what is known of each of its processes
          alive,       \* the PIDs a signal can be sent to
          phase,       \* "listening", "passing" or "stopped"
          served       \* the processes this pass has settled

vars == <<entry, alive, phase, served>>

Known == DOMAIN entry

Nobody == [p \in {} |-> p]

Init == /\ entry = Nobody
        /\ alive = {}
        /\ phase = "listening"
        /\ served = {}

(* The processes come and go as they like.                                 *)
LiveAndDie == /\ alive' \in SUBSET Pids
              /\ UNCHANGED <<entry, phase, served>>

(* Only a living process enters the map, and only while there is room.     *)
Register(p, flag) ==
  /\ phase = "listening"
  /\ p \in alive \ Known
  /\ Cardinality(Known) < Capacity
  /\ entry' = [q \in Known \cup {p} |->
                 IF q = p THEN [samples |-> 1, startup |-> flag, used |-> FALSE,
                                on_p |-> TRUE, placed |-> FALSE]
                 ELSE entry[q]]
  /\ UNCHANGED <<alive, phase, served>>

Store(p, flag) ==
  /\ phase = "listening"
  /\ p \in alive \cap Known
  /\ entry' = [entry EXCEPT ![p].samples = @ + 1, ![p].startup = flag]
  /\ UNCHANGED <<alive, phase, served>>

BeginPass == /\ phase = "listening"
             /\ phase' = "passing"
             /\ UNCHANGED <<entry, alive, served>>

Unserved == IF phase = "passing" THEN Known \ served ELSE {}

(* The decision of a side touches nothing else, and no other process.      *)
Decide(p, side, placed) ==
  /\ p \in Unserved \cap alive
  /\ ~ entry[p].startup
  /\ entry' = [entry EXCEPT ![p].on_p = side, ![p].placed = placed]
  /\ UNCHANGED <<alive, phase, served>>

Settle(p) ==
  /\ p \in Unserved
  /\ entry' = [entry EXCEPT ![p].samples = 0, ![p].startup = FALSE,
                            ![p].used = TRUE]
  /\ served' = served \cup {p}
  /\ UNCHANGED <<alive, phase>>

Drop(p) ==
  /\ p \in Unserved \ alive
  /\ entry' = [q \in Known \ {p} |-> entry[q]]
  /\ UNCHANGED <<alive, phase, served>>

EndPass == /\ phase = "passing"
           /\ Unserved = {}
           /\ phase' = "listening"
           /\ served' = {}
           /\ UNCHANGED <<entry, alive>>

Stop == /\ phase = "listening"
        /\ phase' = "stopped"
        /\ entry' = Nobody
        /\ UNCHANGED <<alive, served>>

Next == \/ LiveAndDie \/ BeginPass \/ EndPass \/ Stop
        \/ \E p \in Pids :
             \/ \E flag \in BOOLEAN : Register(p, flag) \/ Store(p, flag)
             \/ \E side, placed \in BOOLEAN : Decide(p, side, placed)
             \/ Settle(p) \/ Drop(p)

Spec == Init /\ [][Next]_vars
=============================================================================
