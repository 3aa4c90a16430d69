-------------------------- MODULE ServingSessions --------------------------
(***************************************************************************)
(* Which connections requests are sent over, in the terms of those who     *)
(* send them: no entries, no pointers, no detaches and no commands.  A     *)
(* connection has a slot, that of its connector on its plane, and gets into *)
(* service once at most; it displaces and closes the one that has the slot. *)
(* A connection that is open is taken out of service by its successor, by  *)
(* an eviction of its connector or with all the others, and by nothing     *)
(* else.  ConnectorRegistry implements this module.                        *)
(***************************************************************************)

CONSTANTS Streams,   \* connections, each used once
          Slot       \* the connector and the plane of each

VARIABLES stage,     \* "new", "coming" or "past": past connections never get in again
          open,      \* connections that are up
          serving,   \* connections in service
          evicted    \* connectors being evicted

servingVars == <<stage, open, serving, evicted>>

Init ==
  /\ stage = [x \in Streams |-> "new"]
  /\ open = {} /\ serving = {} /\ evicted = {}

Rivals(x) == {y \in serving : Slot[y] = Slot[x]}

Connect(x) ==
  /\ stage[x] = "new"
  /\ \/ stage' = [stage EXCEPT ![x] = "coming"] /\ open' = open \cup {x}
     \/ stage' = [stage EXCEPT ![x] = "past"] /\ open' = open
  /\ UNCHANGED <<serving, evicted>>

TurnAway(x) ==
  /\ stage[x] = "coming"
  /\ stage' = [stage EXCEPT ![x] = "past"]
  /\ open' = open \ {x}
  /\ UNCHANGED <<serving, evicted>>

Enter(x) ==
  /\ stage[x] = "coming"
  /\ stage' = [stage EXCEPT ![x] = "past"]
  /\ serving' = (serving \ Rivals(x)) \cup {x}
  /\ open' = open \ Rivals(x)
  /\ UNCHANGED evicted

Close == open' \in SUBSET open /\ UNCHANGED <<stage, serving, evicted>>

Evict(c) ==
  /\ \E x \in serving : Slot[x][1] = c
  /\ evicted' = evicted \cup {c}
  /\ UNCHANGED <<stage, open, serving>>

(* What leaves is closed, or of a connector being evicted.                 *)
Leave ==
  /\ serving' \in SUBSET serving
  /\ \A x \in serving \ serving' : x \notin open \/ Slot[x][1] \in evicted
  /\ evicted' \in SUBSET evicted
  /\ UNCHANGED <<stage, open>>

CloseAll ==
  /\ serving' = {} /\ open' = open \ serving
  /\ UNCHANGED <<stage, evicted>>

Restart ==
  /\ open' = {} /\ serving' = {} /\ evicted' = {}
  /\ stage' = [x \in Streams |-> IF stage[x] = "new" THEN "new" ELSE "past"]

Next ==
  \/ \E x \in Streams : Connect(x) \/ TurnAway(x) \/ Enter(x)
  \/ \E c \in {Slot[x][1] : x \in Streams} : Evict(c)
  \/ Close \/ Leave \/ CloseAll \/ Restart

Spec == Init /\ [][Next]_servingVars
=============================================================================
