------------------------------ MODULE EventLog ------------------------------
(***************************************************************************)
(* What the durable command channel of one gateway promises, with no       *)
(* network, no dispatcher and no goroutine in it.  The control plane keeps *)
(* a numbered log of commands; the gateway receives them; an               *)
(* acknowledgement moves a cursor kept next to the log.  The promise: a    *)
(* command reaches the gateway for the first time only after everything    *)
(* before it did, except the snapshots that a later snapshot of the same   *)
(* command replaces, and the cursor only ever names a command that reached *)
(* the gateway.  GatewayEvents implements this module.                     *)
(***************************************************************************)
EXTENDS Naturals, Sequences

CONSTANTS Commands,          \* the command types an administrator issues
          SnapshotCommands   \* those that carry a complete state (DeliverySnapshot)

VARIABLES log,        \* the commands in order; the number of a command is its index
          received,   \* the numbers that some run of the gateway has read
          cursor      \* gateway_events_acks.last_acked_seq

logVars == <<log, received, cursor>>

(* DeliveryModeForCommand: CRL_SYNC and CONNECTOR_SYNC are snapshots.      *)
IsSnapshot(c) == c \in SnapshotCommands

(* A later snapshot of the same command makes command s redundant.         *)
Superseded(s) ==
  /\ IsSnapshot(log[s])
  /\ \E t \in (s + 1)..Len(log) : log[t] = log[s]

Covered(s) == s \in received \/ Superseded(s)

Larger(m, n) == IF m >= n THEN m ELSE n
-----------------------------------------------------------------------------
Init ==
  /\ log = <<>>
  /\ received = {}
  /\ cursor = 0

Create(c) ==
  /\ log' = Append(log, c)
  /\ UNCHANGED <<received, cursor>>

Receive(t) ==
  /\ t \in 1..Len(log)
  /\ \A s \in 1..(t - 1) : Covered(s)
  /\ received' = received \cup {t}
  /\ UNCHANGED <<log, cursor>>

Acknowledge(t) ==
  /\ t \in received
  /\ cursor' = Larger(cursor, t)
  /\ UNCHANGED <<log, received>>

Next ==
  \/ \E c \in Commands : Create(c)
  \/ \E t \in 1..Len(log) : Receive(t) \/ Acknowledge(t)

Spec == Init /\ [][Next]_logVars
=============================================================================
