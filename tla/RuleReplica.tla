---------------------------- MODULE RuleReplica ----------------------------
(***************************************************************************)
(* What the distribution of rules promises to whoever relies on a gateway, *)
(* with no stream, no goroutine and no store in it.  The control plane     *)
(* publishes one change after the other; the gateway enforces the rules as *)
(* they were after one of the changes, all of them and nothing else, and   *)
(* never goes back to an earlier one.  It may skip any number of changes,  *)
(* and may be late.  PolicySync implements this module when requests wait  *)
(* for each other and for the gateway.                                     *)
(***************************************************************************)
EXTENDS Integers

CONSTANT Policies      \* policy identifiers

VARIABLES latest,      \* the number of changes published
          history,     \* the rules after each of them: for every policy the
                       \* number of the change that wrote its rule, 0 if none
          at,          \* the change the gateway has come to
          enforced     \* the rules it evaluates requests with

replicaVars == <<latest, history, at, enforced>>

NoRules == [p \in Policies |-> 0]

Init ==
  /\ latest = 0 /\ history = [n \in {0} |-> NoRules]
  /\ at = 0 /\ enforced = NoRules

(* The next change writes the rule of one policy, or takes it away.        *)
Publish(p, rule) ==
  /\ latest' = latest + 1
  /\ history' = [n \in 0..(latest + 1) |->
                   IF n <= latest THEN history[n] ELSE [history[latest] EXCEPT ![p] = rule]]
  /\ UNCHANGED <<at, enforced>>

Enforce(n) ==
  /\ at' = n /\ enforced' = history[n]
  /\ UNCHANGED <<latest, history>>

Next ==
  \/ \E p \in Policies : Publish(p, latest + 1) \/ Publish(p, 0)
  \/ \E n \in at..latest : Enforce(n)

Spec == Init /\ [][Next]_replicaVars
=============================================================================
