---------------------------- MODULE MC_Console ----------------------------
(* Instances of Console for TLC.                                           *)
EXTENDS Console

CONSTANTS u1, u2, a1, a2, w1, w2

TwoUnits  == {u1, u2}
OneChosen == {u1}
AllPages  == {"gateways", "connectors", "applications", "policies", "sessions", "logs"}

(* A row, and room for another.                                            *)
OneUp == {[u \in TwoUnits |-> IF u = u1 THEN "up" ELSE "absent"]}

TwoRows  == {a1, a2}
OneOwner == {a1}

TwoWindows == {w1, w2}

AllKinds == {"mfa", "device", "network", "time"}
AllParts == {"name", "subjects", "resources"}

(* What the console may have stored, a policy with a level for MFA and a   *)
(* list of networks and one with a device condition only; and what the API *)
(* accepts besides: an optional second factor and networks that let Tor    *)
(* through, for nobody and nothing in particular, and a policy without a   *)
(* name, with a schedule and a device condition that asks for nothing.     *)
Content(parts, cond) ==
  [parts |-> parts, cond |-> [k \in AllKinds |-> IF k \in DOMAIN cond THEN cond[k] ELSE "none"]]

SomeContents ==
  {Content(AllParts, [mfa |-> "other", network |-> "other"]),
   Content(AllParts, [device |-> "other"]),
   Content({"name"}, [mfa |-> "lax usual", network |-> "lax other"]),
   Content({"subjects", "resources"}, [device |-> "empty", time |-> "other"])}

PolicyEdits == [create |-> 3, update |-> 1]
===========================================================================
