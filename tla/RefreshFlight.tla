--------------------------- MODULE RefreshFlight ---------------------------
(***************************************************************************)
(* What the console promises about renewing the access token of a tab.     *)
(* However many requests of the tab find the token too old, one call to    *)
(* /auth/refresh is under way; they wait for that call together, and its   *)
(* end, good or bad, lets all of them go.  AdminAuth implements this       *)
(* module: waiting is the set of requests held by the interceptor, flying  *)
(* the state of refreshPromise (web-cp/src/config/api.ts).                 *)
(***************************************************************************)
CONSTANTS Tabs,   \* tabs of one browser
          Kinds   \* requests that a tab may have under way

VARIABLES waiting,  \* the requests of each tab that wait for its token
          flying    \* the tabs whose token is being renewed

flightVars == <<waiting, flying>>

Init ==
  /\ waiting = [t \in Tabs |-> {}]
  /\ flying = {}

Join(t, k) ==
  /\ k \notin waiting[t]
  /\ waiting' = [waiting EXCEPT ![t] = @ \cup {k}]
  /\ flying' = flying \cup {t}

Land(t) ==
  /\ t \in flying
  /\ waiting' = [waiting EXCEPT ![t] = {}]
  /\ flying' = flying \ {t}

Next == \E t \in Tabs : Land(t) \/ \E k \in Kinds : Join(t, k)

Spec == Init /\ [][Next]_flightVars
=============================================================================
