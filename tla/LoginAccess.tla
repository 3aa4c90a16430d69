---------------------------- MODULE LoginAccess ----------------------------
(***************************************************************************)
(* Who gets in with a login, in the terms of those who rely on it: no      *)
(* Redis, no index, no messages and no claims.  A login is offered once,   *)
(* through a one-time token, and whoever takes it holds it for good.  The  *)
(* holder may open one seat at the gateway, once: a seat that is closed,   *)
(* by a logout, a revocation, an expiry or a failure, stays closed.  A     *)
(* request looks at an open seat, and is served if the login is not barred *)
(* then.  Only a revoked login is barred, until it expires or the gateway  *)
(* starts again.  UserSessions implements this module.                     *)
(***************************************************************************)

CONSTANTS Sessions,   \* logins
          Callbacks,  \* browsers that come for a login, and their seats
          Requests,   \* requests being served at once
          None        \* nothing

VARIABLES token,      \* the one-time token of a login: "none", "offered" or "spent"
          holders,    \* the pairs of a login and the browser that holds it
          seat,       \* the gateway session of a browser: "none", "open" or "closed"
          visit,      \* the seat each request came with, and how far it is
          revoked,    \* logins revoked by the control plane
          expired,    \* logins whose time is over
          barred      \* logins the gateway refuses

accessVars == <<token, holders, seat, visit, revoked, expired, barred>>

NoVisit == [stage |-> "none", seat |-> None]

Init ==
  /\ token = [s \in Sessions |-> "none"]
  /\ holders = {}
  /\ seat = [c \in Callbacks |-> "none"]
  /\ visit = [r \in Requests |-> NoVisit]
  /\ revoked = {} /\ expired = {} /\ barred = {}

Close(C) == seat' = [c \in Callbacks |-> IF c \in C THEN "closed" ELSE seat[c]]

Offer(s) ==
  /\ token[s] = "none"
  /\ token' = [token EXCEPT ![s] = "offered"]
  /\ UNCHANGED <<holders, seat, visit, revoked, expired, barred>>

Take(s, c) ==
  /\ token[s] = "offered"
  /\ \A hold \in holders : hold[1] # s /\ hold[2] # c
  /\ token' = [token EXCEPT ![s] = "spent"]
  /\ holders' = holders \cup {<<s, c>>}
  /\ UNCHANGED <<seat, visit, revoked, expired, barred>>

(* The answer to the browser is lost, and the login with it.               *)
Lose(s, c) ==
  /\ token[s] = "offered"
  /\ token' = [token EXCEPT ![s] = "spent"]
  /\ Close({c})
  /\ UNCHANGED <<holders, visit, revoked, expired, barred>>

Open(c) ==
  /\ seat[c] = "none" /\ \E s \in Sessions : <<s, c>> \in holders
  /\ seat' = [seat EXCEPT ![c] = "open"]
  /\ UNCHANGED <<token, holders, visit, revoked, expired, barred>>

Leave(C) == Close(C) /\ UNCHANGED <<token, holders, visit, revoked, expired, barred>>

Look(r, c) ==
  /\ visit[r] = NoVisit /\ seat[c] = "open"
  /\ visit' = [visit EXCEPT ![r] = [stage |-> "looking", seat |-> c]]
  /\ UNCHANGED <<token, holders, seat, revoked, expired, barred>>

Admit(r) ==
  /\ visit[r].stage = "looking"
  /\ \E s \in Sessions \ barred : <<s, visit[r].seat>> \in holders
  /\ visit' = [visit EXCEPT ![r].stage = "served"]
  /\ UNCHANGED <<token, holders, seat, revoked, expired, barred>>

(* A request that is refused or over; the seat may be found out of date.   *)
End(r, C) ==
  /\ Close(C)
  /\ visit' = [visit EXCEPT ![r] = NoVisit]
  /\ UNCHANGED <<token, holders, revoked, expired, barred>>

Revoke(s) ==
  /\ revoked' = revoked \cup {s}
  /\ UNCHANGED <<token, holders, seat, visit, expired, barred>>

Bar(s) ==
  /\ s \in revoked
  /\ barred' = barred \cup {s}
  /\ UNCHANGED <<token, holders, seat, visit, revoked, expired>>

Expire(S, C) ==
  /\ expired' = expired \cup S /\ barred' = barred \ S
  /\ Close(C)
  /\ UNCHANGED <<token, holders, visit, revoked>>

Restart(C) ==
  /\ barred' = {} /\ visit' = [r \in Requests |-> NoVisit]
  /\ Close(C)
  /\ UNCHANGED <<token, holders, revoked, expired>>

Next ==
  \/ \E s \in Sessions : Offer(s) \/ Revoke(s) \/ Bar(s)
  \/ \E s \in Sessions, c \in Callbacks : Take(s, c) \/ Lose(s, c)
  \/ \E c \in Callbacks : Open(c)
  \/ \E r \in Requests : Admit(r) \/ \E c \in Callbacks : Look(r, c)
  \/ \E C \in SUBSET Callbacks :
       \/ Leave(C) \/ Restart(C)
       \/ \E r \in Requests : End(r, C)
       \/ \E S \in SUBSET Sessions : Expire(S, C)

Spec == Init /\ [][Next]_accessVars
=============================================================================
