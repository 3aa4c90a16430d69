------------------------- MODULE MC_PolicyDecision -------------------------
(***************************************************************************)
(* A small instance of PolicyDecision: rules that meet, overlap or just    *)
(* miss each other, and requests of two tenants.                           *)
(***************************************************************************)
EXTENDS PolicyDecision, FiniteSetsExt

CONSTANT r1

OneRequest == {r1}
AllWords   == STRING
TwoTenants == {"acme", "other"}
TwoApps    == {"wiki", "mail"}

(* An ALLOW for everybody of acme and everything.                          *)
Everyone ==
  [policy |-> "everyone", effect |-> "ALLOW", priority |-> 1, tenant |-> "acme",
   groups |-> {}, users |-> {}, sources |-> {}, apps |-> {}, methods |-> {}, paths |-> {},
   mfa |-> FALSE, level |-> "none", postures |-> {}, tor |-> FALSE, countries |-> {},
   blockedCountries |-> {}, nets |-> {}, blockedNets |-> {}, schedule |-> None]

Policies ==
  {Everyone,
   [Everyone EXCEPT !.policy = "engineers", !.groups = {"eng"}, !.apps = {"wiki"}, !.priority = 2],
   [Everyone EXCEPT !.policy = "ann", !.effect = "DENY", !.users = {"ann"}, !.apps = {"*"}],
   [Everyone EXCEPT !.policy = "admin", !.effect = "DENY", !.apps = {"wiki"},
                    !.paths = {<<"**", "admin", "*">>, <<>>}, !.priority = 1],
   [Everyone EXCEPT !.policy = "reads", !.methods = {"GET"}, !.apps = {"mail", "wiki"},
                    !.paths = {<<"*", "**">>}, !.priority = 2],
   [Everyone EXCEPT !.policy = "neighbour", !.tenant = "other", !.effect = "DENY"],
   [Everyone EXCEPT !.policy = "abroad", !.effect = "DENY", !.tor = TRUE, !.apps = {"wiki"}, !.priority = 3,
                    !.countries = {"no"}, !.nets = {{"ip1"}}, !.blockedNets = {{"ip2"}}],
   [Everyone EXCEPT !.policy = "careful", !.mfa = TRUE, !.level = "totp", !.postures = {"ok"},
                    !.blockedCountries = {"no"}],
   [Everyone EXCEPT !.policy = "nights", !.effect = "DENY", !.schedule = "night"],
   [Everyone EXCEPT !.policy = "robots", !.sources = {"app7"}, !.apps = {"mail"}]}

(* Any two policies, and some mixtures of three.                           *)
Named(names) == {rule \in Policies : rule.policy \in names}
Mixtures ==
  UNION {kSubset(k, Policies) : k \in 0..2}
    \cup {Named(names) : names \in {{"everyone", "engineers", "ann"},
             {"admin", "reads", "everyone"}, {"abroad", "admin", "everyone"},
             {"robots", "careful", "nights"}}}

(* The middleware leaves the level of the second factor empty.             *)
Ann ==
  [tenant |-> "acme", app |-> "wiki", method |-> "GET", path |-> <<"docs">>, user |-> "u1",
   email |-> "ann", groups |-> {"eng"}, mfa |-> "none", posture |-> "ok", tor |-> FALSE,
   country |-> "no", ip |-> "ip1", exempt |-> FALSE]
Bob == [Ann EXCEPT !.user = "u2", !.email = "bob", !.groups = {"ops"}]

Visitors ==
  {Ann,
   [Bob EXCEPT !.path = <<"a", "admin", "users">>],
   [Bob EXCEPT !.path = <<"admin">>, !.method = "POST", !.tor = TRUE],
   [Bob EXCEPT !.path = <<>>, !.app = "mail", !.user = "app7"],
   [Bob EXCEPT !.tenant = "other"],
   [Bob EXCEPT !.exempt = TRUE]}
=============================================================================
