--------------------------- MODULE PolicyDecision ---------------------------
(***************************************************************************)
(* What the gateway decides about a request: the index of the rules, which *)
(* an update replaces as a whole, and the middleware that reads it once    *)
(* and then looks at one rule after the other while updates go on.  The    *)
(* rules that are live are a parameter of an update; how they get to the   *)
(* gateway is PolicySync.  Patterns, paths and networks are looked at as   *)
(* far as the decision does: a path is the sequence of its segments, a     *)
(* network the set of its addresses.                                       *)
(***************************************************************************)
EXTENDS Integers, Sequences

CONSTANTS Requests,   \* requests being served at once
          Tenants, Apps,
          RuleSets,   \* what the store may hold: sets of rules
          Contexts,   \* what a request may be: who, from where, for what
          Words,      \* names, methods, segments of paths, addresses
          Empty,      \* the empty segment of a path
          None        \* nothing

Levels == [none |-> 0, totp |-> 1, push |-> 2, webauthn |-> 3]

Rule ==
  [policy : Words, effect : {"ALLOW", "DENY"}, priority : Int, tenant : Tenants,
   groups : SUBSET Words, users : SUBSET Words, sources : SUBSET Words,
   apps : SUBSET (Apps \cup {"*"}), methods : SUBSET Words, paths : SUBSET Seq(Words),
   mfa : BOOLEAN, level : DOMAIN Levels, postures : SUBSET Words, tor : BOOLEAN,
   countries : SUBSET Words, blockedCountries : SUBSET Words,
   nets : SUBSET SUBSET Words, blockedNets : SUBSET SUBSET Words,
   schedule : Words \cup {None}]

(* exempt: an internal path or a public application.                       *)
Context ==
  [tenant : Tenants, app : Apps, method : Words, path : Seq(Words), user : Words,
   email : Words, groups : SUBSET Words, mfa : DOMAIN Levels, posture : Words,
   tor : BOOLEAN, country : Words, ip : Words, exempt : BOOLEAN]

ASSUME RulesAssumption ==
  /\ {Empty, "*"} \subseteq Words /\ "*" \notin Apps
  /\ RuleSets \subseteq SUBSET Rule
  /\ Contexts \subseteq Context
-----------------------------------------------------------------------------
(* The path matcher.                                                       *)

(* The pattern of the root keeps one empty segment, its path two.          *)
CompilePath(pattern) == IF pattern = <<>> THEN <<Empty>> ELSE pattern
Parts(path) == IF path = <<>> THEN <<Empty, Empty>> ELSE path

(* Reach(s, p)[k] are the positions of p from which the last k segments of *)
(* s match all that is left: the results of the calls match(pi, pj).       *)
Reach(segments, parts) ==
  LET m == Len(segments)
      n == Len(parts)
      at[k \in 0..m] ==
        IF k = 0 THEN {n + 1}
        ELSE LET segment == segments[m - k + 1] IN
             IF segment = "**"
               THEN {j \in 1..(n + 1) : k = 1 \/ \E i \in j..(n + 1) : i \in at[k-1]}
             ELSE {j \in 1..n : segment \in {"*", parts[j]} /\ j + 1 \in at[k-1]}
  IN at

Match(pattern, path) ==
  \/ pattern = <<"*">>
  \/ LET s == CompilePath(pattern) IN 1 \in Reach(s, Parts(path))[Len(s)]
-----------------------------------------------------------------------------
(* A compiled policy against a request.                                    *)

Compile(rule) == [rule EXCEPT !.methods = IF @ = {} THEN {"*"} ELSE @]

(* Users settle the question: the applications are looked at without them. *)
MatchesSubject(cp, ctx) ==
  /\ cp.groups # {} => cp.groups \cap ctx.groups # {}
  /\ IF cp.users # {} THEN {ctx.user, ctx.email} \cap cp.users # {}
     ELSE cp.sources # {} => ctx.user \in cp.sources

MatchesResource(cp, ctx) ==
  /\ cp.apps # {} => {ctx.app, "*"} \cap cp.apps # {}
  /\ cp.methods # {} => {ctx.method, "*"} \cap cp.methods # {}
  /\ cp.paths # {} => \E pattern \in cp.paths : Match(pattern, ctx.path)

(* Nothing fills the cache of schedules.                                   *)
ScheduleCache == {}

MatchesConditions(cp, ctx) ==
  /\ cp.mfa => ctx.mfa # "none" /\ Levels[ctx.mfa] >= Levels[cp.level]
  /\ cp.postures # {} => ctx.posture \in cp.postures
  /\ ~ (cp.tor /\ ctx.tor)
  /\ cp.countries # {} => ctx.country \in cp.countries
  /\ ctx.country \notin cp.blockedCountries
  /\ cp.nets # {} => \E net \in cp.nets : ctx.ip \in net
  /\ \A net \in cp.blockedNets : ctx.ip \notin net
  /\ cp.schedule # None => cp.schedule \in ScheduleCache

Matches(cp, ctx) ==
  MatchesSubject(cp, ctx) /\ MatchesResource(cp, ctx) /\ MatchesConditions(cp, ctx)
-----------------------------------------------------------------------------
VARIABLES globalPolicies,  \* the policies of a tenant for every application
          byTenantApp,     \* those of a tenant for an application
          visit,           \* how far each request is
          rules            \* history: the live rules when the index was built

vars == <<globalPolicies, byTenantApp, visit, rules>>

NoVisit == [stage |-> "none", ctx |-> None, denies |-> {}, allows |-> {},
            effect |-> None, policy |-> None, seen |-> {}]

IsGlobal(rule) == rule.apps = {} \/ "*" \in rule.apps

Globals(R) ==
  [t \in Tenants |-> {Compile(rule) : rule \in {x \in R : x.tenant = t /\ IsGlobal(x)}}]
ForApps(R) ==
  [t \in Tenants |-> [a \in Apps |->
     {Compile(rule) : rule \in {x \in R : x.tenant = t /\ ~ IsGlobal(x) /\ a \in x.apps}}]]

Init ==
  /\ rules \in RuleSets
  /\ globalPolicies = Globals(rules) /\ byTenantApp = ForApps(rules)
  /\ visit = [r \in Requests |-> NoVisit]

(* Mutant: one half of the older index stays.                              *)
UpdatePolicies_HalfSwapped(R) ==
  /\ rules' = R
  /\ byTenantApp' = ForApps(R)
  /\ UNCHANGED <<globalPolicies, visit>>

(* An update ends: the new index is swapped in under the lock.             *)
UpdatePolicies(R) ==
  /\ rules' = R
  /\ globalPolicies' = Globals(R) /\ byTenantApp' = ForApps(R)
  /\ UNCHANGED visit

(* The middleware is reached.  Exempt requests go on at once.              *)
Arrive(r, ctx) ==
  /\ visit[r] = NoVisit
  /\ visit' = [visit EXCEPT ![r].ctx = ctx,
                            ![r].stage = IF ctx.exempt THEN "served" ELSE "asked"]
  /\ UNCHANGED <<globalPolicies, byTenantApp, rules>>

(* Evaluate begins: both maps are read under one lock.                     *)
Candidates(ctx) == globalPolicies[ctx.tenant] \cup byTenantApp[ctx.tenant][ctx.app]
OfEffect(S, effect) == {cp \in S : cp.effect = effect}

Evaluate(r) ==
  /\ visit[r].stage = "asked"
  /\ LET candidates == Candidates(visit[r].ctx) IN
     visit' = [visit EXCEPT ![r].stage = "scanning", ![r].seen = rules,
                            ![r].denies = OfEffect(candidates, "DENY"),
                            ![r].allows = OfEffect(candidates, "ALLOW")]
  /\ UNCHANGED <<globalPolicies, byTenantApp, rules>>

(* The candidates are sorted by priority, in no order among equals.        *)
Highest(S) == {cp \in S : \A other \in S : other.priority <= cp.priority}

Decide(r, effect, policy) ==
  visit' = [visit EXCEPT ![r].stage = "decided", ![r].effect = effect, ![r].policy = policy,
                         ![r].denies = {}, ![r].allows = {}]

Deny(r, cp) ==
  /\ visit[r].stage = "scanning" /\ cp \in Highest(visit[r].denies)
  /\ IF Matches(cp, visit[r].ctx) THEN Decide(r, "DENY", cp.policy)
     ELSE visit' = [visit EXCEPT ![r].denies = @ \ {cp}]
  /\ UNCHANGED <<globalPolicies, byTenantApp, rules>>

Allow(r, cp) ==
  /\ visit[r].stage = "scanning" /\ visit[r].denies = {} /\ cp \in Highest(visit[r].allows)
  /\ IF Matches(cp, visit[r].ctx) THEN Decide(r, "ALLOW", cp.policy)
     ELSE visit' = [visit EXCEPT ![r].allows = @ \ {cp}]
  /\ UNCHANGED <<globalPolicies, byTenantApp, rules>>

DefaultDeny(r) ==
  /\ visit[r].stage = "scanning" /\ visit[r].denies = {} /\ visit[r].allows = {}
  /\ Decide(r, "DENY", None)
  /\ UNCHANGED <<globalPolicies, byTenantApp, rules>>

(* Mutant: only a decision that names a policy refuses.                    *)
Enforce_NamedOnly(r) ==
  /\ visit[r].stage = "decided"
  /\ visit' = [visit EXCEPT ![r].stage =
                 IF visit[r].effect = "DENY" /\ visit[r].policy # None THEN "refused" ELSE "served"]
  /\ UNCHANGED <<globalPolicies, byTenantApp, rules>>

(* The middleware passes the request on or answers it.                     *)
Enforce(r) ==
  /\ visit[r].stage = "decided"
  /\ visit' = [visit EXCEPT ![r].stage = IF visit[r].effect = "DENY" THEN "refused" ELSE "served"]
  /\ UNCHANGED <<globalPolicies, byTenantApp, rules>>

Finish(r) ==
  /\ visit[r].stage \in {"served", "refused"}
  /\ visit' = [visit EXCEPT ![r] = NoVisit]
  /\ UNCHANGED <<globalPolicies, byTenantApp, rules>>

Next ==
  \/ \E R \in RuleSets : UpdatePolicies(R)
  \/ \E r \in Requests :
       \/ \E ctx \in Contexts : Arrive(r, ctx)
       \/ Evaluate(r) \/ DefaultDeny(r) \/ Enforce(r) \/ Finish(r)
       \/ \E cp \in visit[r].denies : Deny(r, cp)
       \/ \E cp \in visit[r].allows : Allow(r, cp)

Spec == Init /\ [][Next]_vars
-----------------------------------------------------------------------------
(* What the rules mean, without an index, an order or a matcher.           *)

(* A pattern covers a path that falls into pieces, one for each segment:   *)
(* any number of parts for "**", one for the others.                       *)
Covers(segments, parts) ==
  \E cut \in [0..Len(segments) -> 0..Len(parts)] :
     /\ cut[0] = 0 /\ cut[Len(segments)] = Len(parts)
     /\ \A i \in 1..Len(segments) :
          IF segments[i] = "**" THEN cut[i-1] <= cut[i]
          ELSE cut[i] = cut[i-1] + 1 /\ segments[i] \in {"*", parts[cut[i]]}

Applies(rule, ctx) ==
  /\ rule.tenant = ctx.tenant
  /\ rule.apps = {} \/ ctx.app \in rule.apps \/ "*" \in rule.apps
  /\ rule.methods = {} \/ ctx.method \in rule.methods \/ "*" \in rule.methods
  /\ rule.paths = {} \/ \E pattern \in rule.paths :
       pattern = <<"*">> \/ Covers(CompilePath(pattern), Parts(ctx.path))
  /\ MatchesSubject(rule, ctx) /\ MatchesConditions(rule, ctx)

Applicable(R, ctx, effect) == {rule \in R : rule.effect = effect /\ Applies(rule, ctx)}

Fits(effect, policy, R, ctx) ==
  LET denies == Applicable(R, ctx, "DENY")
      allows == Applicable(R, ctx, "ALLOW")
  IN  IF denies # {}
        THEN effect = "DENY" /\ \E rule \in Highest(denies) : rule.policy = policy
      ELSE IF allows # {}
        THEN effect = "ALLOW" /\ \E rule \in Highest(allows) : rule.policy = policy
      ELSE effect = "DENY" /\ policy = None
-----------------------------------------------------------------------------
(* Types: the candidates of a request are compiled policies, and what it   *)
(* is decided by was once in the store.                                    *)
Visit ==
  [stage : {"none", "asked", "scanning", "decided", "served", "refused"},
   ctx : Context \cup {None}, denies : SUBSET Rule, allows : SUBSET Rule,
   effect : {"ALLOW", "DENY", None}, policy : Words \cup {None}, seen : SUBSET Rule]

TypeOK ==
  /\ rules \in RuleSets
  /\ globalPolicies \in [Tenants -> SUBSET Rule]
  /\ byTenantApp \in [Tenants -> [Apps -> SUBSET Rule]]
  /\ visit \in [Requests -> Visit]

(* Evaluate, through the index, the two scans in the order of priorities   *)
(* and the path matcher, while updates swap the index under it: what it    *)
(* decides is what one set of rules says as a whole, the one that was live *)
(* when it began.  A DENY that applies prevails over any ALLOW whatever    *)
(* the priorities, and the policy it names in the access log is one of     *)
(* the highest priority among those that applied.                          *)
DecisionFits ==
  \A r \in Requests : LET v == visit[r] IN
    v.stage \in {"decided", "served", "refused"} /\ ~ v.ctx.exempt =>
      Fits(v.effect, v.policy, v.seen, v.ctx)

(* PolicyMiddleware passes on exactly what the rules allow: a request that *)
(* is served is exempt, or an ALLOW applied to it and no DENY did, and one *)
(* that is refused is not exempt and was not allowed.                      *)
ServedIfAllowed ==
  \A r \in Requests : LET v == visit[r]
                          allowed == /\ Applicable(v.seen, v.ctx, "DENY") = {}
                                     /\ Applicable(v.seen, v.ctx, "ALLOW") # {}
                      IN  /\ v.stage = "served" => v.ctx.exempt \/ allowed
                          /\ v.stage = "refused" => ~ v.ctx.exempt /\ ~ allowed

(* compiledpolicy.go:157 says that a time condition fails closed when its  *)
(* schedule is missing: no request is served that a DENY would refuse were *)
(* it not for its schedule.                                                *)
FailsClosed ==
  \A r \in Requests : LET v == visit[r] IN
    v.stage = "served" /\ ~ v.ctx.exempt =>
      ~ \E rule \in v.seen : /\ rule.effect = "DENY"
                             /\ Applies([rule EXCEPT !.schedule = None], v.ctx)
=============================================================================
