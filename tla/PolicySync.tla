----------------------------- MODULE PolicySync -----------------------------
(***************************************************************************)
(* Distribution of access rules from the control plane (CP) to one         *)
(* gateway.  An administrative request appends a mutation to the policy    *)
(* log and starts a goroutine that pushes a delta or a snapshot            *)
(* (internal/cp/policy); the gateway applies every bundle in a goroutine   *)
(* of its own to its bbolt store, reloads its engine and acknowledges a    *)
(* sequence number (internal/gateway/grpc_client/stream.go,                *)
(* internal/gateway/policy), which the CP keeps in Redis and takes as the  *)
(* base of the next delta.                                                 *)
(*                                                                         *)
(* The content of a rule is abstracted to the number of the mutation that  *)
(* wrote it.  Signatures are valid and every rule compiles.                *)
(***************************************************************************)
EXTENDS Integers, Sequences, FiniteSets

CONSTANTS
  Policies,       \* policy identifiers
  Requests,       \* kinds of requests: see PolicyAssumption
  Tasks,          \* slots for goroutines of the CP: requests and pushes
  Handlers,       \* slots for goroutines of the gateway: bundles
  MaxMutations,   \* bound on the policy log
  FaultKinds,     \* which faults may happen
  MaxFaults,      \* bound on the number of faults
  Patient         \* requests overlap neither each other, nor the delivery of
                  \* an earlier mutation, nor a reconnection

ASSUME PolicyAssumption ==
  /\ Requests \subseteq {"Create", "Update", "Disable", "Enable", "Delete"}
  /\ FaultKinds \subseteq {"break", "gatewayRestart", "cpRestart", "database",
                           "redis", "backpressure"}
  /\ MaxMutations \in Nat /\ MaxFaults \in Nat
  /\ Patient \in BOOLEAN

VARIABLES
  \* PostgreSQL and Redis
  mutations,   \* policy_mutations
  rows,        \* the policies table: version (0: no row) and enabled
  acked,       \* gateway:policy_seq of the gateway in Redis (0: no key)
  \* control plane process
  tasks,       \* what each goroutine is doing
  \* the control stream
  alive,       \* the stream is up, and its connection in the registry
  hello,       \* the checkpoint announced by a Hello not yet read, or None
  down,        \* bundles in flight to the gateway
  up,          \* acknowledged numbers in sendCh or in flight to the CP
  \* gateway
  store,       \* bbolt: the rule stored for each policy
  tombs,       \* bbolt: version of the tombstone of each policy, or None
  checkpoint,  \* bbolt: last sequence applied
  handlers,    \* what each goroutine of handlePolicyUpdate is doing
  engine,      \* the index the engine evaluates requests with
  \* bound and history
  faults,      \* faults so far
  reached      \* the largest checkpoint the gateway ever committed

dbVars    == <<mutations, rows>>
netVars   == <<alive, hello, down, up>>
boltVars  == <<store, tombs, checkpoint, reached>>
vars      == <<dbVars, acked, tasks, netVars, boltVars, handlers, engine, faults>>

None   == -1
Seqs   == 1..MaxMutations
NoRule == [seq |-> 0, version |-> 0]
NoRow  == [version |-> 0, enabled |-> FALSE]
NoBundle == [last |-> 0, records |-> {}]

IdleTask    == [pc |-> "idle"]
IdleHandler == [pc |-> "idle"]

Mutations == [policy: Policies, seq: Seqs, version: 0..MaxMutations,
              op: {"UPSERT", "DELETE"}]
Bundles   == [last: 0..MaxMutations, records: SUBSET Mutations]

Largest(S) == CHOOSE n \in S : \A m \in S : m <= n

(* SELECT COALESCE(MAX(sequence), 0), respectively MAX(version) + 1.       *)
GetLatestPolicySequence == Largest({0} \cup {m.seq : m \in mutations})
GetNextPolicyVersion(p) ==
  1 + Largest({0} \cup {m.version : m \in {n \in mutations : n.policy = p}})

GetMutationsSince_SkipsNext(n) == {m \in mutations : m.seq > n + 1}
GetMutationsSince(n) == {m \in mutations : m.seq > n}

(* The latest mutation of every policy (any of them, when two carry the    *)
(* largest version), joined with the enabled rows; the version is the      *)
(* row's.                                                                  *)
LatestUpserts ==
  {m \in mutations :
     /\ m.op = "UPSERT" /\ rows[m.policy].version > 0 /\ rows[m.policy].enabled
     /\ \A o \in mutations : o.policy = m.policy => o.version <= m.version}
ListPoliciesByOrg ==
  {{[m EXCEPT !.version = rows[m.policy].version] : m \in S} :
     S \in {T \in SUBSET LatestUpserts :
              \A m \in LatestUpserts :
                Cardinality({n \in T : n.policy = m.policy}) = 1}}

TasksIdle    == \A t \in Tasks : tasks[t] = IdleTask
HandlersIdle == \A h \in Handlers : handlers[h] = IdleHandler

(* Nothing is on its way anywhere.                                         *)
Settled ==
  /\ TasksIdle /\ HandlersIdle
  /\ hello = None /\ down = <<>> /\ (alive => up = <<>>)
-----------------------------------------------------------------------------
(* A gateway installed a moment ago, and an organisation without policies. *)
Init ==
  /\ mutations = {}
  /\ rows = [p \in Policies |-> NoRow]
  /\ acked = 0
  /\ tasks = [t \in Tasks |-> IdleTask]
  /\ alive = FALSE /\ hello = None /\ down = <<>> /\ up = <<>>
  /\ store = [p \in Policies |-> NoRule]
  /\ tombs = [p \in Policies |-> None]
  /\ checkpoint = 0
  /\ handlers = [h \in Handlers |-> IdleHandler]
  /\ engine = [p \in Policies |-> 0]
  /\ faults = 0 /\ reached = 0
-----------------------------------------------------------------------------
(* Administrative requests.  Every query before the transaction is one of  *)
(* its own, so two requests may read the same version or sequence.         *)

Free(t)      == tasks[t] = IdleTask
Become(t, r) == tasks' = [tasks EXCEPT ![t] = r]
Exists(p)    == rows[p].version > 0
Requesting(t) == tasks[t].pc \in {"version", "sequence", "commit"}

(* Create draws a fresh identifier; the others read the policy first.      *)
Begin(t, kind, p) ==
  /\ Free(t)
  /\ Cardinality(mutations) + Cardinality({u \in Tasks : Requesting(u)}) < MaxMutations
  /\ Patient => Settled
  /\ IF kind = "Create"
       THEN /\ \A m \in mutations : m.policy # p
            /\ \A u \in Tasks : Requesting(u) => tasks[u].policy # p
            /\ Become(t, [pc |-> "sequence", kind |-> kind, policy |-> p, version |-> 1])
       ELSE /\ Exists(p)
            /\ Become(t, IF kind = "Delete"
                           THEN [pc |-> "sequence", kind |-> kind, policy |-> p, version |-> 0]
                           ELSE [pc |-> "version", kind |-> kind, policy |-> p])
  /\ UNCHANGED <<dbVars, acked, netVars, boltVars, handlers, engine, faults>>

ReadVersion(t) ==
  /\ tasks[t].pc = "version"
  /\ Become(t, [pc |-> "sequence", kind |-> tasks[t].kind, policy |-> tasks[t].policy,
                version |-> GetNextPolicyVersion(tasks[t].policy)])
  /\ UNCHANGED <<dbVars, acked, netVars, boltVars, handlers, engine, faults>>

ReadSequence(t) ==
  /\ tasks[t].pc = "sequence"
  /\ Become(t, [pc |-> "commit", kind |-> tasks[t].kind, policy |-> tasks[t].policy,
                version |-> tasks[t].version, seq |-> GetLatestPolicySequence + 1])
  /\ UNCHANGED <<dbVars, acked, netVars, boltVars, handlers, engine, faults>>

(* The unique index refuses a number this policy has already, and an       *)
(* update finds no row to update after a delete; the request fails then.   *)
Refused(r) ==
  \/ \E m \in mutations : m.policy = r.policy /\ m.seq = r.seq
  \/ r.kind \notin {"Create", "Delete"} /\ ~ Exists(r.policy)

Row(r) ==
  CASE r.kind = "Create"  -> [version |-> r.version, enabled |-> TRUE]
    [] r.kind = "Update"  -> [rows[r.policy] EXCEPT !.version = r.version]
    [] r.kind = "Disable" -> [version |-> r.version, enabled |-> FALSE]
    [] r.kind = "Enable"  -> [version |-> r.version, enabled |-> TRUE]
    [] r.kind = "Delete"  -> NoRow

Commit(t) ==
  LET r == tasks[t] IN
  /\ r.pc = "commit"
  /\ IF Refused(r)
       THEN Become(t, IdleTask) /\ UNCHANGED dbVars
       ELSE /\ mutations' = mutations \cup
                 {[policy |-> r.policy, seq |-> r.seq, version |-> r.version,
                   op |-> IF r.kind = "Delete" THEN "DELETE" ELSE "UPSERT"]}
            /\ rows' = [rows EXCEPT ![r.policy] = Row(r)]
            /\ Become(t, [pc |-> "lookup"])
  /\ UNCHANGED <<acked, netVars, boltVars, handlers, engine, faults>>
-----------------------------------------------------------------------------
(* Pushes.  A goroutine whose stream breaks can only fail to send, so      *)
(* Break ends it at once.                                                  *)

(* Distribute: the connection from the registry, then its number in Redis. *)
Lookup(t) ==
  /\ tasks[t].pc = "lookup"
  /\ Become(t, IF ~ alive THEN IdleTask
               ELSE IF acked > 0 THEN [pc |-> "delta", since |-> acked, reconnect |-> FALSE]
               ELSE [pc |-> "list"])
  /\ UNCHANGED <<dbVars, acked, netVars, boltVars, handlers, engine, faults>>

(* compileDeltaBundle.  Without a mutation Distribute goes on to a         *)
(* snapshot, and PushDelta sends an empty bundle.                          *)
CompileDelta(t) ==
  /\ tasks[t].pc = "delta"
  /\ LET M == GetMutationsSince(tasks[t].since) IN
     Become(t, IF M # {}
                 THEN [pc |-> "send", bundle |-> [last |-> Largest({m.seq : m \in M}),
                                                  records |-> M]]
               ELSE IF tasks[t].reconnect THEN [pc |-> "send", bundle |-> NoBundle]
               ELSE [pc |-> "list"])
  /\ UNCHANGED <<dbVars, acked, netVars, boltVars, handlers, engine, faults>>

(* compileSnapshotBundle: the rules and the number are two queries.        *)
CompileList(t) ==
  /\ tasks[t].pc = "list"
  /\ \E L \in ListPoliciesByOrg : Become(t, [pc |-> "latest", records |-> L])
  /\ UNCHANGED <<dbVars, acked, netVars, boltVars, handlers, engine, faults>>

CompileLatest(t) ==
  /\ tasks[t].pc = "latest"
  /\ Become(t, [pc |-> "send",
                bundle |-> IF tasks[t].records = {} THEN NoBundle
                           ELSE [last |-> GetLatestPolicySequence,
                                 records |-> tasks[t].records]])
  /\ UNCHANGED <<dbVars, acked, netVars, boltVars, handlers, engine, faults>>

SendBundle(t) ==
  /\ tasks[t].pc = "send"
  /\ down' = Append(down, tasks[t].bundle)
  /\ Become(t, IdleTask)
  /\ UNCHANGED <<dbVars, acked, alive, hello, up, boltVars, handlers, engine, faults>>
-----------------------------------------------------------------------------
(* The CP's loop over the stream.                                          *)

HandleHello_OnlyFirst(t) ==
  /\ hello # None /\ Free(t)
  /\ hello' = None
  /\ acked' = IF hello > 0 THEN hello ELSE acked
  /\ IF hello = 0 THEN Become(t, [pc |-> "list"]) ELSE UNCHANGED tasks
  /\ UNCHANGED <<dbVars, alive, down, up, boltVars, handlers, engine, faults>>

(* Hello comes first; the base it announces is pushed from a goroutine.    *)
HandleHello(t) ==
  /\ hello # None /\ Free(t)
  /\ hello' = None
  /\ acked' = IF hello > 0 THEN hello ELSE acked
  /\ IF hello = 0 THEN Become(t, [pc |-> "list"])
     ELSE IF hello < GetLatestPolicySequence
       THEN Become(t, [pc |-> "delta", since |-> hello, reconnect |-> TRUE])
     ELSE UNCHANGED tasks
  /\ UNCHANGED <<dbVars, alive, down, up, boltVars, handlers, engine, faults>>

PolicyAck ==
  /\ alive /\ hello = None /\ up # <<>>
  /\ acked' = Head(up)
  /\ up' = Tail(up)
  /\ UNCHANGED <<dbVars, tasks, alive, hello, down, boltVars, handlers, engine, faults>>
-----------------------------------------------------------------------------
(* The gateway.                                                            *)

OpenStream ==
  /\ ~ alive /\ (Patient => TasksIdle)
  /\ alive' = TRUE /\ hello' = checkpoint
  /\ UNCHANGED <<dbVars, acked, tasks, down, up, boltVars, handlers, engine, faults>>

Turn(h, r) == handlers' = [handlers EXCEPT ![h] = r]

(* recvLoop: one goroutine per bundle.                                     *)
Receive(h) ==
  /\ alive /\ down # <<>> /\ handlers[h] = IdleHandler
  /\ Turn(h, [pc |-> "read", bundle |-> Head(down)])
  /\ down' = Tail(down)
  /\ UNCHANGED <<dbVars, acked, tasks, alive, hello, up, boltVars, engine, faults>>

AckOf(n) == IF n > 0 THEN [pc |-> "ack", last |-> n] ELSE IdleHandler

(* A bundle that brings nothing new is answered with the checkpoint.       *)
ReadCheckpoint(h) ==
  LET b == handlers[h].bundle IN
  /\ handlers[h].pc = "read"
  /\ Turn(h, IF b.last > checkpoint THEN [pc |-> "apply", bundle |-> b]
             ELSE AckOf(IF checkpoint > 0 THEN checkpoint ELSE b.last))
  /\ UNCHANGED <<dbVars, acked, tasks, netVars, boltVars, engine, faults>>

ApplyRecord_AnyVersion(e, r) ==
  IF r.op = "UPSERT"
    THEN [ok |-> TRUE, tomb |-> None, rule |-> [seq |-> r.seq, version |-> r.version]]
    ELSE IF e.tomb # None
           THEN [e EXCEPT !.ok = FALSE]
           ELSE [ok |-> TRUE, tomb |-> r.version, rule |-> NoRule]

(* What one record does to the rule and the tombstone of its policy.       *)
ApplyRecord(e, r) ==
  IF r.op = "UPSERT"
    THEN IF r.version <= e.tomb \/ r.version <= e.rule.version
           THEN [e EXCEPT !.ok = FALSE]
           ELSE [ok |-> TRUE, tomb |-> None,
                 rule |-> [seq |-> r.seq, version |-> r.version]]
    ELSE IF e.tomb # None
           THEN [e EXCEPT !.ok = FALSE]
           ELSE [ok |-> TRUE, tomb |-> r.version, rule |-> NoRule]

Replay_Reversed(b, p) ==
  LET after[n \in 1..(MaxMutations + 1)] ==
        IF n > MaxMutations THEN [ok |-> TRUE, tomb |-> tombs[p], rule |-> store[p]]
        ELSE LET R == {r \in b.records : r.policy = p /\ r.seq = n} IN
             IF R = {} \/ ~ after[n+1].ok THEN after[n+1]
             ELSE ApplyRecord(after[n+1], CHOOSE r \in R : TRUE)
  IN after[1]

(* The records of a policy in the order of their numbers, the order of the *)
(* bundle; those of different policies do not meet.                        *)
Replay(b, p) ==
  LET after[n \in 0..MaxMutations] ==
        IF n = 0 THEN [ok |-> TRUE, tomb |-> tombs[p], rule |-> store[p]]
        ELSE LET R == {r \in b.records : r.policy = p /\ r.seq = n} IN
             IF R = {} \/ ~ after[n-1].ok THEN after[n-1]
             ELSE ApplyRecord(after[n-1], CHOOSE r \in R : TRUE)
  IN after[MaxMutations]

ApplyDelta_AcksFailure(h) ==
  LET b == handlers[h].bundle IN
  /\ handlers[h].pc = "apply"
  /\ IF \A p \in Policies : Replay(b, p).ok
       THEN /\ store' = [p \in Policies |-> Replay(b, p).rule]
            /\ tombs' = [p \in Policies |-> Replay(b, p).tomb]
            /\ checkpoint' = b.last
            /\ reached' = Largest({reached, b.last})
            /\ Turn(h, [pc |-> "load", last |-> b.last])
       ELSE Turn(h, AckOf(b.last)) /\ UNCHANGED boltVars
  /\ UNCHANGED <<dbVars, acked, tasks, netVars, engine, faults>>

(* store.ApplyDelta: one transaction, all or nothing; a failed bundle is   *)
(* logged and never acknowledged.                                          *)
ApplyDelta(h) ==
  LET b == handlers[h].bundle IN
  /\ handlers[h].pc = "apply"
  /\ IF \A p \in Policies : Replay(b, p).ok
       THEN /\ store' = [p \in Policies |-> Replay(b, p).rule]
            /\ tombs' = [p \in Policies |-> Replay(b, p).tomb]
            /\ checkpoint' = b.last
            /\ reached' = Largest({reached, b.last})
            /\ Turn(h, [pc |-> "load", last |-> b.last])
       ELSE Turn(h, IdleHandler) /\ UNCHANGED boltVars
  /\ UNCHANGED <<dbVars, acked, tasks, netVars, engine, faults>>

(* UpdatePolicies: reload the records, build the index, swap it in.        *)
LoadAllRecords(h) ==
  /\ handlers[h].pc = "load"
  /\ Turn(h, [pc |-> "swap", last |-> handlers[h].last,
              index |-> [p \in Policies |-> store[p].seq]])
  /\ UNCHANGED <<dbVars, acked, tasks, netVars, boltVars, engine, faults>>

SwapIndex(h) ==
  /\ handlers[h].pc = "swap"
  /\ engine' = handlers[h].index
  /\ Turn(h, AckOf(handlers[h].last))
  /\ UNCHANGED <<dbVars, acked, tasks, netVars, boltVars, faults>>

QueueAck(h) ==
  /\ handlers[h].pc = "ack"
  /\ up' = Append(up, handlers[h].last)
  /\ Turn(h, IdleHandler)
  /\ UNCHANGED <<dbVars, acked, tasks, alive, hello, down, boltVars, engine, faults>>
-----------------------------------------------------------------------------
(* Faults.                                                                 *)

Fault(k) ==
  /\ k \in FaultKinds /\ faults < MaxFaults
  /\ faults' = faults + 1

(* The acknowledgements on the wire, a prefix of the queue, may be lost.   *)
LoseStream ==
  /\ alive' = FALSE /\ hello' = None /\ down' = <<>>
  /\ \E n \in 0..Len(up) : up' = SubSeq(up, n + 1, Len(up))

Pushing(t) == tasks[t].pc \in {"delta", "list", "latest", "send"}

Break ==
  /\ alive /\ Fault("break")
  /\ LoseStream
  /\ tasks' = [t \in Tasks |-> IF Pushing(t) THEN IdleTask ELSE tasks[t]]
  /\ UNCHANGED <<dbVars, acked, boltVars, handlers, engine>>

(* The store survives; NewEngine builds the index from it.                 *)
GatewayRestart ==
  /\ Fault("gatewayRestart")
  /\ alive' = FALSE /\ hello' = None /\ down' = <<>> /\ up' = <<>>
  /\ handlers' = [h \in Handlers |-> IdleHandler]
  /\ engine' = [p \in Policies |-> store[p].seq]
  /\ tasks' = [t \in Tasks |-> IF Pushing(t) THEN IdleTask ELSE tasks[t]]
  /\ UNCHANGED <<dbVars, acked, boltVars>>

ControlPlaneRestart ==
  /\ Fault("cpRestart")
  /\ LoseStream
  /\ tasks' = [t \in Tasks |-> IdleTask]
  /\ UNCHANGED <<dbVars, acked, boltVars, handlers, engine>>

(* A query of a request or of a push fails: only PushDelta has a fallback. *)
DatabaseFails(t) ==
  /\ Requesting(t) \/ tasks[t].pc \in {"delta", "list", "latest"}
  /\ Fault("database")
  /\ Become(t, IF tasks[t].pc = "delta" /\ tasks[t].reconnect
                 THEN [pc |-> "list"] ELSE IdleTask)
  /\ UNCHANGED <<dbVars, acked, netVars, boltVars, handlers, engine>>

(* Reading the number fails and counts as 0, or writing it is given up.    *)
RedisFails ==
  /\ Fault("redis")
  /\ \/ /\ \E t \in Tasks : /\ tasks[t].pc = "lookup" /\ alive
                            /\ Become(t, [pc |-> "list"])
        /\ UNCHANGED up
     \/ alive /\ hello = None /\ up # <<>> /\ up' = Tail(up) /\ UNCHANGED tasks
  /\ UNCHANGED <<dbVars, acked, alive, hello, down, boltVars, handlers, engine>>

(* sendCh is full of other messages: Send fails and the number is dropped. *)
AckDropped(h) ==
  /\ handlers[h].pc = "ack" /\ Fault("backpressure")
  /\ Turn(h, IdleHandler)
  /\ UNCHANGED <<dbVars, acked, tasks, netVars, boltVars, engine>>
-----------------------------------------------------------------------------
Admin  == \E t \in Tasks : \/ \E kind \in Requests, p \in Policies : Begin(t, kind, p)
                           \/ ReadVersion(t) \/ ReadSequence(t) \/ Commit(t)
Push   == \E t \in Tasks : \/ Lookup(t) \/ CompileDelta(t) \/ CompileList(t)
                           \/ CompileLatest(t) \/ SendBundle(t) \/ HandleHello(t)
Gateway == \/ OpenStream \/ PolicyAck
           \/ \E h \in Handlers : \/ Receive(h) \/ ReadCheckpoint(h) \/ ApplyDelta(h)
                                  \/ LoadAllRecords(h) \/ SwapIndex(h) \/ QueueAck(h)
Faults == \/ Break \/ GatewayRestart \/ ControlPlaneRestart \/ RedisFails
          \/ \E t \in Tasks : DatabaseFails(t)
          \/ \E h \in Handlers : AckDropped(h)

Next == Admin \/ Push \/ Gateway \/ Faults
Spec == Init /\ [][Next]_vars

(* The Go scheduler runs every goroutine, the stream manager reconnects,   *)
(* and a request that has started is carried on.  Nobody has to make one.  *)
Steps == \/ \E t \in Tasks : ReadVersion(t) \/ ReadSequence(t) \/ Commit(t)
         \/ Push \/ Gateway
FairSpec == Spec /\ WF_vars(Steps)
-----------------------------------------------------------------------------
TaskOK(r) ==
  \/ r = IdleTask \/ r = [pc |-> "lookup"] \/ r = [pc |-> "list"]
  \/ r \in [pc: {"version"}, kind: Requests, policy: Policies]
  \/ r \in [pc: {"sequence"}, kind: Requests, policy: Policies, version: 0..MaxMutations]
  \/ r \in [pc: {"commit"}, kind: Requests, policy: Policies, version: 0..MaxMutations,
            seq: Seqs]
  \/ r \in [pc: {"delta"}, since: Seqs, reconnect: BOOLEAN]
  \/ r \in [pc: {"latest"}, records: SUBSET Mutations]
  \/ r \in [pc: {"send"}, bundle: Bundles]

HandlerOK(r) ==
  \/ r = IdleHandler
  \/ r \in [pc: {"read"}, bundle: Bundles]
  \/ r \in [pc: {"apply"}, bundle: [last: Seqs, records: SUBSET Mutations]]
  \/ r \in [pc: {"load", "ack"}, last: Seqs]
  \/ r \in [pc: {"swap"}, last: Seqs, index: [Policies -> 0..MaxMutations]]

(* Types of the variables.                                                 *)
TypeOK ==
  /\ mutations \subseteq Mutations
  /\ rows \in [Policies -> [version: 0..MaxMutations, enabled: BOOLEAN]]
  /\ acked \in 0..MaxMutations
  /\ DOMAIN tasks = Tasks /\ \A t \in Tasks : TaskOK(tasks[t])
  /\ alive \in BOOLEAN /\ hello \in {None} \cup 0..MaxMutations
  /\ down \in Seq(Bundles) /\ up \in Seq(Seqs)
  /\ store \in [Policies -> [seq: 0..MaxMutations, version: 0..MaxMutations]]
  /\ tombs \in [Policies -> {None} \cup 0..MaxMutations]
  /\ checkpoint \in 0..MaxMutations /\ reached \in 0..MaxMutations
  /\ DOMAIN handlers = Handlers /\ \A h \in Handlers : HandlerOK(handlers[h])
  /\ engine \in [Policies -> 0..MaxMutations]
  /\ faults \in 0..MaxFaults

(* The CP never believes the gateway further than it ever got: a number in *)
(* Redis, the base of the next delta, is one whose bundle was committed.   *)
AckedReached == acked <= reached

(* What the gateway should enforce for a policy.                           *)
Current(p) ==
  IF Exists(p) /\ rows[p].enabled
    THEN Largest({m.seq : m \in {n \in mutations : n.policy = p}})
    ELSE 0

(* When nothing is on its way and the stream is up, the engine enforces    *)
(* exactly the rules of the CP.                                            *)
Converged == alive /\ Settled => \A p \in Policies : engine[p] = Current(p)

(* The version of a stored rule only grows for as long as the rule is      *)
(* there, in whatever order the bundles' goroutines run: it goes down only *)
(* within a bundle that also deletes the rule, which happens when a        *)
(* version read long before is committed under a number after the delete.  *)
Deletes(h, p) ==
  /\ handlers[h].pc = "apply" /\ handlers'[h].pc = "load"
  /\ \E r \in handlers[h].bundle.records : r.policy = p /\ r.op = "DELETE"

StoredVersionsGrow ==
  [][\A p \in Policies :
       \/ store'[p] = NoRule \/ store'[p].version >= store[p].version
       \/ \E h \in Handlers : Deletes(h, p)]_vars

(* A deleted rule is never enforced again.                                 *)
NoResurrection ==
  [][\A p \in Policies : engine'[p] # 0 /\ engine[p] = 0 =>
       ~ \E m \in mutations : m.policy = p /\ m.op = "DELETE" /\ m.seq <= reached]_vars

(* The rules after mutation n of the log: for every policy the number of   *)
(* its newest mutation so far, unless that one deletes it.                 *)
RulesAt(n) ==
  [p \in Policies |->
     LET M == {m \in mutations : m.policy = p /\ m.seq <= n}
         newest == Largest({0} \cup {m.seq : m \in M})
     IN IF \E m \in M : m.seq = newest /\ m.op = "UPSERT" THEN newest ELSE 0]

(* The last mutation within the checkpoint whose rules the engine has.     *)
EnforcedAt == Largest({0} \cup {n \in 0..checkpoint : RulesAt(n) = engine})

(* The gateway is a replica of the log: at every moment, in the middle of  *)
(* a bundle, of a restart and of a reconnection, the engine enforces the   *)
(* rules of the CP as they were after one of the mutations, never a mix of *)
(* several, and never goes back.                                           *)
Replica == INSTANCE RuleReplica
             WITH latest <- GetLatestPolicySequence,
                  history <- [n \in 0..GetLatestPolicySequence |-> RulesAt(n)],
                  at <- EnforcedAt, enforced <- engine
IsReplica == Replica!Spec

(* Once the faults and the requests are over, the gateway ends up          *)
(* enforcing the rules of the CP.                                          *)
EventuallyEnforced == <>[](\A p \in Policies : engine[p] = Current(p))
=============================================================================
