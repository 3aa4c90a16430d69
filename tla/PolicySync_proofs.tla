-------------------------- MODULE PolicySync_proofs --------------------------
(***************************************************************************)
(* The theorems about PolicySync.  The first part holds for every number   *)
(* of requests and whatever fails; the second for requests that wait for   *)
(* each other and for the gateway (Paced), with any number of broken       *)
(* streams and restarts.                                                   *)
(***************************************************************************)
EXTENDS PolicySync, TLAPS, FiniteSetTheorems, WellFoundedInduction

-----------------------------------------------------------------------------
(* Numbers.                                                                *)

(* Induction for a set of numbers, from the well-foundedness of Nat.       *)
LEMMA SetInduction ==
  ASSUME NEW T \in SUBSET Nat, 0 \in T, \A n \in T : n + 1 \in T
  PROVE  T = Nat
<1> DEFINE U == Nat \ T
<1>1. SUFFICES ASSUME U # {} PROVE FALSE
  OBVIOUS
<1>2. PICK x \in U : \A y \in U : ~ (<<y, x>> \in OpToRel(<, Nat))
  BY <1>1, NatLessThanWellFounded, WFMin
<1>3. \A y \in U : ~ (y < x)
  BY <1>2 DEF OpToRel
<1>4. x # 0 /\ x - 1 \in Nat /\ x - 1 < x
  OBVIOUS
<1>5. x - 1 \in T
  BY <1>3, <1>4
<1>6. (x - 1) + 1 \in T
  BY <1>5
<1> QED BY <1>6

LEMMA BoundedInduction ==
  ASSUME NEW k \in Nat, NEW T \in SUBSET (0..k), 0 \in T,
         \A n \in 1..k : n - 1 \in T => n \in T
  PROVE  T = 0..k
<1> DEFINE U == {n \in Nat : n \in T \/ n > k}
<1>1. 0 \in U
  OBVIOUS
<1>2. ASSUME NEW n \in U PROVE n + 1 \in U
  <2>1. CASE n + 1 \in 1..k
    <3>1. (n + 1) - 1 = n /\ n \in T
      BY <1>2, <2>1
    <3> QED BY <2>1, <3>1
  <2>2. CASE n + 1 \notin 1..k
    <3>1. n + 1 > k /\ n + 1 \in Nat
      BY <2>2
    <3> QED BY <3>1
  <2> QED BY <2>1, <2>2
<1>3. U = Nat
  <2> HIDE DEF U
  <2>1. U \in SUBSET Nat
    BY DEF U
  <2> QED BY <1>1, <1>2, <2>1, SetInduction
<1>4. \A n \in 0..k : n \in U /\ ~ (n > k)
  BY <1>3
<1> QED BY <1>4

(* A set of numbers that is bounded and not empty has a largest one.       *)
LEMMA HasLargest ==
  ASSUME NEW k \in Nat, NEW S \in SUBSET (0..k), S # {}
  PROVE  \E x \in S : \A m \in S : m <= x
<1> DEFINE Has(n) == \A R \in SUBSET (0..n) : R # {} => \E x \in R : \A m \in R : m <= x
           T == {n \in Nat : Has(n)}
<1>1. 0 \in T
  <2>1. Has(0)
    <3> SUFFICES ASSUME NEW R \in SUBSET (0..0), R # {}
                 PROVE  \E x \in R : \A m \in R : m <= x
      OBVIOUS
    <3>1. PICK x : x \in R
      OBVIOUS
    <3>2. \A m \in R : m <= x
      BY <3>1
    <3> QED BY <3>1, <3>2
  <2> QED BY <2>1
<1>2. ASSUME NEW n \in T PROVE n + 1 \in T
  <2>1. n \in Nat /\ Has(n)
    BY <1>2
  <2>2. SUFFICES ASSUME NEW R \in SUBSET (0..(n+1)), R # {}
                 PROVE  \E x \in R : \A m \in R : m <= x
    BY <2>1
  <2>3. CASE n + 1 \in R
    <3>1. \A m \in R : m <= n + 1
      BY <2>1
    <3> QED BY <2>3, <3>1
  <2>4. CASE n + 1 \notin R
    <3>1. R \in SUBSET (0..n)
      BY <2>1, <2>4
    <3> QED BY <2>1, <2>2, <3>1
  <2> QED BY <2>3, <2>4
<1> HIDE DEF Has
<1>3. T = Nat
  <2> HIDE DEF T
  <2>1. T \in SUBSET Nat
    BY DEF T
  <2> QED BY <1>1, <1>2, <2>1, SetInduction
<1>4. Has(k)
  BY <1>3
<1> QED BY <1>4 DEF Has

LEMMA LargestIs ==
  ASSUME NEW k \in Nat, NEW S \in SUBSET (0..k), S # {}
  PROVE  Largest(S) \in S /\ \A m \in S : m <= Largest(S)
<1>1. \E x \in S : \A m \in S : m <= x
  BY HasLargest
<1> QED BY <1>1 DEF Largest
-----------------------------------------------------------------------------
(* Replay, the recursive function at the heart of ApplyDelta, goes through *)
(* the records of a policy one number after the other.                     *)

Before(p) == [ok |-> TRUE, tomb |-> tombs[p], rule |-> store[p]]

After(b, p, n, e) ==
  LET R == {r \in b.records : r.policy = p /\ r.seq = n} IN
  IF R = {} \/ ~ e.ok THEN e ELSE ApplyRecord(e, CHOOSE r \in R : TRUE)

Replays(b, p, k, f) ==
  f = [n \in 0..k |-> IF n = 0 THEN Before(p) ELSE After(b, p, n, f[n-1])]

(* There is such a function, whatever the bundle.                          *)
LEMMA ReplayExists ==
  ASSUME NEW b, NEW p, NEW k \in Nat
  PROVE  \E f : Replays(b, p, k, f)
<1> DEFINE T == {n \in Nat : \E f : Replays(b, p, n, f)}
<1>1. 0 \in T
  <2> DEFINE f == [n \in 0..0 |-> Before(p)]
  <2>1. Replays(b, p, 0, f)
    BY DEF Replays
  <2> QED BY <2>1
<1>2. ASSUME NEW j \in T PROVE j + 1 \in T
  <2>1. PICK f : Replays(b, p, j, f)
    OBVIOUS
  <2> DEFINE g == [n \in 0..(j+1) |-> IF n = j + 1 THEN After(b, p, n, f[j]) ELSE f[n]]
  <2>2. f = [n \in 0..j |-> IF n = 0 THEN Before(p) ELSE After(b, p, n, f[n-1])]
    BY <2>1 DEF Replays
  <2>3. ASSUME NEW n \in 0..(j+1)
        PROVE  g[n] = IF n = 0 THEN Before(p) ELSE After(b, p, n, g[n-1])
    <3>1. CASE n = j + 1
      <4>1. g[n] = After(b, p, n, f[j]) /\ n - 1 = j /\ j \in 0..(j+1) /\ n # 0 /\ j # j + 1
        BY <3>1
      <4>2. g[j] = f[j]
        BY <4>1
      <4> QED BY <4>1, <4>2
    <3>2. CASE n # j + 1
      <4>1. n \in 0..j
        BY <3>2
      <4>2. g[n] = f[n]
        BY <3>2
      <4>3. n # 0 => n - 1 \in 0..(j+1) /\ n - 1 # j + 1
        BY <4>1
      <4>4. n # 0 => g[n-1] = f[n-1]
        BY <4>3
      <4>5. f[n] = IF n = 0 THEN Before(p) ELSE After(b, p, n, f[n-1])
        BY <2>2, <4>1
      <4> QED BY <4>2, <4>4, <4>5
    <3> QED BY <3>1, <3>2
  <2>4. g = [n \in 0..(j+1) |-> g[n]]
    OBVIOUS
  <2>5. Replays(b, p, j + 1, g)
    <3> HIDE DEF g
    <3> QED BY <2>3, <2>4 DEF Replays
  <2> QED BY <2>5
<1>3. T = Nat
  <2> HIDE DEF T
  <2>1. T \in SUBSET Nat
    BY DEF T
  <2> QED BY <1>1, <1>2, <2>1, SetInduction
<1> QED BY <1>3

(* What it is: the state before the first record, and a step for each      *)
(* number.                                                                 *)
LEMMA ReplayFunction ==
  ASSUME NEW b, NEW p
  PROVE  \E f : /\ f[0] = Before(p)
                /\ \A n \in 1..MaxMutations : f[n] = After(b, p, n, f[n-1])
                /\ Replay(b, p) = f[MaxMutations]
<1> DEFINE f == CHOOSE g : Replays(b, p, MaxMutations, g)
<1>1. MaxMutations \in Nat
  BY PolicyAssumption
<1>2. Replays(b, p, MaxMutations, f)
  BY <1>1, ReplayExists
<1>3. Replay(b, p) = f[MaxMutations]
  BY DEF Replay, Replays, Before, After
<1> HIDE DEF f
<1>4. f = [n \in 0..MaxMutations |-> IF n = 0 THEN Before(p) ELSE After(b, p, n, f[n-1])]
  BY <1>2 DEF Replays
<1>5. f[0] = Before(p)
  BY <1>1, <1>4
<1>6. \A n \in 1..MaxMutations : f[n] = After(b, p, n, f[n-1])
  BY <1>1, <1>4
<1> QED BY <1>3, <1>5, <1>6
-----------------------------------------------------------------------------
(* Which steps change a group of variables; the others leave it alone.      *)

LEMMA LogFrame ==
  Next => \/ \E t \in Tasks : Commit(t)
          \/ UNCHANGED <<mutations, rows>>
BY Zenon DEF Next, Admin, Push, Gateway, Faults, Begin, ReadVersion, ReadSequence, Lookup,
   CompileDelta, CompileList, CompileLatest, SendBundle, HandleHello, OpenStream, PolicyAck,
   Receive, ReadCheckpoint, ApplyDelta, LoadAllRecords, SwapIndex, QueueAck, Break,
   GatewayRestart, ControlPlaneRestart, RedisFails, DatabaseFails, AckDropped, dbVars

LEMMA TasksFrame ==
  Next => \/ Admin \/ Push
          \/ Break \/ GatewayRestart \/ ControlPlaneRestart \/ RedisFails
          \/ \E t \in Tasks : DatabaseFails(t)
          \/ UNCHANGED tasks
BY Zenon DEF Next, Gateway, Faults, OpenStream, PolicyAck, Receive, ReadCheckpoint,
   ApplyDelta, LoadAllRecords, SwapIndex, QueueAck, AckDropped

LEMMA StreamFrame ==
  Next => \/ \E t \in Tasks : SendBundle(t) \/ HandleHello(t)
          \/ OpenStream \/ PolicyAck
          \/ \E h \in Handlers : Receive(h) \/ QueueAck(h)
          \/ Break \/ GatewayRestart \/ ControlPlaneRestart \/ RedisFails
          \/ UNCHANGED <<acked, alive, hello, down, up>>
BY Zenon DEF Next, Admin, Push, Gateway, Faults, Begin, ReadVersion, ReadSequence, Commit,
   Lookup, CompileDelta, CompileList, CompileLatest, ReadCheckpoint, ApplyDelta,
   LoadAllRecords, SwapIndex, DatabaseFails, AckDropped, netVars

LEMMA BoltFrame ==
  Next => \/ \E h \in Handlers : ApplyDelta(h)
          \/ UNCHANGED <<store, tombs, checkpoint, reached>>
BY Zenon DEF Next, Admin, Push, Gateway, Faults, Begin, ReadVersion, ReadSequence, Commit,
   Lookup, CompileDelta, CompileList, CompileLatest, SendBundle, HandleHello, OpenStream,
   PolicyAck, Receive, ReadCheckpoint, LoadAllRecords, SwapIndex, QueueAck, Break,
   GatewayRestart, ControlPlaneRestart, RedisFails, DatabaseFails, AckDropped, boltVars

LEMMA HandlersFrame ==
  Next => \/ \E h \in Handlers :
                \/ Receive(h) \/ ReadCheckpoint(h) \/ ApplyDelta(h)
                \/ LoadAllRecords(h) \/ SwapIndex(h) \/ QueueAck(h) \/ AckDropped(h)
          \/ GatewayRestart
          \/ UNCHANGED handlers
BY Zenon DEF Next, Admin, Push, Gateway, Faults, Begin, ReadVersion, ReadSequence, Commit,
   Lookup, CompileDelta, CompileList, CompileLatest, SendBundle, HandleHello, OpenStream,
   PolicyAck, Break, ControlPlaneRestart, RedisFails, DatabaseFails

LEMMA EngineFrame ==
  Next => \/ \E h \in Handlers : SwapIndex(h)
          \/ GatewayRestart
          \/ UNCHANGED engine
BY Zenon DEF Next, Admin, Push, Gateway, Faults, Begin, ReadVersion, ReadSequence, Commit,
   Lookup, CompileDelta, CompileList, CompileLatest, SendBundle, HandleHello, OpenStream,
   PolicyAck, Receive, ReadCheckpoint, ApplyDelta, LoadAllRecords, QueueAck, Break,
   ControlPlaneRestart, RedisFails, DatabaseFails, AckDropped

LEMMA FaultsFrame ==
  Next => \/ \E k \in FaultKinds : Fault(k)
          \/ UNCHANGED faults
BY Zenon DEF Next, Admin, Push, Gateway, Faults, Begin, ReadVersion, ReadSequence, Commit,
   Lookup, CompileDelta, CompileList, CompileLatest, SendBundle, HandleHello, OpenStream,
   PolicyAck, Receive, ReadCheckpoint, ApplyDelta, LoadAllRecords, SwapIndex, QueueAck, Break,
   GatewayRestart, ControlPlaneRestart, RedisFails, DatabaseFails, AckDropped, Fault

LEMMA Stutters ==
  UNCHANGED vars =>
    UNCHANGED <<mutations, rows, acked, tasks, alive, hello, down, up, store, tombs,
                checkpoint, reached, handlers, engine, faults>>
BY DEF vars, dbVars, netVars, boltVars
-----------------------------------------------------------------------------
(* Types.  Versions and sequence numbers stay within the bound because     *)
(* both count mutations: whoever has read one may be late, but adds one.   *)

Requesters == {t \in Tasks : Requesting(t)}

Room ==
  /\ IsFiniteSet(mutations) /\ IsFiniteSet(Requesters)
  /\ Cardinality(mutations) + Cardinality(Requesters) <= MaxMutations
  /\ \A m \in mutations :
       m.seq <= Cardinality(mutations) /\ m.version <= Cardinality(mutations)
  /\ \A t \in Tasks : tasks[t].pc \in {"sequence", "commit"} =>
       tasks[t].version <= Cardinality(mutations) + 1
  /\ \A t \in Tasks : tasks[t].pc = "commit" => tasks[t].seq <= Cardinality(mutations) + 1

TypeInv == TypeOK /\ Room

(* What a goroutine knows at each of its steps.                            *)
LEMMA TaskFields ==
  ASSUME NEW r, TaskOK(r)
  PROVE  /\ r.pc = "idle" => r = IdleTask
         /\ r.pc = "lookup" => r = [pc |-> "lookup"]
         /\ r.pc = "list" => r = [pc |-> "list"]
         /\ r.pc \in {"version", "sequence", "commit"} => r.kind \in Requests /\ r.policy \in Policies
         /\ r.pc \in {"sequence", "commit"} => r.version \in 0..MaxMutations
         /\ r.pc = "commit" => r.seq \in Seqs
         /\ r.pc = "delta" => r.since \in Seqs /\ r.reconnect \in BOOLEAN
         /\ r.pc = "latest" => r.records \in SUBSET Mutations
         /\ r.pc = "send" => r.bundle \in Bundles
         /\ r.pc \in {"idle", "lookup", "list", "version", "sequence", "commit", "delta",
                      "latest", "send"}
<1> USE DEF IdleTask
<1>1. CASE r = IdleTask \/ r = [pc |-> "lookup"] \/ r = [pc |-> "list"]
  BY <1>1
<1>2. CASE r \in [pc: {"version"}, kind: Requests, policy: Policies]
  BY <1>2
<1>3. CASE r \in [pc: {"sequence"}, kind: Requests, policy: Policies, version: 0..MaxMutations]
  BY <1>3
<1>4. CASE r \in [pc: {"commit"}, kind: Requests, policy: Policies, version: 0..MaxMutations,
                  seq: Seqs]
  BY <1>4
<1>5. CASE r \in [pc: {"delta"}, since: Seqs, reconnect: BOOLEAN]
  BY <1>5
<1>6. CASE r \in [pc: {"latest"}, records: SUBSET Mutations]
  BY <1>6
<1>7. CASE r \in [pc: {"send"}, bundle: Bundles]
  BY <1>7
<1> QED BY <1>1, <1>2, <1>3, <1>4, <1>5, <1>6, <1>7 DEF TaskOK

LEMMA HandlerFields ==
  ASSUME NEW r, HandlerOK(r)
  PROVE  /\ r.pc = "idle" => r = IdleHandler
         /\ r.pc \in {"read", "apply"} => r.bundle \in Bundles
         /\ r.pc = "apply" => r.bundle.last \in Seqs
         /\ r.pc \in {"load", "swap", "ack"} => r.last \in Seqs
         /\ r.pc = "swap" => r.index \in [Policies -> 0..MaxMutations]
         /\ r.pc \in {"idle", "read", "apply", "load", "swap", "ack"}
<1> USE DEF IdleHandler
<1>1. CASE r = IdleHandler
  BY <1>1
<1>2. CASE r \in [pc: {"read"}, bundle: Bundles]
  BY <1>2
<1>3. CASE r \in [pc: {"apply"}, bundle: [last: Seqs, records: SUBSET Mutations]]
  BY <1>3, PolicyAssumption DEF Bundles, Seqs
<1>4. CASE r \in [pc: {"load", "ack"}, last: Seqs]
  BY <1>4
<1>5. CASE r \in [pc: {"swap"}, last: Seqs, index: [Policies -> 0..MaxMutations]]
  BY <1>5
<1> QED BY <1>1, <1>2, <1>3, <1>4, <1>5 DEF HandlerOK

(* What the two queries of a request may find.                             *)
LEMMA QueriesBounded ==
  ASSUME TypeInv
  PROVE  /\ GetLatestPolicySequence \in 0..Cardinality(mutations)
         /\ \A m \in mutations : m.seq <= GetLatestPolicySequence
         /\ \A p \in Policies :
              /\ GetNextPolicyVersion(p) \in 1..(Cardinality(mutations) + 1)
              /\ \A m \in mutations : m.policy = p => m.version < GetNextPolicyVersion(p)
<1>1. Cardinality(mutations) \in Nat
  BY FS_CardinalityType DEF TypeInv, Room
<1>2. \A m \in mutations : m.seq \in 0..Cardinality(mutations) /\ m.version \in 0..Cardinality(mutations)
  BY <1>1, PolicyAssumption DEF TypeInv, Room, TypeOK, Mutations, Seqs
<1>3. /\ GetLatestPolicySequence \in 0..Cardinality(mutations)
      /\ \A m \in mutations : m.seq <= GetLatestPolicySequence
  <2> DEFINE S == {0} \cup {m.seq : m \in mutations}
  <2>1. S \in SUBSET (0..Cardinality(mutations)) /\ S # {}
    BY <1>1, <1>2
  <2>2. Largest(S) \in S /\ \A m \in S : m <= Largest(S)
    BY <1>1, <2>1, LargestIs
  <2> QED BY <2>1, <2>2 DEF GetLatestPolicySequence
<1>4. ASSUME NEW p \in Policies
      PROVE  /\ GetNextPolicyVersion(p) \in 1..(Cardinality(mutations) + 1)
             /\ \A m \in mutations : m.policy = p => m.version < GetNextPolicyVersion(p)
  <2> DEFINE S == {0} \cup {m.version : m \in {n \in mutations : n.policy = p}}
  <2>1. S \in SUBSET (0..Cardinality(mutations)) /\ S # {}
    BY <1>1, <1>2
  <2>2. Largest(S) \in S /\ \A m \in S : m <= Largest(S)
    BY <1>1, <2>1, LargestIs
  <2>3. GetNextPolicyVersion(p) = 1 + Largest(S)
    BY DEF GetNextPolicyVersion
  <2>4. Largest(S) \in 0..Cardinality(mutations)
    BY <2>1, <2>2
  <2>5. \A m \in mutations : m.policy = p => m.version \in S
    OBVIOUS
  <2>6. \A m \in mutations : m.policy = p => m.version <= Largest(S) /\ m.version \in 0..Cardinality(mutations)
    BY <2>2, <2>5, <1>2
  <2> HIDE DEF S
  <2> QED BY <1>1, <2>3, <2>4, <2>6
<1> QED BY <1>3, <1>4

LEMMA BecomeOne ==
  ASSUME TypeOK, NEW t \in Tasks, NEW r, Become(t, r)
  PROVE  /\ DOMAIN tasks' = Tasks
         /\ tasks'[t] = r
         /\ \A u \in Tasks : u # t => tasks'[u] = tasks[u]
BY DEF TypeOK, Become

LEMMA RequestersChange ==
  ASSUME TypeOK, NEW t \in Tasks, NEW r, Become(t, r)
  PROVE  Requesters' = IF r.pc \in {"version", "sequence", "commit"}
                         THEN Requesters \cup {t} ELSE Requesters \ {t}
BY BecomeOne DEF Requesters, Requesting

(* Fewer requesters leave the room there is.                               *)
LEMMA RoomKept ==
  ASSUME Room, UNCHANGED mutations, Requesters' \subseteq Requesters,
         \A t \in Tasks : tasks'[t] = tasks[t] \/ tasks'[t].pc \notin {"sequence", "commit"}
  PROVE  Room'
<1>1. /\ IsFiniteSet(Requesters') /\ Cardinality(Requesters') <= Cardinality(Requesters)
      /\ Cardinality(Requesters') \in Nat /\ Cardinality(Requesters) \in Nat
      /\ Cardinality(mutations) \in Nat
  BY FS_Subset, FS_CardinalityType DEF Room
<1>2. Cardinality(mutations) + Cardinality(Requesters') <= MaxMutations
  BY <1>1, PolicyAssumption DEF Room
<1> QED BY <1>1, <1>2 DEF Room

LEMMA RoomBegin ==
  ASSUME TypeInv, NEW t \in Tasks, NEW kind \in Requests, NEW p \in Policies, Begin(t, kind, p)
  PROVE  Room'
<1>1. mutations' = mutations
  BY DEF Begin, dbVars
<1>2. PICK r : /\ Become(t, r)
               /\ r.pc \in {"version", "sequence"}
               /\ r.pc = "sequence" => r.version \in {0, 1}
  BY DEF Begin
<1>3. Requesters' = Requesters \cup {t} /\ t \notin Requesters
  BY <1>2, RequestersChange DEF TypeInv, Begin, Free, IdleTask, Requesters, Requesting
<1>4. /\ IsFiniteSet(Requesters') /\ Cardinality(Requesters') = Cardinality(Requesters) + 1
      /\ Cardinality(Requesters) \in Nat /\ Cardinality(mutations) \in Nat
  BY <1>3, FS_AddElement, FS_CardinalityType DEF TypeInv, Room
<1>5. Cardinality(mutations) + Cardinality(Requesters) < MaxMutations
  BY DEF Begin, Requesters
<1>6. Cardinality(mutations) + Cardinality(Requesters') <= MaxMutations
  BY <1>4, <1>5, PolicyAssumption
<1>7. \A u \in Tasks : tasks'[u] = tasks[u] \/ (tasks'[u] = r)
  BY <1>2, BecomeOne DEF TypeInv
<1>8. \A u \in Tasks : tasks'[u].pc \in {"sequence", "commit"} =>
        tasks'[u].version <= Cardinality(mutations) + 1
  BY <1>2, <1>4, <1>7 DEF TypeInv, Room
<1>9. \A u \in Tasks : tasks'[u].pc = "commit" => tasks'[u].seq <= Cardinality(mutations) + 1
  BY <1>2, <1>7 DEF TypeInv, Room
<1> QED BY <1>1, <1>4, <1>6, <1>8, <1>9 DEF TypeInv, Room

(* The queries of a request keep its place.                                *)
LEMMA RoomRead ==
  ASSUME TypeInv, NEW t \in Tasks, ReadVersion(t) \/ ReadSequence(t)
  PROVE  Room'
<1>1. mutations' = mutations
  BY DEF ReadVersion, ReadSequence, dbVars
<1>2. tasks[t] # IdleTask /\ TaskOK(tasks[t])
  BY DEF ReadVersion, ReadSequence, IdleTask, TypeInv, TypeOK
<1>3. PICK r : /\ Become(t, r)
               /\ r.pc \in {"sequence", "commit"}
               /\ r.version <= Cardinality(mutations) + 1
               /\ r.pc = "commit" => r.seq <= Cardinality(mutations) + 1
  <2>1. CASE ReadVersion(t)
    <3>1. tasks[t].policy \in Policies
      BY <1>2, <2>1 DEF ReadVersion, TaskOK, IdleTask
    <3>2. GetNextPolicyVersion(tasks[t].policy) <= Cardinality(mutations) + 1
      BY <3>1, QueriesBounded
    <3> QED BY <2>1, <3>2 DEF ReadVersion
  <2>2. CASE ReadSequence(t)
    <3>1. GetLatestPolicySequence + 1 <= Cardinality(mutations) + 1
      BY QueriesBounded, FS_CardinalityType DEF TypeInv, Room
    <3>2. tasks[t].version <= Cardinality(mutations) + 1
      BY <2>2 DEF TypeInv, Room, ReadSequence
    <3> QED BY <2>2, <3>1, <3>2 DEF ReadSequence
  <2> QED BY <2>1, <2>2
<1>4. Requesters' = Requesters
  BY <1>3, RequestersChange DEF TypeInv, ReadVersion, ReadSequence, Requesters, Requesting
<1>5. \A u \in Tasks : tasks'[u] = tasks[u] \/ (tasks'[u] = r)
  BY <1>3, BecomeOne DEF TypeInv
<1> QED BY <1>1, <1>3, <1>4, <1>5 DEF TypeInv, Room

LEMMA RoomCommit ==
  ASSUME TypeInv, NEW t \in Tasks, Commit(t)
  PROVE  Room'
<1> DEFINE r == tasks[t]
           m == [policy |-> r.policy, seq |-> r.seq, version |-> r.version,
                 op |-> IF r.kind = "Delete" THEN "DELETE" ELSE "UPSERT"]
<1>1. r.pc = "commit" /\ t \in Requesters
  BY DEF Commit, Requesters, Requesting
<1>2. PICK s : Become(t, s) /\ s.pc \in {"idle", "lookup"}
  BY DEF Commit, IdleTask
<1>3. Requesters' = Requesters \ {t}
  BY <1>2, RequestersChange DEF TypeInv
<1>4. \A u \in Tasks : tasks'[u] = tasks[u] \/ tasks'[u].pc \notin {"sequence", "commit"}
  BY <1>2, BecomeOne DEF TypeInv
<1>5. CASE Refused(r)
  <2>1. mutations' = mutations
    BY <1>5 DEF Commit, dbVars
  <2> QED BY <1>3, <1>4, <2>1, RoomKept DEF TypeInv
<1>6. CASE ~ Refused(r)
  <2>1. mutations' = mutations \cup {m}
    BY <1>6 DEF Commit
  <2>2. m \notin mutations
    BY <1>6 DEF Refused
  <2>3. /\ IsFiniteSet(mutations') /\ Cardinality(mutations') = Cardinality(mutations) + 1
        /\ Cardinality(mutations) \in Nat
    BY <2>1, <2>2, FS_AddElement, FS_CardinalityType DEF TypeInv, Room
  <2>4. /\ IsFiniteSet(Requesters') /\ Cardinality(Requesters') = Cardinality(Requesters) - 1
        /\ Cardinality(Requesters) \in Nat
    BY <1>1, <1>3, FS_RemoveElement, FS_CardinalityType DEF TypeInv, Room
  <2>5. Cardinality(mutations') + Cardinality(Requesters') <= MaxMutations
    BY <2>3, <2>4, PolicyAssumption DEF TypeInv, Room
  <2>6. m.seq <= Cardinality(mutations) + 1 /\ m.version <= Cardinality(mutations) + 1
    BY <1>1 DEF TypeInv, Room
  <2>7. \A n \in mutations : n.seq \in Nat /\ n.version \in Nat
    BY PolicyAssumption DEF TypeInv, TypeOK, Mutations, Seqs
  <2>8. \A n \in mutations' :
          n.seq <= Cardinality(mutations') /\ n.version <= Cardinality(mutations')
    BY <2>1, <2>3, <2>6, <2>7 DEF TypeInv, Room
  <2>9. \A u \in Tasks :
          /\ tasks[u].pc \in {"sequence", "commit"} => tasks[u].version \in Nat
          /\ tasks[u].pc = "commit" => tasks[u].seq \in Nat
    BY TaskFields, PolicyAssumption DEF TypeInv, TypeOK, Seqs
  <2>10. \A u \in Tasks : tasks'[u].pc \in {"sequence", "commit"} =>
           tasks'[u].version <= Cardinality(mutations') + 1
    BY <1>4, <2>3, <2>9 DEF TypeInv, Room
  <2>11. \A u \in Tasks : tasks'[u].pc = "commit" => tasks'[u].seq <= Cardinality(mutations') + 1
    BY <1>4, <2>3, <2>9 DEF TypeInv, Room
  <2> QED BY <2>3, <2>4, <2>5, <2>8, <2>10, <2>11 DEF Room
<1> QED BY <1>5, <1>6

(* No other step makes a requester.                                        *)
LEMMA NoNewRequester ==
  ASSUME TypeInv, \/ Push \/ Break \/ GatewayRestart \/ ControlPlaneRestart \/ RedisFails
                  \/ \E t \in Tasks : DatabaseFails(t)
  PROVE  \A u \in Tasks : tasks'[u] = tasks[u] \/ ~ Requesting(u)'
<1> USE DEF IdleTask, Requesting
<1>1. ASSUME NEW t \in Tasks, NEW r, Become(t, r), r.pc \notin {"version", "sequence", "commit"}
      PROVE  \A u \in Tasks : tasks'[u] = tasks[u] \/ ~ Requesting(u)'
  BY <1>1, BecomeOne DEF TypeInv
<1>2. ASSUME NEW t \in Tasks,
             \/ Lookup(t) \/ CompileDelta(t) \/ CompileList(t) \/ CompileLatest(t)
             \/ SendBundle(t) \/ HandleHello(t) \/ DatabaseFails(t)
      PROVE  \A u \in Tasks : tasks'[u] = tasks[u] \/ ~ Requesting(u)'
  <2>1. \/ UNCHANGED tasks
        \/ \E r : Become(t, r) /\ r.pc \notin {"version", "sequence", "commit"}
    <3>1. CASE Lookup(t)
      BY <3>1 DEF Lookup
    <3>2. CASE CompileDelta(t)
      BY <3>2 DEF CompileDelta
    <3>3. CASE CompileList(t)
      BY <3>3 DEF CompileList
    <3>4. CASE CompileLatest(t)
      BY <3>4 DEF CompileLatest
    <3>5. CASE SendBundle(t)
      BY <3>5 DEF SendBundle
    <3>6. CASE HandleHello(t)
      BY <3>6 DEF HandleHello
    <3>7. CASE DatabaseFails(t)
      BY <3>7 DEF DatabaseFails
    <3> QED BY <1>2, <3>1, <3>2, <3>3, <3>4, <3>5, <3>6, <3>7
  <2> QED BY <1>1, <2>1
<1>3. CASE Break \/ GatewayRestart \/ ControlPlaneRestart
  BY <1>3 DEF Break, GatewayRestart, ControlPlaneRestart
<1>4. CASE RedisFails
  <2>1. CASE UNCHANGED tasks
    BY <2>1
  <2>2. CASE \E t \in Tasks : Become(t, [pc |-> "list"])
    BY <2>2, <1>1
  <2> QED BY <1>4, <2>1, <2>2 DEF RedisFails
<1> QED BY <1>2, <1>3, <1>4 DEF Push

LEMMA RoomStep ==
  ASSUME TypeInv, Next
  PROVE  Room'
<1>1. CASE \E t \in Tasks, kind \in Requests, p \in Policies : Begin(t, kind, p)
  BY <1>1, RoomBegin
<1>2. CASE \E t \in Tasks : ReadVersion(t) \/ ReadSequence(t)
  BY <1>2, RoomRead
<1>3. CASE \E t \in Tasks : Commit(t)
  BY <1>3, RoomCommit
<1>4. CASE ~ Admin
  <2>1. UNCHANGED mutations
    BY <1>4, LogFrame DEF Admin
  <2>2. \A u \in Tasks : tasks'[u] = tasks[u] \/ ~ Requesting(u)'
    BY <1>4, TasksFrame, NoNewRequester
  <2>3. Requesters' \subseteq Requesters
    BY <2>2 DEF Requesters, Requesting
  <2>4. \A u \in Tasks : tasks'[u] = tasks[u] \/ tasks'[u].pc \notin {"sequence", "commit"}
    BY <2>2 DEF Requesting
  <2> QED BY <2>1, <2>3, <2>4, RoomKept DEF TypeInv
<1> QED BY <1>1, <1>2, <1>3, <1>4 DEF Admin

LogTyped ==
  /\ mutations \subseteq Mutations
  /\ rows \in [Policies -> [version: 0..MaxMutations, enabled: BOOLEAN]]

LEMMA LogStep ==
  ASSUME TypeInv, Next
  PROVE  LogTyped'
<1>1. CASE UNCHANGED <<mutations, rows>>
  BY <1>1 DEF TypeInv, TypeOK, LogTyped
<1>2. ASSUME NEW t \in Tasks, Commit(t)
      PROVE  LogTyped'
  <2> DEFINE r == tasks[t]
  <2>1. r.pc = "commit" /\ TaskOK(r)
    BY <1>2 DEF Commit, TypeInv, TypeOK
  <2>2. /\ r.policy \in Policies /\ r.kind \in Requests
        /\ r.version \in 0..MaxMutations /\ r.seq \in Seqs
    BY <2>1, TaskFields
  <2>3. CASE Refused(r)
    BY <1>2, <2>3 DEF Commit, dbVars, TypeInv, TypeOK, LogTyped
  <2>4. CASE ~ Refused(r)
    <3>1. mutations' = mutations \cup
            {[policy |-> r.policy, seq |-> r.seq, version |-> r.version,
              op |-> IF r.kind = "Delete" THEN "DELETE" ELSE "UPSERT"]}
      BY <1>2, <2>4 DEF Commit
    <3>2. mutations' \subseteq Mutations
      BY <2>2, <3>1 DEF TypeInv, TypeOK, Mutations
    <3>3. Row(r) \in [version: 0..MaxMutations, enabled: BOOLEAN]
      <4>1. rows[r.policy] \in [version: 0..MaxMutations, enabled: BOOLEAN]
        BY <2>2 DEF TypeInv, TypeOK
      <4>2. r.kind \in {"Create", "Update", "Disable", "Enable", "Delete"}
        BY <2>2, PolicyAssumption
      <4> QED BY <4>1, <4>2, <2>2, PolicyAssumption DEF Row, NoRow
    <3>4. rows' = [rows EXCEPT ![r.policy] = Row(r)]
      BY <1>2, <2>4 DEF Commit
    <3> QED BY <2>2, <3>2, <3>3, <3>4 DEF TypeInv, TypeOK, LogTyped
  <2> QED BY <2>3, <2>4
<1> QED BY <1>1, <1>2, LogFrame

TasksTyped == DOMAIN tasks = Tasks /\ \A t \in Tasks : TaskOK(tasks[t])

LEMMA BecomeTyped ==
  ASSUME TypeOK, NEW t \in Tasks, NEW r, Become(t, r), TaskOK(r)
  PROVE  TasksTyped'
<1>1. DOMAIN tasks' = Tasks /\ tasks'[t] = r /\ \A u \in Tasks : u # t => tasks'[u] = tasks[u]
  BY BecomeOne
<1>2. \A u \in Tasks : TaskOK(tasks[u])
  BY DEF TypeOK
<1>3. ASSUME NEW u \in Tasks
      PROVE  TaskOK(tasks'[u])
  <2>1. CASE u = t
    BY <1>1, <2>1
  <2>2. CASE u # t
    BY <1>1, <1>2, <2>2
  <2> QED BY <2>1, <2>2
<1> QED BY <1>1, <1>3 DEF TasksTyped

(* The number of a delta is that of its last mutation.                     *)
LEMMA DeltaLast ==
  ASSUME TypeInv, NEW M \in SUBSET mutations, M # {}
  PROVE  /\ Largest({m.seq : m \in M}) \in {m.seq : m \in M}
         /\ Largest({m.seq : m \in M}) \in Seqs
         /\ \A m \in M : m.seq <= Largest({n.seq : n \in M})
<1> DEFINE S == {m.seq : m \in M}
<1>1. \A m \in M : m.seq \in Seqs
  BY DEF TypeInv, TypeOK, Mutations
<1>2. S \in SUBSET (0..MaxMutations) /\ S # {}
  BY <1>1, PolicyAssumption DEF Seqs
<1>3. Largest(S) \in S /\ \A x \in S : x <= Largest(S)
  BY <1>2, LargestIs, PolicyAssumption
<1> QED BY <1>1, <1>3

LEMMA LatestTyped ==
  ASSUME TypeInv
  PROVE  GetLatestPolicySequence \in 0..MaxMutations
BY QueriesBounded, FS_CardinalityType, PolicyAssumption DEF TypeInv, Room

LEMMA ListTyped ==
  ASSUME TypeInv, NEW L \in ListPoliciesByOrg
  PROVE  L \in SUBSET Mutations
<1>1. PICK S \in SUBSET LatestUpserts : L = {[m EXCEPT !.version = rows[m.policy].version] : m \in S}
  BY DEF ListPoliciesByOrg
<1>2. ASSUME NEW m \in S
      PROVE  [m EXCEPT !.version = rows[m.policy].version] \in Mutations
  <2>1. m \in Mutations
    BY DEF LatestUpserts, TypeInv, TypeOK
  <2>2. rows[m.policy].version \in 0..MaxMutations
    BY <2>1 DEF TypeInv, TypeOK, Mutations
  <2> QED BY <2>1, <2>2 DEF Mutations
<1> QED BY <1>1, <1>2

LEMMA TasksStep ==
  ASSUME TypeInv, Next
  PROVE  TasksTyped'
<1> USE DEF IdleTask
<1>0. /\ MaxMutations \in Nat
      /\ NoBundle \in Bundles
      /\ TaskOK(IdleTask) /\ TaskOK([pc |-> "list"]) /\ TaskOK([pc |-> "lookup"])
  BY PolicyAssumption DEF NoBundle, Bundles, TaskOK
<1>1. ASSUME NEW t \in Tasks, NEW r, Become(t, r), TaskOK(r)
      PROVE  TasksTyped'
  BY <1>1, BecomeTyped DEF TypeInv
<1>2. ASSUME UNCHANGED tasks
      PROVE  TasksTyped'
  BY <1>2 DEF TypeInv, TypeOK, TasksTyped, TaskOK
<1>3. ASSUME NEW t \in Tasks, NEW kind \in Requests, NEW p \in Policies, Begin(t, kind, p)
      PROVE  TasksTyped'
  <2>1. MaxMutations > 0
    <3>1. Cardinality(mutations) \in Nat /\ Cardinality(Requesters) \in Nat
      BY FS_CardinalityType DEF TypeInv, Room
    <3>2. Cardinality(mutations) + Cardinality(Requesters) < MaxMutations
      BY <1>3 DEF Begin, Requesters
    <3> QED BY <1>0, <3>1, <3>2
  <2>2. /\ TaskOK([pc |-> "sequence", kind |-> kind, policy |-> p, version |-> 1])
        /\ TaskOK([pc |-> "sequence", kind |-> kind, policy |-> p, version |-> 0])
        /\ TaskOK([pc |-> "version", kind |-> kind, policy |-> p])
    BY <1>0, <2>1 DEF TaskOK
  <2>3. \/ Become(t, [pc |-> "sequence", kind |-> kind, policy |-> p, version |-> 1])
        \/ Become(t, [pc |-> "sequence", kind |-> kind, policy |-> p, version |-> 0])
        \/ Become(t, [pc |-> "version", kind |-> kind, policy |-> p])
    BY <1>3 DEF Begin
  <2> QED BY <1>1, <2>2, <2>3
<1>4. ASSUME NEW t \in Tasks, ReadVersion(t)
      PROVE  TasksTyped'
  <2>1. tasks[t].policy \in Policies /\ tasks[t].kind \in Requests
    BY <1>4, TaskFields DEF ReadVersion, TypeInv, TypeOK
  <2> DEFINE r == [pc |-> "sequence", kind |-> tasks[t].kind, policy |-> tasks[t].policy,
                   version |-> GetNextPolicyVersion(tasks[t].policy)]
  <2>2. r.version \in 0..MaxMutations
    <3>1. /\ Requesters # {}
          /\ Cardinality(Requesters) \in Nat /\ Cardinality(mutations) \in Nat
      BY <1>4, FS_CardinalityType DEF ReadVersion, Requesters, Requesting, TypeInv, Room
    <3>2. Cardinality(Requesters) # 0
      BY <3>1, FS_EmptySet DEF TypeInv, Room
    <3>3. Cardinality(mutations) + 1 <= MaxMutations
      BY <1>0, <3>1, <3>2 DEF TypeInv, Room
    <3>4. GetNextPolicyVersion(tasks[t].policy) \in 1..(Cardinality(mutations) + 1)
      BY <2>1, QueriesBounded
    <3> QED BY <1>0, <3>1, <3>3, <3>4
  <2>3. TaskOK(r)
    BY <2>1, <2>2 DEF TaskOK
  <2> QED BY <1>1, <1>4, <2>3 DEF ReadVersion
<1>5. ASSUME NEW t \in Tasks, ReadSequence(t)
      PROVE  TasksTyped'
  <2>1. /\ tasks[t].policy \in Policies /\ tasks[t].kind \in Requests
        /\ tasks[t].version \in 0..MaxMutations
    BY <1>5, TaskFields DEF ReadSequence, TypeInv, TypeOK
  <2> DEFINE r == [pc |-> "commit", kind |-> tasks[t].kind, policy |-> tasks[t].policy,
                   version |-> tasks[t].version, seq |-> GetLatestPolicySequence + 1]
  <2>2. r.seq \in Seqs
    <3>1. /\ Requesters # {}
          /\ Cardinality(Requesters) \in Nat /\ Cardinality(mutations) \in Nat
      BY <1>5, FS_CardinalityType DEF ReadSequence, Requesters, Requesting, TypeInv, Room
    <3>2. Cardinality(Requesters) # 0
      BY <3>1, FS_EmptySet DEF TypeInv, Room
    <3>3. Cardinality(mutations) + 1 <= MaxMutations
      BY <1>0, <3>1, <3>2 DEF TypeInv, Room
    <3>4. GetLatestPolicySequence \in 0..Cardinality(mutations)
      BY QueriesBounded
    <3> QED BY <1>0, <3>1, <3>3, <3>4 DEF Seqs
  <2>3. TaskOK(r)
    BY <2>1, <2>2 DEF TaskOK
  <2> QED BY <1>1, <1>5, <2>3 DEF ReadSequence
<1>6. ASSUME NEW t \in Tasks, Commit(t)
      PROVE  TasksTyped'
  BY <1>0, <1>1, <1>6 DEF Commit
<1>7. ASSUME NEW t \in Tasks, Lookup(t)
      PROVE  TasksTyped'
  <2>1. acked > 0 => TaskOK([pc |-> "delta", since |-> acked, reconnect |-> FALSE])
    BY <1>0 DEF TypeInv, TypeOK, TaskOK, Seqs
  <2> QED BY <1>0, <1>1, <1>7, <2>1 DEF Lookup
<1>8. ASSUME NEW t \in Tasks, CompileDelta(t)
      PROVE  TasksTyped'
  <2> DEFINE M == GetMutationsSince(tasks[t].since)
             r == [pc |-> "send", bundle |-> [last |-> Largest({m.seq : m \in M}), records |-> M]]
  <2>1. ASSUME M # {} PROVE TaskOK(r)
    <3>1. M \in SUBSET mutations /\ M \in SUBSET Mutations
      BY DEF GetMutationsSince, TypeInv, TypeOK
    <3> HIDE DEF M
    <3>2. Largest({m.seq : m \in M}) \in 0..MaxMutations
      <4>1. Largest({m.seq : m \in M}) \in Seqs
        BY <2>1, <3>1, DeltaLast
      <4> QED BY <1>0, <4>1 DEF Seqs
    <3> QED BY <3>1, <3>2 DEF TaskOK, Bundles
  <2>2. TaskOK([pc |-> "send", bundle |-> NoBundle])
    BY <1>0 DEF TaskOK
  <2> QED BY <1>0, <1>1, <1>8, <2>1, <2>2 DEF CompileDelta
<1>9. ASSUME NEW t \in Tasks, CompileList(t)
      PROVE  TasksTyped'
  <2>1. ASSUME NEW L \in ListPoliciesByOrg
        PROVE  TaskOK([pc |-> "latest", records |-> L])
    BY <2>1, ListTyped DEF TaskOK
  <2> QED BY <1>1, <1>9, <2>1 DEF CompileList
<1>10. ASSUME NEW t \in Tasks, CompileLatest(t)
       PROVE  TasksTyped'
  <2>1. tasks[t].records \in SUBSET Mutations
    BY <1>10, TaskFields DEF CompileLatest, TypeInv, TypeOK
  <2>2. [last |-> GetLatestPolicySequence, records |-> tasks[t].records] \in Bundles
    BY <2>1, LatestTyped DEF Bundles
  <2>3. ASSUME NEW b \in Bundles PROVE TaskOK([pc |-> "send", bundle |-> b])
    BY <2>3 DEF TaskOK
  <2> QED BY <1>0, <1>1, <1>10, <2>2, <2>3 DEF CompileLatest
<1>11. ASSUME NEW t \in Tasks, SendBundle(t)
       PROVE  TasksTyped'
  BY <1>0, <1>1, <1>11 DEF SendBundle
<1>12. ASSUME NEW t \in Tasks, HandleHello(t)
       PROVE  TasksTyped'
  <2>1. hello # None /\ hello # 0 => TaskOK([pc |-> "delta", since |-> hello, reconnect |-> TRUE])
    BY <1>0 DEF TypeInv, TypeOK, TaskOK, Seqs
  <2> QED BY <1>0, <1>1, <1>2, <1>12, <2>1 DEF HandleHello
<1>13. ASSUME Break \/ GatewayRestart \/ ControlPlaneRestart
       PROVE  TasksTyped'
  <2>1. /\ DOMAIN tasks' = Tasks
        /\ \A t \in Tasks : tasks'[t] = tasks[t] \/ tasks'[t] = IdleTask
    BY <1>13 DEF Break, GatewayRestart, ControlPlaneRestart
  <2> QED BY <1>0, <2>1 DEF TypeInv, TypeOK, TasksTyped, TaskOK
<1>14. ASSUME RedisFails
       PROVE  TasksTyped'
  BY <1>0, <1>1, <1>2, <1>14 DEF RedisFails
<1>15. ASSUME NEW t \in Tasks, DatabaseFails(t)
       PROVE  TasksTyped'
  BY <1>0, <1>1, <1>15 DEF DatabaseFails
<1> QED BY <1>2, <1>3, <1>4, <1>5, <1>6, <1>7, <1>8, <1>9, <1>10, <1>11, <1>12, <1>13,
           <1>14, <1>15, TasksFrame DEF Admin, Push

StreamTyped ==
  /\ acked \in 0..MaxMutations
  /\ alive \in BOOLEAN /\ hello \in {None} \cup 0..MaxMutations
  /\ down \in Seq(Bundles) /\ up \in Seq(Seqs)

(* What a broken stream leaves of a queue.                                 *)
LEMMA SuffixIs ==
  ASSUME NEW S, NEW q \in Seq(S), NEW n \in 0..Len(q)
  PROVE  /\ SubSeq(q, n + 1, Len(q)) \in Seq(S)
         /\ Len(SubSeq(q, n + 1, Len(q))) = Len(q) - n
         /\ \A i \in 1..(Len(q) - n) : SubSeq(q, n + 1, Len(q))[i] = q[n + i]
OBVIOUS

LEMMA LostTyped ==
  ASSUME TypeOK, LoseStream
  PROVE  /\ alive' \in BOOLEAN /\ hello' \in {None} \cup 0..MaxMutations
         /\ down' \in Seq(Bundles) /\ up' \in Seq(Seqs)
<1>1. PICK n \in 0..Len(up) : up' = SubSeq(up, n + 1, Len(up))
  BY DEF LoseStream
<1>2. up' \in Seq(Seqs)
  BY <1>1, SuffixIs DEF TypeOK
<1>3. <<>> \in Seq(Bundles)
  OBVIOUS
<1> QED BY <1>2, <1>3 DEF LoseStream

LEMMA StreamStep ==
  ASSUME TypeInv, Next
  PROVE  StreamTyped'
<1>0. /\ MaxMutations \in Nat /\ StreamTyped
      /\ 0 \in 0..MaxMutations /\ \A n \in Seqs : n \in 0..MaxMutations
  BY PolicyAssumption DEF TypeInv, TypeOK, StreamTyped, Seqs
<1>1. ASSUME NEW t \in Tasks, SendBundle(t)
      PROVE  StreamTyped'
  <2>1. tasks[t].bundle \in Bundles
    BY <1>1, TaskFields DEF SendBundle, TypeInv, TypeOK
  <2> QED BY <1>0, <1>1, <2>1 DEF SendBundle, StreamTyped
<1>2. ASSUME NEW t \in Tasks, HandleHello(t)
      PROVE  StreamTyped'
  BY <1>0, <1>2 DEF HandleHello, StreamTyped
<1>3. CASE OpenStream
  BY <1>0, <1>3 DEF OpenStream, StreamTyped, TypeInv, TypeOK
<1>4. CASE PolicyAck
  <2>1. Head(up) \in Seqs /\ Tail(up) \in Seq(Seqs)
    BY <1>0, <1>4 DEF PolicyAck, StreamTyped
  <2> QED BY <1>0, <1>4, <2>1 DEF PolicyAck, StreamTyped
<1>5. ASSUME NEW h \in Handlers, Receive(h)
      PROVE  StreamTyped'
  BY <1>0, <1>5 DEF Receive, StreamTyped
<1>6. ASSUME NEW h \in Handlers, QueueAck(h)
      PROVE  StreamTyped'
  <2>1. handlers[h].last \in Seqs
    BY <1>6, HandlerFields DEF QueueAck, TypeInv, TypeOK
  <2> QED BY <1>0, <1>6, <2>1 DEF QueueAck, StreamTyped
<1>7. CASE Break \/ ControlPlaneRestart
  BY <1>0, <1>7, LostTyped DEF Break, ControlPlaneRestart, StreamTyped, TypeInv
<1>8. CASE GatewayRestart
  <2>1. <<>> \in Seq(Bundles) /\ <<>> \in Seq(Seqs)
    OBVIOUS
  <2> QED BY <1>0, <1>8, <2>1 DEF GatewayRestart, StreamTyped
<1>9. CASE RedisFails
  <2>1. up # <<>> => Tail(up) \in Seq(Seqs)
    BY <1>0 DEF StreamTyped
  <2>2. up' \in Seq(Seqs)
    BY <1>0, <1>9, <2>1 DEF RedisFails, StreamTyped
  <2> QED BY <1>0, <1>9, <2>2 DEF RedisFails, StreamTyped
<1>10. CASE UNCHANGED <<acked, alive, hello, down, up>>
  BY <1>0, <1>10 DEF StreamTyped
<1> QED BY <1>1, <1>2, <1>3, <1>4, <1>5, <1>6, <1>7, <1>8, <1>9, <1>10, StreamFrame

Entries == [ok: BOOLEAN, tomb: {None} \cup 0..MaxMutations,
            rule: [seq: 0..MaxMutations, version: 0..MaxMutations]]

LEMMA ApplyRecordTyped ==
  ASSUME NEW e \in Entries, NEW r \in Mutations
  PROVE  ApplyRecord(e, r) \in Entries
<1>1. r.seq \in 0..MaxMutations /\ r.version \in 0..MaxMutations
  BY PolicyAssumption DEF Mutations, Seqs
<1>2. NoRule \in [seq: 0..MaxMutations, version: 0..MaxMutations]
  BY PolicyAssumption DEF NoRule
<1> QED BY <1>1, <1>2 DEF ApplyRecord, Entries

LEMMA AfterTyped ==
  ASSUME NEW b, b.records \in SUBSET Mutations, NEW p, NEW n, NEW e \in Entries
  PROVE  After(b, p, n, e) \in Entries
<1> DEFINE R == {r \in b.records : r.policy = p /\ r.seq = n}
<1>1. R # {} => (CHOOSE r \in R : TRUE) \in Mutations
  OBVIOUS
<1>2. R # {} => ApplyRecord(e, CHOOSE r \in R : TRUE) \in Entries
  BY <1>1, ApplyRecordTyped
<1> QED BY <1>2 DEF After

LEMMA BeforeTyped ==
  ASSUME TypeOK, NEW p \in Policies
  PROVE  Before(p) \in Entries
BY DEF TypeOK, Before, Entries

LEMMA ReplayTyped ==
  ASSUME TypeOK, NEW b, b.records \in SUBSET Mutations, NEW p \in Policies
  PROVE  Replay(b, p) \in Entries
<1>0. MaxMutations \in Nat
  BY PolicyAssumption
<1>1. PICK f : /\ f[0] = Before(p)
               /\ \A n \in 1..MaxMutations : f[n] = After(b, p, n, f[n-1])
               /\ Replay(b, p) = f[MaxMutations]
  BY ReplayFunction
<1> DEFINE T == {n \in 0..MaxMutations : f[n] \in Entries}
<1>2. 0 \in T
  BY <1>0, <1>1, BeforeTyped
<1>3. ASSUME NEW n \in 1..MaxMutations, n - 1 \in T PROVE n \in T
  BY <1>0, <1>1, <1>3, AfterTyped
<1>4. T = 0..MaxMutations
  <2> HIDE DEF T
  <2>1. T \in SUBSET (0..MaxMutations)
    BY DEF T
  <2> QED BY <1>0, <1>2, <1>3, <2>1, BoundedInduction
<1> QED BY <1>0, <1>1, <1>4

(* A bundle that does not delete a rule does not lower its version.        *)
LEMMA ReplayGrows ==
  ASSUME TypeOK, NEW b, b.records \in SUBSET Mutations, NEW p \in Policies,
         \A r \in b.records : ~ (r.policy = p /\ r.op = "DELETE")
  PROVE  Replay(b, p).rule.version >= store[p].version
<1>0. MaxMutations \in Nat
  BY PolicyAssumption
<1>1. PICK f : /\ f[0] = Before(p)
               /\ \A n \in 1..MaxMutations : f[n] = After(b, p, n, f[n-1])
               /\ Replay(b, p) = f[MaxMutations]
  BY ReplayFunction
<1> DEFINE T == {n \in 0..MaxMutations : f[n] \in Entries /\ f[n].rule.version >= store[p].version}
<1>2. 0 \in T
  <2>1. Before(p) \in Entries /\ Before(p).rule.version = store[p].version
    BY BeforeTyped DEF Before
  <2>2. store[p].version \in Nat
    BY <1>0 DEF TypeOK
  <2> QED BY <1>0, <1>1, <2>1, <2>2
<1>3. ASSUME NEW n \in 1..MaxMutations, n - 1 \in T PROVE n \in T
  <2> DEFINE e == f[n-1]
             R == {r \in b.records : r.policy = p /\ r.seq = n}
             r == CHOOSE x \in R : TRUE
  <2>1. e \in Entries /\ e.rule.version >= store[p].version /\ f[n] = After(b, p, n, e)
    BY <1>1, <1>3
  <2>2. f[n] \in Entries
    BY <2>1, AfterTyped
  <2>3. CASE R = {} \/ ~ e.ok
    <3>1. f[n] = e
      BY <2>1, <2>3 DEF After
    <3> QED BY <1>0, <2>1, <3>1
  <2>4. CASE ~ (R = {} \/ ~ e.ok)
    <3>1. f[n] = ApplyRecord(e, r) /\ r \in R
      BY <2>1, <2>4 DEF After
    <3>2. r.op = "UPSERT" /\ r \in Mutations
      BY <3>1 DEF Mutations
    <3> HIDE DEF r
    <3>3. f[n].rule = e.rule \/ (~ (r.version <= e.rule.version) /\ f[n].rule.version = r.version)
      BY <2>1, <3>1, <3>2 DEF ApplyRecord, Entries
    <3>4. /\ r.version \in Nat /\ e.rule.version \in Nat /\ store[p].version \in Nat
      BY <1>0, <2>1, <3>2 DEF Mutations, Entries, TypeOK
    <3>5. f[n].rule.version >= store[p].version
      BY <2>1, <3>3, <3>4
    <3> QED BY <1>0, <2>2, <3>5
  <2> QED BY <2>3, <2>4
<1>4. T = 0..MaxMutations
  <2> HIDE DEF T
  <2>1. T \in SUBSET (0..MaxMutations)
    BY DEF T
  <2> QED BY <1>0, <1>2, <1>3, <2>1, BoundedInduction
<1> QED BY <1>0, <1>1, <1>4

LEMMA LargestPair ==
  ASSUME NEW m \in 0..MaxMutations, NEW n \in 0..MaxMutations
  PROVE  /\ Largest({m, n}) \in {m, n}
         /\ m <= Largest({m, n}) /\ n <= Largest({m, n})
<1>1. {m, n} \in SUBSET (0..MaxMutations) /\ {m, n} # {}
  OBVIOUS
<1>2. Largest({m, n}) \in {m, n} /\ \A x \in {m, n} : x <= Largest({m, n})
  BY <1>1, LargestIs, PolicyAssumption
<1> QED BY <1>2

BoltTyped ==
  /\ store \in [Policies -> [seq: 0..MaxMutations, version: 0..MaxMutations]]
  /\ tombs \in [Policies -> {None} \cup 0..MaxMutations]
  /\ checkpoint \in 0..MaxMutations /\ reached \in 0..MaxMutations

LEMMA ApplyingTyped ==
  ASSUME TypeOK, NEW h \in Handlers, handlers[h].pc = "apply"
  PROVE  /\ handlers[h].bundle.last \in Seqs
         /\ handlers[h].bundle.last \in 0..MaxMutations
         /\ handlers[h].bundle.records \in SUBSET Mutations
<1>1. handlers[h].bundle.last \in Seqs /\ handlers[h].bundle \in Bundles
  BY HandlerFields DEF TypeOK
<1> QED BY <1>1 DEF Bundles

LEMMA BoltStep ==
  ASSUME TypeInv, Next
  PROVE  BoltTyped'
<1>1. CASE UNCHANGED <<store, tombs, checkpoint, reached>>
  BY <1>1 DEF TypeInv, TypeOK, BoltTyped
<1>2. ASSUME NEW h \in Handlers, ApplyDelta(h)
      PROVE  BoltTyped'
  <2> DEFINE b == handlers[h].bundle
  <2>1. b.last \in 0..MaxMutations /\ b.records \in SUBSET Mutations
    BY <1>2, ApplyingTyped DEF ApplyDelta, TypeInv
  <2>2. \A p \in Policies : Replay(b, p) \in Entries
    BY <2>1, ReplayTyped DEF TypeInv
  <2>3. Largest({reached, b.last}) \in 0..MaxMutations
    BY <2>1, LargestPair DEF TypeInv, TypeOK
  <2>4. CASE \A p \in Policies : Replay(b, p).ok
    <3>1. /\ store' = [p \in Policies |-> Replay(b, p).rule]
          /\ tombs' = [p \in Policies |-> Replay(b, p).tomb]
          /\ checkpoint' = b.last /\ reached' = Largest({reached, b.last})
      BY <1>2, <2>4 DEF ApplyDelta
    <3> HIDE DEF b
    <3> QED BY <2>1, <2>2, <2>3, <3>1 DEF Entries, BoltTyped
  <2>5. CASE ~ \A p \in Policies : Replay(b, p).ok
    <3>1. UNCHANGED <<store, tombs, checkpoint, reached>>
      BY <1>2, <2>5 DEF ApplyDelta, boltVars
    <3> QED BY <3>1 DEF TypeInv, TypeOK, BoltTyped
  <2> QED BY <2>4, <2>5
<1> QED BY <1>1, <1>2, BoltFrame

HandlersTyped == DOMAIN handlers = Handlers /\ \A h \in Handlers : HandlerOK(handlers[h])

LEMMA TurnOne ==
  ASSUME TypeOK, NEW h \in Handlers, NEW r, Turn(h, r)
  PROVE  /\ DOMAIN handlers' = Handlers
         /\ handlers'[h] = r
         /\ \A g \in Handlers : g # h => handlers'[g] = handlers[g]
BY DEF TypeOK, Turn

LEMMA AckTyped ==
  ASSUME NEW n \in 0..MaxMutations
  PROVE  HandlerOK(AckOf(n))
BY PolicyAssumption DEF AckOf, HandlerOK, Seqs

LEMMA HandlersStep ==
  ASSUME TypeInv, Next
  PROVE  HandlersTyped'
<1> USE DEF IdleHandler
<1>0. HandlerOK(IdleHandler) /\ \A n \in Seqs : n \in 0..MaxMutations
  BY PolicyAssumption DEF HandlerOK, Seqs
<1>1. ASSUME NEW h \in Handlers, NEW r, Turn(h, r), HandlerOK(r)
      PROVE  HandlersTyped'
  <2>1. \A g \in Handlers : HandlerOK(handlers[g])
    BY DEF TypeInv, TypeOK
  <2>2. /\ DOMAIN handlers' = Handlers
        /\ \A g \in Handlers : handlers'[g] = r \/ handlers'[g] = handlers[g]
    BY <1>1, TurnOne DEF TypeInv
  <2>3. \A g \in Handlers : HandlerOK(handlers'[g])
    BY <1>1, <2>1, <2>2
  <2> QED BY <2>2, <2>3 DEF HandlersTyped, HandlerOK
<1>2. ASSUME NEW h \in Handlers, Receive(h)
      PROVE  HandlersTyped'
  <2>1. Head(down) \in Bundles
    BY <1>2 DEF Receive, TypeInv, TypeOK
  <2>2. HandlerOK([pc |-> "read", bundle |-> Head(down)])
    BY <2>1 DEF HandlerOK
  <2> QED BY <1>1, <1>2, <2>2 DEF Receive
<1>3. ASSUME NEW h \in Handlers, ReadCheckpoint(h)
      PROVE  HandlersTyped'
  <2> DEFINE b == handlers[h].bundle
  <2>1. b \in [last: 0..MaxMutations, records: SUBSET Mutations]
    BY <1>3, HandlerFields DEF ReadCheckpoint, TypeInv, TypeOK, Bundles
  <2>2. checkpoint \in 0..MaxMutations
    BY DEF TypeInv, TypeOK
  <2>3. ASSUME b.last > checkpoint PROVE HandlerOK([pc |-> "apply", bundle |-> b])
    <3>1. b.last \in Seqs
      BY <2>1, <2>2, <2>3, PolicyAssumption DEF Seqs
    <3>2. b \in [last: Seqs, records: SUBSET Mutations]
      BY <2>1, <3>1
    <3> HIDE DEF b
    <3> QED BY <3>2 DEF HandlerOK
  <2>4. HandlerOK(AckOf(IF checkpoint > 0 THEN checkpoint ELSE b.last))
    BY <2>1, <2>2, AckTyped
  <2> QED BY <1>1, <1>3, <2>3, <2>4 DEF ReadCheckpoint
<1>4. ASSUME NEW h \in Handlers, ApplyDelta(h)
      PROVE  HandlersTyped'
  <2>1. handlers[h].bundle.last \in Seqs
    BY <1>4, ApplyingTyped DEF ApplyDelta, TypeInv
  <2>2. HandlerOK([pc |-> "load", last |-> handlers[h].bundle.last])
    BY <2>1 DEF HandlerOK
  <2> QED BY <1>0, <1>1, <1>4, <2>2 DEF ApplyDelta
<1>5. ASSUME NEW h \in Handlers, LoadAllRecords(h)
      PROVE  HandlersTyped'
  <2>1. handlers[h].last \in Seqs
    BY <1>5, HandlerFields DEF LoadAllRecords, TypeInv, TypeOK
  <2>2. [p \in Policies |-> store[p].seq] \in [Policies -> 0..MaxMutations]
    BY DEF TypeInv, TypeOK
  <2>3. HandlerOK([pc |-> "swap", last |-> handlers[h].last,
                   index |-> [p \in Policies |-> store[p].seq]])
    BY <2>1, <2>2 DEF HandlerOK
  <2> QED BY <1>1, <1>5, <2>3 DEF LoadAllRecords
<1>6. ASSUME NEW h \in Handlers, SwapIndex(h)
      PROVE  HandlersTyped'
  <2>1. handlers[h].last \in 0..MaxMutations
    BY <1>0, <1>6, HandlerFields DEF SwapIndex, TypeInv, TypeOK
  <2> QED BY <1>1, <1>6, <2>1, AckTyped DEF SwapIndex
<1>7. ASSUME NEW h \in Handlers, QueueAck(h) \/ AckDropped(h)
      PROVE  HandlersTyped'
  BY <1>0, <1>1, <1>7 DEF QueueAck, AckDropped
<1>8. CASE GatewayRestart
  BY <1>0, <1>8 DEF GatewayRestart, HandlersTyped
<1>9. CASE UNCHANGED handlers
  BY <1>9 DEF TypeInv, TypeOK, HandlersTyped, HandlerOK
<1> QED BY <1>2, <1>3, <1>4, <1>5, <1>6, <1>7, <1>8, <1>9, HandlersFrame

LEMMA EngineStep ==
  ASSUME TypeInv, Next
  PROVE  engine' \in [Policies -> 0..MaxMutations]
<1>1. ASSUME NEW h \in Handlers, SwapIndex(h)
      PROVE  engine' \in [Policies -> 0..MaxMutations]
  BY <1>1, HandlerFields DEF SwapIndex, TypeInv, TypeOK
<1>2. CASE GatewayRestart
  BY <1>2 DEF GatewayRestart, TypeInv, TypeOK
<1> QED BY <1>1, <1>2, EngineFrame DEF TypeInv, TypeOK

LEMMA FaultsStep ==
  ASSUME TypeInv, Next
  PROVE  faults' \in 0..MaxFaults
BY FaultsFrame, PolicyAssumption DEF Fault, TypeInv, TypeOK

LEMMA TypeInit == Init => TypeInv
<1> SUFFICES ASSUME Init PROVE TypeInv
  OBVIOUS
<1>1. MaxMutations \in Nat /\ MaxFaults \in Nat
  BY PolicyAssumption
<1>2. NoRow \in [version: 0..MaxMutations, enabled: BOOLEAN]
  BY <1>1 DEF NoRow
<1>3. NoRule \in [seq: 0..MaxMutations, version: 0..MaxMutations]
  BY <1>1 DEF NoRule
<1>4. <<>> \in Seq(Bundles) /\ <<>> \in Seq(Seqs)
  OBVIOUS
<1>5. TypeOK
  <2>1. TaskOK(IdleTask) /\ HandlerOK(IdleHandler)
    BY DEF TaskOK, HandlerOK
  <2>2. /\ DOMAIN tasks = Tasks /\ \A t \in Tasks : TaskOK(tasks[t])
        /\ DOMAIN handlers = Handlers /\ \A h \in Handlers : HandlerOK(handlers[h])
    BY <2>1 DEF Init
  <2>3. LogTyped /\ BoltTyped
    BY <1>1, <1>2, <1>3 DEF Init, LogTyped, BoltTyped
  <2>4. StreamTyped
    <3>1. down \in Seq(Bundles) /\ up \in Seq(Seqs)
      BY <1>4, Zenon DEF Init
    <3>2. alive \in BOOLEAN /\ hello = None /\ acked = 0
      BY Zenon DEF Init
    <3> QED BY <1>1, <3>1, <3>2 DEF StreamTyped
  <2>5. engine \in [Policies -> 0..MaxMutations] /\ faults \in 0..MaxFaults
    BY <1>1 DEF Init
  <2> QED BY <2>2, <2>3, <2>4, <2>5 DEF TypeOK, LogTyped, BoltTyped, StreamTyped
<1>6. Requesters = {}
  BY DEF Init, Requesters, Requesting, IdleTask
<1>7. IsFiniteSet({}) /\ Cardinality({}) = 0
  BY FS_EmptySet
<1>8. Room
  BY <1>1, <1>6, <1>7 DEF Init, Room, IdleTask
<1> QED BY <1>5, <1>8 DEF TypeInv

LEMMA TypeStep == TypeInv /\ [Next]_vars => TypeInv'
<1> SUFFICES ASSUME TypeInv, [Next]_vars PROVE TypeInv'
  OBVIOUS
<1>1. CASE Next
  <2>1. TypeOK'
    BY <1>1, LogStep, TasksStep, StreamStep, BoltStep, HandlersStep, EngineStep, FaultsStep
       DEF TypeOK, LogTyped, TasksTyped, StreamTyped, BoltTyped, HandlersTyped, TaskOK, HandlerOK
  <2> QED BY <1>1, <2>1, RoomStep DEF TypeInv
<1>2. CASE UNCHANGED vars
  BY <1>2, Stutters DEF TypeInv, TypeOK, Room, Requesters, Requesting, TaskOK, HandlerOK
<1> QED BY <1>1, <1>2

LEMMA TypeInvariant == Spec => []TypeInv
<1> QED BY TypeInit, TypeStep, PTL DEF Spec

(* The variables keep their types, with any number of requests at once and *)
(* whatever fails: in particular the versions and numbers that overlapping *)
(* requests read outside their transactions stay within the bound, because *)
(* each stands for a mutation that is there or about to be added.          *)
THEOREM PolicyTypeCorrect == Spec => []TypeOK
<1>1. TypeInv => TypeOK
  BY DEF TypeInv
<1> QED BY TypeInvariant, <1>1, PTL
-----------------------------------------------------------------------------
(* A rule in the store is replaced by a newer one, or deleted first.       *)

LEMMA StoreGrows ==
  ASSUME TypeInv, NEW h \in Handlers, ApplyDelta(h), NEW p \in Policies
  PROVE  \/ store'[p].version >= store[p].version
         \/ Deletes(h, p)
<1> DEFINE b == handlers[h].bundle
<1>0. store[p].version \in Nat
  BY PolicyAssumption DEF TypeInv, TypeOK
<1>1. b.records \in SUBSET Mutations
  BY ApplyingTyped DEF ApplyDelta, TypeInv
<1>2. CASE \A q \in Policies : Replay(b, q).ok
  <2>1. store'[p] = Replay(b, p).rule
    BY <1>2 DEF ApplyDelta
  <2>2. handlers[h].pc = "apply" /\ handlers'[h].pc = "load"
    <3>1. Turn(h, [pc |-> "load", last |-> b.last])
      BY <1>2 DEF ApplyDelta
    <3> QED BY <3>1, TurnOne DEF ApplyDelta, TypeInv
  <2>3. CASE \E r \in b.records : r.policy = p /\ r.op = "DELETE"
    BY <2>2, <2>3 DEF Deletes
  <2>4. CASE ~ \E r \in b.records : r.policy = p /\ r.op = "DELETE"
    BY <1>1, <2>1, <2>4, ReplayGrows DEF TypeInv
  <2> QED BY <2>3, <2>4
<1>3. CASE ~ \A q \in Policies : Replay(b, q).ok
  <2>1. store' = store
    BY <1>3 DEF ApplyDelta, boltVars
  <2> QED BY <1>0, <2>1
<1> QED BY <1>2, <1>3

(* In whatever order the goroutines of the bundles run, and whatever base  *)
(* a delta was computed from, the version of a stored rule goes down only  *)
(* inside a bundle that also deletes the rule.                             *)
THEOREM StoredVersionsGrowHolds == Spec => StoredVersionsGrow
<1>1. ASSUME TypeInv, [Next]_vars, NEW p \in Policies
      PROVE  \/ store'[p] = NoRule \/ store'[p].version >= store[p].version
             \/ \E h \in Handlers : Deletes(h, p)
  <2>1. CASE \E h \in Handlers : ApplyDelta(h)
    BY <1>1, <2>1, StoreGrows
  <2>2. CASE store' = store
    <3>1. store[p].version \in Nat
      BY <1>1, PolicyAssumption DEF TypeInv, TypeOK
    <3> QED BY <2>2, <3>1
  <2> QED BY <1>1, <2>1, <2>2, BoltFrame, Stutters
<1>2. TypeInv /\ [Next]_vars =>
        \A p \in Policies : \/ store'[p] = NoRule \/ store'[p].version >= store[p].version
                            \/ \E h \in Handlers : Deletes(h, p)
  BY <1>1
<1> QED BY TypeInvariant, <1>2, PTL DEF Spec, StoredVersionsGrow
-----------------------------------------------------------------------------
(* The control plane never believes the gateway further than it got: every *)
(* number on its way to Redis was a checkpoint of the gateway.             *)

Turned(h) == handlers[h].pc \in {"load", "swap", "ack"}

NumbersReached ==
  /\ acked <= reached /\ hello <= reached /\ checkpoint <= reached
  /\ \A i \in 1..Len(up) : up[i] <= reached
  /\ \A h \in Handlers : Turned(h) => handlers[h].last <= reached

LEMMA ReachedGrows ==
  ASSUME TypeInv, Next
  PROVE  reached \in Nat /\ reached' \in Nat /\ reached <= reached' /\ checkpoint' \in Nat
                         /\ (checkpoint <= reached => checkpoint' <= reached')
<1>1. /\ reached \in 0..MaxMutations /\ checkpoint \in 0..MaxMutations /\ MaxMutations \in Nat
  BY PolicyAssumption DEF TypeInv, TypeOK
<1>2. CASE UNCHANGED <<store, tombs, checkpoint, reached>>
  BY <1>1, <1>2
<1>3. ASSUME NEW h \in Handlers, ApplyDelta(h)
      PROVE  reached' \in Nat /\ reached <= reached' /\ checkpoint' \in Nat
                              /\ (checkpoint <= reached => checkpoint' <= reached')
  <2>1. handlers[h].bundle.last \in 0..MaxMutations
    BY <1>3, ApplyingTyped DEF ApplyDelta, TypeInv
  <2>2. CASE \A p \in Policies : Replay(handlers[h].bundle, p).ok
    <3>1. /\ checkpoint' = handlers[h].bundle.last
          /\ reached' = Largest({reached, handlers[h].bundle.last})
      BY <1>3, <2>2 DEF ApplyDelta
    <3>2. /\ Largest({reached, handlers[h].bundle.last}) \in {reached, handlers[h].bundle.last}
          /\ reached <= Largest({reached, handlers[h].bundle.last})
          /\ handlers[h].bundle.last <= Largest({reached, handlers[h].bundle.last})
      BY <1>1, <2>1, LargestPair
    <3> QED BY <1>1, <2>1, <3>1, <3>2
  <2>3. CASE ~ \A p \in Policies : Replay(handlers[h].bundle, p).ok
    <3>1. UNCHANGED <<checkpoint, reached>>
      BY <1>3, <2>3 DEF ApplyDelta, boltVars
    <3> QED BY <1>1, <3>1
  <2> QED BY <2>2, <2>3
<1> QED BY <1>1, <1>2, <1>3, BoltFrame

LEMMA AckReached ==
  ASSUME TypeInv, NumbersReached, Next
  PROVE  acked' <= reached' /\ hello' <= reached'
<1>1. /\ reached \in Nat /\ reached' \in Nat /\ reached <= reached'
      /\ acked \in Int /\ hello \in Int /\ checkpoint \in Nat /\ None \in Int /\ None <= reached'
  BY ReachedGrows, PolicyAssumption DEF TypeInv, TypeOK, None
<1>2. ASSUME NEW t \in Tasks, SendBundle(t) \/ HandleHello(t)
      PROVE  acked' \in {acked, hello} /\ hello' \in {hello, None}
  BY <1>2 DEF SendBundle, HandleHello
<1>3. CASE OpenStream
  BY <1>1, <1>3 DEF OpenStream, NumbersReached
<1>4. CASE PolicyAck
  <2>1. 1 \in 1..Len(up) /\ Head(up) = up[1] /\ up[1] \in Nat
    BY <1>4, PolicyAssumption DEF PolicyAck, TypeInv, TypeOK, Seqs
  <2> QED BY <1>1, <1>4, <2>1 DEF PolicyAck, NumbersReached
<1>5. ASSUME \/ \E h \in Handlers : Receive(h) \/ QueueAck(h)
             \/ Break \/ GatewayRestart \/ ControlPlaneRestart \/ RedisFails
             \/ UNCHANGED <<acked, alive, hello, down, up>>
      PROVE  acked' = acked /\ hello' \in {hello, None}
  BY <1>5 DEF Receive, QueueAck, Break, GatewayRestart, ControlPlaneRestart, LoseStream, RedisFails
<1>6. \/ acked' \in {acked, hello} /\ hello' \in {hello, None}
      \/ OpenStream \/ PolicyAck
  BY <1>2, <1>5, StreamFrame
<1> QED BY <1>1, <1>3, <1>4, <1>6 DEF NumbersReached

LEMMA UpReached ==
  ASSUME TypeInv, NumbersReached, Next
  PROVE  \A i \in 1..Len(up') : up'[i] <= reached'
<1>1. /\ reached \in Nat /\ reached' \in Nat /\ reached <= reached' /\ up \in Seq(Seqs)
      /\ \A i \in 1..Len(up) : up[i] \in Nat /\ up[i] <= reached
  <2>1. up \in Seq(Seqs) /\ \A i \in 1..Len(up) : up[i] <= reached
    BY DEF TypeInv, TypeOK, NumbersReached
  <2>2. \A i \in 1..Len(up) : up[i] \in Nat
    BY <2>1, PolicyAssumption DEF Seqs
  <2> QED BY <2>1, <2>2, ReachedGrows
<1>2. \A i \in 1..Len(up) : up[i] <= reached'
  BY <1>1
<1>3. CASE up' = up
  BY <1>2, <1>3
<1>4. ASSUME up # <<>>, up' = Tail(up)
      PROVE  \A i \in 1..Len(up') : up'[i] <= reached'
  <2>1. Len(up') = Len(up) - 1 /\ \A i \in 1..Len(up') : up'[i] = up[i+1]
    BY <1>1, <1>4
  <2> QED BY <1>1, <1>2, <2>1
<1>5. ASSUME LoseStream
      PROVE  \A i \in 1..Len(up') : up'[i] <= reached'
  <2>1. PICK n \in 0..Len(up) : up' = SubSeq(up, n + 1, Len(up))
    BY <1>5 DEF LoseStream
  <2>2. Len(up') = Len(up) - n /\ \A i \in 1..(Len(up) - n) : up'[i] = up[n + i]
    BY <1>1, <2>1, SuffixIs
  <2> QED BY <1>1, <1>2, <2>2
<1>6. ASSUME NEW h \in Handlers, QueueAck(h)
      PROVE  \A i \in 1..Len(up') : up'[i] <= reached'
  <2>1. handlers[h].last <= reached /\ handlers[h].last \in Seqs
    BY <1>6, HandlerFields DEF NumbersReached, Turned, QueueAck, TypeInv, TypeOK
  <2>2. handlers[h].last <= reached'
    BY <1>1, <2>1, PolicyAssumption DEF Seqs
  <2>3. up' = Append(up, handlers[h].last)
    BY <1>6 DEF QueueAck
  <2> QED BY <1>1, <1>2, <2>2, <2>3
<1>7. \/ up' = up
      \/ up # <<>> /\ up' = Tail(up)
      \/ LoseStream
      \/ \E h \in Handlers : QueueAck(h)
      \/ up' = <<>>
  BY StreamFrame DEF SendBundle, HandleHello, OpenStream, PolicyAck, Receive, Break,
     ControlPlaneRestart, GatewayRestart, RedisFails
<1>8. CASE up' = <<>>
  BY <1>8
<1> QED BY <1>3, <1>4, <1>5, <1>6, <1>7, <1>8

LEMMA TurnedReached ==
  ASSUME TypeInv, NumbersReached, Next
  PROVE  \A h \in Handlers : Turned(h)' => handlers'[h].last <= reached'
<1>1. /\ reached \in Nat /\ reached' \in Nat /\ reached <= reached' /\ checkpoint \in Nat
      /\ \A h \in Handlers : Turned(h) => handlers[h].last \in Nat /\ handlers[h].last <= reached
  BY ReachedGrows, HandlerFields, PolicyAssumption
     DEF TypeInv, TypeOK, NumbersReached, Turned, Seqs
<1>2. ASSUME NEW h \in Handlers, NEW r, Turn(h, r),
             r.pc \in {"load", "swap", "ack"} => r.last <= reached'
      PROVE  \A g \in Handlers : Turned(g)' => handlers'[g].last <= reached'
  BY <1>1, <1>2, TurnOne DEF TypeInv, Turned
<1>3. ASSUME NEW h \in Handlers, Receive(h) \/ QueueAck(h) \/ AckDropped(h)
      PROVE  \A g \in Handlers : Turned(g)' => handlers'[g].last <= reached'
  BY <1>2, <1>3 DEF Receive, QueueAck, AckDropped, IdleHandler
<1>4. ASSUME NEW h \in Handlers, ReadCheckpoint(h)
      PROVE  \A g \in Handlers : Turned(g)' => handlers'[g].last <= reached'
  <2> DEFINE b == handlers[h].bundle
             n == IF checkpoint > 0 THEN checkpoint ELSE b.last
  <2>1. b.last \in 0..MaxMutations
    BY <1>4, HandlerFields DEF ReadCheckpoint, TypeInv, TypeOK, Bundles
  <2>2. CASE b.last > checkpoint
    BY <1>2, <1>4, <2>2 DEF ReadCheckpoint
  <2>3. CASE ~ (b.last > checkpoint)
    <3>1. n <= checkpoint
      BY <1>1, <2>1, <2>3, PolicyAssumption
    <3>2. n <= reached'
      <4>1. n \in Int
        BY <1>1, <2>1
      <4> QED BY <1>1, <3>1, <4>1 DEF NumbersReached
    <3>3. AckOf(n).pc \in {"load", "swap", "ack"} => AckOf(n).last <= reached'
      BY <3>2 DEF AckOf, IdleHandler
    <3>4. Turn(h, AckOf(n))
      BY <1>4, <2>3 DEF ReadCheckpoint
    <3> QED BY <1>2, <3>3, <3>4
  <2> QED BY <2>2, <2>3
<1>5. ASSUME NEW h \in Handlers, ApplyDelta(h)
      PROVE  \A g \in Handlers : Turned(g)' => handlers'[g].last <= reached'
  <2>1. CASE \A p \in Policies : Replay(handlers[h].bundle, p).ok
    <3>1. /\ Turn(h, [pc |-> "load", last |-> handlers[h].bundle.last])
          /\ checkpoint' = handlers[h].bundle.last
      BY <1>5, <2>1 DEF ApplyDelta
    <3>2. checkpoint' <= reached'
      BY ReachedGrows DEF NumbersReached
    <3> QED BY <1>2, <3>1, <3>2
  <2>2. CASE ~ \A p \in Policies : Replay(handlers[h].bundle, p).ok
    BY <1>2, <1>5, <2>2 DEF ApplyDelta, IdleHandler
  <2> QED BY <2>1, <2>2
<1>6. ASSUME NEW h \in Handlers, LoadAllRecords(h) \/ SwapIndex(h)
      PROVE  \A g \in Handlers : Turned(g)' => handlers'[g].last <= reached'
  <2>1. handlers[h].last <= reached'
    BY <1>1, <1>6 DEF LoadAllRecords, SwapIndex, Turned
  <2> QED BY <1>2, <1>6, <2>1 DEF LoadAllRecords, SwapIndex, AckOf, IdleHandler
<1>7. CASE GatewayRestart
  BY <1>7 DEF GatewayRestart, Turned, IdleHandler
<1>8. CASE UNCHANGED handlers
  BY <1>1, <1>8 DEF Turned
<1> QED BY <1>3, <1>4, <1>5, <1>6, <1>7, <1>8, HandlersFrame

LEMMA NumbersInit == Init => NumbersReached
BY DEF Init, NumbersReached, Turned, IdleHandler, None

LEMMA NumbersStep == TypeInv /\ NumbersReached /\ [Next]_vars => NumbersReached'
<1> SUFFICES ASSUME TypeInv, NumbersReached, [Next]_vars PROVE NumbersReached'
  OBVIOUS
<1>1. CASE Next
  BY <1>1, ReachedGrows, AckReached, UpReached, TurnedReached DEF NumbersReached
<1>2. CASE UNCHANGED vars
  BY <1>2, Stutters DEF NumbersReached, Turned
<1> QED BY <1>1, <1>2

(* With overlapping requests, bundles handled in any order, lost streams,  *)
(* restarts and dropped acknowledgements, the number the control plane     *)
(* keeps in Redis is never ahead of the gateway.                           *)
THEOREM AckedReachedHolds == Spec => []AckedReached
<1>1. NumbersReached => AckedReached
  BY DEF NumbersReached, AckedReached
<1> QED BY TypeInvariant, NumbersInit, NumbersStep, <1>1, PTL DEF Spec
-----------------------------------------------------------------------------
(* Requests that wait for each other and for the gateway.                  *)

Paced ==
  /\ Patient
  /\ Requests \subseteq {"Create", "Update", "Delete"}
  /\ FaultKinds \subseteq {"break", "gatewayRestart", "cpRestart"}

Last       == GetLatestPolicySequence
Of(p)      == {m \in mutations : m.policy = p}
Upto(p, n) == {m \in mutations : m.policy = p /\ m.seq <= n}

(* What the store holds for a policy when it has every mutation up to n.   *)
RuleAt(p, n, rule) ==
  \/ /\ rule = NoRule
     /\ Upto(p, n) = {} \/ \E m \in Upto(p, n) : m.op = "DELETE"
  \/ \E m \in Upto(p, n) : /\ m.op = "UPSERT"
                           /\ rule = [seq |-> m.seq, version |-> m.version]
                           /\ \A o \in Upto(p, n) : o.seq <= m.seq
TombAt(p, n, tomb) ==
  tomb = None \/ (tomb = 0 /\ \E m \in Upto(p, n) : m.op = "DELETE")

(* The log: one number per mutation, growing versions, deletes at the end. *)
LogOrdered ==
  /\ \A m, n \in mutations : m.seq = n.seq => m = n
  /\ \A m, n \in mutations : m.policy = n.policy /\ m.seq < n.seq =>
       m.op = "UPSERT" /\ (n.op = "UPSERT" => m.version < n.version)
  /\ \A m \in mutations : m.version > 0 <=> m.op = "UPSERT"

Newest(m) == \A o \in Of(m.policy) : o.seq <= m.seq

RowsExact ==
  \A p \in Policies :
    \/ /\ rows[p] = NoRow
       /\ Of(p) = {} \/ \E m \in Of(p) : m.op = "DELETE"
    \/ \E m \in Of(p) : /\ m.op = "UPSERT" /\ Newest(m)
                        /\ rows[p] = [version |-> m.version, enabled |-> TRUE]

LogInv == TypeInv /\ LogOrdered /\ RowsExact

LEMMA MutationFields ==
  ASSUME TypeInv, NEW m \in mutations
  PROVE  /\ m.policy \in Policies /\ m.op \in {"UPSERT", "DELETE"}
         /\ m.seq \in Nat /\ m.seq > 0 /\ m.seq <= MaxMutations
         /\ m.version \in Nat
BY PolicyAssumption DEF TypeInv, TypeOK, Mutations, Seqs

LEMMA LastIs ==
  ASSUME TypeInv
  PROVE  /\ Last \in Nat /\ Last <= MaxMutations
         /\ \A m \in mutations : m.seq <= Last
         /\ Last > 0 => \E m \in mutations : m.seq = Last
<1> DEFINE S == {0} \cup {m.seq : m \in mutations}
<1>1. S \in SUBSET (0..MaxMutations) /\ S # {}
  <2>1. \A m \in mutations : m.seq \in 0..MaxMutations
    BY MutationFields, PolicyAssumption
  <2>2. 0 \in 0..MaxMutations
    BY PolicyAssumption
  <2> QED BY <2>1, <2>2
<1>2. Largest(S) \in S /\ \A x \in S : x <= Largest(S)
  BY <1>1, LargestIs, PolicyAssumption
<1>3. Last = Largest(S)
  BY DEF Last, GetLatestPolicySequence
<1>4. Last \in 0..MaxMutations
  BY <1>1, <1>2, <1>3
<1>5. \A m \in mutations : m.seq \in S
  OBVIOUS
<1>6. \A m \in mutations : m.seq <= Last
  BY <1>2, <1>3, <1>5
<1>7. Last > 0 => \E m \in mutations : m.seq = Last
  BY <1>2, <1>3
<1> QED BY <1>4, <1>6, <1>7, PolicyAssumption

(* No mutation of a policy before an UPSERT is a DELETE.                   *)
LEMMA NoDelete ==
  ASSUME LogInv, NEW m \in mutations, m.op = "UPSERT"
  PROVE  \A o \in mutations : o.policy = m.policy /\ o.seq <= m.seq => o.op = "UPSERT"
<1> SUFFICES ASSUME NEW o \in mutations, o.policy = m.policy, o.seq <= m.seq PROVE o.op = "UPSERT"
  OBVIOUS
<1>1. o.seq \in Nat /\ m.seq \in Nat
  BY MutationFields DEF LogInv
<1>2. CASE o.seq = m.seq
  BY <1>1, <1>2 DEF LogInv, LogOrdered
<1>3. CASE o.seq < m.seq
  BY <1>1, <1>3 DEF LogInv, LogOrdered
<1> QED BY <1>1, <1>2, <1>3

(* The query of the snapshot finds the newest mutations of what exists.    *)
LEMMA LatestUpsertsAre ==
  ASSUME LogInv, NEW m \in mutations
  PROVE  /\ m \in LatestUpserts <=> m.op = "UPSERT" /\ Newest(m)
         /\ m \in LatestUpserts => rows[m.policy] = [version |-> m.version, enabled |-> TRUE]
<1>1. m.policy \in Policies /\ m \in Of(m.policy)
  BY MutationFields DEF LogInv, Of
<1>2. ASSUME m.op = "UPSERT", Newest(m)
      PROVE  /\ rows[m.policy] = [version |-> m.version, enabled |-> TRUE]
             /\ m \in LatestUpserts
  <2>1. \A o \in Of(m.policy) : o.op = "UPSERT"
    BY <1>2, NoDelete DEF Of, Newest
  <2>2. PICK n \in Of(m.policy) : /\ Newest(n) /\ n.op = "UPSERT"
                                  /\ rows[m.policy] = [version |-> n.version, enabled |-> TRUE]
    BY <1>1, <2>1 DEF LogInv, RowsExact
  <2>3. n = m
    <3>1. n.policy = m.policy /\ n \in mutations
      BY DEF Of
    <3>2. n.seq <= m.seq /\ m.seq <= n.seq /\ n.seq \in Nat /\ m.seq \in Nat
      BY <1>1, <1>2, <2>2, <3>1, MutationFields DEF Newest, LogInv
    <3>3. n.seq = m.seq
      BY <3>2
    <3> QED BY <3>1, <3>3 DEF LogInv, LogOrdered
  <2>4. m.version > 0
    BY <1>2 DEF LogInv, LogOrdered
  <2>5. \A o \in mutations : o.policy = m.policy => o.version <= m.version
    <3> SUFFICES ASSUME NEW o \in mutations, o.policy = m.policy PROVE o.version <= m.version
      OBVIOUS
    <3>1. o \in Of(m.policy) /\ o.seq <= m.seq /\ o.seq \in Nat /\ m.seq \in Nat
          /\ o.version \in Nat /\ m.version \in Nat
      BY <1>2, MutationFields DEF Of, Newest, LogInv
    <3>2. CASE o.seq = m.seq
      <4>1. o = m
        BY <3>2 DEF LogInv, LogOrdered
      <4> QED BY <3>1, <4>1
    <3>3. CASE o.seq < m.seq
      <4>1. o.version < m.version
        BY <1>2, <3>3 DEF LogInv, LogOrdered
      <4> QED BY <3>1, <4>1
    <3> QED BY <3>1, <3>2, <3>3
  <2> QED BY <1>2, <2>2, <2>3, <2>4, <2>5 DEF LatestUpserts
<1>3. ASSUME m \in LatestUpserts
      PROVE  m.op = "UPSERT" /\ Newest(m)
  <2>1. /\ m.op = "UPSERT" /\ rows[m.policy].version > 0
        /\ \A o \in mutations : o.policy = m.policy => o.version <= m.version
    BY <1>3 DEF LatestUpserts
  <2>2. PICK n \in Of(m.policy) : Newest(n) /\ n.op = "UPSERT"
    <3>1. rows[m.policy] # NoRow
      BY <2>1 DEF NoRow
    <3> QED BY <1>1, <3>1 DEF LogInv, RowsExact
  <2>3. n \in mutations /\ n.policy = m.policy /\ n.version <= m.version /\ m.seq <= n.seq
        /\ n.seq \in Nat /\ m.seq \in Nat /\ n.version \in Nat /\ m.version \in Nat
    BY <1>1, <2>1, <2>2, MutationFields DEF Of, Newest, LogInv
  <2>4. ~ (m.seq < n.seq)
    BY <2>2, <2>3 DEF LogInv, LogOrdered
  <2>5. n.seq = m.seq
    BY <2>3, <2>4
  <2>6. n = m
    BY <2>3, <2>5 DEF LogInv, LogOrdered
  <2> QED BY <2>2, <2>6
<1> QED BY <1>2, <1>3

LEMMA ListIs ==
  ASSUME LogInv, NEW L \in ListPoliciesByOrg
  PROVE  L = LatestUpserts
<1>1. PICK S \in SUBSET LatestUpserts :
        /\ \A m \in LatestUpserts : Cardinality({n \in S : n.policy = m.policy}) = 1
        /\ L = {[m EXCEPT !.version = rows[m.policy].version] : m \in S}
  BY DEF ListPoliciesByOrg
<1>2. LatestUpserts \subseteq mutations
  BY DEF LatestUpserts
<1>3. \A m \in S : [m EXCEPT !.version = rows[m.policy].version] = m
  <2> SUFFICES ASSUME NEW m \in S PROVE [m EXCEPT !.version = rows[m.policy].version] = m
    OBVIOUS
  <2>1. m \in mutations /\ m \in LatestUpserts
    BY <1>2
  <2>2. rows[m.policy] = [version |-> m.version, enabled |-> TRUE]
    BY <2>1, LatestUpsertsAre
  <2>3. m \in Mutations /\ rows[m.policy].version = m.version
    BY <2>1, <2>2 DEF LogInv, TypeInv, TypeOK
  <2> QED BY <2>3 DEF Mutations
<1>4. L = S
  BY <1>1, <1>3
<1>5. ASSUME NEW m \in LatestUpserts PROVE m \in S
  <2>1. {n \in S : n.policy = m.policy} # {}
    BY <1>1, FS_EmptySet
  <2>2. PICK n \in S : n.policy = m.policy
    BY <2>1
  <2>3. n \in LatestUpserts /\ n \in mutations /\ m \in mutations
    BY <1>2
  <2>4. Newest(n) /\ Newest(m)
    BY <2>3, LatestUpsertsAre
  <2>5. n.seq <= m.seq /\ m.seq <= n.seq /\ n.seq \in Nat /\ m.seq \in Nat
    BY <2>2, <2>3, <2>4, MutationFields DEF Newest, Of, LogInv
  <2>6. n.seq = m.seq
    BY <2>5
  <2> QED BY <2>3, <2>6 DEF LogInv, LogOrdered
<1> QED BY <1>4, <1>5
-----------------------------------------------------------------------------
(* What a bundle does to a policy: its last record decides, and nothing is *)
(* refused as long as what is stored is older than the records.            *)

OfBundle(b, p) == {r \in b.records : r.policy = p}

LEMMA AfterOne ==
  ASSUME NEW b, NEW p, NEW n, NEW e,
         \A r, s \in OfBundle(b, p) : r.seq = s.seq => r = s
  PROVE  /\ (~ \E r \in OfBundle(b, p) : r.seq = n) => After(b, p, n, e) = e
         /\ ~ e.ok => After(b, p, n, e) = e
         /\ \A r \in OfBundle(b, p) : r.seq = n /\ e.ok => After(b, p, n, e) = ApplyRecord(e, r)
<1> DEFINE R == {r \in b.records : r.policy = p /\ r.seq = n}
<1>1. ASSUME ~ \E r \in OfBundle(b, p) : r.seq = n
      PROVE  R = {}
  BY <1>1 DEF OfBundle
<1>2. ASSUME NEW r \in OfBundle(b, p), r.seq = n
      PROVE  R = {r}
  BY <1>2 DEF OfBundle
<1>3. ASSUME NEW r \in OfBundle(b, p), r.seq = n
      PROVE  (CHOOSE x \in R : TRUE) = r /\ R # {}
  BY <1>2, <1>3
<1> QED BY <1>1, <1>3 DEF After

LEMMA ReplayEnds ==
  ASSUME NEW b, NEW p, Replay(b, p).ok,
         \A r \in OfBundle(b, p) : r.seq \in Seqs,
         \A r, s \in OfBundle(b, p) : r.seq = s.seq => r = s
  PROVE  /\ OfBundle(b, p) = {} => Replay(b, p) = Before(p)
         /\ \A r \in OfBundle(b, p) : (\A s \in OfBundle(b, p) : s.seq <= r.seq) =>
              Replay(b, p) = IF r.op = "UPSERT"
                THEN [ok |-> TRUE, tomb |-> None, rule |-> [seq |-> r.seq, version |-> r.version]]
                ELSE [ok |-> TRUE, tomb |-> r.version, rule |-> NoRule]
<1> DEFINE Result(r) == IF r.op = "UPSERT"
              THEN [ok |-> TRUE, tomb |-> None, rule |-> [seq |-> r.seq, version |-> r.version]]
              ELSE [ok |-> TRUE, tomb |-> r.version, rule |-> NoRule]
<1>0. MaxMutations \in Nat
  BY PolicyAssumption
<1>1. PICK f : /\ f[0] = Before(p)
               /\ \A n \in 1..MaxMutations : f[n] = After(b, p, n, f[n-1])
               /\ Replay(b, p) = f[MaxMutations]
  BY ReplayFunction
<1>2. ASSUME OfBundle(b, p) = {}
      PROVE  Replay(b, p) = Before(p)
  <2> DEFINE T == {n \in 0..MaxMutations : f[n] = Before(p)}
  <2>1. T \in SUBSET (0..MaxMutations) /\ 0 \in T
    BY <1>0, <1>1
  <2>2. ASSUME NEW n \in 1..MaxMutations, n - 1 \in T PROVE n \in T
    BY <1>1, <1>2, <2>2, AfterOne
  <2> HIDE DEF T
  <2>3. T = 0..MaxMutations
    BY <1>0, <2>1, <2>2, BoundedInduction
  <2>4. MaxMutations \in T
    BY <1>0, <2>3
  <2> QED BY <1>1, <2>4 DEF T
<1>3. ASSUME NEW r \in OfBundle(b, p), \A s \in OfBundle(b, p) : s.seq <= r.seq
      PROVE  Replay(b, p) = Result(r)
  <2> DEFINE T == {n \in 0..MaxMutations : n >= r.seq /\ f[n].ok => f[n] = Result(r)}
  <2>0. r.seq \in 1..MaxMutations /\ \A s \in OfBundle(b, p) : s.seq \in 1..MaxMutations
    BY DEF Seqs
  <2>1. T \in SUBSET (0..MaxMutations) /\ 0 \in T
    BY <1>0, <2>0
  <2>2. ASSUME NEW n \in 1..MaxMutations, n - 1 \in T PROVE n \in T
    <3> SUFFICES ASSUME n >= r.seq, f[n].ok PROVE f[n] = Result(r)
      OBVIOUS
    <3>0. f[n] = After(b, p, n, f[n-1])
      BY <1>1
    <3>1. f[n-1].ok
      BY <3>0, AfterOne
    <3>2. CASE n = r.seq
      <4>1. f[n] = ApplyRecord(f[n-1], r)
        BY <3>0, <3>1, <3>2, AfterOne
      <4>2. ApplyRecord(f[n-1], r) = Result(r) \/ ApplyRecord(f[n-1], r) = [f[n-1] EXCEPT !.ok = FALSE]
        BY DEF ApplyRecord
      <4>3. ~ [f[n-1] EXCEPT !.ok = FALSE].ok
        BY <3>1
      <4> QED BY <4>1, <4>2, <4>3
    <3>3. CASE n > r.seq
      <4>1. ~ \E s \in OfBundle(b, p) : s.seq = n
        BY <1>3, <2>0, <3>3
      <4>2. f[n] = f[n-1]
        BY <3>0, <4>1, AfterOne
      <4>3. n - 1 >= r.seq
        BY <2>0, <3>3
      <4> QED BY <2>2, <3>1, <4>2, <4>3
    <3> QED BY <2>0, <3>2, <3>3
  <2>3. T = 0..MaxMutations
    <3> HIDE DEF T
    <3> QED BY <1>0, <2>1, <2>2, BoundedInduction
  <2>4. MaxMutations \in T
    <3> HIDE DEF T
    <3> QED BY <1>0, <2>3
  <2> QED BY <1>1, <2>0, <2>4
<1> QED BY <1>2, <1>3

(* What is held for a policy is older than the records from number n on.   *)
Older(b, p, n, e) ==
  /\ e.ok
  /\ \A r \in OfBundle(b, p) : r.seq > n =>
       e.tomb = None /\ (r.op = "UPSERT" => ~ (r.version <= e.rule.version))

LEMMA ReplayAccepts ==
  ASSUME LogInv, NEW b, NEW p, b.records \subseteq mutations, Older(b, p, 0, Before(p))
  PROVE  Replay(b, p).ok
<1>0. MaxMutations \in Nat
  BY PolicyAssumption
<1>1. PICK f : /\ f[0] = Before(p)
               /\ \A n \in 1..MaxMutations : f[n] = After(b, p, n, f[n-1])
               /\ Replay(b, p) = f[MaxMutations]
  BY ReplayFunction
<1>2. /\ \A r \in OfBundle(b, p) : r \in mutations /\ r.policy = p /\ r.seq \in Nat /\ r.version \in Nat
                                   /\ r.op \in {"UPSERT", "DELETE"}
      /\ \A r, s \in OfBundle(b, p) : r.seq = s.seq => r = s
  BY MutationFields DEF OfBundle, LogInv, LogOrdered
<1>3. \A r, s \in OfBundle(b, p) : r.seq < s.seq =>
        r.op = "UPSERT" /\ (s.op = "UPSERT" => r.version < s.version)
  BY <1>2 DEF LogInv, LogOrdered
<1>4. \A r \in OfBundle(b, p) : r.op = "UPSERT" => r.version > 0
  BY <1>2 DEF LogInv, LogOrdered
<1> DEFINE T == {n \in 0..MaxMutations : Older(b, p, n, f[n])}
<1>5. T \in SUBSET (0..MaxMutations) /\ 0 \in T
  BY <1>0, <1>1
<1>6. ASSUME NEW n \in 1..MaxMutations, n - 1 \in T PROVE n \in T
  <2>1. /\ f[n-1].ok
        /\ \A r \in OfBundle(b, p) : r.seq > n - 1 =>
             f[n-1].tomb = None /\ (r.op = "UPSERT" => ~ (r.version <= f[n-1].rule.version))
    BY <1>6 DEF Older
  <2>2. f[n] = After(b, p, n, f[n-1])
    BY <1>1
  <2>3. CASE ~ \E r \in OfBundle(b, p) : r.seq = n
    <3>1. f[n] = f[n-1]
      BY <1>2, <2>2, <2>3, AfterOne
    <3>2. \A r \in OfBundle(b, p) : r.seq > n => r.seq > n - 1
      BY <1>2
    <3> QED BY <2>1, <3>1, <3>2 DEF Older
  <2>4. ASSUME NEW r \in OfBundle(b, p), r.seq = n
        PROVE  n \in T
    <3>1. f[n] = ApplyRecord(f[n-1], r)
      BY <1>2, <2>1, <2>2, <2>4, AfterOne
    <3>2. f[n-1].tomb = None /\ (r.op = "UPSERT" => ~ (r.version <= f[n-1].rule.version))
      BY <2>1, <2>4
    <3>3. CASE r.op = "UPSERT"
      <4>1. ~ (r.version <= None)
        BY <1>2, <1>4, <3>3 DEF None
      <4>2. ~ (r.version <= f[n-1].rule.version)
        BY <3>2, <3>3
      <4>3. f[n] = [ok |-> TRUE, tomb |-> None, rule |-> [seq |-> r.seq, version |-> r.version]]
        BY <3>1, <3>2, <3>3, <4>1, <4>2 DEF ApplyRecord
      <4>4. \A s \in OfBundle(b, p) : s.seq > n => (s.op = "UPSERT" => ~ (s.version <= r.version))
        BY <1>2, <1>3, <2>4
      <4> QED BY <4>3, <4>4 DEF Older
    <3>4. CASE r.op = "DELETE"
      <4>1. f[n].ok
        BY <3>1, <3>2, <3>4 DEF ApplyRecord
      <4>2. \A s \in OfBundle(b, p) : ~ (s.seq > n)
        BY <1>2, <1>3, <2>4, <3>4
      <4> QED BY <4>1, <4>2 DEF Older
    <3> QED BY <1>2, <3>3, <3>4
  <2> QED BY <2>3, <2>4
<1>7. T = 0..MaxMutations
  <2> HIDE DEF T
  <2> QED BY <1>0, <1>5, <1>6, BoundedInduction
<1>8. MaxMutations \in T
  BY <1>0, <1>7
<1> QED BY <1>1, <1>8 DEF Older
-----------------------------------------------------------------------------
(* What the gateway has in its store is what the CP's log says up to the   *)
(* checkpoint, and every bundle on its way would bring it to the end.      *)

StoreExact ==
  /\ checkpoint <= Last /\ reached = checkpoint
  /\ \A p \in Policies : RuleAt(p, checkpoint, store[p]) /\ TombAt(p, checkpoint, tombs[p])

CaughtUp == checkpoint = Last \/ (checkpoint = 0 /\ LatestUpserts = {})

Fresh(b) ==
  \/ b = NoBundle /\ CaughtUp
  \/ /\ b.last = Last /\ Last > 0
     /\ \/ b.records = LatestUpserts /\ checkpoint \in {0, Last}
        \/ \E c \in 1..(Last - 1) : /\ b.records = GetMutationsSince(c)
                                    /\ checkpoint \in {c, Last}

LEMMA RuleUnique ==
  ASSUME LogInv, NEW p, NEW n, NEW x, NEW y, RuleAt(p, n, x), RuleAt(p, n, y)
  PROVE  x = y
<1>1. ASSUME NEW m \in Upto(p, n), m.op = "UPSERT", \A o \in Upto(p, n) : o.seq <= m.seq
      PROVE  \A o \in Upto(p, n) : o.op = "UPSERT"
  BY <1>1, NoDelete DEF Upto
<1>2. ASSUME NEW m \in Upto(p, n), NEW o \in Upto(p, n), o.seq <= m.seq, m.seq <= o.seq
      PROVE  m = o
  <2>1. m \in mutations /\ o \in mutations /\ m.seq \in Nat /\ o.seq \in Nat
    BY MutationFields DEF Upto, LogInv
  <2>2. m.seq = o.seq
    BY <1>2, <2>1
  <2> QED BY <2>1, <2>2 DEF LogInv, LogOrdered
<1> QED BY <1>1, <1>2 DEF RuleAt

LEMMA UptoLast ==
  ASSUME LogInv, NEW p
  PROVE  Upto(p, Last) = Of(p)
BY LastIs DEF Upto, Of, LogInv

LEMMA ApplySnapshot ==
  ASSUME LogInv, StoreExact, NEW p \in Policies, NEW b,
         b.records = LatestUpserts, checkpoint \in {0, Last}
  PROVE  /\ checkpoint # Last => Replay(b, p).ok
         /\ Replay(b, p).ok => /\ RuleAt(p, Last, Replay(b, p).rule)
                               /\ TombAt(p, Last, Replay(b, p).tomb)
<1>1. b.records \subseteq mutations
  BY DEF LatestUpserts
<1>2. \A r \in OfBundle(b, p) :
        /\ r \in mutations /\ r \in Of(p) /\ r.policy = p /\ r.seq \in Seqs
        /\ r.op = "UPSERT" /\ Newest(r) /\ r.version > 0 /\ r.version \in Nat
  <2> SUFFICES ASSUME NEW r \in OfBundle(b, p)
               PROVE  /\ r \in mutations /\ r \in Of(p) /\ r.policy = p /\ r.seq \in Seqs
                      /\ r.op = "UPSERT" /\ Newest(r) /\ r.version > 0 /\ r.version \in Nat
    OBVIOUS
  <2>1. r \in mutations /\ r \in LatestUpserts /\ r.policy = p
    BY <1>1 DEF OfBundle
  <2>2. r.op = "UPSERT" /\ Newest(r)
    BY <2>1, LatestUpsertsAre
  <2>3. r.version > 0
    BY <2>1, <2>2 DEF LogInv, LogOrdered
  <2>4. r.seq \in Seqs /\ r.version \in Nat
    BY <2>1, MutationFields DEF LogInv, Seqs
  <2> QED BY <2>1, <2>2, <2>3, <2>4 DEF Of
<1>3. \A r, s \in OfBundle(b, p) : s.seq <= r.seq
  BY <1>2 DEF Newest
<1>4. \A r, s \in OfBundle(b, p) : r.seq = s.seq => r = s
  BY <1>2 DEF LogInv, LogOrdered
<1>5. ASSUME checkpoint = 0
      PROVE  store[p] = NoRule /\ tombs[p] = None
  <2>1. Upto(p, 0) = {}
    BY MutationFields DEF Upto, LogInv
  <2> QED BY <1>5, <2>1 DEF StoreExact, RuleAt, TombAt
<1>6. ASSUME checkpoint # Last
      PROVE  Replay(b, p).ok
  <2>1. Older(b, p, 0, Before(p))
    BY <1>2, <1>5, <1>6 DEF Older, Before, NoRule
  <2> QED BY <1>1, <2>1, ReplayAccepts
<1>7. ASSUME Replay(b, p).ok, NEW r \in OfBundle(b, p)
      PROVE  RuleAt(p, Last, Replay(b, p).rule) /\ TombAt(p, Last, Replay(b, p).tomb)
  <2>1. Replay(b, p) = [ok |-> TRUE, tomb |-> None, rule |-> [seq |-> r.seq, version |-> r.version]]
    BY <1>2, <1>3, <1>4, <1>7, ReplayEnds
  <2>2. r \in Upto(p, Last) /\ \A o \in Upto(p, Last) : o.seq <= r.seq
    BY <1>2, UptoLast DEF Newest
  <2> QED BY <1>2, <2>1, <2>2 DEF RuleAt, TombAt
<1>8. ASSUME Replay(b, p).ok, OfBundle(b, p) = {}
      PROVE  RuleAt(p, Last, Replay(b, p).rule) /\ TombAt(p, Last, Replay(b, p).tomb)
  <2>1. Replay(b, p).rule = store[p] /\ Replay(b, p).tomb = tombs[p]
    <3>1. Replay(b, p) = Before(p)
      BY <1>2, <1>4, <1>8, ReplayEnds
    <3> QED BY <3>1 DEF Before
  <2>2. CASE checkpoint = Last
    BY <2>1, <2>2 DEF StoreExact
  <2>3. CASE checkpoint = 0
    <3>1. ~ \E m \in Of(p) : m.op = "UPSERT" /\ Newest(m)
      BY <1>8, LatestUpsertsAre DEF OfBundle, Of
    <3>2. Upto(p, Last) = {} \/ \E m \in Upto(p, Last) : m.op = "DELETE"
      BY <3>1, UptoLast DEF LogInv, RowsExact
    <3> QED BY <1>5, <2>1, <2>3, <3>2 DEF RuleAt, TombAt
  <2> QED BY <2>2, <2>3
<1> QED BY <1>6, <1>7, <1>8

LEMMA ApplyMutationsSince ==
  ASSUME LogInv, StoreExact, NEW p \in Policies, NEW b, NEW c \in Nat, c < Last,
         b.records = GetMutationsSince(c), checkpoint \in {c, Last}
  PROVE  /\ checkpoint # Last => Replay(b, p).ok
         /\ Replay(b, p).ok => /\ RuleAt(p, Last, Replay(b, p).rule)
                               /\ TombAt(p, Last, Replay(b, p).tomb)
<1>1. b.records \subseteq mutations
  BY DEF GetMutationsSince
<1>2. \A r : r \in OfBundle(b, p) <=> r \in Of(p) /\ r.seq > c
  BY DEF OfBundle, Of, GetMutationsSince
<1>3. \A r \in Of(p) : /\ r \in mutations /\ r.policy = p /\ r.seq \in Seqs /\ r.seq \in Nat
                       /\ r.op \in {"UPSERT", "DELETE"} /\ r.version \in Nat
  BY MutationFields DEF Of, LogInv, Seqs
<1>4. \A r, s \in Of(p) : r.seq = s.seq => r = s
  BY <1>3 DEF LogInv, LogOrdered
<1>5. ASSUME checkpoint # Last
      PROVE  Replay(b, p).ok
  <2>1. checkpoint = c
    BY <1>5
  <2>2. ASSUME NEW r \in OfBundle(b, p)
        PROVE  tombs[p] = None /\ (r.op = "UPSERT" => ~ (r.version <= store[p].version))
    <3>1. r \in Of(p) /\ r.seq > c /\ \A o \in Upto(p, c) : o \in Of(p) /\ o.seq < r.seq
      <4>1. r \in Of(p) /\ r.seq > c /\ \A o \in Upto(p, c) : o \in Of(p) /\ o.seq <= c
        BY <1>2 DEF Upto, Of
      <4> QED BY <1>3, <4>1
    <3>2. \A o \in Upto(p, c) : o.op = "UPSERT" /\ (r.op = "UPSERT" => o.version < r.version)
      BY <1>3, <3>1 DEF LogInv, LogOrdered
    <3>3. tombs[p] = None
      BY <2>1, <3>2 DEF StoreExact, TombAt
    <3>4. ASSUME r.op = "UPSERT" PROVE ~ (r.version <= store[p].version)
      <4>1. r.version > 0
        BY <1>3, <3>1, <3>4 DEF LogInv, LogOrdered
      <4>2. CASE store[p] = NoRule
        BY <1>3, <3>1, <4>1, <4>2 DEF NoRule
      <4>3. ASSUME NEW m \in Upto(p, c), store[p] = [seq |-> m.seq, version |-> m.version]
            PROVE  ~ (r.version <= store[p].version)
        BY <1>3, <3>1, <3>2, <3>4, <4>3
      <4> QED BY <2>1, <4>2, <4>3 DEF StoreExact, RuleAt
    <3> QED BY <3>3, <3>4
  <2>3. Older(b, p, 0, Before(p))
    BY <2>2 DEF Older, Before
  <2> QED BY <1>1, <2>3, ReplayAccepts
<1>6. ASSUME Replay(b, p).ok, OfBundle(b, p) # {}
      PROVE  RuleAt(p, Last, Replay(b, p).rule) /\ TombAt(p, Last, Replay(b, p).tomb)
  <2>1. PICK r \in OfBundle(b, p) : \A s \in OfBundle(b, p) : s.seq <= r.seq
    <3> DEFINE M == OfBundle(b, p)
    <3>1. M \in SUBSET mutations /\ M # {}
      BY <1>1, <1>6 DEF OfBundle
    <3> HIDE DEF M
    <3>2. Largest({m.seq : m \in M}) \in {m.seq : m \in M}
          /\ \A m \in M : m.seq <= Largest({n.seq : n \in M})
      BY <3>1, DeltaLast DEF LogInv
    <3>3. PICK r \in M : r.seq = Largest({m.seq : m \in M})
      BY <3>2
    <3> QED BY <3>2, <3>3 DEF M
  <2>2. r \in Of(p) /\ r.seq > c
    BY <1>2
  <2>3. \A o \in Of(p) : o.seq <= r.seq
    <3> SUFFICES ASSUME NEW o \in Of(p) PROVE o.seq <= r.seq
      OBVIOUS
    <3>1. CASE o.seq > c
      BY <1>2, <2>1, <3>1
    <3>2. CASE ~ (o.seq > c)
      BY <1>3, <2>2, <3>2
    <3> QED BY <3>1, <3>2
  <2>4. Replay(b, p) = IF r.op = "UPSERT"
          THEN [ok |-> TRUE, tomb |-> None, rule |-> [seq |-> r.seq, version |-> r.version]]
          ELSE [ok |-> TRUE, tomb |-> r.version, rule |-> NoRule]
    <3>1. /\ \A s \in OfBundle(b, p) : s.seq \in Seqs
          /\ \A s, u \in OfBundle(b, p) : s.seq = u.seq => s = u
      BY <1>2, <1>3, <1>4
    <3> QED BY <1>6, <2>1, <3>1, ReplayEnds
  <2>5. r \in Upto(p, Last) /\ \A o \in Upto(p, Last) : o.seq <= r.seq
    BY <2>2, <2>3, UptoLast
  <2>6. CASE r.op = "UPSERT"
    BY <2>4, <2>5, <2>6 DEF RuleAt, TombAt
  <2>7. CASE r.op = "DELETE"
    <3>1. r.version = 0
      BY <1>3, <2>2, <2>7 DEF LogInv, LogOrdered
    <3> QED BY <2>4, <2>5, <2>7, <3>1 DEF RuleAt, TombAt
  <2> QED BY <1>3, <2>2, <2>6, <2>7
<1>7. ASSUME Replay(b, p).ok, OfBundle(b, p) = {}
      PROVE  RuleAt(p, Last, Replay(b, p).rule) /\ TombAt(p, Last, Replay(b, p).tomb)
  <2>1. Replay(b, p).rule = store[p] /\ Replay(b, p).tomb = tombs[p]
    <3>1. Replay(b, p) = Before(p)
      BY <1>7, ReplayEnds
    <3> QED BY <3>1 DEF Before
  <2>2. Upto(p, c) = Upto(p, Last)
    <3>1. \A o \in Of(p) : o.seq <= c
      BY <1>2, <1>3, <1>7
    <3>2. Upto(p, c) = Of(p)
      BY <3>1 DEF Upto, Of
    <3> QED BY <3>2, UptoLast
  <2> QED BY <2>1, <2>2 DEF StoreExact, RuleAt, TombAt
<1> QED BY <1>5, <1>6, <1>7

LEMMA ApplyFresh ==
  ASSUME LogInv, StoreExact, NEW b, Fresh(b), b.last > 0, NEW p \in Policies
  PROVE  /\ b.last = Last /\ Last > 0
         /\ checkpoint # Last => Replay(b, p).ok
         /\ Replay(b, p).ok => /\ RuleAt(p, Last, Replay(b, p).rule)
                               /\ TombAt(p, Last, Replay(b, p).tomb)
<1>1. b # NoBundle
  BY DEF NoBundle
<1>2. b.last = Last /\ Last > 0
  BY <1>1 DEF Fresh
<1>3. CASE b.records = LatestUpserts /\ checkpoint \in {0, Last}
  BY <1>2, <1>3, ApplySnapshot
<1>4. ASSUME NEW c \in 1..(Last - 1), b.records = GetMutationsSince(c), checkpoint \in {c, Last}
      PROVE  /\ checkpoint # Last => Replay(b, p).ok
             /\ Replay(b, p).ok => /\ RuleAt(p, Last, Replay(b, p).rule)
                                   /\ TombAt(p, Last, Replay(b, p).tomb)
  <2>1. c \in Nat /\ c < Last
    BY LastIs DEF LogInv
  <2> QED BY <1>4, <2>1, ApplyMutationsSince
<1> QED BY <1>1, <1>2, <1>3, <1>4 DEF Fresh
-----------------------------------------------------------------------------
(* The invariant.  Whatever is under way was computed from the log as it   *)
(* is, for a gateway at the checkpoint it is at or one that has caught up  *)
(* meanwhile: a request waits for all of it.                               *)

Waiting(t)  == tasks[t].pc \in {"version", "sequence", "commit", "lookup"}
Fetching(h) == handlers[h].pc \in {"read", "apply"}
Turning     == \E h \in Handlers : Turned(h)
Stored      == [p \in Policies |-> store[p].seq]

Quiet == hello = None /\ down = <<>> /\ HandlersIdle /\ (alive => up = <<>>)

TaskFine(r) ==
  /\ r.pc = "send" => Fresh(r.bundle)
  /\ r.pc \in {"list", "latest"} => checkpoint \in {0, Last}
  /\ r.pc = "latest" => r.records = LatestUpserts
  /\ r.pc = "delta" => r.since < Last /\ checkpoint \in {r.since, Last}
  /\ r.pc = "lookup" => checkpoint < Last
  /\ r.pc = "version" => r.kind # "Delete"
  /\ r.pc = "commit" => r.seq = Last + 1
  /\ r.pc \in {"version", "sequence", "commit"} =>
       IF r.kind = "Create" THEN Of(r.policy) = {} ELSE Exists(r.policy)
  /\ r.pc \in {"sequence", "commit"} =>
       IF r.kind = "Delete" THEN r.version = 0
       ELSE r.version > 0 /\ \A m \in Of(r.policy) : m.version < r.version

TasksFine ==
  /\ \A t \in Tasks : TaskFine(tasks[t])
  /\ \A t \in Tasks : Waiting(t) => Quiet
  /\ \A t, u \in Tasks : tasks[t] # IdleTask /\ tasks[u] # IdleTask => t = u

HandlerFine(r) ==
  /\ r.pc \in {"read", "apply"} => Fresh(r.bundle)
  /\ r.pc \in {"load", "swap", "ack"} => r.last = checkpoint /\ checkpoint = Last
  /\ r.pc = "swap" => r.index = Stored

HandlersFine == \A h \in Handlers : HandlerFine(handlers[h])

StreamFine ==
  /\ hello # None => TasksIdle /\ (checkpoint = hello \/ checkpoint = Last)
  /\ ~ alive => hello = None /\ down = <<>> /\ \A t \in Tasks : ~ Pushing(t)
  /\ \A i \in 1..Len(down) : Fresh(down[i])

(* The last number to reach the CP is the checkpoint.                      *)
AcksFine ==
  /\ up # <<>> => Turning \/ up[Len(up)] = checkpoint
  /\ alive /\ hello = None /\ up = <<>> => Turning \/ acked = checkpoint
  /\ hello # None => hello = checkpoint \/ Turning \/ up # <<>>

(* A gateway that is behind is being served.                               *)
Underway ==
  alive => \/ CaughtUp \/ hello # None \/ ~ TasksIdle \/ down # <<>>
           \/ \E h \in Handlers : Fetching(h)

EngineExact == engine = Stored \/ \E h \in Handlers : handlers[h].pc \in {"load", "swap"}

PacedInv ==
  /\ LogInv /\ NumbersReached /\ StoreExact
  /\ TasksFine /\ HandlersFine /\ StreamFine /\ AcksFine /\ Underway /\ EngineExact

LEMMA PacedInit == Init => PacedInv
<1> SUFFICES ASSUME Init PROVE PacedInv
  OBVIOUS
<1>1. TypeInv /\ NumbersReached
  BY TypeInit, NumbersInit
<1>2. Last = 0 /\ \A p \in Policies : Of(p) = {} /\ Upto(p, 0) = {}
  BY <1>1, LastIs DEF Init, Of, Upto
<1>3. LogInv
  BY <1>1, <1>2 DEF Init, LogInv, LogOrdered, RowsExact
<1>4. StoreExact
  BY <1>2 DEF Init, StoreExact, RuleAt, TombAt
<1>5. TasksFine /\ HandlersFine
  BY DEF Init, TasksFine, TaskFine, HandlersFine, HandlerFine, Waiting, IdleTask, IdleHandler
<1>6. StreamFine /\ AcksFine /\ Underway
  <2>1. alive = FALSE /\ hello = None /\ down = <<>> /\ up = <<>> /\ Len(down) = 0
    BY DEF Init
  <2>2. \A t \in Tasks : ~ Pushing(t)
    BY DEF Init, Pushing, IdleTask
  <2>3. \A i \in 1..Len(down) : FALSE
    BY <2>1
  <2> QED BY <2>1, <2>2, <2>3 DEF StreamFine, AcksFine, Underway
<1>7. EngineExact
  BY DEF Init, EngineExact, Stored, NoRule
<1> QED BY <1>1, <1>3, <1>4, <1>5, <1>6, <1>7 DEF PacedInv

(* The steps of Paced, where the administrators have three requests.       *)
LEMMA PacedNext ==
  ASSUME Paced, Next
  PROVE  \/ \E t \in Tasks : \/ \E kind \in Requests, p \in Policies : Begin(t, kind, p)
                             \/ ReadVersion(t) \/ ReadSequence(t) \/ Commit(t)
         \/ Push \/ Gateway \/ Break \/ GatewayRestart \/ ControlPlaneRestart
<1>1. ~ RedisFails /\ (\A t \in Tasks : ~ DatabaseFails(t)) /\ \A h \in Handlers : ~ AckDropped(h)
  BY DEF Paced, RedisFails, DatabaseFails, AckDropped, Fault
<1> QED BY <1>1 DEF Next, Admin, Faults

LEMMA SameLog ==
  ASSUME UNCHANGED <<mutations, rows>>
  PROVE  /\ Last' = Last /\ LatestUpserts' = LatestUpserts
         /\ \A c : GetMutationsSince(c)' = GetMutationsSince(c)
         /\ \A p : Of(p)' = Of(p) /\ Exists(p)' = Exists(p)
         /\ \A p, n : Upto(p, n)' = Upto(p, n)
BY DEF Last, GetLatestPolicySequence, LatestUpserts, GetMutationsSince, Of, Exists, Upto

(* A request that commits is alone, and its number is the next one.        *)
LEMMA CommitAdds ==
  ASSUME Paced, PacedInv, NEW t \in Tasks, Commit(t)
  PROVE  \E m \in Mutations :
           /\ m \notin mutations /\ mutations' = mutations \cup {m} /\ m.seq = Last + 1
           /\ m.op = "UPSERT" =>
                /\ m.version > 0 /\ \A o \in Of(m.policy) : m.version > o.version
                /\ rows' = [rows EXCEPT ![m.policy] = [version |-> m.version, enabled |-> TRUE]]
           /\ m.op = "DELETE" => m.version = 0 /\ rows' = [rows EXCEPT ![m.policy] = NoRow]
           /\ Of(m.policy) = {} \/ Exists(m.policy)
           /\ Become(t, [pc |-> "lookup"])
<1> DEFINE r == tasks[t]
           n == [policy |-> r.policy, seq |-> r.seq, version |-> r.version,
                 op |-> IF r.kind = "Delete" THEN "DELETE" ELSE "UPSERT"]
<1>1. r.pc = "commit" /\ TaskOK(r) /\ TaskFine(r)
  BY DEF Commit, PacedInv, LogInv, TypeInv, TypeOK, TasksFine
<1>2. /\ r.policy \in Policies /\ r.kind \in {"Create", "Update", "Delete"}
      /\ r.version \in 0..MaxMutations /\ r.seq \in Seqs
  BY <1>1, TaskFields DEF Paced
<1>3. /\ r.seq = Last + 1
      /\ IF r.kind = "Create" THEN Of(r.policy) = {} ELSE Exists(r.policy)
      /\ IF r.kind = "Delete" THEN r.version = 0
         ELSE r.version > 0 /\ \A o \in Of(r.policy) : o.version < r.version
  BY <1>1 DEF TaskFine
<1>4. \A o \in mutations : o.seq # r.seq
  BY <1>3, LastIs, MutationFields DEF PacedInv, LogInv
<1>5. ~ Refused(r)
  BY <1>2, <1>3, <1>4 DEF Refused
<1>6. /\ mutations' = mutations \cup {n}
      /\ rows' = [rows EXCEPT ![r.policy] = Row(r)]
      /\ Become(t, [pc |-> "lookup"])
  BY <1>5 DEF Commit
<1>7. n \in Mutations /\ n \notin mutations
  BY <1>2, <1>4 DEF Mutations
<1>8. \A o \in Of(r.policy) : o.version \in Nat /\ r.version \in Nat
  BY <1>2, MutationFields, PolicyAssumption DEF Of, PacedInv, LogInv
<1>9. ASSUME r.kind # "Delete"
      PROVE  Row(r) = [version |-> r.version, enabled |-> TRUE]
  <2>1. CASE r.kind = "Create"
    BY <2>1 DEF Row
  <2>2. CASE r.kind = "Update"
    <3>1. Exists(r.policy)
      BY <1>3, <2>2
    <3>2. rows[r.policy] # NoRow
      BY <3>1 DEF Exists, NoRow
    <3>3. PICK n0 : rows[r.policy] = [version |-> n0, enabled |-> TRUE]
      BY <1>2, <3>2 DEF PacedInv, LogInv, RowsExact
    <3>4. Row(r) = [rows[r.policy] EXCEPT !.version = r.version]
      BY <2>2 DEF Row
    <3>5. rows[r.policy] \in [version: 0..MaxMutations, enabled: BOOLEAN] /\ rows[r.policy].enabled = TRUE
      BY <1>2, <3>3 DEF PacedInv, LogInv, TypeInv, TypeOK
    <3>6. ASSUME NEW x \in [version: 0..MaxMutations, enabled: BOOLEAN], x.enabled = TRUE,
                 NEW v \in 0..MaxMutations
          PROVE  [x EXCEPT !.version = v] = [version |-> v, enabled |-> TRUE]
      <4>1. [x EXCEPT !.version = v] \in [version: 0..MaxMutations, enabled: BOOLEAN]
        OBVIOUS
      <4>2. [x EXCEPT !.version = v].version = v /\ [x EXCEPT !.version = v].enabled = TRUE
        BY <3>6
      <4>3. [x EXCEPT !.version = v] = [version |-> [x EXCEPT !.version = v].version,
                                        enabled |-> [x EXCEPT !.version = v].enabled]
        <5>1. \A y \in [version: 0..MaxMutations, enabled: BOOLEAN] :
                y = [version |-> y.version, enabled |-> y.enabled]
          OBVIOUS
        <5> QED BY <4>1, <5>1, Zenon
      <4> QED BY <4>2, <4>3, Zenon
    <3> QED BY <1>2, <3>4, <3>5, <3>6
  <2> QED BY <1>2, <1>9, <2>1, <2>2
<1>10. r.kind = "Delete" => Row(r) = NoRow
  BY DEF Row
<1>11. n.op = "UPSERT" =>
         /\ n.version > 0 /\ \A o \in Of(n.policy) : n.version > o.version
         /\ rows' = [rows EXCEPT ![n.policy] = [version |-> n.version, enabled |-> TRUE]]
  BY <1>3, <1>6, <1>8, <1>9
<1>12. n.op = "DELETE" => n.version = 0 /\ rows' = [rows EXCEPT ![n.policy] = NoRow]
  BY <1>3, <1>6, <1>10
<1>13. (Of(n.policy) = {} \/ Exists(n.policy)) /\ n.seq = Last + 1
  BY <1>3
<1> HIDE DEF n
<1> QED BY <1>6, <1>7, <1>11, <1>12, <1>13

LEMMA CommitLog ==
  ASSUME Paced, PacedInv, TypeInv', NEW t \in Tasks, Commit(t)
  PROVE  LogOrdered' /\ RowsExact' /\ Last' > Last
<1>1. PICK m \in Mutations :
           /\ m \notin mutations /\ mutations' = mutations \cup {m} /\ m.seq = Last + 1
           /\ m.op = "UPSERT" =>
                /\ m.version > 0 /\ \A o \in Of(m.policy) : m.version > o.version
                /\ rows' = [rows EXCEPT ![m.policy] = [version |-> m.version, enabled |-> TRUE]]
           /\ m.op = "DELETE" => m.version = 0 /\ rows' = [rows EXCEPT ![m.policy] = NoRow]
           /\ Of(m.policy) = {} \/ Exists(m.policy)
  BY CommitAdds
<1>2. /\ TypeInv /\ LogOrdered /\ RowsExact /\ LogInv
      /\ m.policy \in Policies /\ m.op \in {"UPSERT", "DELETE"}
      /\ m.version \in Nat /\ m.seq \in Nat /\ Last \in Nat
      /\ \A o \in mutations : o.seq \in Nat /\ o.seq < m.seq /\ o.version \in Nat
                              /\ o.policy \in Policies
  <2>1. TypeInv /\ LogOrdered /\ RowsExact /\ LogInv
    BY DEF PacedInv, LogInv
  <2>2. m.policy \in Policies /\ m.op \in {"UPSERT", "DELETE"} /\ m.version \in Nat /\ m.seq \in Nat
    BY PolicyAssumption DEF Mutations, Seqs
  <2>3. Last \in Nat /\ \A o \in mutations : o.seq \in Nat /\ o.seq < m.seq /\ o.version \in Nat
                                             /\ o.policy \in Policies
    BY <1>1, <2>1, LastIs, MutationFields
  <2> QED BY <2>1, <2>2, <2>3
<1>3. \A o \in Of(m.policy) : o.op = "UPSERT"
  <2>1. CASE Of(m.policy) = {}
    BY <2>1
  <2>2. CASE Exists(m.policy)
    <3>1. rows[m.policy] # NoRow
      BY <2>2 DEF Exists, NoRow
    <3>2. PICK n \in Of(m.policy) : n.op = "UPSERT" /\ Newest(n)
      BY <1>2, <3>1 DEF RowsExact
    <3> QED BY <1>2, <3>2, NoDelete DEF Of, Newest
  <2> QED BY <1>1, <2>1, <2>2
<1>4. LogOrdered'
  <2>1. \A x, y \in mutations' : x.seq = y.seq => x = y
    BY <1>1, <1>2 DEF LogOrdered
  <2>2. ASSUME NEW x \in mutations', NEW y \in mutations', x.policy = y.policy, x.seq < y.seq
        PROVE  x.op = "UPSERT" /\ (y.op = "UPSERT" => x.version < y.version)
    <3>1. x \in mutations
      BY <1>1, <1>2, <2>2
    <3>2. CASE y \in mutations
      BY <1>2, <2>2, <3>1, <3>2 DEF LogOrdered
    <3>3. CASE y = m
      <4>1. x \in Of(m.policy)
        BY <2>2, <3>1, <3>3 DEF Of
      <4>2. m.op = "UPSERT" => m.version > x.version
        BY <1>1, <4>1
      <4> QED BY <1>2, <1>3, <3>1, <3>3, <4>1, <4>2
    <3> QED BY <1>1, <3>2, <3>3
  <2>3. \A x \in mutations' : x.version > 0 <=> x.op = "UPSERT"
    BY <1>1, <1>2 DEF LogOrdered
  <2> QED BY <2>1, <2>2, <2>3 DEF LogOrdered
<1>5. RowsExact'
  <2> SUFFICES ASSUME NEW p \in Policies
               PROVE  \/ /\ rows'[p] = NoRow
                         /\ Of(p)' = {} \/ \E n \in Of(p)' : n.op = "DELETE"
                      \/ \E n \in Of(p)' : /\ n.op = "UPSERT" /\ \A o \in Of(n.policy)' : o.seq <= n.seq
                                           /\ rows'[p] = [version |-> n.version, enabled |-> TRUE]
    BY DEF RowsExact, Newest
  <2>1. rows \in [Policies -> [version: 0..MaxMutations, enabled: BOOLEAN]]
    BY <1>2 DEF TypeInv, TypeOK
  <2>2. CASE p # m.policy
    <3>1. Of(p)' = Of(p) /\ rows'[p] = rows[p]
      BY <1>1, <1>2, <2>1, <2>2 DEF Of
    <3>2. \A n \in Of(p) : n.policy = p
      BY DEF Of
    <3> QED BY <1>2, <3>1, <3>2 DEF RowsExact, Newest
  <2>3. CASE p = m.policy
    <3>1. Of(p)' = Of(p) \cup {m} /\ m \in Of(p)'
      BY <1>1, <2>3 DEF Of
    <3>2. \A o \in Of(p)' : o.seq <= m.seq
      BY <1>2, <3>1 DEF Of
    <3>3. CASE m.op = "UPSERT"
      <4>1. rows'[p] = [version |-> m.version, enabled |-> TRUE]
        BY <1>1, <2>1, <2>3, <3>3
      <4> QED BY <2>3, <3>1, <3>2, <3>3, <4>1
    <3>4. CASE m.op = "DELETE"
      <4>1. rows'[p] = NoRow
        BY <1>1, <2>1, <2>3, <3>4
      <4> QED BY <3>1, <3>4, <4>1
    <3> QED BY <1>2, <3>3, <3>4
  <2> QED BY <2>2, <2>3
<1>6. Last' > Last
  <2>1. Last' \in Nat /\ \A o \in mutations' : o.seq <= Last'
    <3> DEFINE S == {0} \cup {o.seq : o \in mutations'}
    <3>1. \A o \in mutations' : o.seq \in 0..MaxMutations
      BY PolicyAssumption DEF TypeInv, TypeOK, Mutations, Seqs
    <3>2. S \in SUBSET (0..MaxMutations) /\ S # {}
      BY <3>1, PolicyAssumption
    <3>3. Last' = Largest(S) /\ \A o \in mutations' : o.seq \in S
      BY DEF Last, GetLatestPolicySequence
    <3>4. Largest(S) \in S /\ \A x \in S : x <= Largest(S)
      BY <3>2, LargestIs, PolicyAssumption
    <3> HIDE DEF S
    <3>5. Last' \in 0..MaxMutations
      BY <3>2, <3>3, <3>4
    <3>6. \A o \in mutations' : o.seq <= Last'
      BY <3>3, <3>4
    <3> QED BY <3>5, <3>6, PolicyAssumption
  <2> QED BY <1>1, <1>2, <2>1
<1> QED BY <1>4, <1>5, <1>6

(* Nothing else is going on when a request commits.                        *)
LEMMA CommitStep ==
  ASSUME Paced, PacedInv, TypeInv', NEW t \in Tasks, Commit(t)
  PROVE  /\ LogOrdered' /\ RowsExact' /\ StoreExact' /\ TasksFine' /\ HandlersFine'
         /\ StreamFine' /\ AcksFine' /\ Underway' /\ EngineExact'
<1>1. LogOrdered' /\ RowsExact' /\ Last' > Last
  BY CommitLog
<1>2. PICK m \in Mutations : /\ mutations' = mutations \cup {m} /\ m.seq = Last + 1
                             /\ Become(t, [pc |-> "lookup"])
  BY CommitAdds
<1>3. UNCHANGED <<acked, alive, hello, down, up, store, tombs, checkpoint, reached, handlers, engine>>
  BY DEF Commit, netVars, boltVars
<1>4. tasks[t].pc = "commit" /\ Quiet
  BY DEF Commit, PacedInv, TasksFine, Waiting
<1>5. \A h \in Handlers : handlers[h] = IdleHandler /\ handlers[h].pc = "idle"
  BY <1>4 DEF Quiet, HandlersIdle, IdleHandler
<1>6. tasks'[t] = [pc |-> "lookup"] /\ \A u \in Tasks : u # t => tasks'[u] = IdleTask
  <2>1. \A u \in Tasks : u # t => tasks[u] = IdleTask
    BY <1>4 DEF PacedInv, TasksFine, IdleTask
  <2> QED BY <1>2, <2>1, BecomeOne DEF PacedInv, LogInv, TypeInv
<1>7. /\ checkpoint \in Nat /\ Last \in Nat /\ Last' > checkpoint /\ checkpoint <= Last
      /\ Last' \in Int
  <2>1. checkpoint \in Nat /\ Last \in Nat /\ checkpoint <= Last
    BY LastIs, PolicyAssumption DEF PacedInv, LogInv, StoreExact, TypeInv, TypeOK
  <2>2. Last' \in Int
    <3> DEFINE S == {0} \cup {o.seq : o \in mutations'}
    <3>1. S \in SUBSET (0..MaxMutations) /\ S # {}
      <4>1. mutations' \subseteq Mutations /\ MaxMutations \in Nat
        BY PolicyAssumption DEF TypeInv, TypeOK
      <4>2. \A o \in mutations' : o.seq \in 1..MaxMutations
        BY <4>1 DEF Mutations, Seqs
      <4> QED BY <4>1, <4>2
    <3>2. Last' = Largest(S)
      BY DEF Last, GetLatestPolicySequence
    <3>3. Largest(S) \in S
      BY <3>1, LargestIs, PolicyAssumption
    <3> QED BY <3>1, <3>2, <3>3
  <2> QED BY <1>1, <2>1, <2>2
<1>8. StoreExact'
  <2>1. \A p : Upto(p, checkpoint)' = Upto(p, checkpoint)
    BY <1>2, <1>3, <1>7 DEF Upto
  <2> QED BY <1>3, <1>7, <2>1 DEF PacedInv, StoreExact, RuleAt, TombAt
<1>9. Quiet'
  BY <1>3, <1>4 DEF Quiet, HandlersIdle
<1>10. TasksFine'
  <2>1. \A u \in Tasks : TaskFine(tasks[u])'
    BY <1>3, <1>6, <1>7 DEF TaskFine, IdleTask
  <2> QED BY <1>6, <1>9, <2>1 DEF TasksFine
<1>11. HandlersFine'
  BY <1>3, <1>5 DEF HandlersFine, HandlerFine
<1>12. StreamFine'
  <2>1. hello' = None /\ down' = <<>>
    BY <1>9 DEF Quiet
  <2>2. \A u \in Tasks : ~ Pushing(u)'
    BY <1>6 DEF Pushing, IdleTask
  <2>3. \A i \in 1..Len(down') : FALSE
    BY <2>1
  <2> QED BY <2>1, <2>2, <2>3 DEF StreamFine
<1>13. AcksFine'
  BY <1>3, <1>4 DEF PacedInv, AcksFine, Quiet, Turning, Turned
<1>14. Underway'
  <2>1. ~ TasksIdle'
    BY <1>6 DEF TasksIdle, IdleTask
  <2> QED BY <2>1 DEF Underway
<1>15. EngineExact'
  BY <1>3 DEF PacedInv, EngineExact, Stored
<1> QED BY <1>1, <1>8, <1>10, <1>11, <1>12, <1>13, <1>14, <1>15
-----------------------------------------------------------------------------
(* Every other step leaves the log alone.                                  *)

LEMMA ApplyOutcome ==
  ASSUME PacedInv, NEW h \in Handlers, ApplyDelta(h)
  PROVE  /\ StoreExact' /\ UNCHANGED <<mutations, rows>>
         /\ \/ /\ UNCHANGED <<store, tombs, checkpoint, reached>> /\ checkpoint = Last
               /\ Turn(h, IdleHandler)
            \/ /\ checkpoint' = Last /\ (checkpoint = Last => store' = store)
               /\ Turn(h, [pc |-> "load", last |-> Last])
<1> DEFINE b == handlers[h].bundle
<1>1. /\ LogInv /\ StoreExact /\ Fresh(b) /\ b.last > 0
      /\ checkpoint \in Nat /\ Last \in Nat /\ checkpoint <= Last /\ reached = checkpoint
  <2>1. Fresh(b) /\ b.last > 0
    BY HandlerFields, PolicyAssumption
       DEF ApplyDelta, PacedInv, HandlersFine, HandlerFine, LogInv, TypeInv, TypeOK, Seqs
  <2> QED BY <2>1, LastIs, PolicyAssumption DEF PacedInv, LogInv, StoreExact, TypeInv, TypeOK
<1>2. b.last = Last /\ \A p \in Policies :
        /\ checkpoint # Last => Replay(b, p).ok
        /\ Replay(b, p).ok => /\ RuleAt(p, Last, Replay(b, p).rule)
                              /\ TombAt(p, Last, Replay(b, p).tomb)
  <2>1. b.last = Last
    BY <1>1 DEF Fresh, NoBundle
  <2>2. ASSUME NEW p \in Policies
        PROVE  /\ checkpoint # Last => Replay(b, p).ok
               /\ Replay(b, p).ok => /\ RuleAt(p, Last, Replay(b, p).rule)
                                     /\ TombAt(p, Last, Replay(b, p).tomb)
    BY <1>1, ApplyFresh
  <2> QED BY <2>1, <2>2
<1>3. UNCHANGED <<mutations, rows>>
  BY DEF ApplyDelta, dbVars
<1>4. CASE \A p \in Policies : Replay(b, p).ok
  <2>1. /\ store' = [p \in Policies |-> Replay(b, p).rule]
        /\ tombs' = [p \in Policies |-> Replay(b, p).tomb]
        /\ checkpoint' = b.last
        /\ reached' = Largest({reached, b.last})
        /\ Turn(h, [pc |-> "load", last |-> b.last])
    BY <1>4 DEF ApplyDelta
  <2>2. checkpoint' = Last /\ reached' = Last
    <3>1. Last \in 0..MaxMutations /\ reached \in 0..MaxMutations
      BY <1>1, LastIs, PolicyAssumption DEF LogInv, TypeInv, TypeOK
    <3>2. Largest({reached, Last}) \in {reached, Last} /\ Last <= Largest({reached, Last})
      BY <3>1, LargestPair
    <3> QED BY <1>1, <1>2, <2>1, <3>1, <3>2
  <2>3. \A p \in Policies : RuleAt(p, Last, store'[p]) /\ TombAt(p, Last, tombs'[p])
    BY <1>2, <1>4, <2>1
  <2>4. StoreExact'
    BY <1>1, <1>3, <2>2, <2>3, SameLog DEF StoreExact, RuleAt, TombAt
  <2>5. ASSUME checkpoint = Last
        PROVE  store' = store
    <3>1. ASSUME NEW p \in Policies PROVE store'[p] = store[p]
      BY <1>1, <2>3, <2>5, RuleUnique DEF StoreExact
    <3>2. DOMAIN store = Policies /\ DOMAIN store' = Policies
      BY <1>1, <2>1 DEF LogInv, TypeInv, TypeOK
    <3>3. store = [p \in Policies |-> store[p]] /\ store' = [p \in Policies |-> store'[p]]
      BY <1>1, <2>1 DEF LogInv, TypeInv, TypeOK
    <3> QED BY <3>1, <3>3
  <2> QED BY <1>2, <1>3, <2>1, <2>2, <2>4, <2>5
<1>5. CASE ~ \A p \in Policies : Replay(b, p).ok
  <2>1. UNCHANGED <<store, tombs, checkpoint, reached>> /\ Turn(h, IdleHandler)
    BY <1>5 DEF ApplyDelta, boltVars
  <2>2. checkpoint = Last
    BY <1>2, <1>5
  <2>3. StoreExact'
    BY <1>1, <1>3, <2>1, SameLog DEF StoreExact, RuleAt, TombAt
  <2> QED BY <1>3, <2>1, <2>2, <2>3
<1> QED BY <1>4, <1>5

Forward ==
  /\ UNCHANGED <<mutations, rows>>
  /\ checkpoint' = checkpoint \/ (checkpoint' = Last /\ \E h \in Handlers : ApplyDelta(h))

LEMMA StoreExactStep ==
  ASSUME PacedInv, Next, ~ \E t \in Tasks : Commit(t)
  PROVE  StoreExact' /\ Forward
<1>1. UNCHANGED <<mutations, rows>>
  BY LogFrame
<1>2. CASE \E h \in Handlers : ApplyDelta(h)
  BY <1>2, ApplyOutcome DEF Forward
<1>3. CASE UNCHANGED <<store, tombs, checkpoint, reached>>
  BY <1>1, <1>3, SameLog DEF PacedInv, StoreExact, RuleAt, TombAt, Forward
<1> QED BY <1>2, <1>3, BoltFrame

(* What is under way stays good.                                           *)
LEMMA FreshKept ==
  ASSUME PacedInv, Forward
  PROVE  /\ \A b : Fresh(b) => Fresh(b)'
         /\ \A r : TaskFine(r) /\ (r.pc = "lookup" => checkpoint' = checkpoint) => TaskFine(r)'
         /\ CaughtUp => CaughtUp'
<1>1. /\ Last' = Last /\ LatestUpserts' = LatestUpserts
      /\ \A c : GetMutationsSince(c)' = GetMutationsSince(c)
      /\ \A p : Of(p)' = Of(p) /\ Exists(p)' = Exists(p)
      /\ checkpoint' \in {checkpoint, Last}
  BY SameLog DEF Forward
<1>2. CaughtUp => CaughtUp'
  BY <1>1 DEF CaughtUp
<1>3. ASSUME NEW b, Fresh(b)
      PROVE  Fresh(b)'
  BY <1>1, <1>2, <1>3 DEF Fresh
<1>4. ASSUME NEW r, TaskFine(r), r.pc = "lookup" => checkpoint' = checkpoint
      PROVE  TaskFine(r)'
  BY <1>1, <1>3, <1>4 DEF TaskFine
<1> QED BY <1>2, <1>3, <1>4

LEMMA QuietKept ==
  ASSUME Paced, PacedInv, Next, NEW t \in Tasks, Waiting(t)
  PROVE  Quiet'
<1>1. /\ hello = None /\ down = <<>> /\ (alive => up = <<>>)
      /\ \A h \in Handlers : handlers[h] = IdleHandler /\ handlers[h].pc = "idle"
      /\ \A u \in Tasks : u # t => tasks[u] = IdleTask
      /\ tasks[t].pc \in {"version", "sequence", "commit", "lookup"} /\ ~ TasksIdle
  BY DEF PacedInv, TasksFine, Quiet, HandlersIdle, Waiting, IdleHandler, IdleTask, TasksIdle
<1>2. ~ \E u \in Tasks : SendBundle(u) \/ HandleHello(u)
  BY <1>1 DEF SendBundle, HandleHello, IdleTask
<1>3. ~ OpenStream /\ ~ PolicyAck /\ ~ RedisFails
  BY <1>1 DEF OpenStream, PolicyAck, RedisFails, Fault, Paced
<1>4. ~ \E h \in Handlers : \/ Receive(h) \/ ReadCheckpoint(h) \/ ApplyDelta(h)
                            \/ LoadAllRecords(h) \/ SwapIndex(h) \/ QueueAck(h) \/ AckDropped(h)
  BY <1>1 DEF Receive, ReadCheckpoint, ApplyDelta, LoadAllRecords, SwapIndex, QueueAck, AckDropped
<1>5. HandlersIdle'
  <2>1. CASE GatewayRestart
    BY <2>1 DEF GatewayRestart, HandlersIdle
  <2>2. CASE UNCHANGED handlers
    BY <1>1, <2>2 DEF HandlersIdle
  <2> QED BY <1>4, <2>1, <2>2, HandlersFrame
<1>6. hello' = None /\ down' = <<>> /\ (alive' => up' = <<>>)
  <2>1. CASE Break \/ GatewayRestart \/ ControlPlaneRestart
    BY <2>1 DEF Break, GatewayRestart, ControlPlaneRestart, LoseStream
  <2>2. CASE UNCHANGED <<acked, alive, hello, down, up>>
    BY <1>1, <2>2
  <2> QED BY <1>2, <1>3, <1>4, <2>1, <2>2, StreamFrame
<1> QED BY <1>5, <1>6 DEF Quiet

(* A goroutine that goes on alone.                                         *)
LEMMA TasksFineOne ==
  ASSUME PacedInv, NEW t \in Tasks, NEW r, Become(t, r), TaskFine(r)',
         \A u \in Tasks : u # t => tasks[u] = IdleTask,
         r.pc \in {"version", "sequence", "commit", "lookup"} => Quiet'
  PROVE  TasksFine'
<1>1. tasks'[t] = r /\ \A u \in Tasks : u # t => tasks'[u] = IdleTask
  BY BecomeOne DEF PacedInv, LogInv, TypeInv
<1>2. TaskFine(IdleTask)'
  BY DEF TaskFine, IdleTask
<1>3. \A u \in Tasks : TaskFine(tasks[u])'
  <2>1. \A u \in Tasks : tasks'[u] = r \/ tasks'[u] = IdleTask
    BY <1>1
  <2> QED BY <1>2, <2>1 DEF TaskFine, Fresh, CaughtUp
<1> QED BY <1>1, <1>3 DEF TasksFine, Waiting, IdleTask

LEMMA BeginTasks ==
  ASSUME Paced, PacedInv, Forward,
         NEW t \in Tasks, NEW kind \in Requests, NEW p \in Policies, Begin(t, kind, p)
  PROVE  TasksFine'
<1>1. /\ Last' = Last /\ Of(p)' = Of(p) /\ Exists(p)' = Exists(p)
  BY SameLog DEF Forward
<1>2. Settled /\ \A u \in Tasks : tasks[u] = IdleTask
  BY DEF Begin, Paced, Settled, TasksIdle
<1>3. Quiet'
  BY <1>2 DEF Begin, Settled, Quiet, HandlersIdle, netVars
<1>4. PICK r : /\ Become(t, r) /\ TaskFine(r)'
  <2>1. CASE kind = "Create"
    <3>1. Of(p)' = {}
      BY <1>1, <2>1 DEF Begin, Of
    <3>2. Become(t, [pc |-> "sequence", kind |-> kind, policy |-> p, version |-> 1])
      BY <2>1 DEF Begin
    <3>3. TaskFine([pc |-> "sequence", kind |-> kind, policy |-> p, version |-> 1])'
      BY <2>1, <3>1 DEF TaskFine
    <3> QED BY <3>2, <3>3
  <2>2. CASE kind = "Delete"
    <3>1. Exists(p)'
      BY <1>1, <2>2 DEF Begin
    <3>2. Become(t, [pc |-> "sequence", kind |-> kind, policy |-> p, version |-> 0])
      BY <2>2 DEF Begin
    <3>3. TaskFine([pc |-> "sequence", kind |-> kind, policy |-> p, version |-> 0])'
      BY <2>2, <3>1 DEF TaskFine
    <3> QED BY <3>2, <3>3
  <2>3. CASE kind \notin {"Create", "Delete"}
    <3>1. Exists(p)'
      BY <1>1, <2>3 DEF Begin
    <3>2. Become(t, [pc |-> "version", kind |-> kind, policy |-> p])
      BY <2>3 DEF Begin
    <3>3. TaskFine([pc |-> "version", kind |-> kind, policy |-> p])'
      BY <2>3, <3>1 DEF TaskFine
    <3> QED BY <3>2, <3>3
  <2> QED BY <2>1, <2>2, <2>3
<1> QED BY <1>2, <1>3, <1>4, TasksFineOne

LEMMA ReadTasks ==
  ASSUME Paced, PacedInv, Forward, Next, NEW t \in Tasks, ReadVersion(t) \/ ReadSequence(t)
  PROVE  TasksFine'
<1>1. PICK p, kind, version, next, seq :
         /\ p = tasks[t].policy /\ kind = tasks[t].kind /\ version = tasks[t].version
         /\ next = GetNextPolicyVersion(tasks[t].policy) /\ seq = GetLatestPolicySequence + 1
  OBVIOUS
<1>2. /\ TaskFine(tasks[t]) /\ Waiting(t) /\ p \in Policies
      /\ \A u \in Tasks : u # t => tasks[u] = IdleTask
  <2>1. Waiting(t) /\ TaskFine(tasks[t]) /\ tasks[t] # IdleTask
    BY DEF ReadVersion, ReadSequence, Waiting, PacedInv, TasksFine, IdleTask
  <2>2. p \in Policies
    BY <1>1, TaskFields DEF ReadVersion, ReadSequence, PacedInv, LogInv, TypeInv, TypeOK
  <2> QED BY <2>1, <2>2 DEF PacedInv, TasksFine
<1>3. Quiet'
  BY <1>2, QuietKept
<1>4. /\ Last' = Last /\ Of(p)' = Of(p) /\ Exists(p)' = Exists(p)
  BY SameLog DEF Forward
<1>5. PICK r : Become(t, r) /\ TaskFine(r)'
  <2>1. CASE ReadVersion(t)
    <3>1. kind # "Delete" /\ IF kind = "Create" THEN Of(p)' = {} ELSE Exists(p)'
      BY <1>1, <1>2, <1>4, <2>1 DEF ReadVersion, TaskFine
    <3>2. next > 0 /\ \A m \in Of(p)' : m.version < next
      <4>1. \A m \in Of(p) : m \in mutations /\ m.policy = p
        BY DEF Of
      <4>2. /\ next \in 1..(Cardinality(mutations) + 1)
            /\ \A m \in mutations : m.policy = p => m.version < next
        BY <1>1, <1>2, QueriesBounded DEF PacedInv, LogInv
      <4> QED BY <1>4, <4>1, <4>2
    <3>3. TaskFine([pc |-> "sequence", kind |-> kind, policy |-> p, version |-> next])'
      BY <3>1, <3>2 DEF TaskFine
    <3> QED BY <1>1, <2>1, <3>3 DEF ReadVersion
  <2>2. CASE ReadSequence(t)
    <3>1. /\ IF kind = "Create" THEN Of(p)' = {} ELSE Exists(p)'
          /\ IF kind = "Delete" THEN version = 0
             ELSE version > 0 /\ \A m \in Of(p)' : m.version < version
      BY <1>1, <1>2, <1>4, <2>2 DEF ReadSequence, TaskFine
    <3>2. seq = Last' + 1
      BY <1>1, <1>4 DEF Last
    <3>3. TaskFine([pc |-> "commit", kind |-> kind, policy |-> p, version |-> version,
                    seq |-> seq])'
      BY <3>1, <3>2 DEF TaskFine
    <3> QED BY <1>1, <2>2, <3>3 DEF ReadSequence
  <2> QED BY <2>1, <2>2
<1> QED BY <1>2, <1>3, <1>5, TasksFineOne

(* The base of a delta is where the gateway is, or it has caught up.       *)
LEMMA LookupFine ==
  ASSUME PacedInv, Forward, NEW t \in Tasks, Lookup(t)
  PROVE  \E r : Become(t, r) /\ TaskFine(r)' /\ r.pc \in {"idle", "delta", "list"}
<1>1. PICK since : since = acked
  OBVIOUS
<1>2. Last' = Last /\ checkpoint' = checkpoint
  BY SameLog DEF Forward, Lookup, boltVars
<1>3. tasks[t].pc = "lookup" /\ checkpoint < Last /\ Quiet
  BY DEF Lookup, PacedInv, TasksFine, TaskFine, Waiting
<1>4. acked \in Nat
  BY PolicyAssumption DEF PacedInv, LogInv, TypeInv, TypeOK
<1>5. CASE ~ alive
  BY <1>5 DEF Lookup, TaskFine, IdleTask
<1>6. CASE alive
  <2>1. ~ Turning
    BY <1>3 DEF Quiet, HandlersIdle, Turning, Turned, IdleHandler
  <2>2. acked = checkpoint
    BY <1>3, <1>6, <2>1 DEF Quiet, PacedInv, AcksFine
  <2>3. CASE acked > 0
    <3>1. TaskFine([pc |-> "delta", since |-> since, reconnect |-> FALSE])'
      BY <1>1, <1>2, <1>3, <2>2 DEF TaskFine
    <3> QED BY <1>1, <1>6, <2>3, <3>1 DEF Lookup
  <2>4. CASE ~ (acked > 0)
    <3>1. TaskFine([pc |-> "list"])'
      BY <1>2, <1>4, <2>2, <2>4 DEF TaskFine
    <3> QED BY <1>6, <2>4, <3>1 DEF Lookup
  <2> QED BY <2>3, <2>4
<1> QED BY <1>5, <1>6

LEMMA CompileDeltaFine ==
  ASSUME PacedInv, Forward, NEW t \in Tasks, CompileDelta(t)
  PROVE  \E r : Become(t, r) /\ TaskFine(r)' /\ r.pc = "send"
<1>1. PICK since, M : since = tasks[t].since /\ M = GetMutationsSince(since)
  OBVIOUS
<1>2. Last' = Last /\ checkpoint' = checkpoint /\ GetMutationsSince(since)' = M
  BY <1>1, SameLog DEF Forward, CompileDelta, boltVars
<1>3. since < Last /\ checkpoint \in {since, Last} /\ since \in Seqs /\ since \in Nat /\ Last \in Nat
  <2>1. tasks[t].pc = "delta" /\ TaskOK(tasks[t]) /\ TaskFine(tasks[t])
    BY DEF CompileDelta, PacedInv, LogInv, TypeInv, TypeOK, TasksFine
  <2>2. since \in Seqs
    BY <1>1, <2>1, TaskFields
  <2> QED BY <1>1, <2>1, <2>2, LastIs, PolicyAssumption DEF TaskFine, PacedInv, LogInv, Seqs
<1>4. /\ M \in SUBSET mutations /\ M # {}
      /\ \A m \in M : m.seq <= Last
      /\ \E m \in M : m.seq = Last
  BY <1>1, <1>3, LastIs DEF GetMutationsSince, PacedInv, LogInv
<1>5. Largest({m.seq : m \in M}) = Last
  <2>1. /\ Largest({m.seq : m \in M}) \in {m.seq : m \in M}
        /\ Largest({m.seq : m \in M}) \in Seqs
        /\ \A m \in M : m.seq <= Largest({n.seq : n \in M})
    BY <1>4, DeltaLast DEF PacedInv, LogInv
  <2>2. Largest({m.seq : m \in M}) <= Last /\ Last <= Largest({m.seq : m \in M})
    BY <1>4, <2>1
  <2> QED BY <1>3, <2>1, <2>2, PolicyAssumption DEF Seqs
<1>6. PICK last : last = Last
  OBVIOUS
<1>7. Fresh([last |-> last, records |-> M])'
  <2>1. last = Last' /\ Last' > 0 /\ since \in 1..(Last' - 1)
    BY <1>2, <1>3, <1>6, PolicyAssumption DEF Seqs
  <2> QED BY <1>2, <1>3, <2>1 DEF Fresh
<1>8. TaskFine([pc |-> "send", bundle |-> [last |-> last, records |-> M]])'
  BY <1>7 DEF TaskFine
<1>9. Become(t, [pc |-> "send", bundle |-> [last |-> last, records |-> M]])
  BY <1>1, <1>4, <1>5, <1>6 DEF CompileDelta
<1> QED BY <1>8, <1>9

LEMMA CompileSnapshotFine ==
  ASSUME PacedInv, Forward, NEW t \in Tasks, CompileList(t) \/ CompileLatest(t)
  PROVE  \E r : Become(t, r) /\ TaskFine(r)' /\ r.pc \in {"latest", "send"}
<1>1. PICK L, last : L = LatestUpserts /\ last = Last
  OBVIOUS
<1>2. Last' = last /\ checkpoint' = checkpoint /\ LatestUpserts' = L
  BY <1>1, SameLog DEF Forward, CompileList, CompileLatest, boltVars
<1>3. checkpoint \in {0, last} /\ TaskFine(tasks[t])
  BY <1>1 DEF CompileList, CompileLatest, PacedInv, TasksFine, TaskFine
<1>4. CASE CompileList(t)
  <2>1. Become(t, [pc |-> "latest", records |-> L])
    BY <1>1, <1>4, ListIs DEF CompileList, PacedInv
  <2>2. TaskFine([pc |-> "latest", records |-> L])'
    BY <1>2, <1>3 DEF TaskFine
  <2> QED BY <2>1, <2>2
<1>5. CASE CompileLatest(t)
  <2>1. tasks[t].records = L
    BY <1>1, <1>3, <1>5 DEF CompileLatest, TaskFine
  <2>2. CASE L = {}
    <3>1. Fresh(NoBundle)'
      BY <1>2, <1>3, <2>2 DEF Fresh, CaughtUp
    <3>2. TaskFine([pc |-> "send", bundle |-> NoBundle])'
      BY <3>1 DEF TaskFine
    <3> QED BY <1>5, <2>1, <2>2, <3>2 DEF CompileLatest
  <2>3. CASE L # {}
    <3>1. last > 0
      BY <1>1, <2>3, LastIs, MutationFields DEF LatestUpserts, PacedInv, LogInv
    <3>2. Fresh([last |-> last, records |-> L])'
      BY <1>2, <1>3, <3>1 DEF Fresh
    <3>3. TaskFine([pc |-> "send", bundle |-> [last |-> last, records |-> L]])'
      BY <3>2 DEF TaskFine
    <3> QED BY <1>1, <1>5, <2>1, <2>3, <3>3 DEF CompileLatest, Last
  <2> QED BY <2>2, <2>3
<1> QED BY <1>4, <1>5

LEMMA PushTasks ==
  ASSUME PacedInv, Forward, Push
  PROVE  TasksFine'
<1>1. ASSUME NEW t \in Tasks, NEW r, Become(t, r), TaskFine(r)', tasks[t] # IdleTask,
             r.pc \notin {"version", "sequence", "commit", "lookup"}
      PROVE  TasksFine'
  <2>1. \A u \in Tasks : u # t => tasks[u] = IdleTask
    BY <1>1 DEF PacedInv, TasksFine
  <2> QED BY <1>1, <2>1, TasksFineOne
<1>2. ASSUME NEW t \in Tasks, Lookup(t)
      PROVE  TasksFine'
  <2>1. tasks[t] # IdleTask
    BY <1>2 DEF Lookup, IdleTask
  <2> QED BY <1>1, <1>2, <2>1, LookupFine
<1>3. ASSUME NEW t \in Tasks, CompileDelta(t)
      PROVE  TasksFine'
  <2>1. tasks[t] # IdleTask
    BY <1>3 DEF CompileDelta, IdleTask
  <2> QED BY <1>1, <1>3, <2>1, CompileDeltaFine
<1>4. ASSUME NEW t \in Tasks, CompileList(t) \/ CompileLatest(t)
      PROVE  TasksFine'
  <2>1. tasks[t] # IdleTask
    BY <1>4 DEF CompileList, CompileLatest, IdleTask
  <2> QED BY <1>1, <1>4, <2>1, CompileSnapshotFine
<1>5. ASSUME NEW t \in Tasks, SendBundle(t)
      PROVE  TasksFine'
  <2>1. tasks[t] # IdleTask /\ Become(t, IdleTask)
    BY <1>5 DEF SendBundle, IdleTask
  <2>2. TaskFine(IdleTask)'
    BY DEF TaskFine, IdleTask
  <2>3. IdleTask.pc = "idle"
    BY DEF IdleTask
  <2> QED BY <1>1, <2>1, <2>2, <2>3
<1>6. ASSUME NEW t \in Tasks, HandleHello(t)
      PROVE  TasksFine'
  <2>1. PICK base : base = hello
    OBVIOUS
  <2>2. Last' = Last /\ checkpoint' = checkpoint /\ GetLatestPolicySequence = Last
    BY <1>6, SameLog DEF Forward, HandleHello, boltVars, Last
  <2>3. (\A u \in Tasks : tasks[u] = IdleTask) /\ checkpoint \in {base, Last}
    BY <1>6, <2>1 DEF HandleHello, PacedInv, StreamFine, TasksIdle
  <2>4. CASE base = 0
    <3>1. TaskFine([pc |-> "list"])'
      BY <2>2, <2>3, <2>4 DEF TaskFine
    <3>2. Become(t, [pc |-> "list"])
      BY <1>6, <2>1, <2>4 DEF HandleHello
    <3> QED BY <2>3, <3>1, <3>2, TasksFineOne
  <2>5. CASE base # 0 /\ base < Last
    <3>1. TaskFine([pc |-> "delta", since |-> base, reconnect |-> TRUE])'
      BY <2>2, <2>3, <2>5 DEF TaskFine
    <3>2. Become(t, [pc |-> "delta", since |-> base, reconnect |-> TRUE])
      BY <1>6, <2>1, <2>2, <2>5 DEF HandleHello
    <3> QED BY <2>3, <3>1, <3>2, TasksFineOne
  <2>6. CASE base # 0 /\ ~ (base < Last)
    <3>1. tasks' = tasks
      BY <1>6, <2>1, <2>2, <2>6 DEF HandleHello
    <3> QED BY <2>3, <3>1 DEF TasksFine, TaskFine, Waiting, IdleTask
  <2> QED BY <2>4, <2>5, <2>6
<1> QED BY <1>2, <1>3, <1>4, <1>5, <1>6 DEF Push

LEMMA TasksFineStep ==
  ASSUME Paced, PacedInv, Next, ~ \E t \in Tasks : Commit(t)
  PROVE  TasksFine'
<1>0. Forward
  BY StoreExactStep
<1>1. CASE Push
  BY <1>0, <1>1, PushTasks
<1>2. ASSUME NEW t \in Tasks,
             \/ \E kind \in Requests, p \in Policies : Begin(t, kind, p)
             \/ ReadVersion(t) \/ ReadSequence(t)
      PROVE  TasksFine'
  BY <1>0, <1>2, BeginTasks, ReadTasks
<1>3. ASSUME \A t \in Tasks : tasks'[t] = tasks[t] \/ tasks'[t] = IdleTask
      PROVE  TasksFine'
  <2>1. ASSUME NEW t \in Tasks, tasks[t].pc = "lookup" PROVE checkpoint' = checkpoint
    <3>1. HandlersIdle
      BY <2>1 DEF PacedInv, TasksFine, Waiting, Quiet
    <3>2. \A h \in Handlers : handlers[h].pc = "idle"
      BY <3>1 DEF HandlersIdle, IdleHandler
    <3>3. ~ \E h \in Handlers : ApplyDelta(h)
      BY <3>2 DEF ApplyDelta
    <3> QED BY <1>0, <3>3 DEF Forward
  <2>2. \A t \in Tasks : TaskFine(tasks[t])'
    <3> SUFFICES ASSUME NEW t \in Tasks PROVE TaskFine(tasks[t])'
      OBVIOUS
    <3>1. PICK r : r = tasks[t]
      OBVIOUS
    <3>2. TaskFine(r)' /\ TaskFine(IdleTask)'
      <4>1. TaskFine(r)'
        BY <1>0, <2>1, <3>1, FreshKept DEF PacedInv, TasksFine
      <4> QED BY <4>1 DEF TaskFine, IdleTask
    <3>3. tasks'[t] = r \/ tasks'[t] = IdleTask
      BY <1>3, <3>1
    <3> QED BY <3>2, <3>3 DEF TaskFine, Fresh, CaughtUp
  <2>3. \A t \in Tasks : Waiting(t)' => Quiet'
    BY <1>3, QuietKept DEF Waiting, IdleTask
  <2>4. \A t, u \in Tasks : tasks'[t] # IdleTask /\ tasks'[u] # IdleTask => t = u
    BY <1>3 DEF PacedInv, TasksFine
  <2> QED BY <2>2, <2>3, <2>4 DEF TasksFine
<1>4. CASE Gateway
  BY <1>3, <1>4 DEF Gateway, OpenStream, PolicyAck, Receive, ReadCheckpoint, ApplyDelta,
     LoadAllRecords, SwapIndex, QueueAck
<1>5. CASE Break \/ GatewayRestart \/ ControlPlaneRestart
  BY <1>3, <1>5 DEF Break, GatewayRestart, ControlPlaneRestart
<1> QED BY <1>1, <1>2, <1>4, <1>5, PacedNext

LEMMA HandlersFineStep ==
  ASSUME Paced, PacedInv, Next, ~ \E t \in Tasks : Commit(t)
  PROVE  HandlersFine'
<1>0. Forward /\ Last' = Last
  BY StoreExactStep, SameLog DEF Forward
<1>1. checkpoint = Last => UNCHANGED <<store, checkpoint>>
  BY BoltFrame, ApplyOutcome
<1>2. ASSUME NEW r, HandlerFine(r)
      PROVE  HandlerFine(r)'
  <2>1. r.pc \in {"read", "apply"} => Fresh(r.bundle)'
    BY <1>0, <1>2, FreshKept DEF HandlerFine
  <2> QED BY <1>0, <1>1, <1>2, <2>1 DEF HandlerFine, Stored
<1>3. ASSUME NEW h \in Handlers, NEW r, Turn(h, r), HandlerFine(r)'
      PROVE  HandlersFine'
  <2> SUFFICES ASSUME NEW g \in Handlers PROVE HandlerFine(handlers[g])'
    BY DEF HandlersFine
  <2>1. PICK s : s = handlers[g]
    OBVIOUS
  <2>2. HandlerFine(s)'
    BY <1>2, <2>1 DEF PacedInv, HandlersFine
  <2>3. handlers'[g] = r \/ handlers'[g] = s
    BY <1>3, <2>1, TurnOne DEF PacedInv, LogInv, TypeInv
  <2> QED BY <1>3, <2>2, <2>3 DEF HandlerFine, Fresh, CaughtUp, Stored
<1>4. HandlerFine(IdleHandler)'
  BY DEF HandlerFine, IdleHandler
<1>5. ASSUME NEW h \in Handlers, Receive(h)
      PROVE  HandlersFine'
  <2>1. PICK b : b = Head(down)
    OBVIOUS
  <2>2. Fresh(b)
    <3>1. down \in Seq(Bundles) /\ down # <<>>
      BY <1>5 DEF Receive, PacedInv, LogInv, TypeInv, TypeOK
    <3>2. 1 \in 1..Len(down) /\ Head(down) = down[1]
      BY <3>1
    <3> QED BY <2>1, <3>2 DEF PacedInv, StreamFine
  <2>3. HandlerFine([pc |-> "read", bundle |-> b])'
    BY <1>0, <2>2, FreshKept DEF HandlerFine
  <2> QED BY <1>3, <1>5, <2>1, <2>3 DEF Receive
<1>6. ASSUME NEW h \in Handlers, ReadCheckpoint(h)
      PROVE  HandlersFine'
  <2>1. PICK b, n : b = handlers[h].bundle /\ n = checkpoint
    OBVIOUS
  <2>2. Fresh(b) /\ b.last \in Nat /\ n \in Nat /\ Last \in Nat /\ n <= Last /\ checkpoint' = n
    <3>1. handlers[h].pc = "read" /\ checkpoint' = n
      BY <1>6, <2>1 DEF ReadCheckpoint, boltVars
    <3>2. Fresh(b)
      BY <2>1, <3>1 DEF PacedInv, HandlersFine, HandlerFine
    <3>3. b.last \in Nat
      BY <2>1, <3>1, HandlerFields, PolicyAssumption DEF PacedInv, LogInv, TypeInv, TypeOK, Bundles
    <3>4. n \in Nat /\ Last \in Nat /\ n <= Last
      BY <2>1, LastIs, PolicyAssumption DEF PacedInv, StoreExact, LogInv, TypeInv, TypeOK
    <3> QED BY <3>1, <3>2, <3>3, <3>4
  <2>3. CASE b.last > n
    <3>1. HandlerFine([pc |-> "apply", bundle |-> b])'
      BY <1>0, <2>2, FreshKept DEF HandlerFine
    <3> QED BY <1>3, <1>6, <2>1, <2>3, <3>1 DEF ReadCheckpoint
  <2>4. CASE ~ (b.last > n)
    <3>1. n > 0 => n = Last
      BY <2>1, <2>2, <2>4 DEF Fresh, CaughtUp
    <3>2. n = 0 => b.last = 0
      BY <2>2, <2>4
    <3>3. PICK r : r = AckOf(IF n > 0 THEN n ELSE b.last)
      OBVIOUS
    <3>4. HandlerFine(r)'
      BY <1>0, <2>2, <3>1, <3>2, <3>3 DEF HandlerFine, AckOf, IdleHandler
    <3>5. Turn(h, r)
      BY <1>6, <2>1, <2>4, <3>3 DEF ReadCheckpoint
    <3> QED BY <1>3, <3>4, <3>5
  <2> QED BY <2>3, <2>4
<1>7. ASSUME NEW h \in Handlers, ApplyDelta(h)
      PROVE  HandlersFine'
  <2>1. PICK n : n = Last
    OBVIOUS
  <2>2. CASE checkpoint' = Last /\ Turn(h, [pc |-> "load", last |-> Last])
    <3>1. HandlerFine([pc |-> "load", last |-> n])'
      BY <1>0, <2>1, <2>2 DEF HandlerFine
    <3> QED BY <1>3, <2>1, <2>2, <3>1
  <2> QED BY <1>3, <1>4, <1>7, <2>2, ApplyOutcome
<1>8. ASSUME NEW h \in Handlers, LoadAllRecords(h) \/ SwapIndex(h)
      PROVE  HandlersFine'
  <2>1. PICK n, s : n = handlers[h].last /\ s = Stored
    OBVIOUS
  <2>2. n = checkpoint /\ checkpoint' = n /\ n = Last' /\ Stored' = s
    BY <1>0, <1>8, <2>1 DEF LoadAllRecords, SwapIndex, PacedInv, HandlersFine, HandlerFine,
       boltVars, Stored
  <2>3. HandlerFine([pc |-> "swap", last |-> n, index |-> s])' /\ HandlerFine(AckOf(n))'
    BY <2>2 DEF HandlerFine, AckOf, IdleHandler
  <2> QED BY <1>3, <1>8, <2>1, <2>3 DEF LoadAllRecords, SwapIndex, Stored
<1>9. ASSUME NEW h \in Handlers, QueueAck(h) \/ AckDropped(h)
      PROVE  HandlersFine'
  BY <1>3, <1>4, <1>9 DEF QueueAck, AckDropped
<1>10. CASE GatewayRestart
  BY <1>10 DEF GatewayRestart, HandlersFine, HandlerFine, IdleHandler
<1>11. CASE UNCHANGED handlers
  <2> SUFFICES ASSUME NEW g \in Handlers PROVE HandlerFine(handlers[g])'
    BY DEF HandlersFine
  <2>1. PICK s : s = handlers[g]
    OBVIOUS
  <2>2. HandlerFine(s)' /\ handlers'[g] = s
    BY <1>2, <1>11, <2>1 DEF PacedInv, HandlersFine
  <2> QED BY <2>2 DEF HandlerFine, Fresh, CaughtUp, Stored
<1> QED BY <1>5, <1>6, <1>7, <1>8, <1>9, <1>10, <1>11, HandlersFrame

(* A pushing goroutine has a stream, and a Hello waits for no goroutine.   *)
LEMMA TasksAlone ==
  ASSUME Paced, PacedInv, Next, ~ \E t \in Tasks : Commit(t)
  PROVE  /\ hello # None => tasks' = tasks \/ hello' = None
         /\ ~ alive => \A t \in Tasks : ~ Pushing(t)'
<1>1. ASSUME hello # None
      PROVE  tasks' = tasks \/ hello' = None
  <2>1. \A t \in Tasks : tasks[t].pc = "idle"
    BY <1>1 DEF PacedInv, StreamFine, TasksIdle, IdleTask
  <2>2. CASE \E t \in Tasks : HandleHello(t)
    BY <2>2 DEF HandleHello
  <2>3. ~ \E t \in Tasks : \/ \E kind \in Requests, p \in Policies : Begin(t, kind, p)
                           \/ ReadVersion(t) \/ ReadSequence(t)
                           \/ Lookup(t) \/ CompileDelta(t) \/ CompileList(t)
                           \/ CompileLatest(t) \/ SendBundle(t)
    BY <1>1, <2>1 DEF Begin, Paced, Settled, ReadVersion, ReadSequence, Lookup, CompileDelta,
       CompileList, CompileLatest, SendBundle
  <2>4. CASE Gateway
    BY <2>4 DEF Gateway, OpenStream, PolicyAck, Receive, ReadCheckpoint, ApplyDelta,
       LoadAllRecords, SwapIndex, QueueAck
  <2>5. CASE Break \/ GatewayRestart \/ ControlPlaneRestart
    BY <2>5 DEF Break, GatewayRestart, ControlPlaneRestart, LoseStream
  <2> QED BY <2>2, <2>3, <2>4, <2>5, PacedNext DEF Push
<1>2. ASSUME ~ alive
      PROVE  \A t \in Tasks : ~ Pushing(t)'
  <2>1. hello = None /\ \A t \in Tasks : ~ Pushing(t)
    BY <1>2 DEF PacedInv, StreamFine
  <2>2. ASSUME NEW t \in Tasks, NEW r, Become(t, r), r.pc \notin {"delta", "list", "latest", "send"}
        PROVE  \A u \in Tasks : ~ Pushing(u)'
    BY <2>1, <2>2, BecomeOne DEF PacedInv, LogInv, TypeInv, Pushing
  <2>3. ASSUME NEW t \in Tasks,
               \/ \E kind \in Requests, p \in Policies : Begin(t, kind, p)
               \/ ReadVersion(t) \/ ReadSequence(t)
        PROVE  \A u \in Tasks : ~ Pushing(u)'
    BY <2>2, <2>3 DEF Begin, ReadVersion, ReadSequence
  <2>4. ASSUME NEW t \in Tasks, Lookup(t)
        PROVE  \A u \in Tasks : ~ Pushing(u)'
    BY <1>2, <2>2, <2>4 DEF Lookup, IdleTask
  <2>5. ~ \E t \in Tasks : \/ CompileDelta(t) \/ CompileList(t) \/ CompileLatest(t)
                           \/ SendBundle(t) \/ HandleHello(t)
    BY <2>1 DEF CompileDelta, CompileList, CompileLatest, SendBundle, HandleHello, Pushing
  <2>6. CASE tasks' = tasks
    BY <2>1, <2>6 DEF Pushing
  <2>7. CASE Gateway
    BY <2>6, <2>7 DEF Gateway, OpenStream, PolicyAck, Receive, ReadCheckpoint, ApplyDelta,
       LoadAllRecords, SwapIndex, QueueAck
  <2>8. CASE Break \/ GatewayRestart \/ ControlPlaneRestart
    BY <2>1, <2>8 DEF Break, GatewayRestart, ControlPlaneRestart, Pushing, IdleTask
  <2> QED BY <2>3, <2>4, <2>5, <2>7, <2>8, PacedNext DEF Push
<1> QED BY <1>1, <1>2

LEMMA StreamFineStep ==
  ASSUME Paced, PacedInv, Next, ~ \E t \in Tasks : Commit(t)
  PROVE  StreamFine'
<1>0. Forward /\ Last' = Last /\ \A b : Fresh(b) => Fresh(b)'
  BY StoreExactStep, SameLog, FreshKept DEF Forward
<1>1. ASSUME hello' # None
      PROVE  TasksIdle' /\ (checkpoint' = hello' \/ checkpoint' = Last')
  <2>1. CASE OpenStream
    BY <2>1 DEF OpenStream, Paced, TasksIdle, boltVars
  <2>2. CASE hello' = hello
    <3>1. TasksIdle /\ checkpoint \in {hello, Last} /\ tasks' = tasks
      BY <1>1, <2>2, TasksAlone DEF PacedInv, StreamFine
    <3> QED BY <1>0, <2>2, <3>1 DEF TasksIdle, Forward
  <2>3. \/ OpenStream
        \/ hello' = hello
        \/ hello' = None
    BY StreamFrame DEF SendBundle, HandleHello, PolicyAck, Receive, QueueAck, Break,
       GatewayRestart, ControlPlaneRestart, LoseStream, RedisFails
  <2> QED BY <1>1, <2>1, <2>2, <2>3
<1>2. ASSUME ~ alive'
      PROVE  hello' = None /\ down' = <<>> /\ \A t \in Tasks : ~ Pushing(t)'
  <2>1. CASE Break \/ GatewayRestart \/ ControlPlaneRestart
    BY <2>1, BecomeOne DEF Break, GatewayRestart, ControlPlaneRestart, LoseStream, Pushing, IdleTask
  <2>2. CASE ~ alive /\ ~ (Break \/ GatewayRestart \/ ControlPlaneRestart)
    <3>1. hello = None /\ down = <<>> /\ \A t \in Tasks : ~ Pushing(t)
      BY <2>2 DEF PacedInv, StreamFine
    <3>2. ~ \E t \in Tasks : SendBundle(t) \/ HandleHello(t)
      BY <3>1 DEF SendBundle, HandleHello, Pushing
    <3>3. ~ OpenStream /\ ~ RedisFails /\ ~ PolicyAck /\ ~ \E h \in Handlers : Receive(h)
      BY <1>2, <2>2, <3>1 DEF OpenStream, RedisFails, Fault, Paced, PolicyAck, Receive
    <3>4. hello' = hello /\ down' = down
      BY <2>2, <3>2, <3>3, StreamFrame DEF QueueAck
    <3> QED BY <2>2, <3>1, <3>4, TasksAlone
  <2>3. \/ Break \/ GatewayRestart \/ ControlPlaneRestart
        \/ alive' = alive \/ alive'
    BY StreamFrame DEF SendBundle, HandleHello, OpenStream, PolicyAck, Receive, QueueAck, RedisFails
  <2> QED BY <1>2, <2>1, <2>2, <2>3
<1>3. \A i \in 1..Len(down') : Fresh(down[i])'
  <2>1. ASSUME \A i \in 1..Len(down') : \E b : down'[i] = b /\ Fresh(b)
        PROVE  \A i \in 1..Len(down') : Fresh(down[i])'
    BY <1>0, <2>1 DEF Fresh, CaughtUp
  <2>2. down \in Seq(Bundles) /\ \A i \in 1..Len(down) : Fresh(down[i])
    BY DEF PacedInv, StreamFine, LogInv, TypeInv, TypeOK
  <2>3. ASSUME NEW t \in Tasks, SendBundle(t)
        PROVE  \A i \in 1..Len(down') : \E b : down'[i] = b /\ Fresh(b)
    <3>1. Fresh(tasks[t].bundle) /\ tasks[t].bundle \in Bundles
      BY <2>3, TaskFields DEF SendBundle, PacedInv, TasksFine, TaskFine, LogInv, TypeInv, TypeOK
    <3>2. down' = Append(down, tasks[t].bundle)
      BY <2>3 DEF SendBundle
    <3>3. \A i \in 1..Len(down') : down'[i] = tasks[t].bundle \/ (i \in 1..Len(down) /\ down'[i] = down[i])
      BY <2>2, <3>1, <3>2
    <3> QED BY <2>2, <3>1, <3>3
  <2>4. ASSUME NEW h \in Handlers, Receive(h)
        PROVE  \A i \in 1..Len(down') : \E b : down'[i] = b /\ Fresh(b)
    <3>1. down' = Tail(down) /\ down # <<>>
      BY <2>4 DEF Receive
    <3>2. \A i \in 1..Len(down') : i + 1 \in 1..Len(down) /\ down'[i] = down[i+1]
      BY <2>2, <3>1
    <3> QED BY <2>2, <3>2
  <2>5. ASSUME down' = down
        PROVE  \A i \in 1..Len(down') : \E b : down'[i] = b /\ Fresh(b)
    BY <2>2, <2>5
  <2>6. ASSUME down' = <<>>
        PROVE  \A i \in 1..Len(down') : \E b : down'[i] = b /\ Fresh(b)
    BY <2>6
  <2>7. \/ \E t \in Tasks : SendBundle(t)
        \/ \E h \in Handlers : Receive(h)
        \/ down' = down
        \/ down' = <<>>
    BY StreamFrame DEF HandleHello, OpenStream, PolicyAck, QueueAck, Break, GatewayRestart,
       ControlPlaneRestart, LoseStream, RedisFails
  <2>8. \A i \in 1..Len(down') : \E b : down'[i] = b /\ Fresh(b)
    BY <2>3, <2>4, <2>5, <2>6, <2>7
  <2> QED BY <2>1, <2>8
<1> QED BY <1>1, <1>2, <1>3 DEF StreamFine

LEMMA TurningKept ==
  ASSUME PacedInv, Next, ~ \E h \in Handlers : QueueAck(h) \/ AckDropped(h), ~ GatewayRestart
  PROVE  Turning => Turning'
<1> SUFFICES ASSUME NEW g \in Handlers, Turned(g) PROVE Turned(g)'
  BY DEF Turning
<1>1. handlers[g].pc \in {"load", "swap", "ack"} /\ (handlers[g].last > 0)
  BY HandlerFields, PolicyAssumption DEF Turned, PacedInv, LogInv, TypeInv, TypeOK, Seqs
<1>2. ASSUME NEW h \in Handlers, NEW r, Turn(h, r), h = g => r.pc \in {"load", "swap", "ack"}
      PROVE  Turned(g)'
  BY <1>1, <1>2, TurnOne DEF Turned, PacedInv, LogInv, TypeInv
<1>3. ASSUME NEW h \in Handlers, Receive(h) \/ ReadCheckpoint(h) \/ ApplyDelta(h)
      PROVE  Turned(g)'
  <2>1. h # g
    BY <1>1, <1>3 DEF Receive, ReadCheckpoint, ApplyDelta, IdleHandler
  <2> QED BY <1>2, <1>3, <2>1 DEF Receive, ReadCheckpoint, ApplyDelta
<1>4. ASSUME NEW h \in Handlers, LoadAllRecords(h) \/ SwapIndex(h)
      PROVE  Turned(g)'
  BY <1>1, <1>2, <1>4 DEF LoadAllRecords, SwapIndex, AckOf
<1>5. CASE UNCHANGED handlers
  BY <1>5 DEF Turned
<1> QED BY <1>3, <1>4, <1>5, HandlersFrame

LEMMA AcksFineStep ==
  ASSUME Paced, PacedInv, Next, ~ \E t \in Tasks : Commit(t)
  PROVE  AcksFine'
<1>0. /\ AcksFine /\ up \in Seq(Seqs) /\ checkpoint \in Nat /\ acked \in Nat
      /\ reached = checkpoint /\ acked <= checkpoint /\ hello <= checkpoint
  BY PolicyAssumption DEF PacedInv, LogInv, TypeInv, TypeOK, StoreExact, NumbersReached
<1>1. ASSUME Turning => Turning', checkpoint' = checkpoint \/ Turning',
             UNCHANGED <<acked, alive, hello, up>>
      PROVE  AcksFine'
  BY <1>0, <1>1 DEF AcksFine
<1>2. checkpoint' = checkpoint \/ Turning'
  <2>1. ASSUME NEW h \in Handlers, ApplyDelta(h)
        PROVE  checkpoint' = checkpoint \/ Turning'
    <3>1. ASSUME Turn(h, [pc |-> "load", last |-> Last])
          PROVE  Turning'
      <4>1. handlers'[h].pc = "load"
        BY <3>1, TurnOne DEF PacedInv, LogInv, TypeInv
      <4> QED BY <4>1 DEF Turning, Turned
    <3> QED BY <2>1, <3>1, ApplyOutcome
  <2> QED BY <2>1, BoltFrame
<1>3. CASE UNCHANGED <<acked, alive, hello, down, up>>
  <2>1. ~ GatewayRestart \/ ~ alive
    BY <1>3 DEF GatewayRestart
  <2>2. ~ \E h \in Handlers : QueueAck(h) \/ AckDropped(h)
    <3>1. ASSUME NEW h \in Handlers, QueueAck(h) PROVE FALSE
      <4>1. up' = Append(up, handlers[h].last)
        BY <3>1 DEF QueueAck
      <4> QED BY <1>0, <1>3, <4>1
    <3> QED BY <3>1 DEF AckDropped, Fault, Paced
  <2>3. CASE ~ GatewayRestart
    BY <1>1, <1>2, <1>3, <2>2, <2>3, TurningKept
  <2>4. CASE GatewayRestart
    BY <2>4 DEF GatewayRestart, AcksFine
  <2> QED BY <2>3, <2>4
<1>4. ASSUME \/ \E t \in Tasks : SendBundle(t)
             \/ \E h \in Handlers : Receive(h)
      PROVE  AcksFine'
  <2>1. UNCHANGED <<acked, alive, hello, up>>
    BY <1>4 DEF SendBundle, Receive
  <2>2. Turning => Turning'
    <3>1. CASE UNCHANGED handlers
      BY <3>1 DEF Turning, Turned
    <3>2. ASSUME NEW h \in Handlers, Receive(h) PROVE Turning => Turning'
      <4>1. \A g \in Handlers : Turned(g) => Turned(g)'
        BY <3>2, TurnOne DEF Receive, Turned, IdleHandler, PacedInv, LogInv, TypeInv
      <4> QED BY <4>1 DEF Turning
    <3> QED BY <1>4, <3>1, <3>2 DEF SendBundle
  <2> QED BY <1>1, <1>2, <2>1, <2>2
<1>5. ASSUME NEW t \in Tasks, HandleHello(t)
      PROVE  AcksFine'
  <2>1. /\ hello # None /\ hello' = None /\ acked' = IF hello > 0 THEN hello ELSE acked
        /\ UNCHANGED <<alive, up, checkpoint, handlers>>
    BY <1>5 DEF HandleHello, boltVars
  <2>2. hello = checkpoint \/ Turning \/ up # <<>>
    BY <1>0, <2>1 DEF AcksFine
  <2>3. hello = checkpoint => acked' = checkpoint
    BY <1>0, <2>1
  <2> QED BY <1>0, <2>1, <2>2, <2>3 DEF AcksFine, Turning, Turned
<1>6. CASE OpenStream
  <2>1. hello' = checkpoint /\ UNCHANGED <<up, checkpoint, handlers>> /\ checkpoint # None
    BY <1>0, <1>6 DEF OpenStream, boltVars, None
  <2> QED BY <1>0, <2>1 DEF AcksFine, Turning, Turned
<1>7. CASE PolicyAck
  <2>1. /\ hello = None /\ up # <<>> /\ acked' = Head(up) /\ up' = Tail(up)
        /\ UNCHANGED <<alive, hello, checkpoint, handlers>>
    BY <1>7 DEF PolicyAck, boltVars
  <2>2. CASE Turning
    BY <2>1, <2>2 DEF AcksFine, Turning, Turned
  <2>3. CASE ~ Turning
    <3>1. up[Len(up)] = checkpoint
      BY <1>0, <2>1, <2>3 DEF AcksFine
    <3>2. up' # <<>> => up'[Len(up')] = up[Len(up)]
      BY <1>0, <2>1
    <3>3. up' = <<>> => acked' = up[Len(up)]
      <4>1. ASSUME up' = <<>> PROVE Len(up) = 1
        <5>1. Len(up') = Len(up) - 1
          BY <1>0, <2>1
        <5>2. Len(up') = 0
          BY <4>1
        <5>3. Len(up) \in Nat
          BY <1>0
        <5> QED BY <5>1, <5>2, <5>3
      <4>2. Head(up) = up[1]
        BY <1>0, <2>1
      <4> QED BY <2>1, <4>1, <4>2
    <3> QED BY <2>1, <3>1, <3>2, <3>3 DEF AcksFine
  <2> QED BY <2>2, <2>3
<1>8. ASSUME NEW h \in Handlers, QueueAck(h)
      PROVE  AcksFine'
  <2>1. /\ up' = Append(up, handlers[h].last) /\ handlers[h].pc = "ack"
        /\ UNCHANGED <<alive, hello, acked, checkpoint>>
    BY <1>8 DEF QueueAck, boltVars
  <2>2. handlers[h].last = checkpoint /\ handlers[h].last \in Seqs
    BY <2>1, HandlerFields DEF PacedInv, HandlersFine, HandlerFine, LogInv, TypeInv, TypeOK
  <2>3. up' # <<>> /\ up'[Len(up')] = checkpoint
    BY <1>0, <2>1, <2>2
  <2> QED BY <2>1, <2>3 DEF AcksFine
<1>9. CASE GatewayRestart
  BY <1>9 DEF GatewayRestart, AcksFine
<1>10. CASE Break \/ ControlPlaneRestart
  <2>1. /\ alive' = FALSE /\ hello' = None /\ UNCHANGED <<checkpoint, handlers>>
        /\ \E n \in 0..Len(up) : up' = SubSeq(up, n + 1, Len(up))
    BY <1>10 DEF Break, ControlPlaneRestart, LoseStream, boltVars
  <2>2. PICK n \in 0..Len(up) : up' = SubSeq(up, n + 1, Len(up))
    BY <2>1
  <2>3. Len(up') = Len(up) - n /\ \A i \in 1..(Len(up) - n) : up'[i] = up[n + i]
    BY <1>0, <2>2, SuffixIs
  <2>4. ASSUME up' # <<>> PROVE up # <<>> /\ up'[Len(up')] = up[Len(up)]
    <3>1. Len(up') > 0
      <4>1. up' \in Seq(Seqs)
        BY <1>0, <2>2
      <4> QED BY <2>4, <4>1
    <3> QED BY <1>0, <2>3, <3>1
  <2> QED BY <1>0, <2>1, <2>4 DEF AcksFine, Turning, Turned
<1>11. ~ RedisFails
  BY DEF RedisFails, Fault, Paced
<1> QED BY <1>3, <1>4, <1>5, <1>6, <1>7, <1>8, <1>9, <1>10, <1>11, StreamFrame

LEMMA UnderwayStep ==
  ASSUME Paced, PacedInv, Next, ~ \E t \in Tasks : Commit(t)
  PROVE  Underway'
<1> SUFFICES ASSUME alive'
             PROVE  \/ CaughtUp' \/ hello' # None \/ ~ TasksIdle' \/ down' # <<>>
                    \/ \E h \in Handlers : Fetching(h)'
  BY DEF Underway
<1>0. Forward /\ (CaughtUp => CaughtUp')
  BY StoreExactStep, FreshKept
<1>1. ~ Break /\ ~ GatewayRestart /\ ~ ControlPlaneRestart
  BY DEF Break, GatewayRestart, ControlPlaneRestart, LoseStream
<1>2. CASE OpenStream
  <2>1. checkpoint \in Nat
    BY PolicyAssumption DEF PacedInv, LogInv, TypeInv, TypeOK
  <2> QED BY <1>2, <2>1 DEF OpenStream, None
<1>3. CASE ~ OpenStream
  <2>0. alive
    BY <1>1, <1>3, StreamFrame DEF SendBundle, HandleHello, PolicyAck, Receive, QueueAck, RedisFails
  <2>1. ASSUME hello # None
        PROVE  CaughtUp' \/ hello' # None \/ ~ TasksIdle'
    <3>1. ASSUME NEW t \in Tasks, HandleHello(t)
          PROVE  CaughtUp' \/ ~ TasksIdle'
      <4>1. CASE hello = 0 \/ hello < Last
        <5>1. PICK r : Become(t, r) /\ r.pc \in {"list", "delta"}
          BY <3>1, <4>1 DEF HandleHello, Last
        <5>2. tasks'[t] = r /\ r # IdleTask
          BY <5>1, BecomeOne DEF PacedInv, LogInv, TypeInv, IdleTask
        <5> QED BY <5>2 DEF TasksIdle
      <4>2. CASE ~ (hello = 0 \/ hello < Last)
        <5>1. /\ checkpoint \in {hello, Last} /\ hello \in Int /\ Last \in Nat
              /\ checkpoint <= Last
          BY <2>1, LastIs, PolicyAssumption
             DEF PacedInv, StreamFine, StoreExact, LogInv, TypeInv, TypeOK, None
        <5>2. CaughtUp
          BY <4>2, <5>1 DEF CaughtUp
        <5> QED BY <1>0, <5>2
      <4> QED BY <4>1, <4>2
    <3>2. \/ \E t \in Tasks : HandleHello(t)
          \/ hello' = hello
      BY <1>1, <1>3, StreamFrame DEF SendBundle, PolicyAck, Receive, QueueAck, RedisFails
    <3> QED BY <2>1, <3>1, <3>2
  <2>2. ASSUME NEW t \in Tasks, tasks[t] # IdleTask
        PROVE  ~ TasksIdle' \/ down' # <<>>
    <3>1. ASSUME NEW u \in Tasks, NEW r, Become(u, r), r # IdleTask
          PROVE  ~ TasksIdle'
      BY <3>1, BecomeOne DEF PacedInv, LogInv, TypeInv, TasksIdle
    <3>2. CASE UNCHANGED tasks
      BY <2>2, <3>2 DEF TasksIdle
    <3>3. ASSUME NEW u \in Tasks,
                 \/ \E kind \in Requests, p \in Policies : Begin(u, kind, p)
                 \/ ReadVersion(u) \/ ReadSequence(u)
          PROVE  ~ TasksIdle'
      BY <3>1, <3>3 DEF Begin, ReadVersion, ReadSequence, IdleTask
    <3>4. ASSUME NEW u \in Tasks, Lookup(u) \/ CompileDelta(u) \/ CompileList(u) \/ CompileLatest(u)
          PROVE  ~ TasksIdle'
      BY <2>0, <3>1, <3>4 DEF Lookup, CompileDelta, CompileList, CompileLatest, IdleTask
    <3>5. ASSUME NEW u \in Tasks, SendBundle(u)
          PROVE  down' # <<>>
      <4>1. down \in Seq(Bundles) /\ tasks[u].bundle \in Bundles /\ down' = Append(down, tasks[u].bundle)
        BY <3>5, TaskFields DEF SendBundle, PacedInv, LogInv, TypeInv, TypeOK
      <4>2. Len(down') = Len(down) + 1 /\ Len(down) \in Nat
        BY <4>1
      <4> QED BY <4>2
    <3>6. ~ \E u \in Tasks : HandleHello(u)
      BY <2>2 DEF HandleHello, PacedInv, StreamFine, TasksIdle
    <3>7. CASE Gateway
      BY <3>2, <3>7 DEF Gateway, OpenStream, PolicyAck, Receive, ReadCheckpoint, ApplyDelta,
         LoadAllRecords, SwapIndex, QueueAck
    <3> QED BY <1>1, <3>3, <3>4, <3>5, <3>6, <3>7, PacedNext DEF Push
  <2>3. ASSUME down # <<>>
        PROVE  down' # <<>> \/ \E h \in Handlers : Fetching(h)'
    <3>1. ASSUME NEW t \in Tasks, SendBundle(t)
          PROVE  down' # <<>>
      <4>1. down \in Seq(Bundles) /\ down' = Append(down, tasks[t].bundle) /\ tasks[t].bundle \in Bundles
        BY <3>1, TaskFields DEF SendBundle, PacedInv, LogInv, TypeInv, TypeOK
      <4>2. Len(down') = Len(down) + 1 /\ Len(down) \in Nat
        BY <4>1
      <4> QED BY <4>2
    <3>2. ASSUME NEW h \in Handlers, Receive(h)
          PROVE  Fetching(h)'
      BY <3>2, TurnOne DEF Receive, Fetching, PacedInv, LogInv, TypeInv
    <3>3. \/ \E t \in Tasks : SendBundle(t)
          \/ \E h \in Handlers : Receive(h)
          \/ down' = down
      BY <1>1, StreamFrame DEF HandleHello, OpenStream, PolicyAck, QueueAck, RedisFails
    <3> QED BY <2>3, <3>1, <3>2, <3>3
  <2>4. ASSUME NEW h \in Handlers, Fetching(h)
        PROVE  CaughtUp' \/ Fetching(h)'
    <3>1. ASSUME NEW g \in Handlers, NEW r, Turn(g, r), g # h \/ r.pc \in {"read", "apply"}
          PROVE  Fetching(h)'
      BY <2>4, <3>1, TurnOne DEF Fetching, PacedInv, LogInv, TypeInv
    <3>2. CASE ReadCheckpoint(h)
      <4>1. CASE handlers[h].bundle.last > checkpoint
        BY <3>1, <3>2, <4>1 DEF ReadCheckpoint
      <4>2. CASE ~ (handlers[h].bundle.last > checkpoint)
        <5>1. Fresh(handlers[h].bundle) /\ checkpoint <= Last /\ checkpoint \in Nat /\ Last \in Nat
          BY <2>4, LastIs, PolicyAssumption
             DEF Fetching, PacedInv, HandlersFine, HandlerFine, StoreExact, LogInv, TypeInv, TypeOK
        <5>2. CaughtUp
          BY <4>2, <5>1 DEF Fresh, CaughtUp
        <5> QED BY <1>0, <5>2
      <4> QED BY <4>1, <4>2
    <3>3. CASE ApplyDelta(h)
      <4>1. checkpoint' = Last /\ Last' = Last
        BY <3>3, ApplyOutcome, SameLog
      <4> QED BY <4>1 DEF CaughtUp
    <3>4. ASSUME NEW g \in Handlers,
                 \/ Receive(g) \/ ReadCheckpoint(g) \/ ApplyDelta(g)
                 \/ LoadAllRecords(g) \/ SwapIndex(g) \/ QueueAck(g) \/ AckDropped(g),
                 ~ ReadCheckpoint(h), ~ ApplyDelta(h)
          PROVE  Fetching(h)'
      <4>1. g # h
        <5>1. Receive(g) => handlers[g].pc = "idle"
          BY DEF Receive, IdleHandler
        <5>2. LoadAllRecords(g) \/ SwapIndex(g) \/ QueueAck(g) \/ AckDropped(g) =>
                handlers[g].pc \in {"load", "swap", "ack"}
          BY DEF LoadAllRecords, SwapIndex, QueueAck, AckDropped
        <5>3. handlers[h].pc \in {"read", "apply"}
          BY <2>4 DEF Fetching
        <5>4. CASE ReadCheckpoint(g) \/ ApplyDelta(g)
          BY <3>4, <5>4
        <5>5. CASE ~ (ReadCheckpoint(g) \/ ApplyDelta(g))
          BY <3>4, <5>1, <5>2, <5>3, <5>5
        <5> QED BY <5>4, <5>5
      <4>2. \E r : Turn(g, r)
        BY <3>4 DEF Receive, ReadCheckpoint, ApplyDelta, LoadAllRecords, SwapIndex, QueueAck, AckDropped
      <4> QED BY <3>1, <4>1, <4>2
    <3>5. CASE UNCHANGED handlers
      BY <2>4, <3>5 DEF Fetching
    <3> QED BY <1>1, <3>2, <3>3, <3>4, <3>5, HandlersFrame
  <2>5. CaughtUp \/ hello # None \/ ~ TasksIdle \/ down # <<>> \/ \E h \in Handlers : Fetching(h)
    BY <2>0 DEF PacedInv, Underway
  <2>6. ~ TasksIdle => \E t \in Tasks : tasks[t] # IdleTask
    BY DEF TasksIdle
  <2> QED BY <1>0, <2>1, <2>2, <2>3, <2>4, <2>5, <2>6
<1> QED BY <1>2, <1>3

LEMMA EngineExactStep ==
  ASSUME PacedInv, Next
  PROVE  EngineExact'
<1>0. EngineExact /\ \A h \in Handlers : HandlerFine(handlers[h])
  BY DEF PacedInv, HandlersFine
<1>1. ASSUME NEW h \in Handlers, ApplyDelta(h)
      PROVE  EngineExact'
  <2>1. engine' = engine /\ handlers[h].pc = "apply"
    BY <1>1 DEF ApplyDelta
  <2>2. ASSUME Turn(h, [pc |-> "load", last |-> Last])
        PROVE  EngineExact'
    <3>1. handlers'[h].pc = "load"
      BY <2>2, TurnOne DEF PacedInv, LogInv, TypeInv
    <3> QED BY <3>1 DEF EngineExact
  <2>3. ASSUME store' = store, Turn(h, IdleHandler)
        PROVE  EngineExact'
    <3>1. \A g \in Handlers : handlers[g].pc \in {"load", "swap"} => handlers'[g] = handlers[g]
      BY <2>1, <2>3, TurnOne DEF PacedInv, LogInv, TypeInv
    <3> QED BY <1>0, <2>1, <2>3, <3>1 DEF EngineExact, Stored
  <2> QED BY <1>1, <2>2, <2>3, ApplyOutcome
<1>2. ASSUME NEW h \in Handlers, SwapIndex(h)
      PROVE  EngineExact'
  BY <1>0, <1>2 DEF SwapIndex, HandlerFine, EngineExact, Stored, boltVars
<1>3. CASE GatewayRestart
  BY <1>3 DEF GatewayRestart, EngineExact, Stored, boltVars
<1>4. ASSUME NEW h \in Handlers, LoadAllRecords(h)
      PROVE  EngineExact'
  <2>1. handlers'[h].pc = "swap"
    BY <1>4, TurnOne DEF LoadAllRecords, PacedInv, LogInv, TypeInv
  <2> QED BY <2>1 DEF EngineExact
<1>5. ASSUME NEW h \in Handlers, Receive(h) \/ ReadCheckpoint(h) \/ QueueAck(h) \/ AckDropped(h)
      PROVE  EngineExact'
  <2>1. UNCHANGED <<store, engine>> /\ handlers[h].pc \notin {"load", "swap"}
    BY <1>5 DEF Receive, ReadCheckpoint, QueueAck, AckDropped, boltVars, IdleHandler
  <2>2. PICK r : Turn(h, r)
    BY <1>5 DEF Receive, ReadCheckpoint, QueueAck, AckDropped
  <2>3. \A g \in Handlers : handlers[g].pc \in {"load", "swap"} => handlers'[g] = handlers[g]
    BY <2>1, <2>2, TurnOne DEF PacedInv, LogInv, TypeInv
  <2> QED BY <1>0, <2>1, <2>3 DEF EngineExact, Stored
<1>6. CASE UNCHANGED handlers
  <2>1. CASE UNCHANGED <<engine, store>>
    BY <1>0, <1>6, <2>1 DEF EngineExact, Stored
  <2> QED BY <1>1, <1>2, <1>3, <2>1, BoltFrame, EngineFrame
<1> QED BY <1>1, <1>2, <1>3, <1>4, <1>5, <1>6, HandlersFrame

LEMMA PacedStep == Paced /\ PacedInv /\ [Next]_vars => PacedInv'
<1> SUFFICES ASSUME Paced, PacedInv, [Next]_vars PROVE PacedInv'
  OBVIOUS
<1>0. TypeInv' /\ NumbersReached'
  BY TypeStep, NumbersStep DEF PacedInv, LogInv
<1>1. ASSUME NEW t \in Tasks, Commit(t)
      PROVE  PacedInv'
  BY <1>0, <1>1, CommitStep DEF PacedInv, LogInv
<1>2. CASE Next /\ ~ \E t \in Tasks : Commit(t)
  <2>1. LogOrdered' /\ RowsExact'
    <3>1. UNCHANGED <<mutations, rows>>
      BY <1>2, LogFrame
    <3> QED BY <3>1 DEF PacedInv, LogInv, LogOrdered, RowsExact, Newest, Of
  <2> QED BY <1>0, <1>2, <2>1, StoreExactStep, TasksFineStep, HandlersFineStep, StreamFineStep,
             AcksFineStep, UnderwayStep, EngineExactStep DEF PacedInv, LogInv
<1>3. CASE UNCHANGED vars
  <2>1. UNCHANGED <<mutations, rows, acked, tasks, alive, hello, down, up, store, tombs,
                    checkpoint, reached, handlers, engine>>
    BY <1>3, Stutters
  <2>2. /\ Last' = Last /\ LatestUpserts' = LatestUpserts
        /\ \A c : GetMutationsSince(c)' = GetMutationsSince(c)
        /\ \A p : Of(p)' = Of(p) /\ Exists(p)' = Exists(p)
        /\ \A p, n : Upto(p, n)' = Upto(p, n)
    BY <2>1, SameLog
  <2>3. LogOrdered' /\ RowsExact' /\ StoreExact'
    BY <2>1, <2>2 DEF PacedInv, LogInv, LogOrdered, RowsExact, Newest, StoreExact, RuleAt, TombAt
  <2>4. \A b : Fresh(b) => Fresh(b)'
    BY <2>1, <2>2 DEF Fresh, CaughtUp
  <2>5. CaughtUp => CaughtUp'
    BY <2>1, <2>2 DEF CaughtUp
  <2>6. TasksFine'
    <3>1. \A r : TaskFine(r) => TaskFine(r)'
      BY <2>1, <2>2, <2>4 DEF TaskFine
    <3>2. ASSUME NEW t \in Tasks PROVE TaskFine(tasks[t])'
      <4>1. PICK r : r = tasks[t]
        OBVIOUS
      <4>2. TaskFine(r)' /\ tasks'[t] = r
        BY <2>1, <3>1, <4>1 DEF PacedInv, TasksFine
      <4> QED BY <4>2 DEF TaskFine, Fresh, CaughtUp
    <3> QED BY <2>1, <3>2 DEF PacedInv, TasksFine, Waiting, Quiet, HandlersIdle
  <2>7. HandlersFine'
    <3>1. \A r : HandlerFine(r) => HandlerFine(r)'
      BY <2>1, <2>2, <2>4 DEF HandlerFine, Stored
    <3>2. ASSUME NEW h \in Handlers PROVE HandlerFine(handlers[h])'
      <4>1. PICK r : r = handlers[h]
        OBVIOUS
      <4>2. HandlerFine(r)' /\ handlers'[h] = r
        BY <2>1, <3>1, <4>1 DEF PacedInv, HandlersFine
      <4> QED BY <4>2 DEF HandlerFine, Fresh, CaughtUp, Stored
    <3> QED BY <3>2 DEF HandlersFine
  <2>8. StreamFine'
    <3>1. ASSUME NEW i \in 1..Len(down) PROVE Fresh(down[i])'
      <4>1. PICK b : b = down[i]
        OBVIOUS
      <4>2. Fresh(b)' /\ down'[i] = b
        BY <2>1, <2>4, <4>1 DEF PacedInv, StreamFine
      <4> QED BY <4>2 DEF Fresh, CaughtUp
    <3> QED BY <2>1, <2>2, <3>1 DEF PacedInv, StreamFine, TasksIdle, Pushing
  <2>9. AcksFine' /\ Underway' /\ EngineExact'
    <3>1. AcksFine'
      BY <2>1 DEF PacedInv, AcksFine, Turning, Turned
    <3>2. Underway'
      BY <2>1, <2>5 DEF PacedInv, Underway, TasksIdle, Fetching
    <3>3. EngineExact'
      BY <2>1 DEF PacedInv, EngineExact, Stored
    <3> QED BY <3>1, <3>2, <3>3
  <2> QED BY <1>0, <2>3, <2>6, <2>7, <2>8, <2>9 DEF PacedInv, LogInv
<1> QED BY <1>1, <1>2, <1>3

LEMMA PacedInvariant == ASSUME Paced PROVE Spec => []PacedInv
<1>1. PacedInv /\ [Next]_vars => PacedInv'
  BY PacedStep
<1> QED BY <1>1, PacedInit, PTL DEF Spec
-----------------------------------------------------------------------------
(* What the CP has for a policy is its newest mutation.                    *)
LEMMA CurrentIs ==
  ASSUME LogInv, NEW p \in Policies
  PROVE  /\ rows[p] = NoRow => Current(p) = 0
         /\ \A m \in Of(p) : m.op = "UPSERT" /\ Newest(m) => Current(p) = m.seq
<1>1. rows[p] = NoRow => Current(p) = 0
  BY DEF Current, Exists, NoRow
<1>2. ASSUME NEW m \in Of(p), m.op = "UPSERT", Newest(m)
      PROVE  Current(p) = m.seq
  <2>1. m \in mutations /\ m.policy = p /\ m \in LatestUpserts
        /\ rows[p] = [version |-> m.version, enabled |-> TRUE] /\ m.version > 0
    <3>1. m \in mutations /\ m.policy = p
      BY DEF Of
    <3>2. m \in LatestUpserts /\ m.version > 0
      BY <1>2, <3>1, LatestUpsertsAre DEF LogInv, LogOrdered
    <3> QED BY <3>1, <3>2, LatestUpsertsAre
  <2>2. Exists(p) /\ rows[p].enabled
    BY <2>1 DEF Exists
  <2> DEFINE S == {n.seq : n \in {o \in mutations : o.policy = p}}
  <2>3. S \in SUBSET (0..MaxMutations) /\ m.seq \in S /\ \A x \in S : x <= m.seq
    <3>1. \A o \in mutations : o.seq \in 0..MaxMutations
      BY MutationFields, PolicyAssumption DEF LogInv
    <3>2. S \in SUBSET (0..MaxMutations) /\ m.seq \in S
      BY <2>1, <3>1
    <3>3. \A x \in S : x <= m.seq
      BY <1>2, <2>1 DEF Newest, Of
    <3> QED BY <3>2, <3>3
  <2>4. Current(p) = Largest(S)
    BY <2>2 DEF Current
  <2> HIDE DEF S
  <2>5. Largest(S) \in S /\ m.seq <= Largest(S)
    BY <2>3, LargestIs, PolicyAssumption
  <2>6. Largest(S) <= m.seq /\ Largest(S) \in Nat /\ m.seq \in Nat
    <3>1. Largest(S) <= m.seq
      BY <2>3, <2>5
    <3>2. Largest(S) \in 0..MaxMutations /\ m.seq \in 0..MaxMutations
      BY <2>3, <2>5
    <3> QED BY <3>1, <3>2, PolicyAssumption
  <2> QED BY <2>4, <2>5, <2>6
<1> QED BY <1>1, <1>2

(* With requests that wait for each other and for the gateway, any number  *)
(* of them, of broken streams and of restarts of either side: when nothing *)
(* is on its way and the stream is up, the engine enforces exactly the     *)
(* rules of the control plane.                                             *)
THEOREM ConvergedHolds == ASSUME Paced PROVE Spec => []Converged
<1>1. ASSUME PacedInv, alive, Settled, NEW p \in Policies
      PROVE  engine[p] = Current(p)
  <2>1. LogInv /\ StoreExact /\ CaughtUp /\ engine[p] = store[p].seq
    <3>1. \A h \in Handlers : handlers[h].pc = "idle"
      BY <1>1 DEF Settled, HandlersIdle, IdleHandler
    <3>2. CaughtUp
      BY <1>1, <3>1 DEF PacedInv, Underway, Settled, Fetching
    <3>3. engine = Stored
      BY <1>1, <3>1 DEF PacedInv, EngineExact
    <3> QED BY <1>1, <3>2, <3>3 DEF PacedInv, Stored
  <2>2. \A m \in Of(p) : m \in mutations /\ m.policy = p
    BY DEF Of
  <2>3. CASE checkpoint = Last
    <3>1. RuleAt(p, Last, store[p]) /\ Upto(p, Last) = Of(p)
      BY <2>1, <2>3, UptoLast DEF StoreExact
    <3>2. ASSUME NEW m \in Of(p), m.op = "UPSERT", Newest(m)
          PROVE  store[p].seq = m.seq /\ Current(p) = m.seq
      <4>1. RuleAt(p, Last, [seq |-> m.seq, version |-> m.version])
        BY <2>2, <3>1, <3>2 DEF RuleAt, Newest
      <4>2. store[p] = [seq |-> m.seq, version |-> m.version]
        BY <2>1, <3>1, <4>1, RuleUnique
      <4> QED BY <2>1, <3>2, <4>2, CurrentIs
    <3>3. ASSUME rows[p] = NoRow, Of(p) = {} \/ \E m \in Of(p) : m.op = "DELETE"
          PROVE  store[p].seq = 0 /\ Current(p) = 0
      <4>1. RuleAt(p, Last, NoRule)
        BY <3>1, <3>3 DEF RuleAt
      <4>2. store[p] = NoRule
        BY <2>1, <3>1, <4>1, RuleUnique
      <4> QED BY <2>1, <3>3, <4>2, CurrentIs DEF NoRule
    <3> QED BY <2>1, <3>2, <3>3 DEF LogInv, RowsExact
  <2>4. CASE checkpoint = 0 /\ LatestUpserts = {}
    <3>1. Upto(p, 0) = {}
      BY <2>1, MutationFields DEF Upto, LogInv
    <3>2. store[p].seq = 0
      <4>1. RuleAt(p, 0, store[p])
        BY <2>1, <2>4 DEF StoreExact
      <4>2. store[p] = NoRule
        BY <3>1, <4>1 DEF RuleAt
      <4> QED BY <4>2 DEF NoRule
    <3>3. ~ \E m \in Of(p) : m.op = "UPSERT" /\ Newest(m)
      BY <2>1, <2>2, <2>4, LatestUpsertsAre
    <3>4. rows[p] = NoRow
      BY <2>1, <3>3 DEF LogInv, RowsExact
    <3> QED BY <2>1, <3>2, <3>4, CurrentIs
  <2> QED BY <2>1, <2>3, <2>4 DEF CaughtUp
<1>2. PacedInv => Converged
  BY <1>1 DEF Converged
<1> QED BY <1>2, PacedInvariant, PTL

(* Under the same pace, a rule that was deleted never comes back.          *)
THEOREM NoResurrectionHolds == ASSUME Paced PROVE Spec => NoResurrection
<1>1. ASSUME PacedInv, NEW p \in Policies, store[p].seq # 0,
             NEW d \in mutations, d.policy = p, d.op = "DELETE", d.seq <= reached
      PROVE  FALSE
  <2>1. LogInv /\ RuleAt(p, checkpoint, store[p]) /\ store[p] # NoRule /\ d \in Upto(p, checkpoint)
    BY <1>1 DEF PacedInv, StoreExact, NoRule, Upto
  <2>2. PICK m \in Upto(p, checkpoint) : m.op = "UPSERT" /\ \A o \in Upto(p, checkpoint) : o.seq <= m.seq
    BY <2>1 DEF RuleAt
  <2>3. m \in mutations /\ m.policy = p /\ d.seq <= m.seq
    BY <2>1, <2>2 DEF Upto
  <2> QED BY <1>1, <2>1, <2>2, <2>3, NoDelete
<1>2. ASSUME PacedInv, [Next]_vars, NEW p \in Policies, engine'[p] # 0, engine[p] = 0
      PROVE  store[p].seq # 0
  <2>1. ASSUME NEW h \in Handlers, SwapIndex(h)
        PROVE  store[p].seq # 0
    <3>1. engine' = Stored
      BY <1>2, <2>1 DEF SwapIndex, PacedInv, HandlersFine, HandlerFine
    <3> QED BY <1>2, <3>1 DEF Stored
  <2>2. CASE GatewayRestart
    BY <1>2, <2>2 DEF GatewayRestart
  <2>3. CASE UNCHANGED engine
    BY <1>2, <2>3
  <2> QED BY <1>2, <2>1, <2>2, <2>3, EngineFrame, Stutters
<1>3. PacedInv /\ [Next]_vars =>
        \A p \in Policies : engine'[p] # 0 /\ engine[p] = 0 =>
          ~ \E m \in mutations : m.policy = p /\ m.op = "DELETE" /\ m.seq <= reached
  BY <1>1, <1>2
<1> QED BY <1>3, PacedInvariant, PTL DEF Spec, NoResurrection
-----------------------------------------------------------------------------
(* The gateway is a replica of the log.  What the store holds is what the  *)
(* rules were at the checkpoint; the engine has the rules of the store, or *)
(* still those of an earlier one.                                          *)

Known      == {n \in 0..checkpoint : RulesAt(n) = engine}
EngineKnown == Known # {}

LEMMA NumbersUpto ==
  ASSUME TypeInv, NEW p, NEW n
  PROVE  /\ {0} \cup {m.seq : m \in Upto(p, n)} \in SUBSET (0..MaxMutations)
         /\ {0} \cup {m.seq : m \in Upto(p, n)} # {}
<1>1. \A m \in Upto(p, n) : m.seq \in 0..MaxMutations
  BY MutationFields, PolicyAssumption DEF Upto
<1> QED BY <1>1, PolicyAssumption

(* The rule of one policy at one moment, in the words of RuleAt.           *)
LEMMA RulesAtIs ==
  ASSUME LogInv, NEW p \in Policies, NEW n, NEW rule, RuleAt(p, n, rule)
  PROVE  RulesAt(n)[p] = rule.seq
<1> DEFINE S == {0} \cup {m.seq : m \in Upto(p, n)}
           newest == Largest(S)
<1>1. newest \in S /\ \A x \in S : x <= newest
  BY NumbersUpto, LargestIs, PolicyAssumption DEF LogInv
<1>2. RulesAt(n)[p] = IF \E m \in Upto(p, n) : m.seq = newest /\ m.op = "UPSERT"
                        THEN newest ELSE 0
  BY DEF RulesAt, Upto
<1>3. \A m \in Upto(p, n) : m \in mutations /\ m.policy = p /\ m.seq \in Nat /\ m.seq > 0 /\ m.seq \in S
  BY MutationFields DEF Upto, LogInv
<1>4. newest \in Nat
  BY <1>1, <1>3
<1> HIDE DEF S, newest
<1>5. ASSUME NEW d \in Upto(p, n), d.op = "DELETE", NEW m \in Upto(p, n),
             m.seq = newest, m.op = "UPSERT"
      PROVE  FALSE
  <2>1. d.seq <= m.seq
    BY <1>1, <1>3, <1>5
  <2>2. d.op = "UPSERT"
    BY <1>3, <1>5, <2>1, NoDelete
  <2> QED BY <1>5, <2>2
<1>6. CASE /\ rule = NoRule
           /\ Upto(p, n) = {} \/ \E m \in Upto(p, n) : m.op = "DELETE"
  BY <1>2, <1>5, <1>6 DEF NoRule
<1>7. ASSUME NEW m \in Upto(p, n), m.op = "UPSERT",
             rule = [seq |-> m.seq, version |-> m.version],
             \A o \in Upto(p, n) : o.seq <= m.seq
      PROVE  RulesAt(n)[p] = rule.seq
  <2>1. newest <= m.seq /\ m.seq <= newest
    <3>1. m.seq <= newest
      BY <1>1, <1>3
    <3>2. newest <= m.seq
      BY <1>1, <1>3, <1>7 DEF S
    <3> QED BY <3>1, <3>2
  <2>2. newest = m.seq
    BY <1>3, <1>4, <2>1
  <2> QED BY <1>2, <1>7, <2>2
<1> QED BY <1>6, <1>7 DEF RuleAt

(* The store is the log at the checkpoint.                                 *)
LEMMA StoredIs ==
  ASSUME PacedInv
  PROVE  Stored = RulesAt(checkpoint)
<1>1. ASSUME NEW p \in Policies PROVE Stored[p] = RulesAt(checkpoint)[p]
  BY RulesAtIs DEF PacedInv, StoreExact, Stored
<1>2. DOMAIN Stored = Policies /\ DOMAIN RulesAt(checkpoint) = Policies
  BY DEF Stored, RulesAt
<1>3. Stored = [p \in Policies |-> Stored[p]]
  BY DEF Stored
<1>4. RulesAt(checkpoint) = [p \in Policies |-> RulesAt(checkpoint)[p]]
  BY DEF RulesAt
<1> HIDE DEF Stored, RulesAt
<1> QED BY <1>1, <1>3, <1>4

(* A mutation leaves the past alone and changes the rule of one policy.    *)
LEMMA PastKept ==
  ASSUME Paced, PacedInv, NEW t \in Tasks, Commit(t)
  PROVE  \A n \in 0..Last : RulesAt(n)' = RulesAt(n)
<1>1. PICK m \in Mutations : mutations' = mutations \cup {m} /\ m.seq = Last + 1
  BY CommitAdds
<1>2. Last \in Nat
  BY LastIs DEF PacedInv, LogInv
<1>3. ASSUME NEW n \in 0..Last, NEW p
      PROVE  {o \in mutations' : o.policy = p /\ o.seq <= n}
               = {o \in mutations : o.policy = p /\ o.seq <= n}
  BY <1>1, <1>2
<1> QED BY <1>3 DEF RulesAt

(* The commit of a mutation is the publication of a change.                *)
LEMMA CommitPublishes ==
  ASSUME Paced, PacedInv, TypeInv', NEW t \in Tasks, Commit(t)
  PROVE  /\ Last' = Last + 1
         /\ \E p \in Policies, rule \in {Last + 1, 0} :
              RulesAt(Last)' = [RulesAt(Last) EXCEPT ![p] = rule]
<1>1. PICK m \in Mutations : mutations' = mutations \cup {m} /\ m.seq = Last + 1
  BY CommitAdds
<1>2. /\ Last \in Nat /\ m.policy \in Policies /\ m.seq \in 0..MaxMutations
      /\ \A o \in mutations : o.seq \in 0..MaxMutations /\ o.seq <= Last /\ o.seq < m.seq
  <2>1. Last \in Nat /\ m.policy \in Policies /\ m.seq \in 0..MaxMutations
    BY LastIs, PolicyAssumption DEF PacedInv, LogInv, Mutations, Seqs
  <2>2. \A o \in mutations : o.seq \in 0..MaxMutations /\ o.seq <= Last
    BY LastIs, MutationFields, PolicyAssumption DEF PacedInv, LogInv
  <2> QED BY <1>1, <2>1, <2>2, PolicyAssumption
<1>3. ASSUME NEW S \in SUBSET (0..MaxMutations), m.seq \in S, \A x \in S : x <= m.seq
      PROVE  Largest(S) = m.seq
  <2>1. Largest(S) \in S /\ \A x \in S : x <= Largest(S)
    BY <1>3, LargestIs, PolicyAssumption
  <2>2. Largest(S) <= m.seq /\ m.seq <= Largest(S)
    BY <1>3, <2>1
  <2>3. Largest(S) \in 0..MaxMutations
    BY <2>1
  <2> QED BY <1>2, <2>2, <2>3
<1>4. Last' = m.seq
  <2> DEFINE S == {0} \cup {o.seq : o \in mutations'}
  <2>1. S \in SUBSET (0..MaxMutations) /\ m.seq \in S /\ \A x \in S : x <= m.seq
    BY <1>1, <1>2, PolicyAssumption
  <2>2. Last' = Largest(S)
    BY DEF Last, GetLatestPolicySequence
  <2> HIDE DEF S
  <2> QED BY <1>3, <2>1, <2>2
<1> DEFINE U(p) == {o \in mutations' : o.policy = p /\ o.seq <= m.seq}
           N(p) == Largest({0} \cup {o.seq : o \in U(p)})
           now == IF m.op = "UPSERT" THEN Last + 1 ELSE 0
<1>5. \A p \in Policies : RulesAt(Last)'[p] =
        IF \E o \in U(p) : o.seq = N(p) /\ o.op = "UPSERT" THEN N(p) ELSE 0
  BY <1>1, <1>4 DEF RulesAt
<1>6. ASSUME NEW p \in Policies, p # m.policy
      PROVE  RulesAt(Last)'[p] = RulesAt(Last)[p]
  <2>1. U(p) = {o \in mutations : o.policy = p /\ o.seq <= Last}
    BY <1>1, <1>2, <1>6
  <2> HIDE DEF U
  <2> QED BY <1>5, <2>1 DEF RulesAt
<1>7. RulesAt(Last)'[m.policy] = now
  <2>1. /\ m \in U(m.policy)
        /\ \A o \in U(m.policy) : o = m \/ (o \in mutations /\ o.seq < m.seq)
    BY <1>1, <1>2
  <2> HIDE DEF U
  <2>2. N(m.policy) = m.seq
    <3> DEFINE S == {0} \cup {o.seq : o \in U(m.policy)}
    <3>1. S \in SUBSET (0..MaxMutations) /\ m.seq \in S /\ \A x \in S : x <= m.seq
      BY <1>2, <2>1, PolicyAssumption
    <3> HIDE DEF S
    <3>2. Largest(S) = m.seq
      BY <1>3, <3>1
    <3> QED BY <3>2 DEF S
  <2> HIDE DEF N
  <2>3. \A o \in U(m.policy) : o.seq = m.seq => o = m
    BY <1>2, <2>1
  <2> QED BY <1>1, <1>2, <1>5, <2>1, <2>2, <2>3
<1> HIDE DEF now
<1>8. RulesAt(Last)' = [RulesAt(Last) EXCEPT ![m.policy] = now]
  <2>1. /\ RulesAt(Last) = [p \in Policies |-> RulesAt(Last)[p]]
        /\ RulesAt(Last)' = [p \in Policies |-> RulesAt(Last)'[p]]
    BY DEF RulesAt
  <2> HIDE DEF RulesAt
  <2> QED BY <1>2, <1>6, <1>7, <2>1
<1>9. now \in {Last + 1, 0}
  BY DEF now
<1> QED BY <1>1, <1>2, <1>4, <1>8, <1>9

LEMMA LargestKnown ==
  ASSUME NEW k \in Nat, NEW T \in SUBSET (0..k), T # {}
  PROVE  /\ Largest({0} \cup T) \in T
         /\ \A n \in T : n <= Largest({0} \cup T)
<1>1. {0} \cup T \in SUBSET (0..k) /\ {0} \cup T # {}
  OBVIOUS
<1>2. Largest({0} \cup T) \in {0} \cup T /\ \A n \in {0} \cup T : n <= Largest({0} \cup T)
  BY <1>1, LargestIs
<1>3. CASE Largest({0} \cup T) = 0
  <2>1. PICK n \in T : n <= 0
    BY <1>2, <1>3
  <2>2. n = 0
    BY <2>1
  <2> QED BY <1>2, <1>3, <2>1, <2>2
<1> QED BY <1>2, <1>3

(* Where the engine is, before and after a step that leaves the log alone  *)
(* or adds to it.                                                          *)
LEMMA EngineAt ==
  ASSUME PacedInv, EngineKnown
  PROVE  /\ EnforcedAt \in 0..checkpoint /\ RulesAt(EnforcedAt) = engine
         /\ EnforcedAt \in Known
         /\ checkpoint \in Nat /\ Last \in Nat /\ checkpoint <= Last
<1>1. checkpoint \in Nat /\ Last \in Nat /\ checkpoint <= Last
  BY LastIs, PolicyAssumption DEF PacedInv, LogInv, StoreExact, TypeInv, TypeOK
<1>2. Known \in SUBSET (0..checkpoint)
  BY DEF Known
<1>3. Largest({0} \cup Known) \in Known
  BY <1>1, <1>2, LargestKnown DEF EngineKnown
<1>4. EnforcedAt = Largest({0} \cup Known)
  BY DEF EnforcedAt, Known
<1> QED BY <1>1, <1>2, <1>3, <1>4 DEF Known

LEMMA PublishStep ==
  ASSUME Paced, PacedInv, TypeInv', EngineKnown, NEW t \in Tasks, Commit(t)
  PROVE  EngineKnown' /\ Replica!Next
<1>1. PICK p \in Policies, rule \in {Last + 1, 0} :
        RulesAt(Last)' = [RulesAt(Last) EXCEPT ![p] = rule]
  BY CommitPublishes
<1>2. Last' = Last + 1 /\ Last \in Nat /\ checkpoint \in Nat /\ checkpoint <= Last
  BY CommitPublishes, EngineAt
<1>3. UNCHANGED <<checkpoint, engine>>
  BY DEF Commit, boltVars
<1>4. \A n \in 0..Last : RulesAt(n)' = RulesAt(n)
  BY PastKept
<1>5. Known' = Known
  <2>1. \A n \in 0..checkpoint : n \in 0..Last
    BY <1>2
  <2> HIDE DEF RulesAt
  <2> QED BY <1>3, <1>4, <2>1 DEF Known
<1>6. EngineKnown' /\ EnforcedAt' = EnforcedAt
  BY <1>5 DEF EngineKnown, EnforcedAt, Known
<1> DEFINE H == [n \in 0..Last |-> RulesAt(n)]
<1>7. H' = [n \in 0..(Last + 1) |-> IF n <= Last THEN H[n] ELSE [H[Last] EXCEPT ![p] = rule]]
  <2>1. ASSUME NEW n \in 0..(Last + 1)
        PROVE  RulesAt(n)' = IF n <= Last THEN H[n] ELSE [H[Last] EXCEPT ![p] = rule]
    <3>1. CASE n <= Last
      BY <1>2, <1>4, <3>1
    <3>2. CASE n = Last'
      <4>1. RulesAt(n)' = RulesAt(Last)'
        BY <3>2 DEF RulesAt
      <4>2. ~ (n <= Last) /\ H[Last] = RulesAt(Last)
        BY <1>2, <3>2
      <4> QED BY <1>1, <4>1, <4>2
    <3> QED BY <1>2, <3>1, <3>2
  <2>2. H' = [n \in 0..(Last + 1) |-> RulesAt(n)']
    BY <1>2
  <2> HIDE DEF H, RulesAt
  <2> QED BY <2>1, <2>2
<1>8. Replica!Publish(p, rule)
  BY <1>2, <1>3, <1>6, <1>7 DEF Replica!Publish, Last
<1> QED BY <1>6, <1>8 DEF Replica!Next, Last

(* Every other step leaves the gateway where it is, or brings it forward.  *)
LEMMA EnforceStep ==
  ASSUME Paced, PacedInv, PacedInv', EngineKnown, [Next]_vars, ~ \E t \in Tasks : Commit(t)
  PROVE  EngineKnown' /\ Replica!Next
<1>1. /\ UNCHANGED <<mutations, rows>> /\ checkpoint' \in {checkpoint, Last}
  <2>1. CASE Next
    BY <2>1, StoreExactStep DEF Forward
  <2>2. CASE UNCHANGED vars
    BY <2>2, Stutters
  <2> QED BY <2>1, <2>2
<1>2. Last' = Last /\ \A n : RulesAt(n)' = RulesAt(n)
  BY <1>1, SameLog DEF RulesAt
<1>3. /\ EnforcedAt \in 0..checkpoint /\ RulesAt(EnforcedAt) = engine /\ EnforcedAt \in Known
      /\ checkpoint \in Nat /\ Last \in Nat /\ checkpoint <= Last
  BY EngineAt
<1>4. engine' = engine \/ (engine' = Stored /\ checkpoint' = checkpoint)
  <2>1. ASSUME NEW h \in Handlers, SwapIndex(h)
        PROVE  engine' = Stored /\ checkpoint' = checkpoint
    BY <2>1 DEF SwapIndex, PacedInv, HandlersFine, HandlerFine, boltVars
  <2>2. CASE GatewayRestart
    BY <2>2 DEF GatewayRestart, Stored, boltVars
  <2>3. CASE UNCHANGED engine
    BY <2>3
  <2> QED BY <2>1, <2>2, <2>3, EngineFrame, Stutters
<1>5. PICK e \in 0..checkpoint' : e >= EnforcedAt /\ RulesAt(e)' = engine'
  <2>1. CASE engine' = engine
    BY <1>1, <1>2, <1>3, <2>1
  <2>2. CASE engine' = Stored /\ checkpoint' = checkpoint
    BY <1>2, <1>3, <2>2, StoredIs
  <2> QED BY <1>4, <2>1, <2>2
<1>6. e \in Known'
  BY <1>2, <1>5 DEF Known
<1>7. EngineKnown' /\ EnforcedAt' \in Known' /\ e <= EnforcedAt' /\ checkpoint' <= Last
  <2>1. Known' \in SUBSET (0..checkpoint') /\ checkpoint' \in Nat /\ checkpoint' <= Last
    BY <1>1, <1>3 DEF Known
  <2>2. EnforcedAt' = Largest({0} \cup Known')
    BY DEF EnforcedAt, Known
  <2> QED BY <1>6, <2>1, <2>2, LargestKnown DEF EngineKnown
<1>8. PICK n : n = EnforcedAt'
  OBVIOUS
<1>9. n \in EnforcedAt..Last /\ engine' = RulesAt(n)
  <2>1. n \in 0..checkpoint' /\ RulesAt(n)' = engine'
    BY <1>7, <1>8 DEF Known
  <2>2. e \in Nat /\ n \in Nat /\ checkpoint' \in Nat /\ n <= checkpoint'
    BY <1>1, <1>3, <1>5, <2>1
  <2>3. EnforcedAt <= e /\ e <= n /\ n <= Last /\ EnforcedAt \in Nat
    BY <1>3, <1>5, <1>7, <1>8, <2>2
  <2>4. n \in EnforcedAt..Last
    BY <1>3, <2>2, <2>3
  <2> QED BY <1>2, <2>1, <2>4
<1>10. Replica!Enforce(n)
  <2>1. n \in 0..Last
    BY <1>3, <1>9
  <2> HIDE DEF RulesAt
  <2> QED BY <1>2, <1>8, <1>9, <2>1 DEF Replica!Enforce, Last
<1> QED BY <1>7, <1>9, <1>10 DEF Replica!Next, Last

LEMMA ReplicaInit == Init => EngineKnown /\ Replica!Init
<1> SUFFICES ASSUME Init PROVE EngineKnown /\ Replica!Init
  OBVIOUS
<1>1. PacedInv /\ mutations = {} /\ checkpoint = 0 /\ engine = [p \in Policies |-> 0]
  BY PacedInit DEF Init
<1>2. Last = 0
  BY <1>1, LastIs DEF PacedInv, LogInv
<1>3. \A n : RulesAt(n) = [p \in Policies |-> 0]
  BY <1>1 DEF RulesAt
<1>4. Known = {0}
  <2> HIDE DEF RulesAt
  <2> QED BY <1>1, <1>3 DEF Known
<1>5. EnforcedAt = 0
  <2>1. 0 \in 0..checkpoint /\ EngineKnown
    BY <1>1, <1>4 DEF EngineKnown
  <2> QED BY <1>1, <2>1, EngineAt
<1> QED BY <1>1, <1>2, <1>3, <1>4, <1>5 DEF EngineKnown, Replica!Init, Replica!NoRules, Last

(* With requests that wait for each other and for the gateway, in the      *)
(* middle of everything else too: the engine enforces the rules of the     *)
(* control plane as they were after one of its mutations, never a mix of   *)
(* several, and never goes back to an earlier one.                         *)
THEOREM ReplicaHolds == ASSUME Paced PROVE Spec => IsReplica
<1>1. PacedInv /\ PacedInv' /\ EngineKnown /\ [Next]_vars => EngineKnown' /\ Replica!Next
  <2>1. PacedInv' => TypeInv'
    BY DEF PacedInv, LogInv
  <2> QED BY <2>1, PublishStep, EnforceStep
<1>2. Init => EngineKnown /\ Replica!Init
  BY ReplicaInit
<1> QED BY <1>1, <1>2, PacedInvariant, PTL DEF Spec, IsReplica, Replica!Spec
=============================================================================
