----------------------------- MODULE MemoryProofs -----------------------------
(***************************************************************************)
(* What the vector index of MemoryIndex promises, for every set of         *)
(* documents, embedding spaces and workers, and every number of faults.    *)
(*                                                                         *)
(* The argument has one idea: every write that could make an index         *)
(* incomplete for a tenant and type is counted (Tick).  So a count taken   *)
(* with a complete index - by a reconciler's snapshot, by the row it       *)
(* stored, or by a query that was admitted - vouches for the index as long *)
(* as the count has not moved.                                             *)
(***************************************************************************)
EXTENDS MemoryIndex, FiniteSetTheorems, FunctionTheorems, TLAPS

SourceStatus == {"ABSENT", "DRAFT", "ACTIVE", "RETIRED", "REVOKED"}

Counts == [Owners -> Nat]

Completeness == [Owners \X Spaces -> Nat \cup {None}]

RowsOK ==
  /\ status \in [Docs -> SourceStatus]
  /\ space \in [Spaces -> SpaceStatus \cup {"ABSENT"}]
  /\ head \in Spaces \cup {None}
  /\ head # None => {s \in Spaces : space[s] = "ACTIVE"} = {head}

Marked(j) == (j.status = "CLAIMED") = (j.lease_token # None)

JobsOK ==
  /\ vector \subseteq Keys
  /\ job \in [Keys -> EmbeddingIndexJob \cup {None}]
  /\ \A k \in Keys : job[k] # None => Marked(job[k])

EmbeddingClaim == [key : Keys, token : Tokens, embedded : BOOLEAN]

\* The claims in the workers' memory: every token was given out once.
ClaimsOK ==
  /\ worker \in [Workers -> EmbeddingClaim \cup {None}]
  /\ \A v, w \in Workers :
       (v # w /\ worker[v] # None /\ worker[w] # None) => worker[v].token # worker[w].token

\* Every active document of owner o has a row in space s.
IndexedFor(o, s) == \A d \in Docs : (Owner(d) = o /\ status[d] = "ACTIVE") => <<d, s>> \in vector

CountsOK ==
  /\ generation \in Counts /\ indexed \in Completeness
  /\ \A x \in Owners \X Spaces : indexed[x] # None => indexed[x] <= generation[x[1]]

Snapshots == [space : Spaces, generation : Counts, indexed : Completeness]

\* A count and a completeness that were read together: as long as the counts
\* have not moved, the index is still complete.
Vouches(count, t, s) ==
  /\ \A o \in Owners : count[o] <= generation[o]
  /\ (\A o \in OwnersOf(t) : count[o] = generation[o]) => \A o \in OwnersOf(t) : IndexedFor(o, s)

SnapshotsOK ==
  /\ snapshot \in [Workers -> Snapshots \cup {None}]
  /\ \A w \in Workers : snapshot[w] # None => Vouches(snapshot[w].generation, Serves[w], snapshot[w].space)

\* The rows a reconciler stored vouch too.
RowsVouch ==
  \A t \in Tenants, s \in Spaces : Ready(t, s) => \A o \in OwnersOf(t) : IndexedFor(o, s)

QueryRecords ==
  [space : Spaces, kind : DocumentType \cup {None}, admitted : Counts \cup {None},
   found : (SUBSET Docs) \cup {None}, result : SUBSET Docs, failed : BOOLEAN]

AdmissionOK(count, o, s) ==
  o \in Owners => count[o] <= generation[o] /\ (count[o] = generation[o] => IndexedFor(o, s))

QueryOK ==
  query # None =>
    /\ query \in QueryRecords
    /\ query.admitted # None => AdmissionOK(query.admitted, <<Query.tenant, query.kind>>, query.space)

MemInv == RowsOK /\ JobsOK /\ ClaimsOK /\ CountsOK /\ SnapshotsOK /\ RowsVouch /\ QueryOK

----------------------------------------------------------------------------
(* Documents and owners.                                                   *)

LEMMA OwnerIsOwner ==
  ASSUME NEW d \in Docs
  PROVE  Owner(d) \in Owners /\ Doc[d].kind \in DocumentType /\ WellFormed(Doc[d])
  BY MemoryAssumption DEF Owner, Owners, Tenants, WellFormed

LEMMA CompleteByOwner ==
  ASSUME RowsOK, NEW t, NEW s
  PROVE  Complete(t, s) <=> \A o \in OwnersOf(t) : IndexedFor(o, s)
  <1>1. ASSUME Complete(t, s), NEW o \in OwnersOf(t), NEW d \in Docs, Owner(d) = o, status[d] = "ACTIVE"
        PROVE  <<d, s>> \in vector
    <2>1. o[1] = t /\ Doc[d].tenant = o[1]
      BY <1>1 DEF OwnersOf, Owner
    <2>2. QED
      BY <1>1, <2>1 DEF Complete, Active, RowsOK
  <1>2. ASSUME \A o \in OwnersOf(t) : IndexedFor(o, s), NEW d \in Active(t)
        PROVE  <<d, s>> \in vector
    <2>1. d \in Docs /\ Doc[d].tenant = t /\ status[d] = "ACTIVE"
      BY <1>2 DEF Active, RowsOK
    <2>2. Owner(d) \in OwnersOf(t)
      BY <2>1, OwnerIsOwner DEF OwnersOf, Owner
    <2>3. QED
      BY <1>2, <2>1, <2>2 DEF IndexedFor
  <1>3. QED
    BY <1>1, <1>2 DEF Complete, IndexedFor

(* The SQL over the index's columns and the recheck of the primary record  *)
(* agree on every document and every query the code can build.             *)
THEOREM FiltersAgree ==
  ASSUME NEW d, NEW q, WellFormed(d), WellFormedQuery(q)
  PROVE  SqlEligible(d, q) <=> Eligible(d, q)
  <1>1. (d.applicable_since <= q.at) <=> ~ (d.applicable_since > q.at)
    BY DEF WellFormed, WellFormedQuery
  <1>2. (d.applicable_until = None \/ d.applicable_until > q.at)
          <=> ~ (d.applicable_until # None /\ d.applicable_until <= q.at)
    BY DEF WellFormed, WellFormedQuery
  <1>3. (d.source_case_id = None \/ d.source_case_id # q.case) <=> d.source_case_id # q.case
    BY DEF WellFormedQuery
  <1>4. ASSUME NEW f \in SCOPE_FIELDS
        PROVE  (IF q.scope[f] = None THEN d.scope[f] = None
                ELSE d.scope[f] = q.scope[f] \/ (d.source_case_id = None /\ d.scope[f] = None))
               <=> (d.scope[f] = q.scope[f] \/ (d.kind = "SKILL" /\ d.scope[f] = None))
    BY DEF WellFormed
  <1>5. QED
    BY <1>1, <1>2, <1>3, <1>4, Zenon DEF SqlEligible, Eligible

----------------------------------------------------------------------------
(* Every write that could leave an owner's index incomplete is counted.    *)

Tick ==
  /\ generation' \in Counts
  /\ \A o \in Owners : /\ generation[o] <= generation'[o]
                       /\ generation[o] = generation'[o]
                            => \A s \in Spaces : IndexedFor(o, s) => IndexedFor(o, s)'

LEMMA BumpTicks ==
  ASSUME CountsOK, NEW o \in Owners, Bump(o),
         \A p \in Owners, s \in Spaces : (p # o /\ IndexedFor(p, s)) => IndexedFor(p, s)'
  PROVE  Tick
  <1>1. generation' = [generation EXCEPT ![o] = generation[o] + 1]
    BY DEF Bump
  <1>2. generation' \in Counts
    BY <1>1 DEF CountsOK, Counts
  <1>3. \A p \in Owners : generation'[p] = IF p = o THEN generation[o] + 1 ELSE generation[p]
    BY <1>1 DEF CountsOK, Counts
  <1>4. \A p \in Owners : generation[p] \in Nat
    BY DEF CountsOK, Counts
  <1>5. ASSUME NEW p \in Owners
        PROVE  generation[p] <= generation'[p] /\ (generation[p] = generation'[p] => p # o)
    BY <1>3, <1>4
  <1>6. QED
    BY <1>2, <1>5 DEF Tick

LEMMA QuietTicks ==
  ASSUME CountsOK, UNCHANGED <<status, vector, generation>>
  PROVE  Tick
  <1>1. \A o \in Owners, s \in Spaces : IndexedFor(o, s) => IndexedFor(o, s)'
    BY DEF IndexedFor
  <1>2. \A o \in Owners : generation[o] \in Nat
    BY DEF CountsOK, Counts
  <1>3. QED
    BY <1>1, <1>2 DEF Tick, CountsOK

LEMMA SetStatusTicks ==
  ASSUME MemInv, NEW d \in Docs, NEW before, NEW after \in SourceStatus, SetStatus(d, before, after)
  PROVE  Tick
  <1>1. ASSUME NEW p \in Owners, NEW s \in Spaces, p # Owner(d), IndexedFor(p, s)
        PROVE  IndexedFor(p, s)'
    BY <1>1 DEF MemInv, RowsOK, SetStatus, IndexedFor, index
  <1>2. Bump(Owner(d)) /\ Owner(d) \in Owners
    BY OwnerIsOwner DEF SetStatus
  <1>3. QED
    BY <1>1, <1>2, BumpTicks DEF MemInv

LEMMA CompleteJobTicks ==
  ASSUME MemInv, NEW w \in Workers, CompleteJob(w)
  PROVE  Tick
  <1>1. PICK k \in Keys : k = worker[w].key
    BY DEF MemInv, ClaimsOK, CompleteJob, EmbeddingClaim
  <1>2. vector' = vector \cup {k} /\ status' = status /\ Bump(Owner(k[1]))
    BY <1>1 DEF CompleteJob, sources
  <1>3. \A p \in Owners, s \in Spaces : IndexedFor(p, s) => IndexedFor(p, s)'
    BY <1>2 DEF IndexedFor
  <1>4. Owner(k[1]) \in Owners
    BY OwnerIsOwner DEF Keys
  <1>5. QED
    BY <1>2, <1>3, <1>4, BumpTicks DEF MemInv

LEMMA LoseVectorTicks ==
  ASSUME MemInv, NEW k \in Keys, LoseVector(k)
  PROVE  Tick
  <1>1. vector' = vector \ {k} /\ status' = status /\ Bump(Owner(k[1]))
    BY DEF LoseVector, sources
  <1>2. PICK d \in Docs, e \in Spaces : k = <<d, e>>
    BY DEF Keys
  <1>3. ASSUME NEW p \in Owners, NEW s \in Spaces, p # Owner(d), IndexedFor(p, s)
        PROVE  IndexedFor(p, s)'
    BY <1>1, <1>2, <1>3 DEF IndexedFor
  <1>4. Owner(d) \in Owners /\ Owner(k[1]) = Owner(d)
    BY <1>2, OwnerIsOwner
  <1>5. QED
    BY <1>1, <1>3, <1>4, BumpTicks DEF MemInv

LEMMA StepTicks ==
  ASSUME MemInv, [Next]_vars
  PROVE  Tick
  <1>1. CASE SourceStep
    <2>1. PICK d \in Docs : AddSkill(d) \/ Activate(d) \/ Retire(d) \/ Publish(d) \/ Revoke(d)
      BY <1>1 DEF SourceStep
    <2>2. PICK before, after : after \in SourceStatus /\ SetStatus(d, before, after)
      BY <2>1 DEF AddSkill, Activate, Retire, Publish, Revoke, SourceStatus
    <2>3. QED
      BY <2>2, SetStatusTicks
  <1>2. CASE \E w \in Workers : CompleteJob(w)
    BY <1>2, CompleteJobTicks
  <1>3. CASE \E k \in Keys : LoseVector(k)
    BY <1>3, LoseVectorTicks
  <1>4. CASE AdminStep \/ QueryStep
    <2>1. UNCHANGED <<status, vector, generation>>
      BY <1>4 DEF AdminStep, QueryStep, CreateSpace, ActivateSpace, RollbackSpace, Switch, StartQuery,
                  Admit, Search, Hydrate, EndQuery, sources, counts, index
    <2>2. QED
      BY <2>1, QuietTicks DEF MemInv
  <1>5. CASE \E w \in Workers : \/ Embed(w) \/ Reject(w) \/ ProviderError(w) \/ Crash(w)
                                \/ \E k \in Keys : Claim(w, k)
                                \/ \E s \in Spaces : ReconcileRead(w, s)
                                \/ ReconcileWrite(w)
    <2>1. UNCHANGED <<status, vector, generation>>
      BY <1>5 DEF Embed, Reject, ProviderError, Failed, Crash, Claim, ReconcileRead, ReconcileWrite,
                  sources, counts, index
    <2>2. QED
      BY <2>1, QuietTicks DEF MemInv
  <1>6. CASE (\E d \in Docs, s \in Spaces : Enqueue(d, s)) \/ (\E k \in Keys : ExpireLease(k) \/ BackoffOver(k))
    <2>1. UNCHANGED <<status, vector, generation>>
      BY <1>6 DEF Enqueue, ExpireLease, BackoffOver, sources, counts
    <2>2. QED
      BY <2>1, QuietTicks DEF MemInv
  <1>7. CASE UNCHANGED vars
    <2>1. UNCHANGED <<status, vector, generation>>
      BY <1>7 DEF vars
    <2>2. QED
      BY <2>1, QuietTicks DEF MemInv
  <1>8. QED
    BY <1>1, <1>2, <1>3, <1>4, <1>5, <1>6, <1>7 DEF Next, WorkerStep, EnvironmentStep

\* What vouched for an index before a step still does after it.
LEMMA StillVouches ==
  ASSUME CountsOK, Tick, NEW count \in Counts, NEW t, NEW s \in Spaces, Vouches(count, t, s)
  PROVE  Vouches(count, t, s)'
  <1>1. \A o \in Owners : count[o] \in Nat /\ generation[o] \in Nat /\ generation'[o] \in Nat
    BY DEF CountsOK, Counts, Tick
  <1>2. \A o \in Owners : count[o] <= generation[o] /\ generation[o] <= generation'[o]
    BY DEF Vouches, Tick
  <1>3. \A o \in Owners : count[o] <= generation'[o] /\ (count[o] = generation'[o] => /\ generation[o] = generation'[o]
                                                                                    /\ count[o] = generation[o])
    BY <1>1, <1>2
  <1>4. OwnersOf(t) \subseteq Owners
    BY DEF OwnersOf
  <1>5. ASSUME \A o \in OwnersOf(t) : count[o] = generation'[o], NEW p \in OwnersOf(t)
        PROVE  IndexedFor(p, s)'
    <2>1. \A o \in OwnersOf(t) : count[o] = generation[o]
      BY <1>3, <1>4, <1>5
    <2>2. IndexedFor(p, s)
      BY <2>1, <1>5 DEF Vouches
    <2>3. generation[p] = generation'[p] /\ p \in Owners
      BY <1>3, <1>4, <1>5
    <2>4. QED
      BY <2>2, <2>3 DEF Tick
  <1>6. QED
    BY <1>3, <1>5 DEF Vouches

----------------------------------------------------------------------------
(* Sources and spaces.                                                     *)

LEMMA SwitchKeepsRows ==
  ASSUME RowsOK, NEW s \in Spaces, NEW from, Switch(s, from)
  PROVE  RowsOK'
  <1>1. status' = status /\ head' = s
    BY DEF Switch, sources
  <1>2. \A x \in Spaces : space'[x] = IF x = s THEN "ACTIVE" ELSE IF space[x] = "ACTIVE" THEN "RETIRED" ELSE space[x]
    BY DEF Switch
  <1>3. space' \in [Spaces -> SpaceStatus \cup {"ABSENT"}]
    BY DEF Switch, RowsOK, SpaceStatus
  <1>4. {x \in Spaces : space'[x] = "ACTIVE"} = {s}
    BY <1>2
  <1>5. QED
    BY <1>1, <1>3, <1>4 DEF RowsOK

LEMMA CreateSpaceKeepsRows ==
  ASSUME RowsOK, NEW s \in Spaces, CreateSpace(s)
  PROVE  RowsOK'
  <1>1. status' = status /\ head' = head /\ space[s] = "ABSENT" /\ space' = [space EXCEPT ![s] = "BUILDING"]
    BY DEF CreateSpace, sources
  <1>2. space' \in [Spaces -> SpaceStatus \cup {"ABSENT"}]
    BY <1>1 DEF RowsOK, SpaceStatus
  <1>3. \A x \in Spaces : (space'[x] = "ACTIVE") <=> (space[x] = "ACTIVE")
    BY <1>1 DEF RowsOK
  <1>4. {x \in Spaces : space'[x] = "ACTIVE"} = {x \in Spaces : space[x] = "ACTIVE"}
    BY <1>3
  <1>5. QED
    BY <1>1, <1>2, <1>4 DEF RowsOK

LEMMA StepKeepsRows ==
  ASSUME MemInv, [Next]_vars
  PROVE  RowsOK'
  <1>1. RowsOK
    BY DEF MemInv
  <1>2. CASE SourceStep
    <2>1. PICK d \in Docs : AddSkill(d) \/ Activate(d) \/ Retire(d) \/ Publish(d) \/ Revoke(d)
      BY <1>2 DEF SourceStep
    <2>2. PICK before, after : after \in SourceStatus /\ SetStatus(d, before, after)
      BY <2>1 DEF AddSkill, Activate, Retire, Publish, Revoke, SourceStatus
    <2>3. UNCHANGED <<space, head>> /\ status' = [status EXCEPT ![d] = after]
      BY <2>2 DEF SetStatus, index
    <2>4. QED
      BY <1>1, <2>2, <2>3 DEF RowsOK
  <1>3. CASE AdminStep
    BY <1>1, <1>3, SwitchKeepsRows, CreateSpaceKeepsRows DEF AdminStep, ActivateSpace, RollbackSpace
  <1>4. CASE WorkerStep \/ EnvironmentStep \/ QueryStep \/ UNCHANGED vars
    <2>1. UNCHANGED <<status, space, head>>
      BY <1>4 DEF WorkerStep, EnvironmentStep, QueryStep, Enqueue, Embed, CompleteJob, Reject,
                  ProviderError, Failed, Crash, Claim, ReconcileRead, ReconcileWrite, ExpireLease,
                  BackoffOver, LoseVector, StartQuery, Admit, Search, Hydrate, EndQuery, vars, sources,
                  counts, index
    <2>2. QED
      BY <1>1, <2>1 DEF RowsOK
  <1>5. QED
    BY <1>2, <1>3, <1>4 DEF Next

----------------------------------------------------------------------------
(* Jobs and claims.                                                        *)

LEMMA SmallImage ==
  ASSUME NEW S, NEW f, IsFiniteSet(S)
  PROVE  /\ IsFiniteSet({f[x] : x \in S})
         /\ Cardinality({f[x] : x \in S}) <= Cardinality(S)
  <1> DEFINE T == {f[x] : x \in S}
             g == [x \in S |-> f[x]]
  <1>1. g \in [S -> T]
    OBVIOUS
  <1>2. \A y \in T : \E x \in S : g[x] = y
    OBVIOUS
  <1> HIDE DEF T, g
  <1>3. g \in Surjection(S, T)
    BY <1>1, <1>2, Fun_IsSurj
  <1>4. QED
    BY <1>3, FS_Surjection DEF T

FreshToken(t) ==
  /\ \A w \in Workers : worker[w] # None => worker[w].token # t
  /\ \A k \in Keys : job[k] # None => job[k].lease_token # t

\* A worker that claims a job holds no other: there is a token left for it.
LEMMA FreshIsFresh ==
  ASSUME NEW w \in Workers, worker[w] = None
  PROVE  Fresh \in Tokens /\ FreshToken(Fresh)
  <1> DEFINE heldBy == [v \in Workers |-> worker[v].token]
             givenTo == [k \in Keys |-> job[k].lease_token]
             A == {heldBy[v] : v \in Workers \ {w}}
             B == {givenTo[k] : k \in Keys}
             n == Cardinality(Workers) + Cardinality(Keys)
  <1>1. IsFiniteSet(Workers) /\ IsFiniteSet(Workers \ {w}) /\ IsFiniteSet(Keys)
    BY MemoryAssumption, FS_Product, FS_RemoveElement DEF Keys
  <1>2. Cardinality(Workers) \in Nat /\ Cardinality(Keys) \in Nat
    BY <1>1, FS_CardinalityType
  <1>3. Cardinality(Workers \ {w}) = Cardinality(Workers) - 1
    BY <1>1, FS_RemoveElement
  <1>4. IsFiniteSet(A) /\ Cardinality(A) <= Cardinality(Workers) - 1
    <2> HIDE DEF heldBy
    <2>1. QED
      BY <1>1, <1>3, SmallImage
  <1>5. IsFiniteSet(B) /\ Cardinality(B) <= Cardinality(Keys)
    <2> HIDE DEF givenTo
    <2>1. QED
      BY <1>1, SmallImage
  <1>6. IsFiniteSet(Tokens) /\ Cardinality(Tokens) = n
    <2>1. n \in Int /\ (1 > n => n = 0)
      BY <1>2
    <2> HIDE DEF n
    <2>2. IsFiniteSet(1..n) /\ Cardinality(1..n) = IF 1 > n THEN 0 ELSE n - 1 + 1
      BY <2>1, FS_Interval
    <2>3. Tokens = 1..n
      BY DEF Tokens, n
    <2>4. QED
      BY <2>1, <2>2, <2>3
  <1>7. ASSUME Tokens \subseteq A \cup B
        PROVE  FALSE
    <2> HIDE DEF A, B
    <2>1. IsFiniteSet(A \cup B) /\ Cardinality(A \cup B) = Cardinality(A) + Cardinality(B) - Cardinality(A \cap B)
      BY <1>4, <1>5, FS_Union
    <2>2. IsFiniteSet(A \cap B)
      BY <1>4, FS_Subset
    <2>3. Cardinality(A) \in Nat /\ Cardinality(B) \in Nat /\ Cardinality(A \cap B) \in Nat
      BY <1>4, <1>5, <2>2, FS_CardinalityType
    <2>4. Cardinality(Tokens) <= Cardinality(A \cup B)
      BY <1>7, <2>1, FS_Subset
    <2>5. QED
      BY <1>2, <1>4, <1>5, <1>6, <2>1, <2>3, <2>4
  <1>8. PICK t \in Tokens : t \notin A \cup B
    BY <1>7
  <1>9. FreshToken(t)
    <2>1. ASSUME NEW v \in Workers, worker[v] # None
          PROVE  worker[v].token # t
      BY <1>8, <2>1
    <2>2. ASSUME NEW k \in Keys
          PROVE  job[k].lease_token # t
      BY <1>8
    <2>3. QED
      BY <2>1, <2>2 DEF FreshToken
  <1>10. Fresh = CHOOSE x \in Tokens : FreshToken(x)
    BY DEF Fresh, FreshToken
  <1>11. QED
    BY <1>9, <1>10

LEMMA JobWritten ==
  ASSUME JobsOK, NEW k \in Keys, NEW r \in EmbeddingIndexJob, Marked(r),
         job' = [job EXCEPT ![k] = r], vector' \subseteq Keys
  PROVE  JobsOK'
  <1>1. \A x \in Keys : job'[x] = IF x = k THEN r ELSE job[x]
    BY DEF JobsOK
  <1>2. job' \in [Keys -> EmbeddingIndexJob \cup {None}]
    BY DEF JobsOK
  <1>3. QED
    BY <1>1, <1>2 DEF JobsOK

LEMMA ClaimDropped ==
  ASSUME ClaimsOK, NEW w \in Workers, worker' = [worker EXCEPT ![w] = None]
  PROVE  ClaimsOK'
  <1>1. \A v \in Workers : worker'[v] = IF v = w THEN None ELSE worker[v]
    BY DEF ClaimsOK
  <1>2. worker' \in [Workers -> EmbeddingClaim \cup {None}]
    BY DEF ClaimsOK
  <1>3. QED
    BY <1>1, <1>2 DEF ClaimsOK

LEMMA EnqueueKeepsJobs ==
  ASSUME MemInv, NEW d \in Docs, NEW s \in Spaces, Enqueue(d, s)
  PROVE  JobsOK' /\ ClaimsOK'
  <1>1. PICK k \in Keys : k = <<d, s>>
    BY DEF Keys
  <1>2. job' = [job EXCEPT ![k] = Pending] /\ UNCHANGED <<vector, worker>>
    BY <1>1 DEF Enqueue
  <1>3. Pending \in EmbeddingIndexJob /\ Marked(Pending)
    BY DEF Pending, EmbeddingIndexJob, JobStatus, Marked
  <1>4. JobsOK' 
    BY <1>2, <1>3, JobWritten DEF MemInv, JobsOK
  <1>5. QED
    BY <1>2, <1>4 DEF MemInv, ClaimsOK

LEMMA ClaimKeepsJobs ==
  ASSUME MemInv, NEW w \in Workers, NEW k \in Keys, Claim(w, k)
  PROVE  JobsOK' /\ ClaimsOK'
  <1>1. PICK t \in Tokens : t = Fresh /\ FreshToken(t)
    BY FreshIsFresh DEF Claim
  <1>2. PICK r : r = [status |-> "CLAIMED", lease_token |-> t, expired |-> FALSE, due |-> FALSE]
    OBVIOUS
  <1>3. PICK c : c = [key |-> k, token |-> t, embedded |-> FALSE]
    OBVIOUS
  <1>4. /\ job' = [job EXCEPT ![k] = r] /\ worker' = [worker EXCEPT ![w] = c]
        /\ vector' = vector /\ worker[w] = None
    BY <1>1, <1>2, <1>3 DEF Claim
  <1>5. t \in Int /\ t # None
    BY MemoryAssumption, FS_CardinalityType, FS_Product DEF Tokens
  <1>6. r \in EmbeddingIndexJob /\ Marked(r)
    BY <1>2, <1>5 DEF EmbeddingIndexJob, JobStatus, Marked
  <1>7. JobsOK'
    BY <1>4, <1>6, JobWritten DEF MemInv, JobsOK
  <1>8. c \in EmbeddingClaim /\ c.token = t
    BY <1>3 DEF EmbeddingClaim
  <1>9. \A v \in Workers : worker'[v] = IF v = w THEN c ELSE worker[v]
    BY <1>4 DEF MemInv, ClaimsOK
  <1>10. worker' \in [Workers -> EmbeddingClaim \cup {None}]
    BY <1>4, <1>8 DEF MemInv, ClaimsOK
  <1>11. ASSUME NEW u \in Workers, NEW v \in Workers, u # v, worker'[u] # None, worker'[v] # None
         PROVE  worker'[u].token # worker'[v].token
    <2>1. \A x \in Workers : worker[x] # None => worker[x].token # t
      BY <1>1 DEF FreshToken
    <2>2. QED
      BY <1>8, <1>9, <1>11, <2>1 DEF MemInv, ClaimsOK
  <1>12. QED
    BY <1>7, <1>10, <1>11 DEF ClaimsOK

LEMMA EmbedKeepsJobs ==
  ASSUME MemInv, NEW w \in Workers, Embed(w)
  PROVE  JobsOK' /\ ClaimsOK'
  <1>1. UNCHANGED <<job, vector>> /\ worker[w] # None
    BY DEF Embed
  <1>2. PICK c \in EmbeddingClaim : c = worker[w]
    BY <1>1 DEF MemInv, ClaimsOK
  <1>3. PICK e : e = [c EXCEPT !.embedded = TRUE]
    OBVIOUS
  <1>4. e \in EmbeddingClaim /\ e.token = c.token
    BY <1>2, <1>3 DEF EmbeddingClaim
  <1>5. worker' = [worker EXCEPT ![w] = e]
    BY <1>2, <1>3 DEF Embed
  <1>6. \A v \in Workers : worker'[v] = IF v = w THEN e ELSE worker[v]
    BY <1>5 DEF MemInv, ClaimsOK
  <1>7. worker' \in [Workers -> EmbeddingClaim \cup {None}]
    BY <1>4, <1>5 DEF MemInv, ClaimsOK
  <1>8. ASSUME NEW u \in Workers, NEW v \in Workers, u # v, worker'[u] # None, worker'[v] # None
        PROVE  worker'[u].token # worker'[v].token
    BY <1>1, <1>2, <1>4, <1>6, <1>8 DEF MemInv, ClaimsOK
  <1>9. QED
    BY <1>1, <1>7, <1>8 DEF MemInv, ClaimsOK, JobsOK

LEMMA CompleteJobKeepsJobs ==
  ASSUME MemInv, NEW w \in Workers, CompleteJob(w)
  PROVE  JobsOK' /\ ClaimsOK'
  <1>1. PICK k \in Keys : k = worker[w].key
    BY DEF MemInv, ClaimsOK, CompleteJob, EmbeddingClaim
  <1>2. vector' = vector \cup {k} /\ job' = [job EXCEPT ![k] = Finished] /\ worker' = [worker EXCEPT ![w] = None]
    BY <1>1 DEF CompleteJob
  <1>3. Finished \in EmbeddingIndexJob /\ Marked(Finished)
    BY DEF Finished, EmbeddingIndexJob, JobStatus, Marked
  <1>4. QED
    BY <1>2, <1>3, JobWritten, ClaimDropped DEF MemInv, JobsOK

LEMMA FailedKeepsJobs ==
  ASSUME MemInv, NEW w \in Workers, worker[w] # None, Failed(w)
  PROVE  JobsOK' /\ ClaimsOK'
  <1>1. PICK k \in Keys : k = worker[w].key
    BY DEF MemInv, ClaimsOK, EmbeddingClaim
  <1>2. vector' = vector /\ worker' = [worker EXCEPT ![w] = None]
    BY DEF Failed
  <1>3. CASE Holds(w)
    <2>1. PICK j \in EmbeddingIndexJob : j = job[k]
      BY <1>1, <1>3 DEF Holds, MemInv, JobsOK
    <2>2. PICK r : r = [j EXCEPT !.status = "FAILED", !.lease_token = None, !.due = FALSE]
      OBVIOUS
    <2>3. r \in EmbeddingIndexJob /\ Marked(r)
      BY <2>1, <2>2 DEF EmbeddingIndexJob, JobStatus, Marked
    <2>4. job' = [job EXCEPT ![k] = r]
      BY <1>1, <1>3, <2>1, <2>2 DEF Failed
    <2>5. QED
      BY <1>2, <2>3, <2>4, JobWritten, ClaimDropped DEF MemInv, JobsOK
  <1>4. CASE ~ Holds(w)
    <2>1. job' = job
      BY <1>4 DEF Failed
    <2>2. QED
      BY <1>2, <2>1, ClaimDropped DEF MemInv, JobsOK
  <1>5. QED
    BY <1>3, <1>4

LEMMA RowKeepsJobs ==
  ASSUME MemInv, NEW k \in Keys, ExpireLease(k) \/ BackoffOver(k)
  PROVE  JobsOK' /\ ClaimsOK'
  <1>1. UNCHANGED <<vector, worker>> /\ job[k] # None
    BY DEF ExpireLease, BackoffOver
  <1>2. PICK j \in EmbeddingIndexJob : j = job[k] /\ Marked(j)
    BY <1>1 DEF MemInv, JobsOK
  <1>3. PICK r : /\ r = [j EXCEPT !.expired = TRUE] \/ r = [j EXCEPT !.due = TRUE]
                 /\ job' = [job EXCEPT ![k] = r]
    BY <1>2 DEF ExpireLease, BackoffOver
  <1>4. r \in EmbeddingIndexJob /\ r.status = j.status /\ r.lease_token = j.lease_token
    BY <1>2, <1>3 DEF EmbeddingIndexJob
  <1>5. Marked(r)
    BY <1>2, <1>4 DEF Marked
  <1>6. JobsOK'
    BY <1>1, <1>3, <1>4, <1>5, JobWritten DEF MemInv, JobsOK
  <1>7. QED
    BY <1>1, <1>6 DEF MemInv, ClaimsOK

LEMMA StepKeepsJobs ==
  ASSUME MemInv, [Next]_vars
  PROVE  JobsOK' /\ ClaimsOK'
  <1>1. CASE SourceStep \/ AdminStep \/ QueryStep \/ UNCHANGED vars
    <2>1. UNCHANGED <<job, vector, worker>>
      BY <1>1 DEF SourceStep, AdminStep, QueryStep, AddSkill, Activate, Retire, Publish, Revoke, SetStatus,
                  CreateSpace, ActivateSpace, RollbackSpace, Switch, StartQuery, Admit, Search, Hydrate,
                  EndQuery, vars, index
    <2>2. QED
      BY <2>1 DEF MemInv, JobsOK, ClaimsOK
  <1>2. CASE \E w \in Workers : Crash(w)
    <2>1. PICK w \in Workers : worker' = [worker EXCEPT ![w] = None] /\ UNCHANGED <<job, vector>>
      BY <1>2 DEF Crash
    <2>2. QED
      BY <2>1, ClaimDropped DEF MemInv, JobsOK
  <1>3. CASE \E w \in Workers : Reject(w) \/ ProviderError(w)
    BY <1>3, FailedKeepsJobs DEF Reject, ProviderError
  <1>4. CASE \E w \in Workers : (\E s \in Spaces : ReconcileRead(w, s)) \/ ReconcileWrite(w)
    <2>1. UNCHANGED <<job, vector, worker>>
      BY <1>4 DEF ReconcileRead, ReconcileWrite, index
    <2>2. QED
      BY <2>1 DEF MemInv, JobsOK, ClaimsOK
  <1>5. CASE \E k \in Keys : LoseVector(k)
    <2>1. UNCHANGED <<job, worker>> /\ vector' \subseteq vector
      BY <1>5 DEF LoseVector
    <2>2. QED
      BY <2>1 DEF MemInv, JobsOK, ClaimsOK
  <1>6. QED
    BY <1>1, <1>2, <1>3, <1>4, <1>5, EnqueueKeepsJobs, ClaimKeepsJobs, EmbedKeepsJobs, CompleteJobKeepsJobs,
       RowKeepsJobs DEF Next, WorkerStep, EnvironmentStep

----------------------------------------------------------------------------
(* Counts, snapshots and completeness rows.                                *)

LEMMA OldRowsVouch ==
  ASSUME MemInv, Tick, indexed' = indexed
  PROVE  CountsOK' /\ RowsVouch'
  <1>1. \A o \in Owners : generation[o] \in Nat /\ generation'[o] \in Nat /\ generation[o] <= generation'[o]
    BY DEF MemInv, CountsOK, Counts, Tick
  <1>2. ASSUME NEW x \in Owners \X Spaces, indexed[x] # None
        PROVE  indexed[x] \in Nat /\ indexed[x] <= generation[x[1]] /\ indexed[x] <= generation'[x[1]]
    <2>1. indexed[x] \in Nat /\ indexed[x] <= generation[x[1]] /\ x[1] \in Owners
      BY <1>2 DEF MemInv, CountsOK, Completeness
    <2>2. QED
      BY <1>1, <2>1
  <1>3. CountsOK'
    BY <1>2 DEF MemInv, CountsOK, Tick
  <1>4. ASSUME NEW t \in Tenants, NEW s \in Spaces, Ready(t, s)', NEW p \in OwnersOf(t)
        PROVE  IndexedFor(p, s)'
    <2>1. ASSUME NEW o \in OwnersOf(t)
          PROVE  indexed[<<o, s>>] = generation[o] /\ generation[o] = generation'[o]
      <3>1. o \in Owners /\ <<o, s>> \in Owners \X Spaces /\ indexed[<<o, s>>] = generation'[o]
        BY <1>4, <2>1 DEF OwnersOf, Ready
      <3>2. indexed[<<o, s>>] # None
        BY <1>1, <3>1, MemoryAssumption
      <3>3. indexed[<<o, s>>] <= generation[o] /\ indexed[<<o, s>>] \in Nat
        BY <1>2, <3>1, <3>2
      <3>4. QED
        BY <1>1, <3>1, <3>3
    <2>2. IndexedFor(p, s)
      BY <1>4, <2>1 DEF MemInv, RowsVouch, Ready
    <2>3. p \in Owners
      BY <1>4 DEF OwnersOf
    <2>4. QED
      BY <1>4, <2>1, <2>2, <2>3 DEF Tick
  <1>5. QED
    BY <1>3, <1>4 DEF RowsVouch

LEMMA OldSnapshotsVouch ==
  ASSUME MemInv, Tick, NEW w \in Workers, snapshot' \in {snapshot, [snapshot EXCEPT ![w] = None]}
  PROVE  SnapshotsOK'
  <1>1. snapshot' \in [Workers -> Snapshots \cup {None}]
    BY DEF MemInv, SnapshotsOK
  <1>2. ASSUME NEW v \in Workers, snapshot'[v] # None
        PROVE  Vouches(snapshot[v].generation, Serves[v], snapshot[v].space)'
    <2>1. PICK r \in Snapshots : r = snapshot[v] /\ snapshot'[v] = r
      BY <1>2 DEF MemInv, SnapshotsOK
    <2>2. Vouches(r.generation, Serves[v], r.space)
      BY <1>2, <2>1 DEF MemInv, SnapshotsOK
    <2>3. r.generation \in Counts /\ r.space \in Spaces
      BY <2>1 DEF Snapshots
    <2>4. Vouches(r.generation, Serves[v], r.space)'
      BY <2>2, <2>3, StillVouches DEF MemInv
    <2>5. QED
      BY <2>1, <2>4 DEF Vouches
  <1>3. QED
    BY <1>1, <1>2 DEF SnapshotsOK

LEMMA ReadKeepsSnapshots ==
  ASSUME MemInv, Tick, NEW w \in Workers, NEW s \in Spaces, ReconcileRead(w, s)
  PROVE  SnapshotsOK'
  <1>1. PICK r : r = [space |-> s, generation |-> generation, indexed |-> indexed]
    OBVIOUS
  <1>2. snapshot' = [snapshot EXCEPT ![w] = r] /\ UNCHANGED <<generation, status, vector>>
    BY <1>1 DEF ReconcileRead, sources, index
  <1>3. r \in Snapshots /\ r.generation = generation /\ r.space = s
    BY <1>1 DEF Snapshots, MemInv, CountsOK
  <1>4. snapshot' \in [Workers -> Snapshots \cup {None}]
    BY <1>2, <1>3 DEF MemInv, SnapshotsOK
  <1>5. \A v \in Workers : snapshot'[v] = IF v = w THEN r ELSE snapshot[v]
    BY <1>2 DEF MemInv, SnapshotsOK
  <1>6. Vouches(generation, Serves[w], s)
    <2>1. \A o \in OwnersOf(Serves[w]) : IndexedFor(o, s)
      BY CompleteByOwner DEF MemInv, ReconcileRead
    <2>2. \A o \in Owners : generation[o] <= generation[o]
      BY DEF MemInv, CountsOK, Counts
    <2>3. QED
      BY <2>1, <2>2 DEF Vouches
  <1>7. ASSUME NEW v \in Workers, snapshot'[v] # None
        PROVE  Vouches(snapshot'[v].generation, Serves[v], snapshot'[v].space)
    BY <1>3, <1>5, <1>6, <1>7 DEF MemInv, SnapshotsOK
  <1>8. QED
    BY <1>2, <1>4, <1>7 DEF SnapshotsOK, Vouches, IndexedFor

LEMMA WriteKeepsCounts ==
  ASSUME MemInv, Tick, NEW w \in Workers, ReconcileWrite(w)
  PROVE  CountsOK' /\ RowsVouch'
  <1>1. PICK r \in Snapshots : r = snapshot[w]
    BY DEF MemInv, SnapshotsOK, ReconcileWrite
  <1>2. PICK T : T = Serves[w]
    OBVIOUS
  <1>3. PICK mine : mine = {<<o, r.space>> : o \in OwnersOf(T)}
    OBVIOUS
  <1>4. UNCHANGED <<generation, status, vector>>
    BY DEF ReconcileWrite, sources, index
  <1>5. r.generation \in Counts /\ r.space \in Spaces /\ Vouches(r.generation, T, r.space)
    BY <1>1, <1>2 DEF Snapshots, MemInv, SnapshotsOK, ReconcileWrite
  <1>6. CASE indexed' = indexed
    BY <1>6, OldRowsVouch
  <1>7. CASE indexed' = [x \in DOMAIN indexed |-> IF x \in mine THEN r.generation[x[1]] ELSE indexed[x]]
    <2>1. DOMAIN indexed = Owners \X Spaces
      BY DEF MemInv, CountsOK, Completeness
    <2>2. \A x \in Owners \X Spaces : indexed'[x] = IF x \in mine THEN r.generation[x[1]] ELSE indexed[x]
      BY <1>7, <2>1
    <2>3. indexed' \in Completeness
      BY <1>5, <1>7, <2>1 DEF Completeness, Counts, MemInv, CountsOK
    <2>4. CountsOK'
      BY <1>4, <1>5, <2>2, <2>3 DEF CountsOK, MemInv, Vouches
    <2>5. ASSUME NEW t \in Tenants, NEW s \in Spaces, Ready(t, s)', NEW p \in OwnersOf(t)
          PROVE  IndexedFor(p, s)
      <3>1. \A o \in OwnersOf(t) : o \in Owners /\ o[1] = t /\ indexed'[<<o, s>>] = generation[o]
        BY <1>4, <2>5 DEF OwnersOf, Ready
      <3>2. CASE t = T /\ s = r.space
        <4>1. \A o \in OwnersOf(T) : r.generation[o] = generation[o]
          BY <1>3, <2>2, <3>1, <3>2
        <4>2. QED
          BY <1>5, <2>5, <3>2, <4>1 DEF Vouches
      <3>3. CASE ~ (t = T /\ s = r.space)
        <4>1. \A o \in OwnersOf(t) : <<o, s>> \notin mine
          BY <1>3, <3>1, <3>3 DEF OwnersOf
        <4>2. Ready(t, s)
          BY <2>2, <3>1, <4>1 DEF Ready
        <4>3. QED
          BY <2>5, <4>2 DEF MemInv, RowsVouch
      <3>4. QED
        BY <3>2, <3>3
    <2>6. RowsVouch'
      BY <1>4, <2>5 DEF RowsVouch, IndexedFor
    <2>7. QED
      BY <2>4, <2>6
  <1>8. QED
    BY <1>1, <1>2, <1>3, <1>6, <1>7 DEF ReconcileWrite

LEMMA StepKeepsCounts ==
  ASSUME MemInv, [Next]_vars
  PROVE  CountsOK' /\ RowsVouch' /\ SnapshotsOK'
  <1>1. Tick
    BY StepTicks
  <1>2. CASE \E w \in Workers : ReconcileWrite(w)
    <2>1. PICK w \in Workers : ReconcileWrite(w)
      BY <1>2
    <2>2. snapshot' = [snapshot EXCEPT ![w] = None]
      BY <2>1 DEF ReconcileWrite
    <2>3. QED
      BY <1>1, <2>1, <2>2, WriteKeepsCounts, OldSnapshotsVouch
  <1>3. CASE \E w \in Workers, s \in Spaces : ReconcileRead(w, s)
    <2>1. indexed' = indexed
      BY <1>3 DEF ReconcileRead
    <2>2. QED
      BY <1>1, <1>3, <2>1, ReadKeepsSnapshots, OldRowsVouch
  <1>4. CASE \E w \in Workers : Crash(w)
    <2>1. PICK w \in Workers : snapshot' = [snapshot EXCEPT ![w] = None] /\ indexed' = indexed
      BY <1>4 DEF Crash
    <2>2. QED
      BY <1>1, <2>1, OldSnapshotsVouch, OldRowsVouch
  <1>5. CASE UNCHANGED <<indexed, snapshot>>
    <2>1. CountsOK' /\ RowsVouch'
      BY <1>1, <1>5, OldRowsVouch
    <2>2. CASE Workers = {}
      <3>1. snapshot \in [Workers -> Snapshots \cup {None}] /\ snapshot' = snapshot
        BY <1>5 DEF MemInv, SnapshotsOK
      <3>2. QED
        BY <2>1, <2>2, <3>1 DEF SnapshotsOK
    <2>3. CASE Workers # {}
      <3>1. PICK w \in Workers : TRUE
        BY <2>3
      <3>2. snapshot' \in {snapshot, [snapshot EXCEPT ![w] = None]}
        BY <1>5
      <3>3. QED
        BY <1>1, <2>1, <3>2, OldSnapshotsVouch
    <2>4. QED
      BY <2>1, <2>2, <2>3
  <1>6. SourceStep \/ AdminStep \/ QueryStep \/ EnvironmentStep \/ UNCHANGED vars => UNCHANGED <<indexed, snapshot>>
    BY DEF SourceStep, AdminStep, QueryStep, EnvironmentStep, AddSkill, Activate, Retire, Publish, Revoke,
           SetStatus, CreateSpace, ActivateSpace, RollbackSpace, Switch, StartQuery, Admit, Search, Hydrate,
           EndQuery, ExpireLease, BackoffOver, LoseVector, vars, counts
  <1>7. ASSUME WorkerStep
        PROVE  \/ \E w \in Workers : ReconcileWrite(w) \/ Crash(w) \/ \E s \in Spaces : ReconcileRead(w, s)
               \/ UNCHANGED <<indexed, snapshot>>
    BY <1>7 DEF WorkerStep, Enqueue, Embed, CompleteJob, Reject, ProviderError, Failed, Claim, counts
  <1>8. QED
    BY <1>2, <1>3, <1>4, <1>5, <1>6, <1>7 DEF Next

----------------------------------------------------------------------------
(* Queries.                                                                *)

LEMMA AdmissionLasts ==
  ASSUME CountsOK, Tick, NEW count \in Counts, NEW o, NEW s \in Spaces, AdmissionOK(count, o, s)
  PROVE  AdmissionOK(count, o, s)'
  <1>1. CASE o \in Owners
    <2>1. count[o] \in Nat /\ generation[o] \in Nat /\ generation'[o] \in Nat
      BY <1>1 DEF CountsOK, Counts, Tick
    <2>2. count[o] <= generation[o] /\ generation[o] <= generation'[o]
      BY <1>1 DEF AdmissionOK, Tick
    <2>3. count[o] <= generation'[o] /\ (count[o] = generation'[o] => /\ generation[o] = generation'[o]
                                                                      /\ count[o] = generation[o])
      BY <2>1, <2>2
    <2>4. count[o] = generation'[o] => IndexedFor(o, s)'
      BY <1>1, <2>3 DEF AdmissionOK, Tick
    <2>5. QED
      BY <2>3, <2>4 DEF AdmissionOK
  <1>2. CASE o \notin Owners
    BY <1>2 DEF AdmissionOK
  <1>3. QED
    BY <1>1, <1>2

LEMMA OldQueryOK ==
  ASSUME MemInv, Tick, query' = query
  PROVE  QueryOK'
  <1>1. ASSUME query # None, query.admitted # None
        PROVE  AdmissionOK(query.admitted, <<Query.tenant, query.kind>>, query.space)'
    <2>1. PICK q \in QueryRecords : q = query /\ q.admitted # None
      BY <1>1 DEF MemInv, QueryOK
    <2>2. PICK c \in Counts : c = q.admitted
      BY <2>1 DEF QueryRecords
    <2>3. PICK o : o = <<Query.tenant, q.kind>>
      OBVIOUS
    <2>4. PICK s \in Spaces : s = q.space
      BY <2>1 DEF QueryRecords
    <2>5. AdmissionOK(c, o, s)
      BY <1>1, <2>1, <2>2, <2>3, <2>4 DEF MemInv, QueryOK
    <2>6. AdmissionOK(c, o, s)'
      BY <2>5, AdmissionLasts DEF MemInv
    <2>7. QED
      BY <2>1, <2>2, <2>3, <2>4, <2>6 DEF AdmissionOK
  <1>2. QED
    BY <1>1 DEF MemInv, QueryOK

\* An admitted query found the index complete.
LEMMA ReadyIndexes ==
  ASSUME MemInv, NEW s \in Spaces, NEW k, Ready(Query.tenant, s)
  PROVE  AdmissionOK(generation, <<Query.tenant, k>>, s)
  <1>1. PICK o : o = <<Query.tenant, k>>
    OBVIOUS
  <1>2. ASSUME o \in Owners
        PROVE  generation[o] <= generation[o] /\ IndexedFor(o, s)
    <2>1. Query.tenant \in Tenants /\ o \in OwnersOf(Query.tenant)
      BY <1>1, <1>2 DEF Owners, OwnersOf
    <2>2. IndexedFor(o, s)
      BY <2>1 DEF MemInv, RowsVouch
    <2>3. QED
      BY <1>2, <2>2 DEF MemInv, CountsOK, Counts
  <1>3. QED
    BY <1>1, <1>2 DEF AdmissionOK

LEMMA StartQueryOK ==
  ASSUME MemInv, StartQuery
  PROVE  QueryOK'
  <1>1. head \in Spaces
    BY DEF MemInv, RowsOK, StartQuery
  <1>2. query' \in QueryRecords /\ query'.admitted = None
    BY <1>1 DEF StartQuery, QueryRecords, DocumentType
  <1>3. QED
    BY <1>2 DEF QueryOK

LEMMA FailQueryOK ==
  ASSUME MemInv, query # None, FailQuery, UNCHANGED <<status, vector, generation>>
  PROVE  QueryOK'
  <1>1. PICK q \in QueryRecords : q = query
    BY DEF MemInv, QueryOK
  <1>2. query' = [q EXCEPT !.failed = TRUE]
    BY <1>1 DEF FailQuery
  <1>3. /\ query' \in QueryRecords /\ query'.admitted = q.admitted /\ query'.kind = q.kind
        /\ query'.space = q.space
    BY <1>1, <1>2 DEF QueryRecords
  <1>4. QED
    BY <1>1, <1>3 DEF MemInv, QueryOK, AdmissionOK, IndexedFor

LEMMA AdmitOK ==
  ASSUME MemInv, Admit
  PROVE  QueryOK'
  <1>1. query # None /\ UNCHANGED <<status, vector, generation>>
    BY DEF Admit, sources, index, counts
  <1>2. PICK q \in QueryRecords : q = query
    BY <1>1 DEF MemInv, QueryOK
  <1>3. CASE Admitted
    <2>1. query' = [q EXCEPT !.admitted = generation]
      BY <1>2, <1>3 DEF Admit
    <2>2. /\ query' \in QueryRecords /\ query'.admitted = generation /\ query'.kind = q.kind
          /\ query'.space = q.space /\ q.space \in Spaces
      BY <1>2, <2>1 DEF QueryRecords, MemInv, CountsOK
    <2>3. PICK s, k : s \in Spaces /\ s = q.space /\ k = q.kind
      BY <2>2
    <2>4. AdmissionOK(generation, <<Query.tenant, k>>, s)
      BY <1>2, <1>3, <2>3, ReadyIndexes DEF Admitted
    <2>5. QED
      BY <1>1, <2>2, <2>3, <2>4 DEF QueryOK, AdmissionOK, IndexedFor
  <1>4. CASE ~ Admitted
    BY <1>1, <1>4, FailQueryOK DEF Admit
  <1>5. QED
    BY <1>3, <1>4

LEMMA SearchOK ==
  ASSUME MemInv, Search
  PROVE  QueryOK'
  <1>1. query # None /\ UNCHANGED <<status, vector, generation>>
    BY DEF Search, sources, index, counts
  <1>2. PICK q \in QueryRecords : q = query
    BY <1>1 DEF MemInv, QueryOK
  <1>3. PICK found : found \in SUBSET Docs /\ query' = [q EXCEPT !.found = found]
    BY <1>2 DEF Search
  <1>4. /\ query' \in QueryRecords /\ query'.admitted = q.admitted /\ query'.kind = q.kind
        /\ query'.space = q.space
    BY <1>2, <1>3 DEF QueryRecords
  <1>5. QED
    BY <1>1, <1>2, <1>4 DEF MemInv, QueryOK, AdmissionOK, IndexedFor

LEMMA HydrateOK ==
  ASSUME MemInv, Hydrate
  PROVE  QueryOK'
  <1>1. query # None /\ UNCHANGED <<status, vector, generation>>
    BY DEF Hydrate, sources, index, counts
  <1>2. PICK q \in QueryRecords : q = query
    BY <1>1 DEF MemInv, QueryOK
  <1>3. CASE FailQuery
    BY <1>1, <1>3, FailQueryOK
  <1>4. CASE ~ FailQuery
    <2>1. PICK result, kind :
            /\ result = q.result \cup q.found
            /\ kind = IF q.kind = "SKILL" THEN "EXPERIENCE" ELSE None
            /\ query' = [q EXCEPT !.result = result, !.found = None, !.admitted = None, !.kind = kind]
      BY <1>2, <1>4 DEF Hydrate
    <2>2. q.found \in SUBSET Docs /\ q.result \in SUBSET Docs
      BY <1>2 DEF QueryRecords, Hydrate
    <2>3. result \in SUBSET Docs /\ kind \in DocumentType \cup {None}
      BY <2>1, <2>2 DEF DocumentType
    <2>4. query' \in QueryRecords /\ query'.admitted = None
      BY <1>2, <2>1, <2>3 DEF QueryRecords
    <2>5. QED
      BY <2>4 DEF QueryOK
  <1>5. QED
    BY <1>3, <1>4

LEMMA StepKeepsQuery ==
  ASSUME MemInv, [Next]_vars
  PROVE  QueryOK'
  <1>1. Tick
    BY StepTicks
  <1>2. CASE QueryStep
    <2>1. CASE EndQuery
      BY <2>1 DEF EndQuery, QueryOK
    <2>2. QED
      BY <1>2, <2>1, StartQueryOK, AdmitOK, SearchOK, HydrateOK DEF QueryStep
  <1>3. CASE SourceStep \/ AdminStep \/ WorkerStep \/ EnvironmentStep \/ UNCHANGED vars
    <2>1. query' = query
      BY <1>3 DEF SourceStep, AdminStep, WorkerStep, EnvironmentStep, AddSkill, Activate, Retire, Publish,
                  Revoke, SetStatus, CreateSpace, ActivateSpace, RollbackSpace, Switch, Enqueue, Embed,
                  CompleteJob, Reject, ProviderError, Failed, Crash, Claim, ReconcileRead, ReconcileWrite,
                  ExpireLease, BackoffOver, LoseVector, vars
    <2>2. QED
      BY <1>1, <2>1, OldQueryOK
  <1>4. QED
    BY <1>2, <1>3 DEF Next

----------------------------------------------------------------------------
(* The theorems.                                                           *)

LEMMA InitMemInv ==
  ASSUME Init
  PROVE  MemInv
  <1>1. RowsOK
    BY DEF Init, RowsOK, SourceStatus
  <1>2. JobsOK /\ ClaimsOK /\ QueryOK /\ SnapshotsOK
    BY DEF Init, JobsOK, ClaimsOK, QueryOK, SnapshotsOK
  <1>3. CountsOK
    BY DEF Init, CountsOK, Counts, Completeness
  <1>4. RowsVouch
    BY DEF Init, RowsVouch, IndexedFor
  <1>5. QED
    BY <1>1, <1>2, <1>3, <1>4 DEF MemInv

LEMMA MemInvHolds == Spec => []MemInv
  <1>1. Init => MemInv
    BY InitMemInv
  <1>2. MemInv /\ [Next]_vars => MemInv'
    BY StepKeepsRows, StepKeepsJobs, StepKeepsCounts, StepKeepsQuery DEF MemInv
  <1>3. QED
    BY <1>1, <1>2, PTL DEF Spec

LEMMA MemInvTypes ==
  ASSUME MemInv
  PROVE  TypeOK
  <1>1. DOMAIN status = Docs /\ DOMAIN space = Spaces /\ DOMAIN job = Keys
    BY DEF MemInv, RowsOK, JobsOK
  <1>2. /\ \A d \in Docs : status[d] \in {"ABSENT", "DRAFT", "ACTIVE", "RETIRED", "REVOKED"}
        /\ \A s \in Spaces : space[s] \in SpaceStatus \cup {"ABSENT"}
    BY DEF MemInv, RowsOK, SourceStatus
  <1>3. /\ head \in DOMAIN space \cup {None}
        /\ head # None => {s \in DOMAIN space : space[s] = "ACTIVE"} = {head}
    BY <1>1 DEF MemInv, RowsOK
  <1>4. vector \subseteq Keys /\ \A k \in Keys : job[k] # None => job[k] \in EmbeddingIndexJob /\ Marked(job[k])
    BY DEF MemInv, JobsOK
  <1>5. ASSUME NEW x \in DOMAIN indexed, indexed[x] # None
        PROVE  indexed[x] \in 0..generation[x[1]]
    <2>1. x \in Owners \X Spaces
      BY <1>5 DEF MemInv, CountsOK, Completeness
    <2>2. indexed[x] \in Nat /\ generation[x[1]] \in Nat /\ indexed[x] <= generation[x[1]]
      BY <1>5, <2>1 DEF MemInv, CountsOK, Completeness, Counts
    <2>3. QED
      BY <2>2
  <1>6. QED
    BY <1>1, <1>2, <1>3, <1>4, <1>5 DEF TypeOK, Marked

(* The index can be relied on: the tables are well formed with one active  *)
(* space at most, equal counts mean a complete index, and two workers      *)
(* never hold a live lease of the same job.                                *)
THEOREM IndexSound == Spec => []IndexIsSound
  <1>1. ASSUME MemInv
        PROVE  ReadyMeansComplete
    <2>1. ASSUME NEW t \in Tenants, NEW s \in Spaces, Ready(t, s)
          PROVE  Complete(t, s)
      BY <1>1, <2>1, CompleteByOwner DEF MemInv, RowsVouch
    <2>2. DOMAIN space = Spaces
      BY <1>1 DEF MemInv, RowsOK
    <2>3. QED
      BY <2>1, <2>2 DEF ReadyMeansComplete
  <1>2. ASSUME MemInv
        PROVE  LeaseIsExclusive
    <2>1. ASSUME NEW v \in Workers, NEW w \in Workers, v # w, worker[v] # None, worker[w] # None,
                 worker[v].key = worker[w].key, Fenced(v), Fenced(w)
          PROVE  FALSE
      <3>1. worker[v].token = worker[w].token
        BY <2>1 DEF Fenced, Holds
      <3>2. QED
        BY <1>2, <2>1, <3>1 DEF MemInv, ClaimsOK
    <2>2. DOMAIN worker = Workers
      BY <1>2 DEF MemInv, ClaimsOK
    <2>3. QED
      BY <2>1, <2>2 DEF LeaseIsExclusive
  <1>3. MemInv => IndexIsSound
    BY <1>1, <1>2, MemInvTypes DEF IndexIsSound
  <1>4. QED
    BY <1>3, MemInvHolds, PTL

Scan == {d \in Active(Query.tenant) : Doc[d].kind = query.kind /\ Eligible(Doc[d], Query)}

Exact ==
  (query # None /\ query' # None) =>
    /\ (query.found = None /\ query'.found # None) =>
         /\ query'.found \subseteq Scan
         /\ query.admitted[<<Query.tenant, query.kind>>] = generation[<<Query.tenant, query.kind>>]
              => IF Cardinality(Scan) <= SearchLimit THEN query'.found = Scan
                 ELSE Cardinality(query'.found) = SearchLimit
    /\ \A d \in query'.result \ query.result : status[d] = "ACTIVE"

LEMMA SearchIsExact ==
  ASSUME MemInv, Search
  PROVE  Exact
  <1>1. PICK q \in QueryRecords : q = query /\ q.admitted # None
    BY DEF MemInv, QueryOK, Search
  <1> DEFINE eligible == {d \in Docs : /\ <<d, q.space>> \in vector /\ status[d] = "ACTIVE"
                                        /\ Doc[d].kind = q.kind /\ SqlEligible(Doc[d], Query)}
  <1>2. PICK found \in SUBSET eligible :
          /\ Cardinality(found) <= SearchLimit
          /\ found = eligible \/ Cardinality(found) = SearchLimit
          /\ query' = [q EXCEPT !.found = found]
    BY <1>1 DEF Search
  <1>3. query'.found = found /\ query'.result = q.result
    BY <1>1, <1>2 DEF QueryRecords
  <1>4. \A d \in Docs : SqlEligible(Doc[d], Query) <=> Eligible(Doc[d], Query)
    BY OwnerIsOwner, FiltersAgree, MemoryAssumption
  <1>5. \A d \in Docs : Eligible(Doc[d], Query) => Doc[d].tenant = Query.tenant
    BY DEF Eligible
  <1>6. Scan = {d \in Docs : /\ Doc[d].tenant = Query.tenant /\ status[d] = "ACTIVE"
                             /\ Doc[d].kind = q.kind /\ Eligible(Doc[d], Query)}
    BY <1>1 DEF Scan, Active, MemInv, RowsOK
  <1>7. eligible \subseteq Scan
    BY <1>4, <1>5, <1>6
  <1>8. ASSUME q.admitted[<<Query.tenant, q.kind>>] = generation[<<Query.tenant, q.kind>>], NEW d \in Scan
        PROVE  d \in eligible
    <2>1. d \in Docs /\ Owner(d) = <<Query.tenant, q.kind>> /\ status[d] = "ACTIVE" /\ Doc[d].kind = q.kind
      BY <1>6, <1>8 DEF Owner
    <2>2. Owner(d) \in Owners
      BY <2>1, OwnerIsOwner
    <2>3. AdmissionOK(q.admitted, Owner(d), q.space)
      BY <1>1, <2>1 DEF MemInv, QueryOK, Search
    <2>4. IndexedFor(Owner(d), q.space)
      BY <1>8, <2>1, <2>2, <2>3 DEF AdmissionOK
    <2>5. <<d, q.space>> \in vector
      BY <2>1, <2>4 DEF IndexedFor
    <2>6. QED
      BY <1>4, <1>6, <1>8, <2>1, <2>5
  <1>9. found \subseteq Scan
    BY <1>2, <1>7
  <1>10. /\ SearchLimit \in Nat /\ Cardinality(found) \in Nat /\ Cardinality(Scan) \in Nat
         /\ Cardinality(found) = Cardinality(Scan) => found = Scan
         /\ Cardinality(found) <= Cardinality(Scan)
    <2>1. IsFiniteSet(Scan)
      BY <1>6, FS_Subset, MemoryAssumption
    <2>2. QED
      BY <1>9, <2>1, FS_Subset, FS_CardinalityType, MemoryAssumption
  <1>11. ASSUME q.admitted[<<Query.tenant, q.kind>>] = generation[<<Query.tenant, q.kind>>]
         PROVE  IF Cardinality(Scan) <= SearchLimit THEN found = Scan ELSE Cardinality(found) = SearchLimit
    <2>1. found = Scan \/ Cardinality(found) = SearchLimit
      BY <1>2, <1>7, <1>8, <1>11
    <2>2. CASE Cardinality(Scan) <= SearchLimit
      BY <1>10, <2>1, <2>2
    <2>3. CASE ~ (Cardinality(Scan) <= SearchLimit)
      BY <1>2, <1>10, <2>1, <2>3
    <2>4. QED
      BY <2>2, <2>3
  <1>12. QED
    BY <1>1, <1>3, <1>9, <1>11 DEF Exact

LEMMA HydrateIsExact ==
  ASSUME MemInv, Hydrate
  PROVE  Exact
  <1>1. PICK q \in QueryRecords : q = query /\ q.found # None
    BY DEF MemInv, QueryOK, Hydrate
  <1>2. CASE \A d \in query.found : Current(d)
    <2>1. PICK result, kind :
            /\ result = q.result \cup q.found
            /\ query' = [q EXCEPT !.result = result, !.found = None, !.admitted = None, !.kind = kind]
      BY <1>1, <1>2 DEF Hydrate
    <2>2. query'.result = result
      BY <1>1, <2>1 DEF QueryRecords
    <2>3. \A d \in query'.result \ q.result : status[d] = "ACTIVE"
      BY <1>1, <1>2, <2>1, <2>2 DEF Current
    <2>4. QED
      BY <1>1, <2>3 DEF Exact
  <1>3. CASE ~ \A d \in query.found : Current(d)
    <2>1. query' = [q EXCEPT !.failed = TRUE]
      BY <1>1, <1>3 DEF Hydrate, FailQuery
    <2>2. query'.result = q.result
      BY <1>1, <2>1 DEF QueryRecords
    <2>3. QED
      BY <1>1, <2>2 DEF Exact
  <1>4. QED
    BY <1>2, <1>3

LEMMA StepIsExact ==
  ASSUME MemInv, [Next]_vars
  PROVE  Exact
  <1>1. CASE StartQuery \/ EndQuery
    BY <1>1 DEF StartQuery, EndQuery, Exact
  <1>2. CASE Admit
    <2>1. PICK q \in QueryRecords : q = query
      BY <1>2 DEF MemInv, QueryOK, Admit
    <2>2. PICK count : query' = [q EXCEPT !.admitted = count] \/ query' = [q EXCEPT !.failed = TRUE]
      BY <1>2, <2>1 DEF Admit, FailQuery
    <2>3. query'.result = q.result /\ query'.found = q.found
      BY <2>1, <2>2 DEF QueryRecords
    <2>4. QED
      BY <2>1, <2>3 DEF Exact
  <1>3. CASE SourceStep \/ AdminStep \/ WorkerStep \/ EnvironmentStep \/ UNCHANGED vars
    <2>1. query' = query
      BY <1>3 DEF SourceStep, AdminStep, WorkerStep, EnvironmentStep, AddSkill, Activate, Retire, Publish,
                  Revoke, SetStatus, CreateSpace, ActivateSpace, RollbackSpace, Switch, Enqueue, Embed,
                  CompleteJob, Reject, ProviderError, Failed, Crash, Claim, ReconcileRead, ReconcileWrite,
                  ExpireLease, BackoffOver, LoseVector, vars
    <2>2. QED
      BY <2>1 DEF Exact
  <1>4. QED
    BY <1>1, <1>2, <1>3, SearchIsExact, HydrateIsExact DEF Next, QueryStep

(* A retrieval gives what a scan of the primary records would: nothing     *)
(* else; nothing less, up to the limit of a search, unless something was   *)
(* written since its admission; and every document is active when it       *)
(* enters the result.                                                      *)
THEOREM RetrievalExact == Spec => RetrievalIsExact
  <1>1. MemInv /\ [Next]_vars => [Exact]_vars
    BY StepIsExact
  <1>2. [][Exact]_vars => RetrievalIsExact
    BY PTL DEF RetrievalIsExact, Exact, Scan
  <1>3. QED
    BY <1>1, <1>2, MemInvHolds, PTL DEF Spec
=============================================================================
