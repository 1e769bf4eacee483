----------------------------- MODULE MemoryIndex -----------------------------
(***************************************************************************)
(* Skills and verified experiences, their rebuildable vector index and the *)
(* retrieval that reads it.  Sources change in their own transactions; a   *)
(* worker scans, claims a job under a lease, calls the embedding provider  *)
(* outside any transaction and completes under its fencing token; database *)
(* triggers count every change of sources and vectors, and a reconciler    *)
(* records the count it found the index complete at.  A query searches one *)
(* active space per document type and then rereads the primary records.    *)
(* Bodies are immutable, so a document stands for its content hash.        *)
(***************************************************************************)
EXTENDS Knowledge

CONSTANTS Docs,       \* documents that may ever exist
          Doc,        \* their immutable content: kind, tenant, scope, ...
          Spaces,     \* embedding spaces, one per provider contract
          Workers,    \* embedding workers
          Serves,     \* the tenant each worker is deployed for
          Query,      \* the incident query of a Case
          SearchLimit, \* the most documents a search returns (top_k, 20)
          MaxFaults   \* bound: provider errors, slow or crashed workers, lost vectors

VARIABLES
  status,     \* status of each primary record
  space,      \* retrieval_embedding_spaces.status
  head,       \* retrieval_space_head.active_space
  vector,     \* index rows, by document and space
  job,        \* retrieval_embedding_index_jobs
  worker,     \* the claim a worker holds in memory
  generation, \* retrieval_source_generations, by tenant and type
  indexed,    \* retrieval_completeness.indexed_generation
  snapshot,   \* a reconciler's open transaction
  query,      \* one retrieval in progress
  faults

sources == <<status>>
index == <<space, head, vector, job, worker>>
counts == <<generation, indexed, snapshot>>
vars == <<status, space, head, vector, job, worker, generation, indexed, snapshot, query, faults>>

ASSUME MemoryAssumption ==
  /\ None \notin Int
  /\ IsFiniteSet(Docs) /\ IsFiniteSet(Spaces) /\ IsFiniteSet(Workers)
  /\ \A d \in Docs : WellFormed(Doc[d])
  /\ WellFormedQuery(Query)
  /\ SearchLimit \in Nat \ {0} /\ MaxFaults \in Nat

Tenants == {Doc[d].tenant : d \in Docs}
Owners == Tenants \X DocumentType
Owner(d) == <<Doc[d].tenant, Doc[d].kind>>
Keys == Docs \X Spaces
Tokens == 1..(Cardinality(Workers) + Cardinality(Keys))

JobStatus == {"PENDING", "CLAIMED", "COMPLETED", "FAILED"}
SpaceStatus == {"BUILDING", "ACTIVE", "RETIRED"}

\* EmbeddingIndexJob; lease_until and next_eligible_at are whether they passed
EmbeddingIndexJob ==
  [status : JobStatus, lease_token : Tokens \cup {None}, expired : BOOLEAN, due : BOOLEAN]

\* The rows of the tables, one active space at most, a token exactly on the
\* claimed jobs, and no completeness recorded ahead of the count.
TypeOK ==
  /\ \A d \in DOMAIN status : status[d] \in {"ABSENT", "DRAFT", "ACTIVE", "RETIRED", "REVOKED"}
  /\ \A s \in DOMAIN space : space[s] \in SpaceStatus \cup {"ABSENT"}
  /\ head \in DOMAIN space \cup {None}
  /\ head # None => {s \in DOMAIN space : space[s] = "ACTIVE"} = {head}
  /\ vector \subseteq DOMAIN job
  /\ \A k \in DOMAIN job : job[k] # None =>
       job[k] \in EmbeddingIndexJob /\ (job[k].status = "CLAIMED") = (job[k].lease_token # None)
  /\ \A x \in DOMAIN indexed : indexed[x] # None => indexed[x] \in 0..generation[x[1]]

Init ==
  /\ status = [d \in Docs |-> "ABSENT"]
  /\ space = [s \in Spaces |-> "ABSENT"] /\ head = None
  /\ vector = {} /\ job = [k \in Keys |-> None]
  /\ worker = [w \in Workers |-> None]
  /\ generation = [o \in Owners |-> 0]
  /\ indexed = [x \in Owners \X Spaces |-> None]
  /\ snapshot = [w \in Workers |-> None]
  /\ query = None /\ faults = 0

----------------------------------------------------------------------------
(* Primary records.  The triggers of migration 0017 bump on every write.   *)

Bump(o) == generation' = [generation EXCEPT ![o] = @ + 1]

SetStatus(d, before, after) ==
  /\ status[d] = before
  /\ status' = [status EXCEPT ![d] = after]
  /\ Bump(Owner(d))
  /\ UNCHANGED <<index, indexed, snapshot, query, faults>>

AddSkill(d) == Doc[d].kind = "SKILL" /\ SetStatus(d, "ABSENT", "DRAFT")

\* _transition composes the skill alone first: a conflict is not activated
Activate(d) == Doc[d].kind = "SKILL" /\ Doc[d].enforced /\ SetStatus(d, "DRAFT", "ACTIVE")
Retire(d) == Doc[d].kind = "SKILL" /\ SetStatus(d, "ACTIVE", "RETIRED")

\* publish, of a Case closed with intact seals: a second call returns the old
\* row whatever its status
Publish(d) == Doc[d].kind = "EXPERIENCE" /\ SetStatus(d, "ABSENT", "ACTIVE")

Revoke(d) == Doc[d].kind = "EXPERIENCE" /\ SetStatus(d, "ACTIVE", "REVOKED")

----------------------------------------------------------------------------
(* Embedding spaces.                                                       *)

Active(t) == {d \in DOMAIN status : Doc[d].tenant = t /\ status[d] = "ACTIVE"}

\* assert_complete for one tenant; a row of an inactive source does not count
Complete(t, s) == \A d \in Active(t) : <<d, s>> \in vector

CreateSpace(s) ==
  /\ space[s] = "ABSENT"
  /\ space' = [space EXCEPT ![s] = "BUILDING"]
  /\ UNCHANGED <<sources, head, vector, job, worker, counts, query, faults>>

\* activate_space and rollback_space: the pointer moves, the old one retires
Switch(s, from) ==
  /\ space[s] = from
  /\ from = "RETIRED" => head # None
  /\ \A t \in Tenants : Complete(t, s)
  /\ space' = [x \in Spaces |-> IF x = s THEN "ACTIVE" ELSE IF space[x] = "ACTIVE" THEN "RETIRED" ELSE space[x]]
  /\ head' = s
  /\ UNCHANGED <<sources, vector, job, worker, counts, query, faults>>

ActivateSpace(s) == Switch(s, "BUILDING")

RollbackSpace(s) == Switch(s, "RETIRED")

----------------------------------------------------------------------------
(* Jobs.  The scan streams rows and the space list was read before it, so  *)
(* a job may be registered for a source or space that has just been        *)
(* retired; the worker checks both again.                                  *)

Pending == [status |-> "PENDING", lease_token |-> None, expired |-> FALSE, due |-> TRUE]

\* enqueue: a completed job is reopened when its row is gone
Enqueue_Once(d, s) ==
  /\ status[d] \notin {"ABSENT", "DRAFT"} /\ space[s] # "ABSENT"
  /\ job[<<d, s>>] = None
  /\ job' = [job EXCEPT ![<<d, s>>] = Pending]
  /\ UNCHANGED <<sources, space, head, vector, worker, counts, query, faults>>

Enqueue(d, s) ==
  LET k == <<d, s>>
      reopened == job[k] # None /\ job[k].status = "COMPLETED" /\ k \notin vector
  IN /\ status[d] \notin {"ABSENT", "DRAFT"} /\ space[s] # "ABSENT"
     /\ job[k] = None \/ reopened
     /\ job' = [job EXCEPT ![k] = Pending]
     /\ UNCHANGED <<sources, space, head, vector, worker, counts, query, faults>>

\* uuid4: a token no worker and no row has
Fresh == CHOOSE t \in Tokens :
  /\ \A w \in Workers : worker[w] # None => worker[w].token # t
  /\ \A k \in Keys : job[k] # None => job[k].lease_token # t

Claimable(k) ==
  /\ job[k] # None
  /\ \/ job[k].status \in {"PENDING", "FAILED"} /\ job[k].due
     \/ job[k].status = "CLAIMED" /\ job[k].expired

Claim(w, k) ==
  /\ worker[w] = None /\ snapshot[w] = None
  /\ Doc[k[1]].tenant = Serves[w]
  /\ Claimable(k)
  /\ job' = [job EXCEPT ![k] = [status |-> "CLAIMED", lease_token |-> Fresh, expired |-> FALSE, due |-> FALSE]]
  /\ worker' = [worker EXCEPT ![w] = [key |-> k, token |-> Fresh, embedded |-> FALSE]]
  /\ UNCHANGED <<sources, space, head, vector, counts, query, faults>>

\* run_one up to the provider's answer, with no session open, and the checks of
\* complete that precede its transaction
Embed(w) ==
  /\ worker[w] # None /\ ~ worker[w].embedded
  /\ space[worker[w].key[2]] # "RETIRED" /\ status[worker[w].key[1]] = "ACTIVE"
  /\ worker' = [worker EXCEPT ![w].embedded = TRUE]
  /\ UNCHANGED <<sources, space, head, vector, job, counts, query, faults>>

Holds(w) ==
  LET j == job[worker[w].key]
  IN j # None /\ j.status = "CLAIMED" /\ j.lease_token = worker[w].token

\* the fence of complete: a late worker's result is discarded
Fenced(w) == Holds(w) /\ ~ job[worker[w].key].expired

Finished == [status |-> "COMPLETED", lease_token |-> None, expired |-> FALSE, due |-> FALSE]

\* complete: fence, recheck of the source and upsert of the row in one transaction
CompleteJob(w) ==
  LET k == worker[w].key
  IN /\ worker[w] # None /\ worker[w].embedded
     /\ Fenced(w) /\ status[k[1]] = "ACTIVE"
     /\ vector' = vector \cup {k}
     /\ job' = [job EXCEPT ![k] = Finished]
     /\ worker' = [worker EXCEPT ![w] = None]
     /\ Bump(Owner(k[1]))
     /\ UNCHANGED <<sources, space, head, indexed, snapshot, query, faults>>

\* the except branch: the job is released only by the holder of its token
Failed(w) ==
  LET k == worker[w].key
  IN /\ job' = IF Holds(w) THEN [job EXCEPT ![k] = [@ EXCEPT !.status = "FAILED", !.lease_token = None, !.due = FALSE]]
               ELSE job
     /\ worker' = [worker EXCEPT ![w] = None]
     /\ UNCHANGED <<sources, space, head, vector, counts, query>>

Doomed(w) ==
  \/ status[worker[w].key[1]] # "ACTIVE"
  \/ ~ worker[w].embedded /\ space[worker[w].key[2]] = "RETIRED"
  \/ worker[w].embedded /\ ~ Fenced(w)

Reject(w) == worker[w] # None /\ Doomed(w) /\ Failed(w) /\ UNCHANGED faults

Fault == faults < MaxFaults /\ faults' = faults + 1

ProviderError(w) == worker[w] # None /\ ~ worker[w].embedded /\ Fault /\ Failed(w)

Crash(w) ==
  /\ worker[w] # None \/ snapshot[w] # None
  /\ Fault
  /\ worker' = [worker EXCEPT ![w] = None] /\ snapshot' = [snapshot EXCEPT ![w] = None]
  /\ UNCHANGED <<sources, space, head, vector, job, generation, indexed, query>>

\* A lease runs out: of a dead worker in time, of a live one only if it is slow.
ExpireLease(k) ==
  LET live == \E w \in Workers : worker[w] # None /\ worker[w].key = k /\ Holds(w)
  IN /\ job[k] # None /\ job[k].status = "CLAIMED" /\ ~ job[k].expired
     /\ IF live THEN Fault ELSE UNCHANGED faults
     /\ job' = [job EXCEPT ![k].expired = TRUE]
     /\ UNCHANGED <<sources, space, head, vector, worker, counts, query>>

BackoffOver(k) ==
  /\ job[k] # None /\ job[k].status = "FAILED" /\ ~ job[k].due
  /\ job' = [job EXCEPT ![k].due = TRUE]
  /\ UNCHANGED <<sources, space, head, vector, worker, counts, query, faults>>

\* An index row is lost or deleted; its trigger bumps too.
LoseVector_Silent(k) ==
  /\ k \in vector /\ Fault
  /\ vector' = vector \ {k}
  /\ UNCHANGED <<sources, space, head, job, worker, counts, query>>

LoseVector(k) ==
  /\ k \in vector /\ Fault
  /\ vector' = vector \ {k}
  /\ Bump(Owner(k[1]))
  /\ UNCHANGED <<sources, space, head, job, worker, indexed, snapshot, query>>

----------------------------------------------------------------------------
(* Completeness.                                                           *)

OwnersOf(t) == {o \in Owners : o[1] = t}

\* embedding tick, reconcile_completeness: one snapshot for the counts and the comparison
ReconcileRead(w, s) ==
  /\ worker[w] = None /\ snapshot[w] = None
  /\ space[s] # "ABSENT"
  /\ Complete(Serves[w], s)
  /\ snapshot' = [snapshot EXCEPT ![w] = [space |-> s, generation |-> generation, indexed |-> indexed]]
  /\ UNCHANGED <<sources, index, generation, indexed, query, faults>>

\* under REPEATABLE READ a row written since the snapshot aborts the upsert
ReconcileWrite(w) ==
  LET r == snapshot[w]
      mine == {<<o, r.space>> : o \in OwnersOf(Serves[w])}
  IN /\ r # None
     /\ indexed' = IF \A x \in mine : indexed[x] = r.indexed[x]
                   THEN [x \in DOMAIN indexed |-> IF x \in mine THEN r.generation[x[1]] ELSE indexed[x]]
                   ELSE indexed
     /\ snapshot' = [snapshot EXCEPT ![w] = None]
     /\ UNCHANGED <<sources, index, generation, query, faults>>

\* require_ready
Ready(t, s) == \A o \in OwnersOf(t) : indexed[<<o, s>>] = generation[o]

----------------------------------------------------------------------------
(* Retrieval.                                                              *)

StartQuery ==
  /\ query = None /\ head # None
  /\ query' = [space |-> head, kind |-> "SKILL", admitted |-> None, found |-> None, result |-> {}, failed |-> FALSE]
  /\ UNCHANGED <<sources, index, counts, faults>>

FailQuery == query' = [query EXCEPT !.failed = TRUE]

\* _admit: the space is still active and the index ready.  The statements of
\* the session do not share a snapshot; admitted records the counts it read.
Admitted == space[query.space] = "ACTIVE" /\ Ready(Query.tenant, query.space)

Admit ==
  /\ query # None /\ ~ query.failed /\ query.kind # None /\ query.admitted = None
  /\ IF Admitted THEN query' = [query EXCEPT !.admitted = generation] ELSE FailQuery
  /\ UNCHANGED <<sources, index, counts, faults>>

\* The top_k nearest of the eligible documents, in any order of nearness.  The
\* iterative scan of the approximate index is taken to go on until it has them.
Search ==
  LET eligible == {d \in Docs : /\ <<d, query.space>> \in vector /\ status[d] = "ACTIVE"
                                /\ Doc[d].kind = query.kind /\ SqlEligible(Doc[d], Query)}
  IN /\ query # None /\ ~ query.failed /\ query.admitted # None /\ query.found = None
     /\ \E found \in SUBSET eligible :
          /\ Cardinality(found) <= SearchLimit
          /\ found = eligible \/ Cardinality(found) = SearchLimit
          /\ query' = [query EXCEPT !.found = found]
     /\ UNCHANGED <<sources, index, counts, faults>>

\* batch_get and the recheck of every candidate; one stale one fails the query
Current(d) == status[d] = "ACTIVE" /\ Eligible(Doc[d], Query)

Hydrate ==
  /\ query # None /\ ~ query.failed /\ query.found # None
  /\ IF \A d \in query.found : Current(d)
     THEN query' = [query EXCEPT !.result = @ \cup query.found, !.found = None, !.admitted = None,
                                 !.kind = IF @ = "SKILL" THEN "EXPERIENCE" ELSE None]
     ELSE FailQuery
  /\ UNCHANGED <<sources, index, counts, faults>>

EndQuery ==
  /\ query # None /\ (query.failed \/ query.kind = None)
  /\ query' = None
  /\ UNCHANGED <<sources, index, counts, faults>>

SourceStep == \E d \in Docs : AddSkill(d) \/ Activate(d) \/ Retire(d) \/ Publish(d) \/ Revoke(d)

AdminStep == \E s \in Spaces : CreateSpace(s) \/ ActivateSpace(s) \/ RollbackSpace(s)

WorkerStep ==
  \/ \E d \in Docs, s \in Spaces : Enqueue(d, s)
  \/ \E w \in Workers : \/ Embed(w) \/ CompleteJob(w) \/ Reject(w) \/ ProviderError(w) \/ Crash(w)
                        \/ \E k \in Keys : Claim(w, k)
                        \/ \E s \in Spaces : ReconcileRead(w, s)
                        \/ ReconcileWrite(w)

EnvironmentStep == \E k \in Keys : ExpireLease(k) \/ BackoffOver(k) \/ LoseVector(k)

QueryStep == StartQuery \/ Admit \/ Search \/ Hydrate \/ EndQuery

Next == SourceStep \/ AdminStep \/ WorkerStep \/ EnvironmentStep \/ QueryStep

Spec == Init /\ [][Next]_vars

----------------------------------------------------------------------------
(* Properties.                                                             *)

\* The constant-time admission is sound: counts that agree mean that every
\* active document of the tenant is indexed, whatever was published, revoked,
\* embedded or lost since the scan.
ReadyMeansComplete ==
  \A t \in Tenants, s \in DOMAIN space : Ready(t, s) => Complete(t, s)

\* Retrieval gives what a scan of the primary records would.  A search finds
\* only active documents the recheck will admit and, if nothing was written
\* since its admission, all of them or as many as its limit: none is missing
\* from the index of an admitted space.  And what enters a result is active at that moment, although
\* it was found by an earlier transaction.
RetrievalIsExact ==
  [][(query # None /\ query' # None) =>
       LET scan == {d \in Active(Query.tenant) : Doc[d].kind = query.kind /\ Eligible(Doc[d], Query)}
       IN /\ (query.found = None /\ query'.found # None) =>
               /\ query'.found \subseteq scan
               /\ query.admitted[<<Query.tenant, query.kind>>] = generation[<<Query.tenant, query.kind>>]
                    => IF Cardinality(scan) <= SearchLimit THEN query'.found = scan
                       ELSE Cardinality(query'.found) = SearchLimit
          /\ \A d \in query'.result \ query.result : status[d] = "ACTIVE"]_vars

\* A job is worked on under one live lease: its result is written by the last
\* worker that claimed it.
LeaseIsExclusive ==
  \A v, w \in DOMAIN worker :
    (v # w /\ worker[v] # None /\ worker[w] # None /\ worker[v].key = worker[w].key)
      => ~ (Fenced(v) /\ Fenced(w))

\* The index can be relied on: one space at most is active, the index is
\* complete where it is admitted, and each of its jobs has one writer, in spite
\* of expired leases and late answers.
IndexIsSound == TypeOK /\ ReadyMeansComplete /\ LeaseIsExclusive
=============================================================================
