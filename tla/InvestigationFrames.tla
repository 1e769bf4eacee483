------------------------ MODULE InvestigationFrames ------------------------
(***************************************************************************)
(* The read side of a Case: InvestigationFrameService on several replicas. *)
(* A build reads the Case in one transaction, projects it, reads it again  *)
(* and stores the frame only if nothing moved; pages are slices of the     *)
(* stored frame under a signed cursor.  Meanwhile the Case is written,     *)
(* evaluated and closed, time passes, frames expire and the cursor key is  *)
(* rolled from replica to replica.                                         *)
(* A part of the Case is a version number; its fingerprint is equal        *)
(* exactly when the number is.                                             *)
(***************************************************************************)
EXTENDS Integers, FiniteSets, Sequences, SequencesExt

CONSTANTS
  Replicas, Clients,
  Shared,      \* TRUE: SQLFrameCache; FALSE: the service's own OrderedDict
  TTL,         \* lifetime of a frame and length of an epoch
  MaxFrames,   \* capacity of the service's own cache
  PageSize,    \* items of a page
  Parts,       \* the parts of the Case that other components write
  MaxWrites, MaxReports, MaxRequests, MaxTime,  \* bounds
  MaxKey       \* bound on key generations

ASSUME FramesAssumption ==
  /\ Shared \in BOOLEAN /\ TTL \in Nat \ {0} /\ MaxFrames \in Nat \ {0} /\ PageSize \in Nat \ {0}
  /\ Parts \subseteq {"revision", "evidence", "calls", "ledger", "recovery", "other"}
  /\ {MaxWrites, MaxReports, MaxRequests, MaxTime, MaxKey} \subseteq Nat

VARIABLES
  db,      \* the Case: versions of its parts, reports, closure
  clock,
  keys,    \* per replica, the current and the previous cursor key
  rolled,  \* when the last replica got the newest key
  cache,   \* per store, its frames and how many were ever inserted
  req,     \* per client, its request and what it was answered
  since,   \* per client, the Cases that held since its projection (history)
  still    \* per client, nothing moved since the request began (history)

vars == <<db, clock, keys, rolled, cache, req, since, still>>

MaxTries == 3

SnapshotParts == {"revision", "evidence", "calls", "ledger", "recovery"}

\* What a report says it read.
SnapshotOf(d) == [p \in SnapshotParts |-> d[p]]

None == [kind |-> "NONE"]

NoRequest ==
  [pc |-> "idle", replica |-> "NONE", tries |-> 0, read |-> None, frame |-> None,
   got |-> <<>>, cursor |-> None, error |-> "NONE", count |-> 0,
   until |-> 0]  \* when the frame it was answered with expires (history)

Empty == [rows |-> {}, inserted |-> 0]

Stores == IF Shared THEN {"shared"} ELSE Replicas

StoreOf(r) == IF Shared THEN "shared" ELSE r

Init ==
  /\ db = [revision |-> 0, evidence |-> 0, calls |-> 0, ledger |-> 0, recovery |-> 0, other |-> 0,
           status |-> "OPEN", reports |-> {}, closure |-> {}]
  /\ clock = 0
  /\ keys = [r \in Replicas |-> [current |-> 1, previous |-> 0]]
  /\ rolled = 0 - TTL
  /\ cache = [s \in Stores |-> Empty]
  /\ req = [c \in Clients |-> NoRequest]
  /\ since = [c \in Clients |-> {}]
  /\ still = [c \in Clients |-> FALSE]

(***************************************************************************)
(* The projection.                                                         *)
(***************************************************************************)
\* The closure's report, if the record, the report and the Case agree.
checked_closure(d) ==
  {r \in d.closure : /\ d.status = "CLOSED_VERIFIED" /\ r \in d.reports /\ r.verdict = "PASS"
                     /\ r.read.evidence = d.evidence /\ r.read.ledger = d.ledger
                     /\ r.read.calls = d.calls
                     /\ d.revision = r.read.revision + 1}

Bound(d) ==
  /\ checked_closure(d) = d.closure
  /\ d.status = "CLOSED_VERIFIED" => d.closure # {}

\* The evaluations shown as current, not as history.
CurrentReports(d) ==
  {r \in d.reports : r \in checked_closure(d) \/ r.read = SnapshotOf(d)}

\* The items of a section, newest first.
Items(d) == [i \in 1 .. d.evidence |-> d.evidence + 1 - i]

\* Mutant: frames of one content share their identity for ever.
frame_id_without_epoch(d) == [case |-> d, epoch |-> 0]

\* The identity of the frame of `d' built now.
frame_id(d) == [case |-> d, epoch |-> IF Shared THEN clock \div TTL ELSE 0]

\* The page at an offset, with the cursor of the next one signed by `key'.
_page(f, offset, key) ==
  LET items == Items(f.id.case)
      end == IF offset + PageSize < Len(items) THEN offset + PageSize ELSE Len(items)
  IN  [items |-> SubSeq(items, offset + 1, end),
       cursor |-> IF end < Len(items) THEN [frame |-> f.id, offset |-> end, key |-> key] ELSE None]

(***************************************************************************)
(* The stores.                                                             *)
(***************************************************************************)
\* The service's own entries live one instant longer than the shared ones.
Live(row) == IF Shared THEN row.expires > clock ELSE row.expires >= clock

_prune(store) == [store EXCEPT !.rows = {row \in @ : Live(row)}]

Stored(store, id) == {row \in store.rows : row.frame.id = id}

\* The newest entries, as many as the service's own cache holds.
Newest(rows) == {row \in rows : Cardinality({x \in rows : x.order > row.order}) < MaxFrames}

\* The first committer owns the frame; the service's own cache drops its
\* oldest entries.  The order of the shared store is of no consequence.
Insert(store, f) ==
  LET order == IF Shared THEN 0 ELSE store.inserted + 1
      rows == store.rows \cup {[frame |-> f, expires |-> clock + TTL, order |-> order]}
  IN  IF Stored(store, f.id) # {} THEN store
      ELSE [rows |-> IF Shared THEN rows ELSE Newest(rows), inserted |-> order]

(***************************************************************************)
(* build.                                                                  *)
(***************************************************************************)
Go(c, pc) == req' = [req EXCEPT ![c].pc = pc]

Answer(c, row) ==
  req' = [req EXCEPT ![c].pc = "done", ![c].frame = row.frame, ![c].read = None,
                     ![c].got = row.frame.first.items, ![c].cursor = row.frame.first.cursor,
                     ![c].until = row.expires]

Fail(c, error) ==
  req' = [req EXCEPT ![c].pc = "done", ![c].error = error, ![c].read = None,
                     ![c].frame = None, ![c].cursor = None]

Forget(c) == since' = [since EXCEPT ![c] = {}]

\* A request arrives at a replica.
get_frame(c, r) ==
  /\ req[c].pc \in {"idle", "done"} /\ req[c].count < MaxRequests
  /\ req' = [req EXCEPT ![c] = [NoRequest EXCEPT !.pc = "read", !.replica = r,
                                                  !.count = req[c].count + 1]]
  /\ still' = [still EXCEPT ![c] = TRUE]
  /\ Forget(c)
  /\ UNCHANGED <<db, clock, keys, rolled, cache>>

\* One transaction reads everything a frame shows.
_read(c) ==
  /\ req[c].pc = "read"
  /\ req' = [req EXCEPT ![c].pc = "project", ![c].read = db]
  /\ UNCHANGED <<db, clock, keys, rolled, cache, since, still>>

_project(c) ==
  LET d == req[c].read
      f == [id |-> frame_id(d)]
      key == keys[req[c].replica].current
  IN  /\ req[c].pc = "project"
      /\ IF Bound(d)
         THEN /\ req' = [req EXCEPT ![c].pc = "recheck",
                           ![c].frame = [id |-> f.id, first |-> _page(f, 0, key)]]
              /\ since' = [since EXCEPT ![c] = {db}]
         ELSE Fail(c, "CONTEXT_ELIGIBILITY_ERROR") /\ Forget(c)
      /\ UNCHANGED <<db, clock, keys, rolled, cache, still>>

\* Mutant: the second read is left out.
recheck_skipped(c) ==
  /\ req[c].pc = "recheck"
  /\ Go(c, "put")
  /\ UNCHANGED <<db, clock, keys, rolled, cache, since, still>>

\* The second read: a Case that moved is read again, three times at most.
recheck(c) ==
  /\ req[c].pc = "recheck"
  /\ IF req[c].read = db THEN Go(c, "put") /\ UNCHANGED since
     ELSE /\ Forget(c)
          /\ IF req[c].tries + 1 = MaxTries THEN Fail(c, "FRAME_STALE")
             ELSE req' = [req EXCEPT ![c].pc = "read", ![c].tries = @ + 1, ![c].frame = None]
  /\ UNCHANGED <<db, clock, keys, rolled, cache, still>>

\* The shared store inserts and reads back in a second transaction; the
\* service's own cache answers under its lock.
put(c) ==
  LET s == StoreOf(req[c].replica)
      store == Insert(IF Shared THEN cache[s] ELSE _prune(cache[s]), req[c].frame)
  IN  /\ req[c].pc = "put"
      /\ cache' = [cache EXCEPT ![s] = store]
      /\ IF Shared THEN Go(c, "get")
         ELSE Answer(c, CHOOSE row \in Stored(store, req[c].frame.id) : TRUE)
      /\ UNCHANGED <<db, clock, keys, rolled, since, still>>

get(c) ==
  LET rows == {row \in Stored(cache["shared"], req[c].frame.id) : Live(row)}
  IN  /\ req[c].pc = "get"
      /\ IF rows = {} THEN Fail(c, "FRAME_EXPIRED")
         ELSE Answer(c, CHOOSE row \in rows : TRUE)
      /\ UNCHANGED <<db, clock, keys, rolled, cache, since, still>>

(***************************************************************************)
(* page.                                                                   *)
(***************************************************************************)
\* The frame a page is cut from.
_cached(r, id) == {row \in Stored(cache[StoreOf(r)], id) : Live(row)}

\* Mutant: only the current key is tried.
CursorGood_current_only(r, cursor) == cursor.key = keys[r].current

CursorGood(r, cursor) == cursor.key \in {keys[r].current, keys[r].previous}

\* A walk ends with the first refusal.
Refuse(c, error) == req' = [req EXCEPT ![c].error = error, ![c].cursor = None]

page(c, r) ==
  LET cursor == req[c].cursor
      rows == _cached(r, cursor.frame)
  IN  /\ req[c].pc = "done" /\ cursor # None
      /\ cache' = IF Shared THEN cache ELSE [cache EXCEPT ![r] = _prune(@)]
      /\ IF rows = {} THEN Refuse(c, "FRAME_EXPIRED")
         ELSE IF ~CursorGood(r, cursor) THEN Refuse(c, "INVALID_CURSOR")
         ELSE LET next == _page((CHOOSE row \in rows : TRUE).frame, cursor.offset, keys[r].current)
              IN  req' = [req EXCEPT ![c].got = @ \o next.items, ![c].cursor = next.cursor]
      /\ UNCHANGED <<db, clock, keys, rolled, since, still>>

\* The cleanup task of a replica.
prune ==
  /\ Shared /\ _prune(cache["shared"]) # cache["shared"]
  /\ cache' = [cache EXCEPT !["shared"] = _prune(@)]
  /\ UNCHANGED <<db, clock, keys, rolled, req, since, still>>

(***************************************************************************)
(* The rest of the system.                                                 *)
(***************************************************************************)
\* The Case moved: builds under way may notice.
Moved(d) ==
  /\ db' = d
  /\ since' = [c \in Clients |-> IF req[c].pc \in {"recheck", "put", "get"}
                                 THEN since[c] \cup {d} ELSE since[c]]
  /\ still' = [c \in Clients |-> FALSE]
  /\ UNCHANGED <<clock, keys, rolled, cache, req>>

Writes == db.revision + db.evidence + db.calls + db.ledger + db.recovery + db.other

\* A closed Case keeps its revision, evidence, calls and effects (CaseWork,
\* EffectBoundary); leases, registry and route heads and traces go on.
Write(part) ==
  /\ Writes < MaxWrites
  /\ part \in {"recovery", "other"} \/ db.status = "OPEN"
  /\ Moved([db EXCEPT ![part] = @ + 1])

record(verdict) ==
  /\ db.status = "OPEN" /\ Cardinality(db.reports) < MaxReports
  /\ Moved([db EXCEPT !.reports = @ \cup {[run |-> Cardinality(db.reports) + 1, verdict |-> verdict,
                                           read |-> SnapshotOf(db)]}])

close(r) ==
  /\ db.status = "OPEN" /\ r.verdict = "PASS" /\ r.read = SnapshotOf(db)
  /\ Moved([db EXCEPT !.status = "CLOSED_VERIFIED", !.closure = {r}, !.revision = @ + 1])

Tick ==
  /\ clock < MaxTime
  /\ clock' = clock + 1
  /\ still' = [c \in Clients |-> FALSE]
  /\ UNCHANGED <<db, keys, rolled, cache, req, since>>

\* A replica restarts with the next key and the old one as previous; its
\* requests and its own cache are lost.  The next rollout waits until every replica has the
\* key and then for one lifetime.
roll_key(r) ==
  LET newest == CHOOSE k \in {keys[x].current : x \in Replicas} :
                  \A x \in Replicas : keys[x].current <= k
      rolling == \E x \in Replicas : keys[x].current < newest
      next == [keys EXCEPT ![r] = [current |-> keys[r].current + 1, previous |-> keys[r].current]]
  IN  /\ keys[r].current < MaxKey
      /\ IF rolling THEN keys[r].current < newest ELSE clock >= rolled + TTL
      /\ keys' = next
      /\ rolled' = IF \A x, y \in Replicas : next[x].current = next[y].current THEN clock ELSE rolled
      /\ req' = [c \in Clients |-> IF req[c].replica = r /\ req[c].pc \notin {"idle", "done"}
                                   THEN [NoRequest EXCEPT !.pc = "done", !.count = req[c].count,
                                                          !.error = "SERVICE_UNAVAILABLE"]
                                   ELSE req[c]]
      /\ cache' = IF Shared THEN cache ELSE [cache EXCEPT ![r] = Empty]
      /\ UNCHANGED <<db, clock, since, still>>

Finished ==
  /\ clock = MaxTime
  /\ UNCHANGED vars

Build(c) == _read(c) \/ _project(c) \/ recheck(c) \/ put(c) \/ get(c)

Next ==
  \/ \E c \in Clients :
       \/ Build(c)
       \/ \E r \in Replicas : get_frame(c, r) \/ page(c, r)
  \/ prune
  \/ \E p \in Parts : Write(p)
  \/ \E v \in {"PASS", "FAIL"} : record(v)
  \/ \E r \in db.reports : close(r)
  \/ Tick
  \/ \E r \in Replicas : roll_key(r)
  \/ Finished

Spec == Init /\ [][Next]_vars

(***************************************************************************)
(* Properties.                                                             *)
(***************************************************************************)
Answered(c) == req[c].pc = "done" /\ req[c].frame # None

\* A frame shows a Case that held, all of it at one moment, after its
\* projection was complete: whatever other components wrote during the
\* build, and whoever built the stored frame it was answered with.
FrameWasCurrent == \A c \in DOMAIN req : Answered(c) => req[c].frame.id.case \in since[c]

\* The pages a client collects are those of the one frame it was answered
\* with, none twice and none left out, across replicas, key changes, new
\* frames of the moving Case and expiry.
PagesAreOneFrame ==
  \A c \in DOMAIN req : Answered(c) =>
    LET items == Items(req[c].frame.id.case)
    IN  /\ IsPrefix(req[c].got, items)
        /\ req[c].cursor = None /\ req[c].error = "NONE" => req[c].got = items

\* When neither the Case nor the clock moves, a build succeeds: an expired
\* frame of the same content never stands in its way, and a closed Case is
\* never found at odds with its closure.
QuietBuildSucceeds ==
  \A c \in DOMAIN req :
    /\ still[c] /\ req[c].pc = "done" => req[c].frame # None \/ req[c].error = "SERVICE_UNAVAILABLE"
    /\ req[c].error # "CONTEXT_ELIGIBILITY_ERROR"

\* A frame of a closed Case shows one evaluation as current, the one that
\* closed it, though others read the same evidence or were recorded later.
ClosedShowsItsReport ==
  \A c \in DOMAIN req : Answered(c) =>
    LET d == req[c].frame.id.case
    IN  d.status = "CLOSED_VERIFIED" =>
          /\ CurrentReports(d) = d.closure
          /\ \A r \in d.closure : r.verdict = "PASS" /\ r.read.evidence = d.evidence

\* What a client is shown is one frame of the Case as it was, with all its
\* pages and the evaluation that closed it.
ShownFrameIsTrue == FrameWasCurrent /\ PagesAreOneFrame /\ ClosedShowsItsReport

\* A cursor is refused only while a key is being rolled out: at rest every
\* replica honours every cursor as long as the frame its reader was answered
\* with has not expired, also when another build has stored that frame anew.
CursorsSurviveRotation ==
  [][\A c \in DOMAIN req :
       req'[c].error = "INVALID_CURSOR" /\ req[c].error # "INVALID_CURSOR"
       => \/ req[c].until <= clock
          \/ \E r, s \in DOMAIN keys : keys[r].current # keys[s].current]_vars
=============================================================================
