------------------------- MODULE VerificationProofs -------------------------
(***************************************************************************)
(* What a verdict may say, for every set of scenarios, faults, changes and *)
(* repairs, and every order of readings, losses and late publications.     *)
(*                                                                         *)
(* The evaluator sees the usable evidence only.  The first part shows that *)
(* this evidence is all that its own calls disclosed, and that each of     *)
(* these calls is the newest of its tool: what the inquiry's lemmas say of *)
(* current evidence then holds of it.  The second part reads the checks of *)
(* a PASS back to the frames these calls saw, and the third is the         *)
(* induction over the steps of the sweep.                                  *)
(***************************************************************************)
EXTENDS Verification, InquiryProofs

(***************************************************************************)
(* The verdict.                                                            *)
(***************************************************************************)
LEMMA AggregateIs ==
  ASSUME NEW S
  PROVE  /\ aggregate(S) \in {"PASS", "FAIL", "INCONCLUSIVE"}
         /\ aggregate(S) = "PASS" => "FAIL" \notin S /\ "INCONCLUSIVE" \notin S
         /\ "FAIL" \in S => aggregate(S) = "FAIL"
         /\ "INCONCLUSIVE" \in S => aggregate(S) \in {"FAIL", "INCONCLUSIVE"}
  BY DEF aggregate

LEMMA ReportIs ==
  ASSUME NEW s
  PROVE  /\ Report(s).path = Path(s)
         /\ Report(s).dimensions = [d \in EvaluationDimension |-> Dimension(Checks(s), d)]
         /\ Report(s).verdict = aggregate({Dimension(Checks(s), d) : d \in EvaluationDimension})
  <1>1. PICK D : D = [d \in EvaluationDimension |-> Dimension(Checks(s), d)]
    OBVIOUS
  <1>2. /\ Report(s).path = Path(s) /\ Report(s).dimensions = D
        /\ Report(s).verdict = aggregate({D[d] : d \in EvaluationDimension})
    BY <1>1 DEF Report, Judged, ReportOf
  <1>3. {D[d] : d \in EvaluationDimension} = {Dimension(Checks(s), d) : d \in EvaluationDimension}
    BY <1>1
  <1>4. QED
    BY <1>1, <1>2, <1>3

LEMMA DimensionTyped ==
  ASSUME NEW checks, NEW d
  PROVE  Dimension(checks, d) \in DimensionStatus
  BY AggregateIs DEF Dimension, DimensionStatus

LEMMA PathTyped ==
  ASSUME NEW s
  PROVE  Path(s) \in OutcomePath
  BY DEF Path, OutcomePath

(* Under a PASS, no check of any dimension fails or is inconclusive.       *)
LEMMA PassMeans ==
  ASSUME NEW s, Report(s).verdict = "PASS",
         NEW c \in Checks(s), c.dimension \in EvaluationDimension
  PROVE  c.status \notin {"FAIL", "INCONCLUSIVE"}
  <1>1. PICK d \in EvaluationDimension : d = c.dimension
    OBVIOUS
  <1>2. PICK S : S = {x.status : x \in {y \in Checks(s) :
                       \/ y.dimension = d
                       \/ d = "OUTCOME" /\ y.dimension \in {"MONEY", "IDENTITY", "STATE_CONVERGENCE",
                                                            "SIDE_EFFECT"}}}
    OBVIOUS
  <1>3. c.status \in S
    BY <1>1, <1>2
  <1>4. Dimension(Checks(s), d) = IF d # "OUTCOME" /\ S = {"NOT_APPLICABLE"} THEN "NOT_APPLICABLE"
                                  ELSE aggregate(S)
    BY <1>2 DEF Dimension
  <1>5. Dimension(Checks(s), d) \notin {"FAIL", "INCONCLUSIVE"}
    <2>1. PICK T : T = {Dimension(Checks(s), x) : x \in EvaluationDimension}
      OBVIOUS
    <2>2. aggregate(T) = "PASS"
      BY <2>1, ReportIs
    <2>3. "FAIL" \notin T /\ "INCONCLUSIVE" \notin T
      BY <2>2, AggregateIs
    <2>4. QED
      BY <2>1, <2>3
  <1>6. ASSUME c.status \in {"FAIL", "INCONCLUSIVE"} PROVE FALSE
    <2>1. S # {"NOT_APPLICABLE"}
      BY <1>3, <1>6
    <2>2. aggregate(S) \notin {"FAIL", "INCONCLUSIVE"}
      BY <1>4, <1>5, <2>1
    <2>3. QED
      BY <1>3, <1>6, <2>2, AggregateIs
  <1>7. QED
    BY <1>6

LEMMA CheckIs ==
  ASSUME NEW d, NEW t, NEW r, NEW q
  PROVE  Check(d, t, r, q).dimension = d /\ Check(d, t, r, q).status = t
  BY DEF Check

LEMMA MoneyPasses ==
  ASSUME NEW s, Report(s).verdict = "PASS"
  PROVE  Path(s) \in {"SETTLED_PATH", "NO_DISBURSEMENT_PATH"}
  <1>1. MoneyCheck(s) \in Checks(s)
    BY DEF Checks
  <1>2. MoneyCheck(s).dimension = "MONEY"
    BY CheckIs DEF MoneyCheck
  <1>3. MoneyCheck(s).status \notin {"FAIL", "INCONCLUSIVE"}
    BY <1>1, <1>2, PassMeans DEF EvaluationDimension
  <1>4. Path(s) # "NONE"
    BY <1>3, CheckIs DEF MoneyCheck
  <1>5. QED
    BY <1>4, PathTyped DEF OutcomePath

LEMMA IdentityPasses ==
  ASSUME NEW s, Report(s).verdict = "PASS", Path(s) = "SETTLED_PATH"
  PROVE  s.graph.identity.result = "MATCH"
  <1>1. IdentityCheck(s) \in Checks(s)
    BY DEF Checks
  <1>2. SUFFICES ASSUME s.graph.identity.result # "MATCH" PROVE FALSE
    OBVIOUS
  <1>3. \/ IdentityCheck(s) = Check("IDENTITY", "FAIL", "PAYMENT_IDENTITY_MISMATCH", "PAYMENT_IDENTITY")
        \/ IdentityCheck(s) = Check("IDENTITY", "INCONCLUSIVE", "PAYMENT_IDENTITY_UNKNOWN",
                                    "PAYMENT_IDENTITY")
    BY <1>2 DEF IdentityCheck
  <1>4. IdentityCheck(s).dimension = "IDENTITY" /\ IdentityCheck(s).status \in {"FAIL", "INCONCLUSIVE"}
    BY <1>3, CheckIs
  <1>5. QED
    BY <1>1, <1>4, PassMeans DEF EvaluationDimension

\* All current evidence of `claim' has value v, and there is some.
AllSay(s, claim, v) ==
  (\E e \in Now(s.index, claim) : TRUE) /\ \A e \in Now(s.index, claim) : e.value = v

LEMMA ExpectPasses ==
  ASSUME NEW s, Report(s).verdict = "PASS", NEW claim, NEW v, NEW r, NEW q,
         expect(s, claim, v, r, q) \in Checks(s)
  PROVE  AllSay(s, claim, v)
  <1>1. PICK O : O = {e.value : e \in Now(s.index, claim)}
    OBVIOUS
  <1>2. PICK c : c = expect(s, claim, v, r, q)
    OBVIOUS
  <1>3. \/ c = Check("STATE_CONVERGENCE", "INCONCLUSIVE", r, q)
        \/ c = Check("STATE_CONVERGENCE", "INCONCLUSIVE", "CONVERGENCE_WINDOW_OPEN", q)
        \/ c = Check("STATE_CONVERGENCE", "FAIL", r, q)
        \/ O = {v}
    BY <1>1, <1>2, Zenon DEF expect
  <1>4. O = {v}
    <2>1. SUFFICES ASSUME O # {v} PROVE FALSE
      OBVIOUS
    <2>2. c.dimension = "STATE_CONVERGENCE" /\ c.status \in {"FAIL", "INCONCLUSIVE"}
      BY <1>3, <2>1, CheckIs
    <2>3. QED
      BY <1>2, <2>2, PassMeans DEF EvaluationDimension
  <1>5. QED
    BY <1>1, <1>4 DEF AllSay

\* What the state of every party is expected to be on path p.
LEMMA StatePasses ==
  ASSUME NEW s, Report(s).verdict = "PASS",
         NEW final, final = IF Path(s) = "SETTLED_PATH" THEN "SUCCESS" ELSE "FAILED"
  PROVE  /\ AllSay(s, "FUND_BUSINESS_STATUS", final) /\ AllSay(s, "GUARANTEE_STATUS", final)
         /\ AllSay(s, "ASSET_STATUS", final)
         /\ AllSay(s, "ACCOUNTING_ENTRY_PRESENT", Bool(Path(s) = "SETTLED_PATH"))
         /\ Path(s) = "SETTLED_PATH" => AllSay(s, "ASSET_DELIVERY_STATUS", "DELIVERED")
  <1>1. Path(s) # "NONE"
    BY MoneyPasses
  <1>2. PICK b : b = Bool(Path(s) = "SETTLED_PATH")
    OBVIOUS
  <1>3. /\ expect(s, "FUND_BUSINESS_STATUS", final, "FUND_NOT_CONVERGED", "FUND_FINAL_STATE") \in StateChecks(s)
        /\ expect(s, "GUARANTEE_STATUS", final, "GUARANTEE_NOT_CONVERGED", "GUARANTEE_FINAL_STATE")
             \in StateChecks(s)
        /\ expect(s, "ASSET_STATUS", final, "ASSET_NOT_CONVERGED", "ASSET_FINAL_STATE") \in StateChecks(s)
        /\ expect(s, "ACCOUNTING_ENTRY_PRESENT", b, "ACCOUNTING_NOT_CONVERGED", "ACCOUNTING_ENTRY")
             \in StateChecks(s)
    BY <1>1, <1>2, Zenon DEF StateChecks
  <1>4. Path(s) = "SETTLED_PATH" =>
          expect(s, "ASSET_DELIVERY_STATUS", "DELIVERED", "DELIVERY_NOT_DELIVERED", "ASSET_DELIVERY")
            \in StateChecks(s)
    BY DEF StateChecks
  <1>5. StateChecks(s) \subseteq Checks(s)
    BY DEF Checks
  <1>6. /\ AllSay(s, "FUND_BUSINESS_STATUS", final) /\ AllSay(s, "GUARANTEE_STATUS", final)
        /\ AllSay(s, "ASSET_STATUS", final) /\ AllSay(s, "ACCOUNTING_ENTRY_PRESENT", b)
    BY <1>3, <1>5, ExpectPasses, Zenon
  <1>7. Path(s) = "SETTLED_PATH" => AllSay(s, "ASSET_DELIVERY_STATUS", "DELIVERED")
    BY <1>4, <1>5, ExpectPasses, Zenon
  <1>8. QED
    BY <1>2, <1>6, <1>7

LEMMA CallbackPasses ==
  ASSUME NEW s, Report(s).verdict = "PASS", Path(s) = "SETTLED_PATH"
  PROVE  /\ \A m \in Now(s.index, "MESSAGE_CONSUME_STATUS") : m.value = "CONSUMED"
         /\ \E g \in Now(s.index, "CALLBACK_GATEWAY_RECEIVED"),
               x \in Now(s.index, "CALLBACK_SIGNATURE_VERIFIED"),
               m \in Now(s.index, "MESSAGE_CONSUME_STATUS") :
              /\ x.id = g.id /\ x.obs = g.obs /\ x.value = "TRUE"
              /\ m.callback = g.id /\ m.at >= g.at
  <1>1. PICK C : C = Now(s.index, "MESSAGE_CONSUME_STATUS")
    OBVIOUS
  <1>2. PICK M : M = {g \in Now(s.index, "CALLBACK_GATEWAY_RECEIVED") :
                        /\ g.value = "TRUE"
                        /\ \E x \in Now(s.index, "CALLBACK_SIGNATURE_VERIFIED") :
                             x.id = g.id /\ x.obs = g.obs /\ x.value = "TRUE"
                        /\ \E m \in C : /\ m.callback = g.id /\ m.value = "CONSUMED"
                                        /\ m.at # NoTime /\ g.at # NoTime /\ m.at >= g.at}
    OBVIOUS
  <1>3. PICK c : c = CallbackCheck(s)
    OBVIOUS
  <1>4. c \in Checks(s)
    BY <1>3 DEF Checks, StateChecks
  <1>5. ASSUME ~(M # {} /\ \A m \in C : m.value = "CONSUMED") PROVE FALSE
    <2>1. PICK t \in {"FAIL", "INCONCLUSIVE"} :
            c = Check("STATE_CONVERGENCE", t, "CALLBACK_NOT_CONSUMED", "CALLBACK_CONSUMPTION")
      BY <1>1, <1>2, <1>3, <1>5 DEF CallbackCheck
    <2>2. c.dimension = "STATE_CONVERGENCE" /\ c.status = t
      BY <2>1, CheckIs
    <2>3. QED
      BY <1>4, <2>2, PassMeans DEF EvaluationDimension
  <1>6. QED
    BY <1>1, <1>2, <1>5

\* The claim that shows the target of an effect.
TargetClaim(action) == IF action = "REPLAY" THEN "MESSAGE_CONSUME_STATUS" ELSE "ASSET_DELIVERY_STATUS"

LEMMA EffectPasses ==
  ASSUME NEW s, Report(s).verdict = "PASS", NEW e \in s.effects
  PROVE  /\ e.status # "UNKNOWN"
         /\ e.status = "APPLIED" /\ e.action # "ADMINISTRATIVE" =>
              \E x \in Now(s.index, TargetClaim(e.action)) :
                /\ x.tool = IF e.action = "REPLAY" THEN "MESSAGES" ELSE "ASSET_DELIVERY"
                /\ x.seen > e.updated
                /\ x.value = IF e.action = "REPLAY" THEN "CONSUMED" ELSE "DELIVERED"
  <1>1. PICK c : c = EffectCheck(s, e)
    OBVIOUS
  <1>2. c \in Checks(s)
    BY <1>1 DEF Checks
  <1>3. c.dimension = "SIDE_EFFECT" => c.status \notin {"FAIL", "INCONCLUSIVE"}
    BY <1>2, PassMeans DEF EvaluationDimension
  <1>4. ASSUME e.status \in UNRESOLVED_EFFECT_STATES PROVE FALSE
    <2>1. c = Check("SIDE_EFFECT", "INCONCLUSIVE", "UNRESOLVED_SIDE_EFFECT", "EFFECT_FINALITY")
      BY <1>1, <1>4 DEF EffectCheck
    <2>2. QED
      BY <1>3, <2>1, CheckIs
  <1>5. ASSUME e.status = "APPLIED", e.action # "ADMINISTRATIVE"
        PROVE  \E x \in Now(s.index, TargetClaim(e.action)) :
                 /\ x.tool = IF e.action = "REPLAY" THEN "MESSAGES" ELSE "ASSET_DELIVERY"
                 /\ x.seen > e.updated
                 /\ x.value = IF e.action = "REPLAY" THEN "CONSUMED" ELSE "DELIVERED"
    <2>1. PICK A : A = {x \in Now(s.index, TargetClaim(e.action)) :
                          IF e.action = "REPLAY" THEN x.id = e.target /\ x.callback = e.callback
                          ELSE \E r \in Now(s.index, "ASSET_DELIVERY_EVENT_REF") :
                                 r.tool = "ASSET_DELIVERY" /\ r.value = e.target /\ r.obs = x.obs}
      OBVIOUS
    <2>2. PICK M : M = {x \in A : /\ x.tool = IF e.action = "REPLAY" THEN "MESSAGES" ELSE "ASSET_DELIVERY"
                                  /\ x.seen > e.updated /\ x.asof >= e.updated
                                  /\ x.at # NoTime /\ x.at >= e.created}
      OBVIOUS
    <2>3. PICK v : v = IF e.action = "REPLAY" THEN "CONSUMED" ELSE "DELIVERED"
      OBVIOUS
    <2>4. ASSUME M = {} \/ {x.value : x \in M} # {v} PROVE FALSE
      <3>1. PICK N : N = {x \in Now(s.index, TargetClaim(e.action)) :
                            /\ x.tool = IF e.action = "REPLAY" THEN "MESSAGES" ELSE "ASSET_DELIVERY"
                            /\ x.seen > e.updated /\ x.asof >= e.updated
                            /\ x.at # NoTime /\ x.at >= e.created
                            /\ IF e.action = "REPLAY" THEN x.id = e.target /\ x.callback = e.callback
                               ELSE \E r \in Now(s.index, "ASSET_DELIVERY_EVENT_REF") :
                                      r.tool = "ASSET_DELIVERY" /\ r.value = e.target /\ r.obs = x.obs}
        OBVIOUS
      <3>2. N = M
        BY <2>1, <2>2, <3>1
      <3>3. \E t \in {"FAIL", "INCONCLUSIVE"} : \E r, q : c = Check("SIDE_EFFECT", t, r, q)
        <4>1. e.status \notin UNRESOLVED_EFFECT_STATES
          BY <1>5 DEF UNRESOLVED_EFFECT_STATES
        <4>2. CASE e.action = "REPLAY"
          BY <1>1, <1>5, <2>3, <2>4, <3>1, <3>2, <4>1, <4>2 DEF EffectCheck, TargetClaim
        <4>3. CASE e.action # "REPLAY"
          BY <1>1, <1>5, <2>3, <2>4, <3>1, <3>2, <4>1, <4>3 DEF EffectCheck, TargetClaim
        <4>4. QED
          BY <4>2, <4>3
      <3>4. QED
        BY <1>3, <3>3, CheckIs
    <2>5. PICK x \in M : x.value = v
      BY <2>4
    <2>6. QED
      BY <2>1, <2>2, <2>3, <2>5
  <1>6. QED
    BY <1>4, <1>5 DEF UNRESOLVED_EFFECT_STATES

LEMMA SufficiencyPasses ==
  ASSUME NEW s, Report(s).verdict = "PASS",
         NEW R, R = {"PAYMENT", "TRACE", "FUND", "GUARANTEE", "ASSET", "ACCOUNTING"}
                    \cup IF Path(s) = "SETTLED_PATH"
                         THEN {"CALLBACK", "CALLBACK_RAW", "MESSAGES", "ASSET_DELIVERY"} ELSE {}
  PROVE  /\ ~s.work.pending_reads
         /\ \A e \in s.latest : e.tool \in R =>
              /\ e.complete = "COMPLETE"
              /\ e.asof # NoTime => ~(s.now - e.asof > MaxAge)
  <1>1. ASSUME NEW c \in SufficiencyChecks(s) PROVE c.dimension # "EVIDENCE_SUFFICIENCY" \/ c.status # "INCONCLUSIVE"
    <2>1. c \in Checks(s)
      BY DEF Checks
    <2>2. QED
      BY <2>1, PassMeans DEF EvaluationDimension
  <1>2. PICK I : I = {e \in s.latest : e.tool \in R}
    OBVIOUS
  <1>3. \A r, q : Check("EVIDENCE_SUFFICIENCY", "INCONCLUSIVE", r, q) \notin SufficiencyChecks(s)
    BY <1>1, CheckIs
  <1>4. ~s.work.pending_reads
    <2>1. s.work.pending_reads =>
            Check("EVIDENCE_SUFFICIENCY", "INCONCLUSIVE", "PENDING_READ_DISPATCH", "READ_PUBLICATION")
              \in SufficiencyChecks(s)
      BY DEF SufficiencyChecks
    <2>2. QED
      BY <1>3, <2>1
  <1>5. ~\E e \in I : e.fresh = "STALE" \/ (e.asof # NoTime /\ s.now - e.asof > MaxAge)
    <2>1. (\E e \in I : e.fresh = "STALE" \/ (e.asof # NoTime /\ s.now - e.asof > MaxAge)) =>
            Check("EVIDENCE_SUFFICIENCY", "INCONCLUSIVE", "EVIDENCE_STALE", "NONE")
              \in SufficiencyChecks(s)
      BY <1>2 DEF SufficiencyChecks
    <2>2. QED
      BY <1>3, <2>1
  <1>6. ~\E e \in I : e.complete # "COMPLETE"
    <2>1. (\E e \in I : e.complete # "COMPLETE") =>
            Check("EVIDENCE_SUFFICIENCY", "INCONCLUSIVE", "EVIDENCE_INCOMPLETE", "NONE")
              \in SufficiencyChecks(s)
      BY <1>2 DEF SufficiencyChecks
    <2>2. QED
      BY <1>3, <2>1
  <1>7. QED
    BY <1>2, <1>4, <1>5, <1>6


(***************************************************************************)
(* What every answer tells of itself.                                      *)
(***************************************************************************)
\* A complete answer is a fresh one, and an answer carries the time of the
\* record it discloses.
Candid(o) ==
  /\ AtMostOne(o.data)
  /\ o.completeness = "COMPLETE" => o.status = "OK" /\ o.freshness = "CURRENT"
  /\ o.status = "OK" => o.data # {}
  /\ o.status = "OK" /\ o.tool # "ACCOUNTING" =>
       \A w \in o.data : \A r \in project(w, o.tool, o.version) : o.at = r.at

LEMMA EventTimeOf ==
  ASSUME NEW tool, tool # "ACCOUNTING", NEW R, AtMostOne(R), NEW r \in R, r.at \in Int
  PROVE  EventTime(tool, R) = r.at
  <1>1. {x.at : x \in R} = {r.at}
    BY DEF AtMostOne
  <1>2. Max({r.at}) = r.at
    BY MaxOfOne
  <1>3. QED
    BY <1>1, <1>2 DEF EventTime

LEMMA AnswerIsCandid ==
  ASSUME NEW F, NEW now \in Nat, FramesOK(F, now), NEW S, FaultsOK(S),
         NEW s \in Int, s > InitialTime, NEW tool \in ToolName, NEW version \in STRING,
         NEW o, o = observe(F, S, s, tool, version)
  PROVE  Candid(o)
  <1> DEFINE on == {f \in S : f.tool = tool /\ active(f, s)}
             kinds == {f.kind : f \in on}
             args(k) == {f.arg : f \in {g \in on : g.kind = k}}
             history == snapshots(F, s)
             lagged == s - Max(args("REPLICA_LAG"))
             chosen == CASE "OLD_CACHE" \in kinds -> {r \in history : r <= Min(args("OLD_CACHE")) + 1}
                         [] "OLD_CACHE" \notin kinds /\ "REPLICA_LAG" \in kinds ->
                              {r \in history : F[r].at <= lagged}
                         [] OTHER -> history
             stale == kinds \cap {"OLD_CACHE", "REPLICA_LAG"} # {}
             records == UNION {project(w, tool, version) : w \in Selected(F, chosen)}
             found == Selected(F, chosen) # {} /\ Answers(tool, records)
             asof == CASE "OLD_CACHE" \in kinds -> F[Max(chosen)].at
                       [] "OLD_CACHE" \notin kinds /\ stale -> lagged
                       [] OTHER -> s
  <1>0. s >= InitialTime
    BY DEF InitialTime
  <1>1. CASE "TIMEOUT" \in kinds
    <2>1. o = Answer(tool, version, s, "TIMEOUT", "PRIMARY", "UNKNOWN", "UNKNOWN", NoTime, NoTime, {})
      BY <1>1 DEF observe, Answer
    <2>2. QED
      BY <2>1 DEF Candid, Answer, AtMostOne
  <1>2. CASE "TIMEOUT" \notin kinds /\ kinds \cap {"DATA_DELAY", "INDEX_MISSING"} # {}
    <2>1. o = Answer(tool, version, s, "NOT_FOUND", "INDEX", "PARTIAL", "UNKNOWN", NoTime, NoTime, {})
      BY <1>2 DEF observe, Answer
    <2>2. QED
      BY <2>1 DEF Candid, Answer, AtMostOne
  <1>3. CASE "TIMEOUT" \notin kinds /\ kinds \cap {"DATA_DELAY", "INDEX_MISSING"} = {}
    <2>1. o = Answer(tool, version, s, IF found THEN "OK" ELSE "NOT_FOUND",
                     IF "OLD_CACHE" \in kinds THEN "CACHE" ELSE IF stale THEN "REPLICA" ELSE "PRIMARY",
                     IF stale THEN "PARTIAL" ELSE IF found THEN "COMPLETE" ELSE "UNKNOWN",
                     IF stale THEN "STALE" ELSE "CURRENT",
                     IF found THEN EventTime(tool, records) ELSE NoTime,
                     asof,
                     IF found THEN Selected(F, chosen) ELSE {})
      BY <1>3, Zenon DEF observe, Answer, Selected
    <2>2. PICK E, D, R : E = chosen /\ D = Selected(F, E) /\ R = records
      OBVIOUS
    <2>3. E \in SUBSET snapshots(F, s)
      BY <2>2
    <2>4. R = UNION {project(w, tool, version) : w \in D}
      BY <2>2
    <2>15. o = Answer(tool, version, s, IF found THEN "OK" ELSE "NOT_FOUND",
                      IF "OLD_CACHE" \in kinds THEN "CACHE" ELSE IF stale THEN "REPLICA" ELSE "PRIMARY",
                      IF stale THEN "PARTIAL" ELSE IF found THEN "COMPLETE" ELSE "UNKNOWN",
                      IF stale THEN "STALE" ELSE "CURRENT",
                      IF found THEN EventTime(tool, R) ELSE NoTime,
                      asof, IF found THEN D ELSE {})
      BY <2>1, <2>2, Zenon
    <2>5. /\ o.tool = tool /\ o.version = version
          /\ o.status = IF found THEN "OK" ELSE "NOT_FOUND"
          /\ o.completeness = IF stale THEN "PARTIAL" ELSE IF found THEN "COMPLETE" ELSE "UNKNOWN"
          /\ o.freshness = IF stale THEN "STALE" ELSE "CURRENT"
          /\ o.at = IF found THEN EventTime(tool, R) ELSE NoTime
          /\ o.data = IF found THEN D ELSE {}
      <3> HIDE DEF on, kinds, args, history, lagged, chosen, stale, records, found, asof
      <3>1. QED
        BY <2>15 DEF Answer
    <2>6. found => D # {}
      BY <2>2
    <2> HIDE DEF on, kinds, args, history, lagged, chosen, stale, records, found, asof
    <2>7. AtMostOne(D) /\ \A w \in D : WorldOK(w)
      BY <1>0, <2>2, <2>3, FoundFrame
    <2>8. ASSUME NEW w \in D, NEW r \in project(w, tool, version), tool # "ACCOUNTING"
          PROVE  EventTime(tool, R) = r.at
      <3>1. AtMostOne(project(w, tool, version)) /\ r.at \in Int
        BY <2>7, DisclosesOne
      <3>2. D = {w}
        BY <2>7 DEF AtMostOne
      <3>3. R = project(w, tool, version)
        BY <2>4, <3>2
      <3>4. QED
        BY <2>8, <3>1, <3>3, EventTimeOf
    <2>9. AtMostOne(o.data) /\ (o.status = "OK" => o.data = D /\ o.data # {})
      BY <2>5, <2>6, <2>7 DEF AtMostOne
    <2>10. o.completeness = "COMPLETE" => o.status = "OK" /\ o.freshness = "CURRENT"
      BY <2>5
    <2>11. o.status = "OK" => o.at = EventTime(tool, R)
      BY <2>5
    <2>12. QED
      BY <2>5, <2>8, <2>9, <2>10, <2>11 DEF Candid
  <1>4. QED
    BY <1>1, <1>2, <1>3


(***************************************************************************)
(* The evidence of a snapshot.                                             *)
(***************************************************************************)
LastOf(O) == latest_observation_evidence(read_verified_evidence(O))

UsableOf(O, now) == {e \in LastOf(O) : eligible(e, now)}

\* The observations the evaluator counts.
Counted(O, now) == {o \in O : \E e \in extract(o) : e \in UsableOf(O, now)}

LEMMA SnapshotIs ==
  ASSUME NEW st, NEW O, NEW effs, NEW work, NEW now, NEW s, s = Snapshot(st, O, effs, work, now)
  PROVE  /\ s.evidence = read_verified_evidence(O) /\ s.latest = LastOf(O)
         /\ s.index = Index(UsableOf(O, now))
         /\ s.graph.identity = verify_payment_identity(IndexBase(UsableOf(O, now)))
         /\ s.effects = effs /\ s.work = work /\ s.now = now
  <1>1. PICK V, L, U : V = read_verified_evidence(O) /\ L = LastOf(O) /\ U = UsableOf(O, now)
    OBVIOUS
  <1>2. L = latest_observation_evidence(V) /\ U = {e \in L : eligible(e, now)}
    BY <1>1 DEF LastOf, UsableOf
  <1>3. PICK r : r = Recent(V, L, now)
    OBVIOUS
  <1>4. r = Indexed(V, L, U, Index(U))
    BY <1>2, <1>3 DEF Recent, Usable
  <1>5. /\ r.evidence = V /\ r.latest = L /\ r.index = Index(U)
        /\ r.graph = IndexedGraph(Index(U), TRUE)
    BY <1>4 DEF Indexed
  <1>6. r.graph.identity = verify_payment_identity(IndexBase(U))
    BY <1>5, GraphParts, IndexParts DEF Graph
  <1>7. PICK p : p = ProvenanceValid(st, O)
    OBVIOUS
  <1>8. s = SnapshotOf(r, p, effs, work, now)
    BY <1>1, <1>2, <1>3, <1>7 DEF Snapshot, ReadSnapshot
  <1>9. /\ s.evidence = r.evidence /\ s.latest = r.latest /\ s.index = r.index /\ s.graph = r.graph
        /\ s.effects = effs /\ s.work = work /\ s.now = now
    BY <1>8 DEF SnapshotOf
  <1>10. QED
    BY <1>1, <1>5, <1>6, <1>9


\* The calls of a sweep, whose answers have arrived or are kept.
Recorded(F, now, O) ==
  /\ now \in Nat /\ FramesOK(F, now) /\ ObservationsOK(F, now, O)
  /\ \A o \in O : Candid(o) /\ (o.tool # "PROTOCOL" => o.version = "NONE")

Telling(O) == {o \in O : Tells(o)}

\* No reading of O that tells something is newer than o, of its tool and version.
IsNewest(O, o) ==
  \A x \in O : Tells(x) /\ x.tool = o.tool /\ x.version = o.version => x.seen <= o.seen

LEMMA RecordedParts ==
  ASSUME NEW F, NEW now, NEW O, Recorded(F, now, O), NEW o \in O
  PROVE  /\ now \in Nat /\ FramesOK(F, now) /\ Faithful(F, now, o) /\ Candid(o)
         /\ o.tool \in ToolName /\ o.seen \in Nat /\ o.seen <= now /\ o.seen > InitialTime
         /\ o.asof \in Int
  <1>1. now \in Nat /\ FramesOK(F, now) /\ Faithful(F, now, o) /\ Candid(o)
    BY DEF Recorded, ObservationsOK
  <1>2. o.tool \in ToolName /\ o.seen \in Int /\ o.seen > InitialTime /\ o.asof \in Int
    BY <1>1, ObservationParts
  <1>3. o.seen <= now
    BY <1>1 DEF Faithful
  <1>4. QED
    BY <1>1, <1>2, <1>3 DEF InitialTime

LEMMA SomeClaim ==
  ASSUME NEW o, o.tool \in ToolName, NEW r
  PROVE  Claims(o, r) # {}
  <1>1. CASE o.tool = "FUND"
    BY <1>1 DEF Claims, FundClaims
  <1>2. CASE o.tool = "LOAN_NOTE"
    BY <1>2 DEF Claims, LoanNoteClaims
  <1>3. CASE o.tool = "PAYMENT"
    <2>1. CASE r.tx = {}
      BY <1>3, <2>1 DEF Claims, PaymentClaims
    <2>2. CASE r.tx # {}
      <3>1. \E e \in PaymentClaims(o, r) : TRUE
        BY <2>2, PaymentIsRead
      <3>2. QED
        BY <1>3, <3>1 DEF Claims
    <2>3. QED
      BY <2>1, <2>2
  <1>4. CASE o.tool \in {"CALLBACK", "CALLBACK_RAW"}
    BY <1>4 DEF Claims, CallbackClaims
  <1>5. CASE o.tool = "MESSAGES"
    <2>1. \E e \in MessageClaims(o, r) : TRUE
      BY MessageIsRead
    <2>2. QED
      BY <1>5, <2>1 DEF Claims
  <1>6. CASE o.tool = "PROTOCOL"
    BY <1>6 DEF Claims, ProtocolClaims
  <1>7. CASE o.tool = "TRACE"
    BY <1>7 DEF Claims, TraceClaims
  <1>8. CASE o.tool = "GUARANTEE"
    BY <1>8 DEF Claims, GuaranteeClaims
  <1>9. CASE o.tool \in {"ASSET", "ACCOUNTING"}
    BY <1>9 DEF Claims
  <1>10. CASE o.tool = "ASSET_DELIVERY"
    BY <1>10 DEF Claims, DeliveryClaims
  <1>11. QED
    BY <1>1, <1>2, <1>3, <1>4, <1>5, <1>6, <1>7, <1>8, <1>9, <1>10 DEF ToolName

(* An answer that tells something leaves evidence, and only such a one.    *)
LEMMA TellsLeaves ==
  ASSUME NEW F, NEW now, NEW O, Recorded(F, now, O), NEW o \in O
  PROVE  Tells(o) <=> extract(o) # {}
  <1>1. o.tool \in ToolName /\ Candid(o) /\ validate_observation(o)
    BY RecordedParts DEF Faithful
  <1>2. CASE o.status # "OK"
    BY <1>1, <1>2 DEF Tells, extract, validate_observation
  <1>3. CASE o.status = "OK"
    <2>1. PICK w \in o.data : TRUE
      BY <1>1, <1>3 DEF Candid
    <2>2. \A v \in o.data : v = w
      BY <1>1 DEF Candid, AtMostOne
    <2>3. ASSUME Tells(o) PROVE extract(o) # {}
      <3>1. PICK r \in project(w, o.tool, o.version) : TRUE
        BY <2>3 DEF Tells
      <3>2. PICK e \in Claims(o, r) : TRUE
        BY <1>1, SomeClaim
      <3>3. e \in extract(o)
        BY <1>3, <3>1, <3>2, InExtract
      <3>4. QED
        BY <3>3
    <2>4. ASSUME NEW e \in extract(o) PROVE Tells(o)
      <3>1. PICK v \in o.data : \E r \in project(v, o.tool, o.version) : e \in Claims(o, r)
        BY <1>3 DEF extract
      <3>2. QED
        BY <2>2, <3>1 DEF Tells
    <2>5. QED
      BY <2>3, <2>4
  <1>4. QED
    BY <1>2, <1>3

LEMMA ExtractParts ==
  ASSUME NEW F, NEW now, NEW O, Recorded(F, now, O), NEW o \in O, NEW e \in extract(o)
  PROVE  /\ ClaimOf(o, e) /\ e.tool = o.tool /\ e.scope = o.version /\ e.seen = o.seen
         /\ e.asof = o.asof /\ e.source = o.source /\ e.complete = o.completeness
         /\ e.fresh = o.freshness
         /\ (o.status # "OK") = (e.claim = "SOURCE_LOOKUP_STATUS")
         /\ e.seen \in Nat /\ e.seen <= now /\ Tells(o)
  <1>1. o.tool \in ToolName /\ o.seen \in Nat /\ o.seen <= now
    BY RecordedParts
  <1>2. ClaimOf(o, e) /\ (o.status # "OK") = (e.claim = "SOURCE_LOOKUP_STATUS")
    BY <1>1, ExtractSays
  <1>3. Tells(o)
    BY TellsLeaves
  <1>4. QED
    BY <1>1, <1>2, <1>3, ClaimParts

LEMMA VerifiedIs ==
  ASSUME NEW O, NEW e
  PROVE  e \in read_verified_evidence(O) <=>
           /\ \E o \in O : e \in extract(o)
           /\ \A o \in O : \A x \in extract(o) : same_fact(x, e) => x.seen <= e.seen
  BY DEF read_verified_evidence

LEMMA SameFactIs ==
  ASSUME NEW F, NEW now, NEW O, Recorded(F, now, O), NEW o \in O, NEW x \in O,
         NEW a \in extract(o), NEW b \in extract(x), same_fact(a, b)
  PROVE  /\ a.claim = b.claim /\ a.value = b.value /\ a.tool = b.tool /\ a.source = b.source
         /\ a.complete = b.complete /\ a.fresh = b.fresh /\ a.scope = b.scope
         /\ a.request = b.request
  <1>1. ClaimOf(o, a) /\ ClaimOf(x, b)
    BY ExtractParts
  <1>2. QED
    BY <1>1, FingerprintIs DEF same_fact

(* No fact is lost by the verified reading: its latest extraction stays.   *)
LEMMA FactIsKept ==
  ASSUME NEW F, NEW now, NEW O, Recorded(F, now, O), NEW o \in O, NEW e \in extract(o)
  PROVE  \E x \in read_verified_evidence(O) : same_fact(x, e) /\ x.seen >= e.seen
  <1>1. PICK A : A = UNION {extract(p) : p \in O}
    OBVIOUS
  <1>2. \A x \in A : x.seen \in Nat /\ x.seen <= now
    BY <1>1, ExtractParts
  <1>3. PICK S : S = {x.seen : x \in {y \in A : same_fact(y, e)}}
    OBVIOUS
  <1>4. e \in A /\ same_fact(e, e)
    BY <1>1 DEF same_fact
  <1>5. S \in SUBSET Nat /\ S # {} /\ e.seen \in S /\ \A n \in S : n <= now
    BY <1>2, <1>3, <1>4
  <1>6. now \in Nat
    BY DEF Recorded
  <1>7. PICK m \in S : \A n \in S : m >= n
    BY <1>5, <1>6, GreatestOf
  <1>8. PICK x \in A : same_fact(x, e) /\ x.seen = m
    BY <1>3, <1>7
  <1>9. ASSUME NEW y \in A, same_fact(y, x) PROVE y.seen <= x.seen
    <2>1. same_fact(y, e)
      BY <1>8, <1>9 DEF same_fact
    <2>2. y.seen \in S
      BY <1>3, <2>1
    <2>3. QED
      BY <1>5, <1>7, <1>8, <2>2
  <1>10. x \in read_verified_evidence(O)
    BY <1>1, <1>8, <1>9, VerifiedIs
  <1>11. QED
    BY <1>5, <1>7, <1>8, <1>10

LEMMA LastIs ==
  ASSUME NEW O, NEW e
  PROVE  e \in LastOf(O) <=>
           /\ e \in read_verified_evidence(O)
           /\ \A x \in read_verified_evidence(O) : x.tool = e.tool /\ x.scope = e.scope
                                                   => x.seen <= e.seen
  BY DEF LastOf, latest_observation_evidence

(* All the evidence of the newest telling reading of a tool is last ...    *)
LEMMA NewestIsLast ==
  ASSUME NEW F, NEW now, NEW O, Recorded(F, now, O), NEW o \in O, IsNewest(O, o),
         NEW e \in extract(o)
  PROVE  e \in LastOf(O)
  <1>1. ASSUME NEW p \in O, NEW x \in extract(p), x.tool = e.tool, x.scope = e.scope
        PROVE  x.seen <= e.seen
    <2>1. x.tool = p.tool /\ x.scope = p.version /\ x.seen = p.seen /\ Tells(p)
      BY ExtractParts
    <2>2. e.tool = o.tool /\ e.scope = o.version /\ e.seen = o.seen
      BY ExtractParts
    <2>3. QED
      BY <1>1, <2>1, <2>2 DEF IsNewest
  <1>2. ASSUME NEW p \in O, NEW x \in extract(p), same_fact(x, e) PROVE x.seen <= e.seen
    <2>1. x.tool = e.tool /\ x.scope = e.scope
      BY <1>2, SameFactIs
    <2>2. QED
      BY <1>1, <2>1
  <1>3. e \in read_verified_evidence(O)
    BY <1>2, VerifiedIs
  <1>4. ASSUME NEW x \in read_verified_evidence(O), x.tool = e.tool, x.scope = e.scope
        PROVE  x.seen <= e.seen
    <2>1. PICK p \in O : x \in extract(p)
      BY VerifiedIs
    <2>2. QED
      BY <1>1, <1>4, <2>1
  <1>5. QED
    BY <1>3, <1>4, LastIs

(* ... and what is last was told by the newest reading.                    *)
LEMMA LastIsNewest ==
  ASSUME NEW F, NEW now, NEW O, Recorded(F, now, O), NEW o \in O, NEW e \in extract(o),
         e \in LastOf(O)
  PROVE  IsNewest(O, o)
  <1>1. SUFFICES ASSUME NEW x \in O, Tells(x), x.tool = o.tool, x.version = o.version
                 PROVE  x.seen <= o.seen
    BY DEF IsNewest
  <1>2. PICK y \in extract(x) : TRUE
    BY <1>1, TellsLeaves
  <1>3. PICK z \in read_verified_evidence(O) : same_fact(z, y) /\ z.seen >= y.seen
    BY FactIsKept
  <1>4. PICK p \in O : z \in extract(p)
    BY VerifiedIs
  <1>5. z.tool = y.tool /\ z.scope = y.scope /\ z.seen \in Nat
    BY <1>3, <1>4, SameFactIs, ExtractParts
  <1>6. /\ y.tool = x.tool /\ y.scope = x.version /\ y.seen = x.seen /\ y.seen \in Nat
        /\ e.tool = o.tool /\ e.scope = o.version /\ e.seen = o.seen /\ e.seen \in Nat
    BY ExtractParts
  <1>7. z.seen <= e.seen
    BY <1>1, <1>5, <1>6, LastIs
  <1>8. QED
    BY <1>3, <1>5, <1>6, <1>7


LEMMA UsableIs ==
  ASSUME NEW O, NEW now, NEW e
  PROVE  e \in UsableOf(O, now) <=> e \in LastOf(O) /\ eligible(e, now)
  BY DEF UsableOf

(* A call is counted with all it disclosed or not at all; a counted one is *)
(* a recent complete answer of the primary and the newest of its tool.     *)
LEMMA CountedIs ==
  ASSUME NEW F, NEW now, NEW O, Recorded(F, now, O), NEW o \in Counted(O, now)
  PROVE  /\ o \in O /\ extract(o) \subseteq UsableOf(O, now) /\ Tells(o) /\ IsNewest(O, o)
         /\ o.status = "OK" /\ o.source = "PRIMARY" /\ o.freshness = "CURRENT"
         /\ o.completeness = "COMPLETE" /\ o.asof = o.seen /\ now - o.asof <= MaxAge
         /\ o.data = {Current(F, o.seen)}
  <1>1. o \in O
    BY DEF Counted
  <1>2. PICK e \in extract(o) : e \in UsableOf(O, now)
    BY DEF Counted
  <1>3. e \in LastOf(O) /\ eligible(e, now)
    BY <1>2, UsableIs
  <1>4. /\ e.tool = o.tool /\ e.scope = o.version /\ e.seen = o.seen /\ e.asof = o.asof
        /\ e.source = o.source /\ e.complete = o.completeness /\ e.fresh = o.freshness
        /\ (o.status # "OK") = (e.claim = "SOURCE_LOOKUP_STATUS") /\ Tells(o)
    BY <1>1, ExtractParts
  <1>5. /\ e.claim # "SOURCE_LOOKUP_STATUS" /\ e.fresh = "CURRENT" /\ e.complete = "COMPLETE"
        /\ e.source = "PRIMARY" /\ e.asof # NoTime /\ e.seen <= now /\ now - e.asof \in 0 .. MaxAge
    BY <1>3 DEF eligible
  <1>6. IsNewest(O, o)
    BY <1>1, <1>3, LastIsNewest
  <1>7. Faithful(F, now, o)
    BY <1>1, RecordedParts
  <1>8. now - o.asof <= MaxAge
    BY <1>4, <1>5, PolicyAssumption
  <1>9. ASSUME NEW x \in extract(o) PROVE x \in UsableOf(O, now)
    <2>1. x \in LastOf(O)
      BY <1>1, <1>6, NewestIsLast
    <2>2. /\ x.seen = o.seen /\ x.asof = o.asof /\ x.source = o.source
          /\ x.complete = o.completeness /\ x.fresh = o.freshness
          /\ (o.status # "OK") = (x.claim = "SOURCE_LOOKUP_STATUS")
      BY <1>1, ExtractParts
    <2>3. eligible(x, now)
      BY <1>4, <1>5, <2>2 DEF eligible
    <2>4. QED
      BY <2>1, <2>3, UsableIs
  <1>10. QED
    BY <1>1, <1>4, <1>5, <1>6, <1>7, <1>8, <1>9 DEF Faithful

(* The usable evidence is that of an inquiry which made the counted calls. *)
LEMMA UsableIsKnown ==
  ASSUME NEW F, NEW now, NEW O, Recorded(F, now, O)
  PROVE  Known(F, now, Counted(O, now), UsableOf(O, now))
  <1>1. PICK C, U : C = Counted(O, now) /\ U = UsableOf(O, now)
    OBVIOUS
  <1>2. \A o \in C : o \in O /\ extract(o) \subseteq U
    BY <1>1, CountedIs
  <1>3. ASSUME NEW e \in U PROVE \E o \in C : e \in extract(o)
    <2>1. e \in read_verified_evidence(O)
      BY <1>1, UsableIs, LastIs
    <2>2. PICK o \in O : e \in extract(o)
      BY <2>1, VerifiedIs
    <2>3. o \in C
      BY <1>1, <2>2 DEF Counted
    <2>4. QED
      BY <2>2, <2>3
  <1>4. U = UNION {extract(o) : o \in C}
    BY <1>2, <1>3
  <1>5. ProvenanceValid(U, C)
    BY <1>4 DEF ProvenanceValid
  <1>6. ObservationsOK(F, now, C)
    BY <1>2 DEF Recorded, ObservationsOK
  <1>7. QED
    BY <1>1, <1>5, <1>6 DEF Known, Recorded

\* The newest readings of `tool' that tell something.
NewestTelling(O, tool) == NewestOf(Telling(O), tool)

LEMMA NewestTellingIs ==
  ASSUME NEW O, NEW tool, NEW o
  PROVE  o \in NewestTelling(O, tool) <=> o \in O /\ Tells(o) /\ o.tool = tool /\ IsNewest(O, o)
  BY DEF NewestTelling, NewestOf, Telling, IsNewest

(* A tool without versions has one newest reading.                         *)
LEMMA OneNewest ==
  ASSUME NEW F, NEW now, NEW O, Recorded(F, now, O), NEW tool, tool # "PROTOCOL",
         NEW o \in NewestTelling(O, tool), NEW x \in NewestTelling(O, tool)
  PROVE  o = x
  <1>1. /\ o \in O /\ x \in O /\ Tells(o) /\ Tells(x) /\ o.tool = tool /\ x.tool = tool
        /\ IsNewest(O, o) /\ IsNewest(O, x)
    BY NewestTellingIs
  <1>2. o.version = "NONE" /\ x.version = "NONE" /\ o.seen \in Nat /\ x.seen \in Nat
    BY <1>1, RecordedParts DEF Recorded
  <1>3. o.seen = x.seen
    BY <1>1, <1>2 DEF IsNewest
  <1>4. QED
    BY <1>1, <1>3 DEF Recorded, ObservationsOK

\* Claim e was read by call o, the newest of its tool.
ReadLast(F, now, O, o, e) ==
  /\ o \in Counted(O, now) /\ o \in NewestTelling(O, o.tool) /\ o.tool = e.tool /\ Reads(F, o, e)

LEMMA NowIsReadLast ==
  ASSUME NEW F, NEW now, NEW O, Recorded(F, now, O), NEW claim,
         NEW e \in Now(Index(UsableOf(O, now)), claim)
  PROVE  e.claim = claim /\ \E o \in Counted(O, now) : ReadLast(F, now, O, o, e)
  <1>1. PICK U : U = UsableOf(O, now)
    OBVIOUS
  <1>2. e \in current(U) /\ e.claim = claim
    BY <1>1, IndexParts DEF Now
  <1>3. Known(F, now, Counted(O, now), U)
    BY <1>1, UsableIsKnown
  <1>4. PICK o \in Counted(O, now) : Reads(F, o, e)
    BY <1>2, <1>3, NowIsRead
  <1>5. o \in NewestTelling(O, o.tool)
    BY CountedIs, NewestTellingIs
  <1>6. o.tool = e.tool
    BY <1>4, ClaimParts DEF Reads
  <1>7. QED
    BY <1>2, <1>4, <1>5, <1>6 DEF ReadLast



(***************************************************************************)
(* What the evidence behind a check says of the frame its call saw.        *)
(***************************************************************************)
Shows(w, o, e) ==
  CASE e.claim = "FUND_BUSINESS_STATUS" -> e.tool = "FUND" /\ e.value = w.fund.status
    [] e.claim = "GUARANTEE_STATUS" -> e.tool = "GUARANTEE" /\ e.value = w.guarantee.status
    [] e.claim = "ASSET_STATUS" -> e.tool = "ASSET" /\ e.value = w.asset.status
    [] e.claim = "ACCOUNTING_ENTRY_PRESENT" ->
         e.tool = "ACCOUNTING" /\ e.value = Bool(w.accounting.entry)
    [] e.claim = "ASSET_DELIVERY_STATUS" ->
         e.tool = "ASSET_DELIVERY" /\ e.value = w.delivery.status
    [] e.claim = "MESSAGE_CONSUME_STATUS" ->
         /\ e.tool = "MESSAGES"
         /\ \E m \in w.messages : e.value = m.status /\ e.at = m.at /\ e.callback = m.event
    [] e.claim = "CALLBACK_GATEWAY_RECEIVED" ->
         /\ e.tool \in {"CALLBACK", "CALLBACK_RAW"} /\ e.at = o.at
         /\ \E g \in w.gateway : e.id = g.event
    [] e.claim = "CALLBACK_SIGNATURE_VERIFIED" ->
         /\ e.tool \in {"CALLBACK", "CALLBACK_RAW"}
         /\ \E g \in w.gateway : e.id = g.event /\ e.value = Bool(g.signed)
    [] e.claim = "PAYMENT_FINALITY" ->
         /\ e.tool = "PAYMENT" /\ e.value = w.fund.finality
         /\ e.kind = "FUND_REQUEST" => e.id = w.fund.request
    [] OTHER -> TRUE

LEMMA FundShows ==
  ASSUME NEW o, NEW f, NEW e
  PROVE  /\ e \in FundClaims(o, f) =>
              /\ e.claim \in {"FUND_BUSINESS_STATUS", "LOAN_NO_PRESENT", "LOAN_NOTE_REFERENCE"}
              /\ e.claim = "FUND_BUSINESS_STATUS" => e.value = f.status
         /\ e \in LoanNoteClaims(o, f) => e.claim \in {"LOAN_NO_PRESENT", "LOAN_NOTE_REFERENCE"}
  <1>1. PICK on : on = OnRequest(o, f)
    OBVIOUS
  <1>2. e \in FundClaims(o, f) =>
          \/ e = emit(o, on, "FUND_BUSINESS_STATUS", f.status)
          \/ e = emit(o, on, "LOAN_NO_PRESENT", Bool(f.loan))
          \/ e = emit(o, on, "LOAN_NOTE_REFERENCE", "L1")
    BY <1>1, Zenon DEF FundClaims
  <1>3. e \in LoanNoteClaims(o, f) =>
          \/ e = emit(o, on, "LOAN_NO_PRESENT", "TRUE")
          \/ e = emit(o, on, "LOAN_NOTE_REFERENCE", "L1")
    BY <1>1, Zenon DEF LoanNoteClaims
  <1>4. QED
    BY <1>2, <1>3, EmitParts

LEMMA CallbackShows ==
  ASSUME NEW o, NEW g, NEW e \in CallbackClaims(o, g)
  PROVE  /\ e.claim \in {"CALLBACK_GATEWAY_RECEIVED", "CALLBACK_SIGNATURE_VERIFIED",
                         "CALLBACK_PROTOCOL_VERSION"}
         /\ e.id = g.event /\ e.at = o.at
         /\ e.claim = "CALLBACK_SIGNATURE_VERIFIED" => e.value = Bool(g.signed)
  <1>1. PICK on : on = [Order(o) EXCEPT !.kind = "CALLBACK", !.id = g.event, !.protocol = g.protocol]
    OBVIOUS
  <1>2. on.id = g.event /\ on.at = o.at
    BY <1>1 DEF Order
  <1>3. \/ e = emit(o, on, "CALLBACK_GATEWAY_RECEIVED", "TRUE")
        \/ e = emit(o, on, "CALLBACK_SIGNATURE_VERIFIED", Bool(g.signed))
        \/ e = emit(o, on, "CALLBACK_PROTOCOL_VERSION", g.protocol)
    BY <1>1, Zenon DEF CallbackClaims
  <1>4. QED
    BY <1>2, <1>3, EmitParts

LEMMA PaymentShows ==
  ASSUME NEW o, NEW f, validate_transaction(f), NEW e \in PaymentClaims(o, f),
         e.claim = "PAYMENT_FINALITY"
  PROVE  e.value = f.finality /\ (e.kind = "FUND_REQUEST" => e.id = f.request)
  <1>1. CASE f.tx = {}
    <2>1. PICK on : on = [OnRequest(o, f) EXCEPT !.at = f.at]
      OBVIOUS
    <2>2. on.id = f.request
      BY <2>1 DEF OnRequest, Order
    <2>3. e = emit(o, on, "PAYMENT_FINALITY", f.finality)
      BY <1>1, <2>1 DEF PaymentClaims
    <2>4. QED
      BY <2>2, <2>3, EmitParts
  <1>2. CASE f.tx # {}
    <2>1. PICK t \in f.tx : e \in TransactionClaims(o, OnTransaction(o, f, t), t)
      BY <1>2 DEF PaymentClaims
    <2>2. e.kind = "TRANSACTION" /\ e.value = t.finality
      BY <2>1, TransactionSays
    <2>3. QED
      BY <2>2 DEF validate_transaction
  <1>3. QED
    BY <1>1, <1>2

LEMMA RecordShows ==
  ASSUME NEW o, o.tool \in ToolName, NEW w, validate_transaction(w.fund),
         NEW r \in project(w, o.tool, o.version), NEW e \in Claims(o, r), e.tool = o.tool
  PROVE  Shows(w, o, e)
  <1>1. CASE o.tool = "TRACE"
    <2>1. e \in TraceClaims(o, r)
      BY <1>1 DEF Claims
    <2>2. e.claim \in {"REQUEST_SENT", "HTTP_RESPONSE_STATUS"}
      BY <2>1, TraceSays
    <2>3. QED
      BY <2>2 DEF Shows
  <1>2. CASE o.tool = "GUARANTEE"
    <2>1. r = w.guarantee /\ e \in GuaranteeClaims(o, r)
      BY <1>2 DEF project, Claims
    <2>2. /\ e.claim \in {"GUARANTEE_STATUS", "GUARANTEE_VERSION"}
          /\ e.claim = "GUARANTEE_STATUS" => e.value = w.guarantee.status
      BY <2>1, GuaranteeSays
    <2>3. QED
      BY <1>2, <2>2 DEF Shows
  <1>3. CASE o.tool = "FUND"
    <2>1. r = w.fund /\ e \in FundClaims(o, r)
      BY <1>3 DEF project, Claims
    <2>2. /\ e.claim \in {"FUND_BUSINESS_STATUS", "LOAN_NO_PRESENT", "LOAN_NOTE_REFERENCE"}
          /\ e.claim = "FUND_BUSINESS_STATUS" => e.value = w.fund.status
      BY <2>1, FundShows
    <2>3. QED
      BY <1>3, <2>2 DEF Shows
  <1>4. CASE o.tool = "LOAN_NOTE"
    <2>1. e \in LoanNoteClaims(o, r)
      BY <1>4 DEF Claims
    <2>2. e.claim \in {"LOAN_NO_PRESENT", "LOAN_NOTE_REFERENCE"}
      BY <2>1, FundShows
    <2>3. QED
      BY <2>2 DEF Shows
  <1>5. CASE o.tool = "PAYMENT"
    <2>1. r = w.fund /\ e \in PaymentClaims(o, r)
      BY <1>5 DEF project, Claims
    <2>2. e.claim \in IDENTITY_CLAIMS
      BY <2>1, PaymentSays
    <2>3. e.claim = "PAYMENT_FINALITY" =>
            e.value = w.fund.finality /\ (e.kind = "FUND_REQUEST" => e.id = w.fund.request)
      BY <2>1, PaymentShows
    <2>4. QED
      BY <1>5, <2>2, <2>3 DEF Shows, IDENTITY_CLAIMS, IdentityFields
  <1>6. CASE o.tool \in {"CALLBACK", "CALLBACK_RAW"}
    <2>1. r \in w.gateway /\ e \in CallbackClaims(o, r)
      BY <1>6 DEF project, Claims
    <2>2. /\ e.claim \in {"CALLBACK_GATEWAY_RECEIVED", "CALLBACK_SIGNATURE_VERIFIED",
                          "CALLBACK_PROTOCOL_VERSION"}
          /\ e.id = r.event /\ e.at = o.at
          /\ e.claim = "CALLBACK_SIGNATURE_VERIFIED" => e.value = Bool(r.signed)
      BY <2>1, CallbackShows
    <2>3. QED
      BY <1>6, <2>1, <2>2 DEF Shows
  <1>7. CASE o.tool = "MESSAGES"
    <2>1. r \in w.messages /\ e \in MessageClaims(o, r)
      BY <1>7 DEF project, Claims
    <2>2. /\ e.claim \in {"MESSAGE_CONSUME_STATUS", "MESSAGE_DLQ", "CONSUMER_DEPLOYED_SCHEMA_VERSION",
                          "CONSUMER_ACCEPTED_PROTOCOL_VERSION", "CONSUMER_LOAN_NO_FIELD_TYPE"}
                         \cup MessageErrorClaims
          /\ e.callback = r.event
          /\ e.claim = "MESSAGE_CONSUME_STATUS" => e.value = r.status /\ e.at = r.at
      BY <2>1, MessageSays
    <2>3. QED
      BY <1>7, <2>1, <2>2 DEF Shows, MessageErrorClaims
  <1>8. CASE o.tool = "PROTOCOL"
    <2>1. e \in ProtocolClaims(o, r)
      BY <1>8 DEF Claims
    <2>2. e.claim \in {"PROTOCOL_FIELD_TYPE", "PROTOCOL_BUSINESS_SEMANTICS"}
      BY <2>1, ProtocolSays
    <2>3. QED
      BY <2>2 DEF Shows
  <1>9. CASE o.tool = "ASSET"
    <2>1. r = w.asset /\ e = emit(o, Order(o), "ASSET_STATUS", r.status)
      BY <1>9 DEF project, Claims
    <2>2. e.claim = "ASSET_STATUS" /\ e.value = w.asset.status
      BY <2>1, EmitParts
    <2>3. QED
      BY <1>9, <2>2 DEF Shows
  <1>10. CASE o.tool = "ACCOUNTING"
    <2>1. r = w.accounting /\ e = emit(o, Order(o), "ACCOUNTING_ENTRY_PRESENT", Bool(r.entry))
      BY <1>10 DEF project, Claims
    <2>2. e.claim = "ACCOUNTING_ENTRY_PRESENT" /\ e.value = Bool(w.accounting.entry)
      BY <2>1, EmitParts
    <2>3. QED
      BY <1>10, <2>2 DEF Shows
  <1>11. CASE o.tool = "ASSET_DELIVERY"
    <2>1. r = w.delivery /\ e \in DeliveryClaims(o, r)
      BY <1>11 DEF project, Claims
    <2>2. /\ e.claim \in {"ASSET_DELIVERY_STATUS", "ASSET_DELIVERY_EVENT_REF"}
          /\ e.claim = "ASSET_DELIVERY_STATUS" => e.value = w.delivery.status
      BY <2>1, DeliverySays
    <2>3. QED
      BY <1>11, <2>2 DEF Shows
  <1>12. QED
    BY <1>1, <1>2, <1>3, <1>4, <1>5, <1>6, <1>7, <1>8, <1>9, <1>10, <1>11 DEF ToolName

LEMMA ReadingShows ==
  ASSUME NEW F, NEW o, NEW e, Reads(F, o, e)
  PROVE  Shows(Current(F, o.seen), o, e) /\ e.tool = o.tool /\ WorldOK(Current(F, o.seen))
  <1>1. PICK w : w = Current(F, o.seen)
    OBVIOUS
  <1>2. /\ e \in extract(o) /\ ClaimOf(o, e) /\ o.status = "OK" /\ o.data = {w} /\ o.tool \in ToolName
        /\ WorldOK(w)
    BY <1>1 DEF Reads
  <1>3. PICK r \in project(w, o.tool, o.version) : e \in Claims(o, r)
    BY <1>2 DEF extract
  <1>4. e.tool = o.tool /\ validate_transaction(w.fund)
    BY <1>2, ClaimParts DEF WorldOK, FundOK
  <1>5. Shows(w, o, e)
    BY <1>2, <1>3, <1>4, RecordShows
  <1>6. QED
    BY <1>1, <1>2, <1>4, <1>5


\* The frames that the newest telling readings of `tool' disclosed.
ReadingOf(O, tool) == UNION {o.data : o \in NewestTelling(O, tool)}

LEMMA ReadLastShows ==
  ASSUME NEW F, NEW now, NEW O, Recorded(F, now, O), NEW o, NEW e, ReadLast(F, now, O, o, e),
         o.tool # "PROTOCOL", NEW w, w = Current(F, o.seen)
  PROVE  /\ o \in O /\ o \in Counted(O, now) /\ NewestTelling(O, o.tool) = {o}
         /\ ReadingOf(O, o.tool) = {w} /\ o.tool = e.tool
         /\ o.data = {w} /\ o.source = "PRIMARY" /\ Shows(w, o, e) /\ WorldOK(w)
         /\ o.seen = e.seen
  <1>1. /\ o \in Counted(O, now) /\ o \in NewestTelling(O, o.tool) /\ o.tool = e.tool /\ Reads(F, o, e)
    BY DEF ReadLast
  <1>2. o \in O /\ o.data = {w} /\ o.source = "PRIMARY"
    BY <1>1, CountedIs
  <1>3. NewestTelling(O, o.tool) = {o}
    BY <1>1, OneNewest
  <1>4. ReadingOf(O, o.tool) = {w}
    BY <1>2, <1>3 DEF ReadingOf
  <1>5. Shows(w, o, e) /\ WorldOK(w)
    BY <1>1, ReadingShows
  <1>6. o.seen = e.seen
    BY <1>1, ClaimParts DEF Reads
  <1>7. QED
    BY <1>1, <1>2, <1>3, <1>4, <1>5, <1>6

\* What every evaluation of the recorded answers reads.
Evaluates(s, O, now) ==
  /\ s.evidence = read_verified_evidence(O) /\ s.latest = LastOf(O)
  /\ s.index = Index(UsableOf(O, now))
  /\ s.graph.identity = verify_payment_identity(IndexBase(UsableOf(O, now)))
  /\ s.now = now

LEMMA SayingIsRead ==
  ASSUME NEW F, NEW now, NEW O, Recorded(F, now, O), NEW s, Evaluates(s, O, now),
         NEW claim, NEW v, AllSay(s, claim, v)
  PROVE  \E e, o : ReadLast(F, now, O, o, e) /\ e.claim = claim /\ e.value = v
  <1>1. PICK e \in Now(s.index, claim) : e.value = v
    BY DEF AllSay
  <1>2. e \in Now(Index(UsableOf(O, now)), claim)
    BY <1>1 DEF Evaluates
  <1>3. e.claim = claim /\ \E o \in Counted(O, now) : ReadLast(F, now, O, o, e)
    BY <1>2, NowIsReadLast
  <1>4. QED
    BY <1>1, <1>3

(* Each party's newest reading shows the final state of the path.          *)
LEMMA PartiesShow ==
  ASSUME NEW F, NEW now, NEW O, Recorded(F, now, O), NEW s, Evaluates(s, O, now),
         Report(s).verdict = "PASS",
         NEW final, final = IF Path(s) = "SETTLED_PATH" THEN "SUCCESS" ELSE "FAILED"
  PROVE  /\ \E w : ReadingOf(O, "FUND") = {w} /\ w.fund.status = final
         /\ \E w : ReadingOf(O, "GUARANTEE") = {w} /\ WorldOK(w) /\ w.guarantee.status = final
         /\ \E w : ReadingOf(O, "ASSET") = {w} /\ w.asset.status = final
         /\ \E w : ReadingOf(O, "ACCOUNTING") = {w} /\ w.accounting.entry = (Path(s) = "SETTLED_PATH")
         /\ Path(s) = "SETTLED_PATH" =>
              \E w : ReadingOf(O, "ASSET_DELIVERY") = {w} /\ w.delivery.status = "DELIVERED"
         /\ AnchoredBy(UsableOf(O, now))
  <1>1. \E w : ReadingOf(O, "FUND") = {w} /\ w.fund.status = final
    <2>1. PICK e, o : ReadLast(F, now, O, o, e) /\ e.claim = "FUND_BUSINESS_STATUS" /\ e.value = final
      BY StatePasses, SayingIsRead
    <2>2. PICK w : w = Current(F, o.seen)
      OBVIOUS
    <2>3. Shows(w, o, e) /\ o.tool = e.tool
      BY <2>1, <2>2, ReadingShows DEF ReadLast
    <2>4. e.tool = "FUND" /\ w.fund.status = final
      BY <2>1, <2>3 DEF Shows
    <2>5. QED
      BY <2>1, <2>2, <2>3, <2>4, ReadLastShows
  <1>2. \E w : ReadingOf(O, "GUARANTEE") = {w} /\ WorldOK(w) /\ w.guarantee.status = final
    <2>1. PICK e, o : ReadLast(F, now, O, o, e) /\ e.claim = "GUARANTEE_STATUS" /\ e.value = final
      BY StatePasses, SayingIsRead
    <2>2. PICK w : w = Current(F, o.seen)
      OBVIOUS
    <2>3. Shows(w, o, e) /\ o.tool = e.tool
      BY <2>1, <2>2, ReadingShows DEF ReadLast
    <2>4. e.tool = "GUARANTEE" /\ w.guarantee.status = final
      BY <2>1, <2>3 DEF Shows
    <2>5. QED
      BY <2>1, <2>2, <2>3, <2>4, ReadLastShows
  <1>3. \E w : ReadingOf(O, "ASSET") = {w} /\ w.asset.status = final
    <2>1. PICK e, o : ReadLast(F, now, O, o, e) /\ e.claim = "ASSET_STATUS" /\ e.value = final
      BY StatePasses, SayingIsRead
    <2>2. PICK w : w = Current(F, o.seen)
      OBVIOUS
    <2>3. Shows(w, o, e) /\ o.tool = e.tool
      BY <2>1, <2>2, ReadingShows DEF ReadLast
    <2>4. e.tool = "ASSET" /\ w.asset.status = final
      BY <2>1, <2>3 DEF Shows
    <2>5. QED
      BY <2>1, <2>2, <2>3, <2>4, ReadLastShows
  <1>4. \E w : ReadingOf(O, "ACCOUNTING") = {w} /\ w.accounting.entry = (Path(s) = "SETTLED_PATH")
    <2>0. PICK v : v = Bool(Path(s) = "SETTLED_PATH")
      OBVIOUS
    <2>1. PICK e, o : ReadLast(F, now, O, o, e) /\ e.claim = "ACCOUNTING_ENTRY_PRESENT" /\ e.value = v
      BY <2>0, StatePasses, SayingIsRead
    <2>2. PICK w : w = Current(F, o.seen)
      OBVIOUS
    <2>3. Shows(w, o, e) /\ o.tool = e.tool /\ WorldOK(w)
      BY <2>1, <2>2, ReadingShows DEF ReadLast
    <2>4. e.tool = "ACCOUNTING" /\ v = Bool(w.accounting.entry)
      BY <2>1, <2>3 DEF Shows
    <2>5. w.accounting.entry \in BOOLEAN
      BY <2>3, FrameTypes DEF WorldOK, AccountingSystem
    <2>6. w.accounting.entry = (Path(s) = "SETTLED_PATH")
      BY <2>0, <2>4, <2>5 DEF Bool
    <2>7. QED
      BY <2>1, <2>2, <2>3, <2>4, <2>6, ReadLastShows
  <1>5. ASSUME Path(s) = "SETTLED_PATH"
        PROVE  \E w : ReadingOf(O, "ASSET_DELIVERY") = {w} /\ w.delivery.status = "DELIVERED"
    <2>1. PICK e, o : ReadLast(F, now, O, o, e) /\ e.claim = "ASSET_DELIVERY_STATUS"
                      /\ e.value = "DELIVERED"
      BY <1>5, StatePasses, SayingIsRead
    <2>2. PICK w : w = Current(F, o.seen)
      OBVIOUS
    <2>3. Shows(w, o, e) /\ o.tool = e.tool
      BY <2>1, <2>2, ReadingShows DEF ReadLast
    <2>4. e.tool = "ASSET_DELIVERY" /\ w.delivery.status = "DELIVERED"
      BY <2>1, <2>3 DEF Shows
    <2>5. QED
      BY <2>1, <2>2, <2>3, <2>4, ReadLastShows
  <1>6. AnchoredBy(UsableOf(O, now))
    <2>1. PICK e \in Now(s.index, "GUARANTEE_STATUS") : TRUE
      BY StatePasses DEF AllSay
    <2>2. e \in Now(Index(UsableOf(O, now)), "GUARANTEE_STATUS")
      BY <2>1 DEF Evaluates
    <2>3. e.claim = "GUARANTEE_STATUS" /\ e \in current(UsableOf(O, now))
      BY <2>2, IndexParts DEF Now
    <2>4. PICK o \in Counted(O, now) : ReadLast(F, now, O, o, e)
      BY <2>2, NowIsReadLast
    <2>5. Shows(Current(F, o.seen), o, e)
      BY <2>4, ReadingShows DEF ReadLast
    <2>6. e.tool = "GUARANTEE"
      BY <2>3, <2>5 DEF Shows
    <2>7. e.source = "PRIMARY"
      BY <2>3, UsableIsKnown, NowIsRead
    <2>8. QED
      BY <2>3, <2>6, <2>7 DEF AnchoredBy
  <1>7. QED
    BY <1>1, <1>2, <1>3, <1>4, <1>5, <1>6


\* The tools whose last answers a verdict of s rests on.
Relevant(s) ==
  {"PAYMENT", "TRACE", "FUND", "GUARANTEE", "ASSET", "ACCOUNTING"}
  \cup IF Path(s) = "SETTLED_PATH" THEN {"CALLBACK", "CALLBACK_RAW", "MESSAGES", "ASSET_DELIVERY"} ELSE {}

(* Under a PASS the newest reading of each of them is a recent answer of   *)
(* the primary.                                                            *)
LEMMA ToolAnswers ==
  ASSUME NEW F, NEW now, NEW O, Recorded(F, now, O), NEW s, Evaluates(s, O, now),
         Report(s).verdict = "PASS", NEW tool \in Relevant(s), NEW o \in NewestTelling(O, tool)
  PROVE  o.status = "OK" /\ o.source = "PRIMARY" /\ now - o.asof <= MaxAge
  <1>1. o \in O /\ Tells(o) /\ o.tool = tool /\ IsNewest(O, o)
    BY NewestTellingIs
  <1>2. PICK e \in extract(o) : TRUE
    BY <1>1, TellsLeaves
  <1>3. e \in s.latest /\ s.now = now
    BY <1>1, <1>2, NewestIsLast DEF Evaluates
  <1>4. e.tool = tool /\ e.complete = o.completeness /\ e.asof = o.asof
    BY <1>1, <1>2, ExtractParts
  <1>5. PICK R : R = Relevant(s)
    OBVIOUS
  <1>6. e.complete = "COMPLETE" /\ (e.asof # NoTime => ~(s.now - e.asof > MaxAge))
    BY <1>3, <1>4, <1>5, SufficiencyPasses DEF Relevant
  <1>7. /\ Candid(o) /\ Faithful(F, now, o) /\ now \in Nat /\ o.seen \in Nat /\ o.asof \in Int
    BY <1>1, RecordedParts
  <1>8. o.status = "OK" /\ o.freshness = "CURRENT"
    BY <1>4, <1>6, <1>7 DEF Candid
  <1>9. o.source = "PRIMARY" /\ o.asof = o.seen
    BY <1>7, <1>8 DEF Faithful
  <1>10. now - o.asof <= MaxAge
    BY <1>3, <1>4, <1>6, <1>7, <1>9, PolicyAssumption DEF NoTime
  <1>11. QED
    BY <1>8, <1>9, <1>10

(* The payment's newest reading shows the finality of the path.            *)
LEMMA PaymentShown ==
  ASSUME NEW F, NEW now, NEW O, Recorded(F, now, O), NEW s, Evaluates(s, O, now),
         Path(s) # "NONE",
         NEW v, v = IF Path(s) = "SETTLED_PATH" THEN "SETTLED" ELSE "NOT_EXECUTED"
  PROVE  \E o, w : /\ o \in Counted(O, now) /\ o.tool = "PAYMENT" /\ o.data = {w}
                   /\ NewestTelling(O, "PAYMENT") = {o} /\ ReadingOf(O, "PAYMENT") = {w}
                   /\ w = Current(F, o.seen) /\ WorldOK(w) /\ w.fund.finality = v
                   /\ v = "NOT_EXECUTED" => w.fund.request = s.index.request
  <1>1. PICK M : M = Money(s)
    OBVIOUS
  <1>2. PICK e \in M : /\ e.value = v
                       /\ v = "NOT_EXECUTED" => e.kind = "FUND_REQUEST" /\ e.id = s.index.request
    <2>1. CASE Path(s) = "SETTLED_PATH"
      <3>1. {e.value : e \in M} = {"SETTLED"}
        BY <1>1, <2>1 DEF Path
      <3>2. QED
        BY <2>1, <3>1
    <2>2. CASE Path(s) # "SETTLED_PATH"
      <3>1. NoEffectClaimed(s)
        BY <2>2 DEF Path
      <3>2. /\ {e.value : e \in M} = {"NOT_EXECUTED"}
            /\ \A e \in M : e.kind = "FUND_REQUEST" /\ e.id = s.index.request
        BY <1>1, <3>1 DEF NoEffectClaimed
      <3>3. QED
        BY <2>2, <3>2
    <2>3. QED
      BY <2>1, <2>2
  <1>3. e \in Now(Index(UsableOf(O, now)), "PAYMENT_FINALITY") /\ e.tool = "PAYMENT"
    BY <1>1 DEF Money, Evaluates
  <1>4. PICK o \in Counted(O, now) : ReadLast(F, now, O, o, e)
    BY <1>3, NowIsReadLast
  <1>5. e.claim = "PAYMENT_FINALITY"
    BY <1>3, NowIsReadLast
  <1>6. o.tool = "PAYMENT"
    BY <1>3, <1>4 DEF ReadLast
  <1>7. PICK w : w = Current(F, o.seen)
    OBVIOUS
  <1>8. /\ NewestTelling(O, "PAYMENT") = {o} /\ ReadingOf(O, "PAYMENT") = {w} /\ o.data = {w}
        /\ Shows(w, o, e) /\ WorldOK(w)
    BY <1>4, <1>6, <1>7, ReadLastShows
  <1>9. e.value = w.fund.finality /\ (e.kind = "FUND_REQUEST" => e.id = w.fund.request)
    BY <1>5, <1>8 DEF Shows
  <1>10. QED
    BY <1>2, <1>6, <1>7, <1>8, <1>9


(* A settled payment is the one the Case expects, of its own request.      *)
LEMMA PaymentIsOwn ==
  ASSUME NEW F, NEW now, NEW O, Recorded(F, now, O), NEW s, Evaluates(s, O, now),
         Report(s).verdict = "PASS", Path(s) = "SETTLED_PATH"
  PROVE  \E w : /\ ReadingOf(O, "PAYMENT") = {w} /\ w.fund.finality = "SETTLED"
                /\ \E t \in w.fund.tx : t.request = "FREQ" /\ \A d \in IdentityFields : t[d] = "EXPECTED"
  <1>1. PICK C, U : C = Counted(O, now) /\ U = UsableOf(O, now)
    OBVIOUS
  <1>2. PICK base : base = IndexBase(U)
    OBVIOUS
  <1>3. Known(F, now, C, U)
    BY <1>1, UsableIsKnown
  <1>4. verify_payment_identity(base).result = "MATCH"
    BY <1>1, <1>2, IdentityPasses DEF Evaluates
  <1>5. PICK e \in IdentityReadings(base) : TRUE
    BY <1>4, MatchHasReading
  <1>6. e \in current(U) /\ e.tool = "PAYMENT"
    BY <1>2, <1>3, <1>5, ReadingIs
  <1>7. PICK o \in C : Reads(F, o, e)
    BY <1>3, <1>6, NowIsRead
  <1>8. PICK w : w = Current(F, o.seen)
    OBVIOUS
  <1>9. RightBy(U, w)
    BY <1>2, <1>3, <1>4, <1>5, <1>7, <1>8, MatchIsRight
  <1>10. AnchoredBy(U)
    <2>1. PICK final : final = IF Path(s) = "SETTLED_PATH" THEN "SUCCESS" ELSE "FAILED"
      OBVIOUS
    <2>2. QED
      BY <1>1, <2>1, PartiesShow
  <1>11. WorldOK(w)
    BY <1>7, <1>8 DEF Reads
  <1>12. PICK v : v = IF Path(s) = "SETTLED_PATH" THEN "SETTLED" ELSE "NOT_EXECUTED"
    OBVIOUS
  <1>13. ReadingOf(O, "PAYMENT") = {w}
    <2>1. ReadLast(F, now, O, o, e)
      <3>1. o \in NewestTelling(O, o.tool)
        BY <1>1, <1>7, CountedIs, NewestTellingIs
      <3>2. o.tool = e.tool
        BY <1>7, ClaimParts DEF Reads
      <3>3. QED
        BY <1>1, <1>7, <3>1, <3>2 DEF ReadLast
    <2>2. o.tool = "PAYMENT"
      BY <1>6, <2>1 DEF ReadLast
    <2>3. QED
      BY <1>8, <2>1, <2>2, ReadLastShows
  <1>14. QED
    BY <1>9, <1>10, <1>11, <1>13 DEF RightBy, WorldOK

(* A signed callback was received and every message of it consumed, after  *)
(* it had arrived.                                                         *)
LEMMA CallbackShown ==
  ASSUME NEW F, NEW now, NEW O, Recorded(F, now, O), NEW s, Evaluates(s, O, now),
         Report(s).verdict = "PASS", Path(s) = "SETTLED_PATH"
  PROVE  /\ \E w : /\ ReadingOf(O, "MESSAGES") = {w}
                   /\ w.messages # {} /\ \A m \in w.messages : m.status = "CONSUMED"
                   /\ \E tool \in {"CALLBACK", "CALLBACK_RAW"} : \E v \in ReadingOf(O, tool) :
                      \E g \in v.gateway : g.signed /\ \E m \in w.messages : m.event = g.event /\ m.at >= g.at
  <1>1. PICK g \in Now(s.index, "CALLBACK_GATEWAY_RECEIVED"),
             x \in Now(s.index, "CALLBACK_SIGNATURE_VERIFIED"),
             m \in Now(s.index, "MESSAGE_CONSUME_STATUS") :
           /\ x.id = g.id /\ x.obs = g.obs /\ x.value = "TRUE"
           /\ m.callback = g.id /\ m.at >= g.at /\ m.value = "CONSUMED"
    BY CallbackPasses
  <1>2. PICK U, C : U = UsableOf(O, now) /\ C = Counted(O, now)
    OBVIOUS
  <1>3. /\ g \in Now(Index(U), "CALLBACK_GATEWAY_RECEIVED") /\ x \in Now(Index(U), "CALLBACK_SIGNATURE_VERIFIED")
        /\ m \in Now(Index(U), "MESSAGE_CONSUME_STATUS")
    BY <1>1, <1>2 DEF Evaluates
  <1>4. PICK o \in C, p \in C, q \in C :
          ReadLast(F, now, O, o, g) /\ ReadLast(F, now, O, p, x) /\ ReadLast(F, now, O, q, m)
    BY <1>2, <1>3, NowIsReadLast
  <1>5. /\ g.claim = "CALLBACK_GATEWAY_RECEIVED" /\ x.claim = "CALLBACK_SIGNATURE_VERIFIED"
        /\ m.claim = "MESSAGE_CONSUME_STATUS"
    BY <1>2, <1>3, NowIsReadLast
  <1>6. p = o
    <2>1. ObservationId(o) = ObservationId(p)
      BY <1>1, <1>4, ClaimParts DEF ReadLast, Reads
    <2>2. Known(F, now, C, U)
      BY <1>2, UsableIsKnown
    <2>3. QED
      BY <2>1, <2>2, SameObservation
  <1>7. PICK v, w : v = Current(F, o.seen) /\ w = Current(F, q.seen)
    OBVIOUS
  <1>8. Shows(v, o, g) /\ Shows(v, o, x) /\ WorldOK(v) /\ o.tool = g.tool
    BY <1>4, <1>6, <1>7, ReadingShows DEF ReadLast
  <1>9. /\ o.tool \in {"CALLBACK", "CALLBACK_RAW"} /\ g.at = o.at
        /\ \E y \in v.gateway : g.id = y.event
        /\ \E y \in v.gateway : x.id = y.event /\ x.value = Bool(y.signed)
    BY <1>5, <1>8 DEF Shows
  <1>10. Shows(w, q, m) /\ WorldOK(w) /\ q.tool = m.tool
    BY <1>4, <1>7, ReadingShows DEF ReadLast
  <1>11. /\ q.tool = "MESSAGES"
         /\ \E n \in w.messages : m.value = n.status /\ m.at = n.at /\ m.callback = n.event
    BY <1>5, <1>10 DEF Shows
  <1>12. PICK y \in v.gateway : x.id = y.event /\ x.value = Bool(y.signed)
    BY <1>9
  <1>13. PICK n \in w.messages : m.value = n.status /\ m.at = n.at /\ m.callback = n.event
    BY <1>11
  <1>14. y.signed
    <2>1. y.signed \in BOOLEAN
      BY <1>8, FrameTypes DEF WorldOK, CallbackGateway
    <2>2. QED
      BY <1>1, <1>12, <2>1 DEF Bool
  <1>15. o.at = y.at
    <2>1. y \in project(v, o.tool, o.version)
      BY <1>9, <1>12 DEF project
    <2>2. o \in O /\ o.data = {v} /\ o.status = "OK"
      BY <1>2, <1>7, CountedIs
    <2>3. QED
      BY <1>9, <2>1, <2>2, RecordedParts DEF Candid
  <1>16. n.event = y.event /\ n.at >= y.at
    BY <1>1, <1>9, <1>12, <1>13, <1>15
  <1>17. ReadingOf(O, "MESSAGES") = {w} /\ ReadingOf(O, o.tool) = {v}
    BY <1>4, <1>7, <1>9, <1>11, ReadLastShows
  <1>18. \A k \in w.messages : k.status = "CONSUMED"
    BY <1>1, <1>10, <1>13 DEF WorldOK, MessagesOK, AtMostOne
  <1>19. QED
    BY <1>9, <1>12, <1>13, <1>14, <1>16, <1>17, <1>18



(***************************************************************************)
(* The verdict of the evaluation.                                          *)
(***************************************************************************)
LEMMA NewestIs ==
  ASSUME NEW tool
  PROVE  Newest(tool) = NewestTelling(observations, tool) /\ ReadOf(tool) = ReadingOf(observations, tool)
  <1>1. Newest(tool) = NewestTelling(observations, tool)
    BY Zenon DEF Newest, NewestTelling, Telling
  <1>2. QED
    BY <1>1, Zenon DEF ReadOf, ReadingOf

\* The frame taken from the newest readings of `tool'.
TakenFrom(tool) == CHOOSE w \in ReadOf(tool) : TRUE

LEMMA TakenFromOne ==
  ASSUME NEW tool, NEW w, ReadOf(tool) = {w}
  PROVE  TakenFrom(tool) = w
  BY DEF TakenFrom

LEMMA CompositeParts ==
  /\ Composite.fund = [TakenFrom("PAYMENT").fund EXCEPT !.status = TakenFrom("FUND").fund.status]
  /\ Composite.guarantee = TakenFrom("GUARANTEE").guarantee
  /\ Composite.asset = TakenFrom("ASSET").asset
  /\ Composite.accounting = TakenFrom("ACCOUNTING").accounting
  /\ TakenFrom("PAYMENT").fund.finality = "SETTLED" =>
       /\ Composite.gateway = UNION {w.gateway : w \in ReadOf("CALLBACK") \cup ReadOf("CALLBACK_RAW")}
       /\ Composite.messages = TakenFrom("MESSAGES").messages
       /\ Composite.delivery = TakenFrom("ASSET_DELIVERY").delivery
  <1>1. PICK G : G = UNION {w.gateway : w \in ReadOf("CALLBACK") \cup ReadOf("CALLBACK_RAW")}
    OBVIOUS
  <1>2. Composite =
          [fund |-> [TakenFrom("PAYMENT").fund EXCEPT !.status = TakenFrom("FUND").fund.status],
           guarantee |-> TakenFrom("GUARANTEE").guarantee, asset |-> TakenFrom("ASSET").asset,
           accounting |-> TakenFrom("ACCOUNTING").accounting,
           gateway |-> IF TakenFrom("PAYMENT").fund.finality = "SETTLED"
                       THEN UNION {w.gateway : w \in ReadOf("CALLBACK") \cup ReadOf("CALLBACK_RAW")}
                       ELSE {},
           messages |-> IF TakenFrom("PAYMENT").fund.finality = "SETTLED"
                        THEN TakenFrom("MESSAGES").messages ELSE {},
           delivery |-> IF TakenFrom("PAYMENT").fund.finality = "SETTLED"
                        THEN TakenFrom("ASSET_DELIVERY").delivery ELSE [status |-> "NONE"]]
    BY Zenon DEF Composite, TakenFrom
  <1>3. QED
    BY <1>1, <1>2

LEMMA CompositeIs ==
  ASSUME NEW p, ReadOf("PAYMENT") = {p}, NEW f, ReadOf("FUND") = {f},
         NEW g, ReadOf("GUARANTEE") = {g}, NEW a, ReadOf("ASSET") = {a},
         NEW b, ReadOf("ACCOUNTING") = {b}, p.fund \in FundSystem
  PROVE  /\ Composite.fund.status = f.fund.status /\ Composite.fund.finality = p.fund.finality
         /\ Composite.fund.tx = p.fund.tx
         /\ Composite.guarantee = g.guarantee /\ Composite.asset = a.asset
         /\ Composite.accounting = b.accounting
  <1>1. /\ TakenFrom("PAYMENT") = p /\ TakenFrom("FUND") = f /\ TakenFrom("GUARANTEE") = g
        /\ TakenFrom("ASSET") = a /\ TakenFrom("ACCOUNTING") = b
    BY TakenFromOne, Zenon
  <1>2. /\ Composite.fund = [p.fund EXCEPT !.status = f.fund.status]
        /\ Composite.guarantee = g.guarantee /\ Composite.asset = a.asset
        /\ Composite.accounting = b.accounting
    BY <1>1, CompositeParts
  <1>3. QED
    BY <1>2 DEF FundSystem

LEMMA CompositeSettles ==
  ASSUME NEW p, ReadOf("PAYMENT") = {p}, p.fund.finality = "SETTLED",
         NEW m, ReadOf("MESSAGES") = {m}, NEW d, ReadOf("ASSET_DELIVERY") = {d}
  PROVE  /\ Composite.messages = m.messages /\ Composite.delivery = d.delivery
         /\ \A tool \in {"CALLBACK", "CALLBACK_RAW"} : \A w \in ReadOf(tool) :
              w.gateway \subseteq Composite.gateway
  <1>1. TakenFrom("PAYMENT") = p /\ TakenFrom("MESSAGES") = m /\ TakenFrom("ASSET_DELIVERY") = d
    BY TakenFromOne, Zenon
  <1>2. /\ Composite.gateway = UNION {w.gateway : w \in ReadOf("CALLBACK") \cup ReadOf("CALLBACK_RAW")}
        /\ Composite.messages = m.messages /\ Composite.delivery = d.delivery
    BY <1>1, CompositeParts
  <1>3. QED
    BY <1>2

LEMMA PassEarned ==
  ASSUME Recorded(frames, clock, observations), NEW s, Evaluates(s, observations, clock),
         report = Report(s)
  PROVE  PassIsEarned
  <1> SUFFICES ASSUME report.verdict = "PASS"
               PROVE  /\ \A tool \in Parties : Newest(tool) # {} /\ Answered(tool)
                      /\ report.path = "SETTLED_PATH" => \A tool \in Settling : Answered(tool)
                      /\ oracle_converged(Composite) /\ SignedCallback(Composite)
    BY DEF PassIsEarned
  <1>1. PICK F, now, O : F = frames /\ now = clock /\ O = observations
    OBVIOUS
  <1>2. Recorded(F, now, O) /\ Evaluates(s, O, now) /\ Report(s).verdict = "PASS"
    BY <1>1
  <1>3. PICK final, v : /\ final = IF Path(s) = "SETTLED_PATH" THEN "SUCCESS" ELSE "FAILED"
                        /\ v = IF Path(s) = "SETTLED_PATH" THEN "SETTLED" ELSE "NOT_EXECUTED"
    OBVIOUS
  <1>4. \A tool : Newest(tool) = NewestTelling(O, tool) /\ ReadOf(tool) = ReadingOf(O, tool)
    BY <1>1, NewestIs
  <1>5. \A tool \in Relevant(s) : Answered(tool)
    BY <1>1, <1>2, <1>4, ToolAnswers DEF Answered
  <1>6. /\ \E w : ReadingOf(O, "FUND") = {w} /\ w.fund.status = final
        /\ \E w : ReadingOf(O, "GUARANTEE") = {w} /\ WorldOK(w) /\ w.guarantee.status = final
        /\ \E w : ReadingOf(O, "ASSET") = {w} /\ w.asset.status = final
        /\ \E w : ReadingOf(O, "ACCOUNTING") = {w} /\ w.accounting.entry = (Path(s) = "SETTLED_PATH")
    BY <1>2, <1>3, PartiesShow
  <1>7. PICK f : ReadingOf(O, "FUND") = {f} /\ f.fund.status = final
    BY <1>6
  <1>8. PICK g : ReadingOf(O, "GUARANTEE") = {g} /\ WorldOK(g) /\ g.guarantee.status = final
    BY <1>6
  <1>9. PICK a : ReadingOf(O, "ASSET") = {a} /\ a.asset.status = final
    BY <1>6
  <1>10. PICK b : ReadingOf(O, "ACCOUNTING") = {b} /\ b.accounting.entry = (Path(s) = "SETTLED_PATH")
    BY <1>6
  <1>11. Path(s) # "NONE"
    BY <1>2, MoneyPasses
  <1>12. PICK o, p : ReadingOf(O, "PAYMENT") = {p} /\ WorldOK(p) /\ p.fund.finality = v
    BY <1>2, <1>3, <1>11, PaymentShown
  <1>13. \A tool \in Parties : Newest(tool) # {}
    BY <1>4, <1>7, <1>8, <1>9, <1>10, <1>12 DEF Parties, ReadingOf
  <1>14. p.fund \in FundSystem
    BY <1>12, FrameTypes DEF WorldOK
  <1>15. /\ ReadOf("PAYMENT") = {p} /\ ReadOf("FUND") = {f} /\ ReadOf("GUARANTEE") = {g}
         /\ ReadOf("ASSET") = {a} /\ ReadOf("ACCOUNTING") = {b}
    BY <1>4, <1>7, <1>8, <1>9, <1>10, <1>12
  <1>16. PICK c : c = Composite
    OBVIOUS
  <1>17. /\ c.fund.status = final /\ c.fund.finality = v /\ c.fund.tx = p.fund.tx
         /\ c.guarantee.status = final /\ c.guarantee.request = "FREQ" /\ c.asset.status = final
         /\ c.accounting.entry = (Path(s) = "SETTLED_PATH")
    BY <1>7, <1>8, <1>9, <1>10, <1>12, <1>14, <1>15, <1>16, CompositeIs DEF WorldOK
  <1>18. ASSUME Path(s) # "SETTLED_PATH" PROVE oracle_converged(Composite) /\ SignedCallback(Composite)
    <2>1. c.fund.finality = "NOT_EXECUTED" /\ final = "FAILED" /\ ~c.accounting.entry
      BY <1>3, <1>17, <1>18
    <2>2. oracle_converged(c) /\ SignedCallback(c)
      BY <1>17, <2>1 DEF oracle_converged, SignedCallback
    <2>3. QED
      BY <1>16, <2>2
  <1>19. ASSUME Path(s) = "SETTLED_PATH" PROVE oracle_converged(Composite) /\ SignedCallback(Composite)
    <2>1. \E t \in p.fund.tx : t.request = "FREQ" /\ \A d \in IdentityFields : t[d] = "EXPECTED"
      BY <1>2, <1>12, <1>19, PaymentIsOwn
    <2>2. PICK w : /\ ReadingOf(O, "MESSAGES") = {w}
                   /\ w.messages # {} /\ \A m \in w.messages : m.status = "CONSUMED"
                   /\ \E tool \in {"CALLBACK", "CALLBACK_RAW"} : \E x \in ReadingOf(O, tool) :
                      \E y \in x.gateway : y.signed /\ \E m \in w.messages : m.event = y.event /\ m.at >= y.at
      BY <1>2, <1>19, CallbackShown
    <2>3. PICK d : ReadingOf(O, "ASSET_DELIVERY") = {d} /\ d.delivery.status = "DELIVERED"
      BY <1>2, <1>3, <1>19, PartiesShow
    <2>4. /\ c.messages = w.messages /\ c.delivery = d.delivery
          /\ \A tool \in {"CALLBACK", "CALLBACK_RAW"} : \A x \in ReadOf(tool) : x.gateway \subseteq c.gateway
      <3>1. ReadOf("MESSAGES") = {w} /\ ReadOf("ASSET_DELIVERY") = {d} /\ p.fund.finality = "SETTLED"
        BY <1>3, <1>4, <1>12, <1>19, <2>2, <2>3
      <3>2. QED
        BY <1>16, <3>1, <1>15, CompositeSettles
    <2>5. oracle_converged(c)
      <3>1. /\ c.fund.finality = "SETTLED" /\ c.guarantee.status = "SUCCESS" /\ c.asset.status = "SUCCESS"
            /\ c.accounting.entry
        BY <1>3, <1>17, <1>19
      <3>2. PICK t \in c.fund.tx : t.request = "FREQ" /\ \A k \in IdentityFields : t[k] = "EXPECTED"
        BY <1>17, <2>1
      <3>3. \E u \in c.fund.tx : /\ \A k \in IdentityFields : u[k] = "EXPECTED"
                                 /\ u.request = c.guarantee.request
        BY <1>17, <3>2
      <3>4. (\A m \in c.messages : m.status = "CONSUMED") /\ c.delivery.status = "DELIVERED"
        BY <2>2, <2>3, <2>4
      <3>5. QED
        BY <3>1, <3>3, <3>4 DEF oracle_converged
    <2>6. SignedCallback(c)
      BY <1>4, <2>2, <2>4 DEF SignedCallback
    <2>7. QED
      BY <1>16, <2>5, <2>6
  <1>20. \A tool \in Parties : tool \in Relevant(s)
    BY DEF Parties, Relevant
  <1>21. report.path = "SETTLED_PATH" => \A tool \in Settling : tool \in Relevant(s)
    BY ReportIs DEF Settling, Relevant
  <1>22. QED
    BY <1>5, <1>13, <1>18, <1>19, <1>20, <1>21

(* A reading that is not older than the world's last change shows the world *)
(* as it is.                                                               *)
LEMMA CurrentIsLast ==
  ASSUME NEW F, NEW now \in Nat, FramesOK(F, now), NEW t \in Int, t >= InitialTime, t >= Last(F).at
  PROVE  Current(F, t) = Last(F)
  <1>1. PICK n : n = Len(F)
    OBVIOUS
  <1>2. n \in 1 .. Len(F) /\ Last(F) = F[n]
    BY <1>1 DEF FramesOK, Last, Seeded
  <1>3. n \in snapshots(F, t)
    BY <1>2 DEF snapshots
  <1>4. PICK k : k = Max(snapshots(F, t))
    OBVIOUS
  <1>5. k \in 1 .. Len(F) /\ n <= k /\ Current(F, t) = F[k]
    BY <1>3, <1>4, SnapshotsAre
  <1>6. k = n
    BY <1>1, <1>5 DEF FramesOK
  <1>7. QED
    BY <1>2, <1>5, <1>6

LEMMA ReadsTheLast ==
  ASSUME NEW F, NEW now, NEW O, Recorded(F, now, O), NEW s, Evaluates(s, O, now),
         Report(s).verdict = "PASS", NEW tool \in Relevant(s),
         NEW L, L = Last(F), \A o \in NewestTelling(O, tool) : o.seen >= L.at,
         NEW w \in ReadingOf(O, tool)
  PROVE  w = L
  <1>1. PICK o \in NewestTelling(O, tool) : w \in o.data
    BY DEF ReadingOf
  <1>2. o.status = "OK" /\ o.source = "PRIMARY" /\ o.seen >= L.at
    BY <1>1, ToolAnswers
  <1>3. o \in O
    BY <1>1, NewestTellingIs
  <1>4. /\ Faithful(F, now, o) /\ now \in Nat /\ FramesOK(F, now) /\ o.seen \in Nat
        /\ o.seen > InitialTime
    BY <1>3, RecordedParts
  <1>5. o.data = {Current(F, o.seen)}
    BY <1>2, <1>4 DEF Faithful
  <1>6. PICK t : t = o.seen
    OBVIOUS
  <1>7. t \in Int /\ t >= InitialTime /\ t >= Last(F).at
    BY <1>2, <1>4, <1>6 DEF InitialTime
  <1>8. Current(F, t) = Last(F)
    BY <1>4, <1>7, CurrentIsLast
  <1>9. QED
    BY <1>1, <1>5, <1>6, <1>8

LEMMA PassTrue ==
  ASSUME Recorded(frames, clock, observations), NEW s, Evaluates(s, observations, clock),
         report = Report(s)
  PROVE  PassIsTrue
  <1>1. PICK F, now, O : F = frames /\ now = clock /\ O = observations
    OBVIOUS
  <1>2. PICK L : L = Last(F)
    OBVIOUS
  <1> SUFFICES ASSUME report.verdict = "PASS",
                      \A tool \in Parties \cup IF report.path = "SETTLED_PATH" THEN Settling ELSE {} :
                        \A o \in Newest(tool) : o.seen >= Last(frames).at
               PROVE  oracle_converged(Last(frames)) /\ SignedCallback(Last(frames))
    BY DEF PassIsTrue
  <1>3. /\ Recorded(F, now, O) /\ Evaluates(s, O, now) /\ Report(s).verdict = "PASS"
        /\ report.path = Path(s)
    BY <1>1, ReportIs
  <1>4. PICK final, v : /\ final = IF Path(s) = "SETTLED_PATH" THEN "SUCCESS" ELSE "FAILED"
                        /\ v = IF Path(s) = "SETTLED_PATH" THEN "SETTLED" ELSE "NOT_EXECUTED"
    OBVIOUS
  <1>5. ASSUME NEW tool \in Parties \cup IF Path(s) = "SETTLED_PATH" THEN Settling ELSE {},
               NEW w \in ReadingOf(O, tool)
        PROVE  w = L
    <2>1. tool \in Relevant(s)
      BY <1>5 DEF Parties, Settling, Relevant
    <2>2. Newest(tool) = NewestTelling(O, tool)
      BY <1>1, NewestIs
    <2>3. \A o \in NewestTelling(O, tool) : o.seen >= L.at
      BY <1>1, <1>2, <1>3, <2>2
    <2>4. QED
      BY <1>2, <1>3, <2>1, <2>3, ReadsTheLast
  <1>6. /\ \E w : ReadingOf(O, "FUND") = {w} /\ w.fund.status = final
        /\ \E w : ReadingOf(O, "GUARANTEE") = {w} /\ WorldOK(w) /\ w.guarantee.status = final
        /\ \E w : ReadingOf(O, "ASSET") = {w} /\ w.asset.status = final
        /\ \E w : ReadingOf(O, "ACCOUNTING") = {w} /\ w.accounting.entry = (Path(s) = "SETTLED_PATH")
    BY <1>3, <1>4, PartiesShow
  <1>7. Path(s) # "NONE"
    BY <1>3, MoneyPasses
  <1>8. PICK o, p : ReadingOf(O, "PAYMENT") = {p} /\ WorldOK(p) /\ p.fund.finality = v
    BY <1>3, <1>4, <1>7, PaymentShown
  <1>9. /\ L.fund.status = final /\ L.guarantee.status = final /\ L.asset.status = final
        /\ L.accounting.entry = (Path(s) = "SETTLED_PATH") /\ L.fund.finality = v /\ WorldOK(L)
    BY <1>5, <1>6, <1>8 DEF Parties
  <1>10. ASSUME Path(s) # "SETTLED_PATH" PROVE oracle_converged(L) /\ SignedCallback(L)
    BY <1>4, <1>9, <1>10 DEF oracle_converged, SignedCallback
  <1>11. ASSUME Path(s) = "SETTLED_PATH" PROVE oracle_converged(L) /\ SignedCallback(L)
    <2>1. \E t \in L.fund.tx : t.request = "FREQ" /\ \A d \in IdentityFields : t[d] = "EXPECTED"
      <3>1. PICK w : /\ ReadingOf(O, "PAYMENT") = {w}
                     /\ \E t \in w.fund.tx : t.request = "FREQ"
                                             /\ \A d \in IdentityFields : t[d] = "EXPECTED"
        BY <1>3, <1>11, PaymentIsOwn
      <3>2. w = L
        BY <1>5, <3>1 DEF Parties
      <3>3. QED
        BY <3>1, <3>2
    <2>2. PICK w : /\ ReadingOf(O, "MESSAGES") = {w}
                   /\ w.messages # {} /\ \A m \in w.messages : m.status = "CONSUMED"
                   /\ \E tool \in {"CALLBACK", "CALLBACK_RAW"} : \E x \in ReadingOf(O, tool) :
                      \E y \in x.gateway : y.signed /\ \E m \in w.messages : m.event = y.event /\ m.at >= y.at
      BY <1>3, <1>11, CallbackShown
    <2>3. PICK d : ReadingOf(O, "ASSET_DELIVERY") = {d} /\ d.delivery.status = "DELIVERED"
      BY <1>3, <1>4, <1>11, PartiesShow
    <2>4. w = L /\ d = L /\ \A tool \in {"CALLBACK", "CALLBACK_RAW"} : \A x \in ReadingOf(O, tool) : x = L
      BY <1>5, <1>11, <2>2, <2>3 DEF Settling
    <2>5. PICK t \in L.fund.tx : t.request = "FREQ" /\ \A k \in IdentityFields : t[k] = "EXPECTED"
      BY <2>1
    <2>6. \E u \in L.fund.tx : /\ \A k \in IdentityFields : u[k] = "EXPECTED"
                               /\ u.request = L.guarantee.request
      BY <1>9, <2>5 DEF WorldOK
    <2>7. oracle_converged(L)
      BY <1>4, <1>9, <1>11, <2>2, <2>3, <2>4, <2>6 DEF oracle_converged
    <2>8. SignedCallback(L)
      BY <2>2, <2>4 DEF SignedCallback
    <2>9. QED
      BY <2>7, <2>8
  <1>12. QED
    BY <1>1, <1>2, <1>10, <1>11

(* A payment shown as settled is in the history of its request.            *)
LEMMA SettlementIsHistory ==
  ASSUME NEW F, NEW now, NEW O, Recorded(F, now, O), NEW o \in O,
         o.tool = "PAYMENT", o.status = "OK", o.source = "PRIMARY",
         NEW w \in o.data, w.fund.finality = "SETTLED"
  PROVE  \E e \in read_verified_evidence(O) :
           /\ e.tool = "PAYMENT" /\ e.claim = "PAYMENT_FINALITY" /\ e.value = "SETTLED"
           /\ e.request = w.fund.request /\ e.source = "PRIMARY"
           /\ e.fresh = "CURRENT" /\ e.complete = "COMPLETE"
  <1>1. Faithful(F, now, o)
    BY RecordedParts
  <1>2. WorldOK(w) /\ o.freshness = "CURRENT" /\ o.completeness = "COMPLETE"
    BY <1>1 DEF Faithful
  <1>3. PICK f : f = w.fund
    OBVIOUS
  <1>4. f.tx # {} /\ f.status # "NOT_RECEIVED" /\ \A t \in f.tx : t.finality = "SETTLED"
    BY <1>2, <1>3 DEF WorldOK, FundOK, validate_transaction
  <1>5. PICK e \in PaymentClaims(o, f) : e.claim = "PAYMENT_FINALITY" /\ e.kind = "TRANSACTION"
    BY <1>4, PaymentIsRead
  <1>6. PICK t \in f.tx : e \in TransactionClaims(o, OnTransaction(o, f, t), t)
    BY <1>5, PaymentSays
  <1>7. e.request = f.request /\ e.value = "SETTLED"
    BY <1>4, <1>5, <1>6, TransactionSays
  <1>8. f \in project(w, o.tool, o.version)
    BY <1>3, <1>4 DEF project
  <1>9. e \in extract(o)
    BY <1>5, <1>8, InExtract DEF Claims
  <1>10. e.tool = "PAYMENT" /\ e.source = "PRIMARY" /\ e.fresh = "CURRENT" /\ e.complete = "COMPLETE"
    BY <1>2, <1>9, ExtractParts
  <1>11. PICK x \in read_verified_evidence(O) : same_fact(x, e)
    BY <1>9, FactIsKept
  <1>12. PICK p \in O : x \in extract(p)
    BY <1>11, VerifiedIs
  <1>13. /\ x.claim = e.claim /\ x.value = e.value /\ x.tool = e.tool /\ x.source = e.source
         /\ x.complete = e.complete /\ x.fresh = e.fresh /\ x.request = e.request
    BY <1>9, <1>11, <1>12, SameFactIs
  <1>14. QED
    BY <1>3, <1>5, <1>7, <1>10, <1>11, <1>13

LEMMA MoneyNotDenied ==
  ASSUME Recorded(frames, clock, observations), NEW s, Evaluates(s, observations, clock),
         report = Report(s)
  PROVE  MoneyIsNotDenied
  <1>1. PICK F, now, O : F = frames /\ now = clock /\ O = observations
    OBVIOUS
  <1>2. Recorded(F, now, O) /\ Evaluates(s, O, now) /\ report.path = Path(s)
    BY <1>1, ReportIs
  <1> SUFFICES ASSUME Path(s) = "NO_DISBURSEMENT_PATH", NEW w \in ReadOf("PAYMENT")
               PROVE  /\ ~SettlementShown(w.fund.request)
                      /\ report.verdict = "PASS" => w.fund.request = "FREQ"
    BY <1>2 DEF MoneyIsNotDenied
  <1>3. PICK v : v = IF Path(s) = "SETTLED_PATH" THEN "SETTLED" ELSE "NOT_EXECUTED"
    OBVIOUS
  <1>4. w.fund.request = s.index.request
    <2>1. \E o, x : ReadingOf(O, "PAYMENT") = {x} /\ x.fund.request = s.index.request
      BY <1>2, <1>3, PaymentShown
    <2>2. QED
      BY <1>1, <2>1, NewestIs
  <1>5. settled_history(s) = {}
    BY DEF Path
  <1>6. ASSUME SettlementShown(w.fund.request) PROVE FALSE
    <2>1. PICK o \in O : /\ o.tool = "PAYMENT" /\ o.status = "OK" /\ o.source = "PRIMARY"
                         /\ \E x \in o.data : x.fund.finality = "SETTLED" /\ x.fund.request = w.fund.request
      BY <1>1, <1>6 DEF SettlementShown
    <2>2. PICK x \in o.data : x.fund.finality = "SETTLED" /\ x.fund.request = w.fund.request
      BY <2>1
    <2>3. PICK e \in read_verified_evidence(O) :
            /\ e.tool = "PAYMENT" /\ e.claim = "PAYMENT_FINALITY" /\ e.value = "SETTLED"
            /\ e.request = x.fund.request /\ e.source = "PRIMARY"
            /\ e.fresh = "CURRENT" /\ e.complete = "COMPLETE"
      BY <1>2, <2>1, <2>2, SettlementIsHistory
    <2>4. e \in settled_history(s)
      BY <1>2, <1>4, <2>2, <2>3 DEF settled_history, Evaluates
    <2>5. QED
      BY <1>5, <2>4
  <1>7. ASSUME report.verdict = "PASS" PROVE w.fund.request = "FREQ"
    <2>1. PICK U : U = UsableOf(O, now)
      OBVIOUS
    <2>2. PICK final : final = IF Path(s) = "SETTLED_PATH" THEN "SUCCESS" ELSE "FAILED"
      OBVIOUS
    <2>3. AnchoredBy(U)
      BY <1>2, <1>7, <2>1, <2>2, PartiesShow
    <2>4. request_id(current(U)) = "FREQ"
      BY <1>2, <2>1, <2>3, UsableIsKnown, OwnRequest
    <2>5. s.index.request = "FREQ"
      BY <1>2, <2>1, <2>4, IndexParts DEF Evaluates
    <2>6. QED
      BY <1>4, <2>5
  <1>8. QED
    BY <1>6, <1>7


LEMMA TargetIsSeen ==
  ASSUME NEW F, NEW now, NEW O, Recorded(F, now, O), NEW s, Evaluates(s, O, now),
         Report(s).verdict = "PASS", NEW e \in s.effects, e.status = "APPLIED", e.action # "ADMINISTRATIVE"
  PROVE  \E o \in O :
           /\ o.tool = IF e.action = "REPLAY" THEN "MESSAGES" ELSE "ASSET_DELIVERY"
           /\ o.seen > e.updated /\ o.source = "PRIMARY"
           /\ \E w \in o.data : ~Repairable(w, e.action)
  <1>1. PICK claim : claim = TargetClaim(e.action)
    OBVIOUS
  <1>2. PICK x \in Now(s.index, claim) :
          /\ x.tool = IF e.action = "REPLAY" THEN "MESSAGES" ELSE "ASSET_DELIVERY"
          /\ x.seen > e.updated
          /\ x.value = IF e.action = "REPLAY" THEN "CONSUMED" ELSE "DELIVERED"
    BY <1>1, EffectPasses
  <1>3. x \in Now(Index(UsableOf(O, now)), claim)
    BY <1>2 DEF Evaluates
  <1>4. PICK o \in Counted(O, now) : ReadLast(F, now, O, o, x)
    BY <1>3, NowIsReadLast
  <1>5. x.claim = claim /\ o.tool = x.tool
    BY <1>3, <1>4, NowIsReadLast DEF ReadLast
  <1>6. PICK w : w = Current(F, o.seen)
    OBVIOUS
  <1>7. o.tool # "PROTOCOL"
    BY <1>2, <1>5
  <1>8. /\ o \in O /\ o.data = {w} /\ o.source = "PRIMARY" /\ Shows(w, o, x) /\ WorldOK(w)
        /\ o.seen = x.seen
    BY <1>4, <1>6, <1>7, ReadLastShows
  <1>9. ~Repairable(w, e.action)
    <2>1. CASE e.action = "REPLAY"
      <3>1. x.claim = "MESSAGE_CONSUME_STATUS" /\ x.value = "CONSUMED"
        BY <1>1, <1>2, <1>5, <2>1 DEF TargetClaim
      <3>2. \E m \in w.messages : x.value = m.status
        BY <1>8, <3>1 DEF Shows
      <3>3. QED
        BY <1>8, <2>1, <3>1, <3>2 DEF Repairable, WorldOK, MessagesOK, AtMostOne
    <2>2. CASE e.action # "REPLAY"
      <3>1. x.claim = "ASSET_DELIVERY_STATUS" /\ x.value = "DELIVERED"
        BY <1>1, <1>2, <1>5, <2>2 DEF TargetClaim
      <3>2. w.delivery.status = "DELIVERED"
        BY <1>8, <3>1 DEF Shows
      <3>3. QED
        BY <2>2, <3>2 DEF Repairable
    <2>3. QED
      BY <2>1, <2>2
  <1>10. QED
    BY <1>2, <1>5, <1>8, <1>9

LEMMA NothingPassedOver ==
  ASSUME Recorded(frames, clock, observations), NEW s, Evaluates(s, observations, clock),
         report = Report(s), s.effects = effects, s.work.pending_reads = (lost # {}),
         \A e \in effects : e.action # "ADMINISTRATIVE"
  PROVE  NothingOutstanding
  <1> SUFFICES ASSUME report.verdict = "PASS"
               PROVE  /\ lost = {}
                      /\ \A e \in effects :
                           /\ e.status # "UNKNOWN"
                           /\ e.status = "APPLIED" =>
                                \E o \in observations :
                                  /\ o.tool = IF e.action = "REPLAY" THEN "MESSAGES" ELSE "ASSET_DELIVERY"
                                  /\ o.seen > e.updated /\ o.source = "PRIMARY"
                                  /\ \E w \in o.data : ~Repairable(w, e.action)
    BY DEF NothingOutstanding
  <1>1. PICK R : R = {"PAYMENT", "TRACE", "FUND", "GUARANTEE", "ASSET", "ACCOUNTING"}
                     \cup IF Path(s) = "SETTLED_PATH"
                          THEN {"CALLBACK", "CALLBACK_RAW", "MESSAGES", "ASSET_DELIVERY"} ELSE {}
    OBVIOUS
  <1>2. ~s.work.pending_reads
    BY <1>1, SufficiencyPasses
  <1>3. \A e \in effects : e.status # "UNKNOWN"
    BY EffectPasses
  <1>4. PICK F, now, O : F = frames /\ now = clock /\ O = observations
    OBVIOUS
  <1>5. Recorded(F, now, O) /\ Evaluates(s, O, now) /\ Report(s).verdict = "PASS"
    BY <1>4
  <1>6. ASSUME NEW e \in effects, e.status = "APPLIED"
        PROVE  \E o \in O :
                 /\ o.tool = IF e.action = "REPLAY" THEN "MESSAGES" ELSE "ASSET_DELIVERY"
                 /\ o.seen > e.updated /\ o.source = "PRIMARY"
                 /\ \E w \in o.data : ~Repairable(w, e.action)
    BY <1>5, <1>6, TargetIsSeen
  <1>7. QED
    BY <1>2, <1>3, <1>4, <1>6

LEMMA ReportTyped ==
  ASSUME NEW s, NEW r, r = Report(s) \/ r = NoReport
  PROVE  r.path \in OutcomePath /\ \A d \in EvaluationDimension : r.dimensions[d] \in DimensionStatus
  <1>1. CASE r = NoReport
    BY <1>1 DEF NoReport, OutcomePath, DimensionStatus
  <1>2. CASE r = Report(s)
    <2>1. r.path = Path(s) /\ r.dimensions = [d \in EvaluationDimension |-> Dimension(Checks(s), d)]
      BY <1>2, ReportIs
    <2>2. \A d \in EvaluationDimension : r.dimensions[d] = Dimension(Checks(s), d)
      BY <2>1
    <2>3. QED
      BY <2>1, <2>2, PathTyped, DimensionTyped
  <1>3. QED
    BY <1>1, <1>2



(***************************************************************************)
(* The steps: an effect changes the world the way a fixture does, a call   *)
(* is answered faithfully, and a late publication adds what was kept.      *)
(***************************************************************************)
LEMMA ReplayOrderly ==
  ASSUME NEW w, WorldOK(w), NEW now \in Int, w.at <= now
  PROVE  Orderly(w, Repaired(w, "REPLAY", now), now)
  <1>0. w \in WorldState
    BY DEF WorldOK
  <1>1. PICK v : v = Repaired(w, "REPLAY", now)
    OBVIOUS
  <1>2. PICK N : N = {ConvergedMessage(m, now) : m \in w.messages}
    OBVIOUS
  <1>3. /\ N \in SUBSET MessageSystem /\ MessagesOK(N) /\ (w.messages = {}) = (N = {})
        /\ \A m \in w.messages, n \in N : m.at <= n.at
        /\ \A n \in N : n.at = now
    <2>1. \A m \in w.messages : m \in MessageSystem /\ m.at \in Int /\ m.at <= w.at
      BY <1>0, FrameTypes, RecordTimes DEF WorldOK, Dated
    <2>2. \A m \in w.messages : m.at <= now
      BY <2>1, <1>0, FrameTypes
    <2>3. AtMostOne(N) /\ Consumes(w.messages, N)
      BY <1>2, <2>2 DEF AtMostOne, Consumes, WorldOK, MessagesOK
    <2>4. \A n \in N : n.at = now
      BY <1>2, <2>1, MessageConsumed
    <2>5. w.messages \in SUBSET MessageSystem /\ MessagesOK(w.messages)
      BY <1>0, FrameTypes DEF WorldOK
    <2>6. QED
      BY <1>2, <2>3, <2>4, <2>5, MessagesConsumed
  <1>4. v = [w EXCEPT !.at = now, !.messages = N]
    BY <1>1, <1>2 DEF Repaired
  <1>5. /\ v \in WorldState /\ v.at = now /\ v.guarantee = w.guarantee /\ v.asset = w.asset
        /\ v.accounting = w.accounting /\ v.messages = N /\ v.delivery = w.delivery
        /\ v.fund = w.fund /\ v.trace = w.trace /\ v.gateway = w.gateway
    BY <1>0, <1>3, <1>4 DEF WorldState
  <1>6. WorldOK(v)
    <2>1. Dated(v)
      BY <1>0, <1>3, <1>5, FrameTypes, RecordTimes DEF Dated, WorldOK
    <2>2. LastMileOK(v)
      BY <1>5 DEF LastMileOK, WorldOK
    <2>3. QED
      BY <1>3, <1>5, <2>1, <2>2 DEF WorldOK
  <1>7. Evolves(w, v)
    BY <1>0, <1>3, <1>5, RecordTimes DEF Evolves, WorldOK, FundOK, AtMostOne
  <1>8. QED
    BY <1>1, <1>5, <1>6, <1>7 DEF Orderly

LEMMA RedeliveryOrderly ==
  ASSUME NEW w, WorldOK(w), NEW now \in Int, w.at <= now
  PROVE  Orderly(w, Repaired(w, "REDELIVER", now), now)
  <1>0. w \in WorldState
    BY DEF WorldOK
  <1>1. PICK v : v = Repaired(w, "REDELIVER", now)
    OBVIOUS
  <1>2. PICK d : d = [w.delivery EXCEPT !.status = "DELIVERED", !.at = now]
    OBVIOUS
  <1>3. d \in AssetDelivery /\ d.at = now /\ d.status = "DELIVERED"
    BY <1>0, <1>2, FrameTypes DEF AssetDelivery, DeliveryStatus
  <1>4. v = [w EXCEPT !.at = now, !.delivery = d]
    BY <1>0, <1>1, <1>2 DEF Repaired, WorldState
  <1>5. /\ v \in WorldState /\ v.at = now /\ v.guarantee = w.guarantee /\ v.asset = w.asset
        /\ v.accounting = w.accounting /\ v.messages = w.messages /\ v.delivery = d
        /\ v.fund = w.fund /\ v.trace = w.trace /\ v.gateway = w.gateway
    BY <1>0, <1>3, <1>4 DEF WorldState
  <1>6. WorldOK(v)
    <2>1. Dated(v)
      BY <1>0, <1>3, <1>5, FrameTypes, RecordTimes DEF Dated, WorldOK
    <2>2. LastMileOK(v)
      BY <1>3, <1>5 DEF LastMileOK
    <2>3. QED
      BY <1>5, <2>1, <2>2 DEF WorldOK
  <1>7. Evolves(w, v)
    BY <1>0, <1>3, <1>5, RecordTimes DEF Evolves, WorldOK, FundOK, MessagesOK, AtMostOne
  <1>8. QED
    BY <1>1, <1>5, <1>6, <1>7 DEF Orderly

LEMMA QueriesAre ==
  ASSUME reads \in Nat, NEW q \in NextQuery
  PROVE  q.tool \in ToolName /\ q.version \in STRING /\ (q.tool # "PROTOCOL" => q.version = "NONE")
  <1>1. PICK i : i = reads + 1
    OBVIOUS
  <1>2. CASE i > Len(READS)
    <2>1. q \in Queries
      BY <1>1, <1>2 DEF NextQuery
    <2>2. QED
      BY <2>1, InquiryAssumption, VerificationAssumption
  <1>3. CASE ~(i > Len(READS))
    <2>1. PICK v : v = IF i = 10 THEN "2.3" ELSE IF i = 11 THEN "2.2" ELSE "NONE"
      OBVIOUS
    <2>2. q = [tool |-> READS[i], version |-> v]
      BY <1>1, <1>3, <2>1 DEF NextQuery
    <2>3. q.tool = READS[i] /\ q.version = v
      BY <2>2
    <2>4. v \in STRING
      BY <2>1, VerificationAssumption DEF ProtocolVersion
    <2>5. i \in 1 .. 11
      BY <1>1, <1>3 DEF READS
    <2>6. READS[i] \in ToolName /\ (READS[i] # "PROTOCOL" => i \notin {10, 11})
      BY <2>5 DEF READS, ToolName
    <2>7. QED
      BY <2>1, <2>3, <2>4, <2>6
  <1>4. QED
    BY <1>2, <1>3



LEMMA RecordedLater ==
  ASSUME NEW F, NEW now, NEW O, Recorded(F, now, O), NEW later \in Nat, now <= later
  PROVE  Recorded(F, later, O)
  <1>1. now \in Nat /\ FramesOK(F, now) /\ ObservationsOK(F, now, O)
    BY DEF Recorded
  <1>2. ASSUME NEW r \in 1 .. Len(F) PROVE WorldOK(F[r]) /\ F[r].at <= later
    <2>1. WorldOK(F[r]) /\ F[r].at <= now
      BY <1>1 DEF FramesOK
    <2>2. F[r].at \in Int
      BY <2>1, FrameTypes DEF WorldOK
    <2>3. QED
      BY <1>1, <2>1, <2>2
  <1>3. FramesOK(F, later)
    BY <1>1, <1>2 DEF FramesOK
  <1>4. ObservationsOK(F, later, O)
    BY <1>1, FaithfulLater DEF ObservationsOK
  <1>5. QED
    BY <1>3, <1>4 DEF Recorded

LEMMA RecordedPart ==
  ASSUME NEW F, NEW now, NEW O, Recorded(F, now, O), NEW P, P \subseteq O
  PROVE  Recorded(F, now, P)
  BY DEF Recorded, ObservationsOK

LEMMA RecordedAnswered ==
  ASSUME NEW F, NEW now, NEW O, Recorded(F, now, O), now >= InitialTime, NEW S, FaultsOK(S),
         NEW tool \in ToolName, NEW version \in STRING, tool # "PROTOCOL" => version = "NONE",
         NEW o, o = observe(F, S, now + 1, tool, version)
  PROVE  Recorded(F, now + 1, O \cup {o})
  <1>1. PICK s : s = now + 1
    OBVIOUS
  <1>2. /\ s \in Nat /\ s \in Int /\ s > InitialTime /\ now \in Nat /\ now <= s
        /\ FramesOK(F, now) /\ ObservationsOK(F, now, O) /\ o = observe(F, S, s, tool, version)
    BY <1>1 DEF Recorded, InitialTime
  <1>3. Faithful(F, s, o) /\ o.seen = s /\ o.tool = tool /\ o.version = version
    BY <1>2, AnswerIsFaithful
  <1>4. Candid(o)
    BY <1>2, AnswerIsCandid
  <1>5. ObservationsOK(F, now + 1, O \cup {o})
    BY <1>1, <1>2, <1>3, ObservationsGrow
  <1>6. Recorded(F, s, O)
    BY <1>2, RecordedLater
  <1>7. ASSUME NEW x \in O \cup {o} PROVE Candid(x) /\ (x.tool # "PROTOCOL" => x.version = "NONE")
    BY <1>3, <1>4, <1>6 DEF Recorded
  <1>8. QED
    BY <1>1, <1>5, <1>6, <1>7 DEF Recorded

LEMMA RecordedAppended ==
  ASSUME NEW F, NEW now, NEW O, Recorded(F, now, O), now >= InitialTime,
         NEW v, Orderly(Last(F), v, now + 1)
  PROVE  Recorded(Append(F, v), now + 1, O)
  <1>1. now \in Nat /\ FramesOK(F, now) /\ ObservationsOK(F, now, O)
    BY DEF Recorded
  <1>2. FramesOK(Append(F, v), now + 1) /\ v \in WorldState /\ v.at = now + 1
    BY <1>1, FramesGrow
  <1>3. ObservationsOK(Append(F, v), now + 1, O)
    BY <1>1, <1>2, ObservationsStay
  <1>4. QED
    BY <1>1, <1>2, <1>3 DEF Recorded

\* The world's last frame.
LEMMA LastIsOK ==
  ASSUME NEW F, NEW now, now \in Nat, FramesOK(F, now), NEW w, w = Last(F)
  PROVE  WorldOK(w) /\ w.at \in Int /\ w.at <= now /\ w.at <= now + 1
  <1>1. w = F[Len(F)] /\ Len(F) \in 1 .. Len(F)
    BY DEF FramesOK, Last, Seeded
  <1>2. WorldOK(w) /\ w.at <= now
    BY <1>1 DEF FramesOK
  <1>3. w.at \in Int
    BY <1>2, FrameTypes DEF WorldOK
  <1>4. QED
    BY <1>2, <1>3



(***************************************************************************)
(* The invariant: the answers that were published or kept are a record of  *)
(* the frames, the effects are those of the repairs, and a report is what  *)
(* the evaluator says of the present record.                               *)
(***************************************************************************)
RecordInv ==
  /\ clock >= InitialTime /\ reads \in Nat /\ FaultsOK(faults)
  /\ Recorded(frames, clock, observations \cup lost)

EffectsInv == effects \subseteq BoundEffect /\ \A e \in effects : e.action # "ADMINISTRATIVE"

\* s is what the evaluator reads at this instant.
IsSnapshot(s) ==
  /\ Evaluates(s, observations, clock) /\ s.effects = effects
  /\ s.work.pending_reads = (lost # {})

ReportInv == report = NoReport \/ \E s : IsSnapshot(s) /\ report = Report(s)

VerdictInv == RecordInv /\ EffectsInv /\ ReportInv

LEMMA VerdictStarts == VInit => VerdictInv
  <1> SUFFICES ASSUME VInit PROVE VerdictInv
    OBVIOUS
  <1>1. PICK s \in Scenarios : seed(s)
    BY DEF VInit, Init
  <1>2. s \in ScenarioId
    BY InquiryAssumption
  <1>3. PICK F : F = frames
    OBVIOUS
  <1>4. FramesOK(F, InitialTime)
    BY <1>1, <1>2, <1>3, ScenarioFrames DEF seed
  <1>5. frames = F /\ clock = InitialTime /\ faults = SeededFaults(s)
    BY <1>1, <1>3 DEF seed
  <1>6. FaultsOK(faults)
    BY <1>2, <1>5, SeededFaultsOK
  <1>7. observations \cup lost = {} /\ reads = 0 /\ effects = {} /\ report = NoReport
    BY DEF VInit, Init, VIdle
  <1>8. InitialTime \in Nat
    BY DEF InitialTime
  <1>9. Recorded(F, InitialTime, {})
    BY <1>4, <1>8, NothingObserved DEF Recorded
  <1>10. RecordInv
    BY <1>5, <1>6, <1>7, <1>8, <1>9 DEF RecordInv
  <1>11. QED
    BY <1>7, <1>10 DEF VerdictInv, EffectsInv, ReportInv

(* Every step but an evaluation clears the report.                         *)
LEMMA NextInvariant ==
  ASSUME report' = NoReport, RecordInv', EffectsInv'
  PROVE  VerdictInv'
  BY DEF VerdictInv, ReportInv

LEMMA EffectsStay ==
  ASSUME EffectsInv, effects' = effects
  PROVE  EffectsInv'
  BY DEF EffectsInv

LEMMA AnswerKeeps ==
  ASSUME RecordInv, NEW q \in NextQuery,
         NEW o, o = observe(frames, faults, clock + 1, q.tool, q.version),
         reads' = reads + 1, clock' = clock + 1, frames' = frames, faults' = faults,
         (observations \cup lost)' = (observations \cup lost) \cup {o}
  PROVE  RecordInv'
  <1>1. PICK F, now, O, S : F = frames /\ now = clock /\ O = observations \cup lost /\ S = faults
    OBVIOUS
  <1>2. PICK tool, version : tool = q.tool /\ version = q.version
    OBVIOUS
  <1>3. now >= InitialTime /\ reads \in Nat /\ FaultsOK(S) /\ Recorded(F, now, O)
    BY <1>1 DEF RecordInv
  <1>4. tool \in ToolName /\ version \in STRING /\ (tool # "PROTOCOL" => version = "NONE")
    BY <1>2, <1>3, QueriesAre
  <1>5. o = observe(F, S, now + 1, tool, version)
    BY <1>1, <1>2
  <1>6. Recorded(F, now + 1, O \cup {o})
    BY <1>3, <1>4, <1>5, RecordedAnswered
  <1>7. now + 1 >= InitialTime
    BY <1>3 DEF Recorded, InitialTime
  <1>8. frames' = F /\ clock' = now + 1 /\ (observations \cup lost)' = O \cup {o} /\ faults' = S
    BY <1>1
  <1>9. Recorded(frames, clock, observations \cup lost)'
    BY <1>6, <1>8
  <1>10. QED
    BY <1>3, <1>7, <1>8, <1>9 DEF RecordInv

LEMMA ReadKeeps ==
  ASSUME VerdictInv, NEW q \in NextQuery, read(q) \/ read_orphan(q)
  PROVE  VerdictInv'
  <1>1. RecordInv /\ EffectsInv
    BY DEF VerdictInv
  <1>2. PICK o : o = observe(frames, faults, clock + 1, q.tool, q.version)
    OBVIOUS
  <1>3. /\ reads' = reads + 1 /\ clock' = clock + 1 /\ frames' = frames /\ faults' = faults
        /\ effects' = effects /\ report' = NoReport
    BY DEF read, read_orphan
  <1>4. \/ observations' = observations \cup {o} /\ lost' = lost
        \/ observations' = observations /\ lost' = lost \cup {o}
    BY <1>2 DEF read, read_orphan, publish
  <1>5. (observations \cup lost)' = (observations \cup lost) \cup {o}
    BY <1>4
  <1>6. RecordInv'
    BY <1>1, <1>2, <1>3, <1>5, AnswerKeeps
  <1>7. QED
    BY <1>1, <1>3, <1>6, EffectsStay, NextInvariant

LEMMA RecoverKeeps ==
  ASSUME VerdictInv, recover_reads
  PROVE  VerdictInv'
  <1>1. RecordInv /\ EffectsInv
    BY DEF VerdictInv
  <1>2. PICK o \in lost : lost' = lost \ {o} /\ observations' = observations \cup {o}
    BY DEF recover_reads, publish
  <1>3. /\ reads' = reads /\ clock' = clock /\ frames' = frames /\ faults' = faults
        /\ effects' = effects /\ report' = NoReport
    BY DEF recover_reads
  <1>4. (observations \cup lost)' = observations \cup lost
    BY <1>2
  <1>5. RecordInv'
    BY <1>1, <1>3, <1>4 DEF RecordInv
  <1>6. QED
    BY <1>1, <1>3, <1>5, EffectsStay, NextInvariant

LEMMA AppendedKeeps ==
  ASSUME RecordInv, NEW v, Orderly(Last(frames), v, clock + 1),
         frames' = Append(frames, v), clock' = clock + 1, reads' = reads, faults' = faults,
         observations' = observations, lost' = lost
  PROVE  RecordInv'
  <1>1. PICK F, now, O : F = frames /\ now = clock /\ O = observations \cup lost
    OBVIOUS
  <1>2. now >= InitialTime /\ Recorded(F, now, O) /\ Orderly(Last(F), v, now + 1)
    BY <1>1 DEF RecordInv
  <1>3. Recorded(Append(F, v), now + 1, O)
    BY <1>2, RecordedAppended
  <1>4. now + 1 >= InitialTime
    BY <1>2 DEF Recorded, InitialTime
  <1>5. frames' = Append(F, v) /\ clock' = now + 1 /\ (observations \cup lost)' = O
    BY <1>1
  <1>6. Recorded(frames, clock, observations \cup lost)'
    BY <1>3, <1>5
  <1>7. QED
    BY <1>4, <1>5, <1>6 DEF RecordInv



LEMMA LaterKeeps ==
  ASSUME RecordInv, NEW d \in Nat, clock' = clock + d, frames' = frames, reads' = reads,
         faults' = faults, observations' = observations, lost' = lost
  PROVE  RecordInv'
  <1>1. PICK F, now, O : F = frames /\ now = clock /\ O = observations \cup lost
    OBVIOUS
  <1>2. now \in Nat /\ now >= InitialTime /\ Recorded(F, now, O)
    BY <1>1 DEF RecordInv, Recorded
  <1>3. PICK later : later = now + d
    OBVIOUS
  <1>4. later \in Nat /\ now <= later /\ later >= InitialTime
    BY <1>2, <1>3 DEF InitialTime
  <1>5. Recorded(F, later, O)
    BY <1>2, <1>4, RecordedLater
  <1>6. frames' = F /\ clock' = later /\ (observations \cup lost)' = O
    BY <1>1, <1>3
  <1>7. Recorded(frames, clock, observations \cup lost)'
    BY <1>5, <1>6
  <1>8. QED
    BY <1>4, <1>6, <1>7 DEF RecordInv

LEMMA ProgressStep ==
  ASSUME VerdictInv, Progress
  PROVE  VerdictInv'
  <1>1. RecordInv /\ EffectsInv
    BY DEF VerdictInv
  <1>2. PICK c \in Changes : progress(c)
    BY DEF Progress
  <1>3. PICK w, n : w = Last(frames) /\ n = clock + 1
    OBVIOUS
  <1>4. PICK v : v = Changed(w, n, c)
    OBVIOUS
  <1>5. /\ Possible(w, c) /\ frames' = Append(frames, v) /\ clock' = clock + 1
        /\ faults' = faults /\ observations' = observations
    BY <1>2, <1>3, <1>4 DEF progress
  <1>6. effects' = effects /\ reads' = reads /\ lost' = lost /\ report' = NoReport
    BY DEF Progress
  <1>7. clock \in Nat /\ FramesOK(frames, clock)
    BY <1>1 DEF RecordInv, Recorded
  <1>8. WorldOK(w) /\ w.at <= n /\ n \in Int
    <2>1. PICK F, now : F = frames /\ now = clock
      OBVIOUS
    <2>2. WorldOK(w) /\ w.at <= now + 1
      BY <1>3, <1>7, <2>1, LastIsOK
    <2>3. QED
      BY <1>3, <1>7, <2>1, <2>2
  <1>9. c \in ChangeName
    BY InquiryAssumption
  <1>10. Orderly(w, v, n)
    BY <1>4, <1>5, <1>8, <1>9, ChangesAreOrderly
  <1>11. Orderly(Last(frames), v, clock + 1)
    BY <1>3, <1>10
  <1>12. RecordInv'
    BY <1>1, <1>5, <1>6, <1>11, AppendedKeeps
  <1>13. QED
    BY <1>1, <1>6, <1>12, EffectsStay, NextInvariant

LEMMA FaultStep ==
  ASSUME VerdictInv, AddFault
  PROVE  VerdictInv'
  <1>0. RecordInv /\ EffectsInv
    BY DEF VerdictInv
  <1>1. PICK f \in FaultMenu : add_fault(f)
    BY DEF AddFault
  <1>2. PICK ends : ends = IF f.lasts = Never THEN Never ELSE clock + f.lasts
    OBVIOUS
  <1>3. PICK x : x = [tool |-> f.tool, kind |-> f.kind, arg |-> f.arg, starts |-> clock, ends |-> ends]
    OBVIOUS
  <1>4. /\ faults' = faults \cup {x} /\ frames' = frames /\ clock' = clock
        /\ observations' = observations
    BY <1>1, <1>2, <1>3 DEF add_fault
  <1>5. effects' = effects /\ reads' = reads /\ lost' = lost /\ report' = NoReport
    BY DEF AddFault
  <1>6. x \in ObservationFault /\ x.arg \in Nat
    <2>1. f.tool \in ToolName /\ f.kind \in FaultKind /\ f.lasts \in Nat /\ f.arg \in Nat
      BY InquiryAssumption
    <2>2. clock \in Int /\ ends \in Int
      BY <1>0, <1>2, <2>1 DEF RecordInv, Recorded, Never
    <2>3. QED
      BY <1>3, <2>1, <2>2 DEF ObservationFault
  <1>7. FaultsOK(faults \cup {x})
    <2>1. faults \subseteq ObservationFault
      BY <1>0 DEF RecordInv, FaultsOK
    <2>2. PICK b \in Nat : \A y \in faults : y.arg <= b
      BY <1>0 DEF RecordInv, FaultsOK
    <2>3. ASSUME NEW y \in faults \cup {x} PROVE y.arg <= b + x.arg
      <3>1. y \in ObservationFault /\ y.arg \in Nat
        BY <2>1, <1>6 DEF ObservationFault
      <3>2. QED
        BY <3>1, <2>2, <1>6
    <2>4. b + x.arg \in Nat
      BY <1>6
    <2>5. QED
      BY <2>1, <2>3, <2>4, <1>6 DEF FaultsOK
  <1>8. FaultsOK(faults)'
    BY <1>4, <1>7
  <1>9. RecordInv'
    BY <1>0, <1>4, <1>5, <1>8 DEF RecordInv
  <1>10. QED
    BY <1>0, <1>5, <1>9, EffectsStay, NextInvariant

LEMMA AdvanceKeeps ==
  ASSUME VerdictInv, advance
  PROVE  VerdictInv'
  <1>1. RecordInv /\ EffectsInv
    BY DEF VerdictInv
  <1>2. /\ clock' = clock + WaitTime /\ frames' = frames /\ reads' = reads /\ faults' = faults
        /\ observations' = observations /\ lost' = lost /\ effects' = effects /\ report' = NoReport
    BY DEF advance
  <1>3. RecordInv'
    BY <1>1, <1>2, LaterKeeps, VerificationAssumption
  <1>4. QED
    BY <1>1, <1>2, <1>3, EffectsStay, NextInvariant

(* The world an effect leaves is one that a fixture could have left.       *)
LEMMA DispatchKeeps ==
  ASSUME VerdictInv, NEW action \in Repairs, NEW received \in BOOLEAN, dispatch(action, received)
  PROVE  VerdictInv'
  <1>1. RecordInv /\ EffectsInv
    BY DEF VerdictInv
  <1>2. action \in {"REPLAY", "REDELIVER"}
    BY VerificationAssumption
  <1>3. PICK w, n : w = Last(frames) /\ n = clock + 1
    OBVIOUS
  <1>4. PICK v : v = Repaired(w, action, n)
    OBVIOUS
  <1>5. PICK outcome : outcome = IF Repairable(w, action) THEN "APPLIED" ELSE "FAILED_CONFIRMED"
    OBVIOUS
  <1>6. PICK status : status = IF received THEN outcome ELSE "UNKNOWN"
    OBVIOUS
  <1>7. PICK target : target = IF action = "REPLAY" THEN "MSG" ELSE "DELIVERY"
    OBVIOUS
  <1>8. PICK e : e = [action |-> action, status |-> status, created |-> clock, updated |-> n,
                      target |-> target, callback |-> "CB"]
    OBVIOUS
  <1>9. /\ effects' = effects \cup {e} /\ clock' = clock + 1 /\ report' = NoReport
        /\ frames' = (IF Repairable(w, action) THEN Append(frames, v) ELSE frames)
        /\ faults' = faults /\ observations' = observations /\ reads' = reads /\ lost' = lost
    BY <1>3, <1>4, <1>5, <1>6, <1>7, <1>8 DEF dispatch
  <1>10. clock \in Nat /\ FramesOK(frames, clock)
    BY <1>1 DEF RecordInv, Recorded
  <1>11. EffectsInv'
    <2>1. status \in UNRESOLVED_EFFECT_STATES \cup {"APPLIED", "FAILED_CONFIRMED"}
      BY <1>5, <1>6 DEF UNRESOLVED_EFFECT_STATES
    <2>2. target \in MessageId \cup DeliveryRef
      BY <1>7 DEF MessageId, DeliveryRef
    <2>3. clock \in Int /\ n \in Int
      BY <1>3, <1>10
    <2>4. e \in BoundEffect /\ e.action # "ADMINISTRATIVE"
      BY <1>2, <1>8, <2>1, <2>2, <2>3 DEF BoundEffect, EventId
    <2>5. QED
      BY <1>1, <1>9, <2>4 DEF EffectsInv
  <1>12. RecordInv'
    <2>1. CASE Repairable(w, action)
      <3>1. PICK F, now : F = frames /\ now = clock
        OBVIOUS
      <3>2. WorldOK(w) /\ w.at <= now + 1
        BY <1>3, <1>10, <3>1, LastIsOK
      <3>3. n \in Int /\ w.at <= n
        BY <1>3, <1>10, <3>1, <3>2
      <3>4. Orderly(w, v, n)
        <4>1. CASE action = "REPLAY"
          BY <1>4, <3>2, <3>3, <4>1, ReplayOrderly
        <4>2. CASE action = "REDELIVER"
          BY <1>4, <3>2, <3>3, <4>2, RedeliveryOrderly
        <4>3. QED
          BY <1>2, <4>1, <4>2
      <3>5. Orderly(Last(frames), v, clock + 1) /\ frames' = Append(frames, v)
        BY <1>3, <1>9, <2>1, <3>4
      <3>6. QED
        BY <1>1, <1>9, <3>5, AppendedKeeps
    <2>2. CASE ~Repairable(w, action)
      <3>1. frames' = frames /\ 1 \in Nat
        BY <1>9, <2>2
      <3>2. QED
        BY <1>1, <1>9, <3>1, LaterKeeps
    <2>3. QED
      BY <2>1, <2>2
  <1>13. QED
    BY <1>9, <1>11, <1>12, NextInvariant

LEMMA ResolveKeeps ==
  ASSUME VerdictInv, NEW effect \in effects, resolve(effect)
  PROVE  VerdictInv'
  <1>1. RecordInv /\ EffectsInv
    BY DEF VerdictInv
  <1>2. PICK applied \in BOOLEAN : applied = (\E i \in DOMAIN frames : frames[i].at = effect.created + 1)
    OBVIOUS
  <1>3. PICK status : status = IF applied THEN "APPLIED" ELSE "FAILED_CONFIRMED"
    OBVIOUS
  <1>4. PICK now : now = clock
    OBVIOUS
  <1>5. PICK e : e = [effect EXCEPT !.status = status, !.updated = now]
    OBVIOUS
  <1>6. /\ effects' = (effects \ {effect}) \cup {e}
        /\ frames' = frames /\ clock' = clock /\ faults' = faults /\ observations' = observations
        /\ reads' = reads /\ lost' = lost /\ report' = NoReport
    BY <1>2, <1>3, <1>4, <1>5 DEF resolve, vars
  <1>7. effect \in BoundEffect /\ effect.action # "ADMINISTRATIVE"
    BY <1>1 DEF EffectsInv
  <1>8. now \in Int /\ status \in UNRESOLVED_EFFECT_STATES \cup {"APPLIED", "FAILED_CONFIRMED"}
    BY <1>1, <1>3, <1>4 DEF RecordInv, Recorded
  <1>9. e \in BoundEffect /\ e.action = effect.action
    BY <1>5, <1>7, <1>8 DEF BoundEffect
  <1>10. EffectsInv'
    BY <1>1, <1>6, <1>7, <1>9 DEF EffectsInv
  <1>11. RecordInv'
    BY <1>1, <1>6 DEF RecordInv
  <1>12. QED
    BY <1>6, <1>10, <1>11, NextInvariant

LEMMA EvaluateKeeps ==
  ASSUME VerdictInv, evaluate
  PROVE  VerdictInv'
  <1>1. PICK work : work = [pending_reads |-> lost # {}, recovery_unresolved |-> FALSE,
                            policy_invalid |-> FALSE, terminal |-> FALSE]
    OBVIOUS
  <1>2. PICK st, O, effs, now : st = stored /\ O = observations /\ effs = effects /\ now = clock
    OBVIOUS
  <1>3. PICK s : s = Snapshot(st, O, effs, work, now)
    OBVIOUS
  <1>4. /\ report' = Report(s) /\ effects' = effects /\ reads' = reads /\ lost' = lost
        /\ frames' = frames /\ clock' = clock /\ faults' = faults /\ observations' = observations
    BY <1>1, <1>2, <1>3 DEF evaluate, vars
  <1>5. Evaluates(s, O, now) /\ s.effects = effs /\ s.work = work
    BY <1>3, SnapshotIs DEF Evaluates
  <1>6. work.pending_reads = (lost # {})
    BY <1>1
  <1>7. /\ Evaluates(s, observations', clock') /\ s.effects = effects'
        /\ s.work.pending_reads = (lost' # {})
    BY <1>2, <1>4, <1>5, <1>6
  <1>8. IsSnapshot(s)'
    BY <1>7 DEF IsSnapshot
  <1>9. ReportInv'
    BY <1>4, <1>8 DEF ReportInv
  <1>10. RecordInv' /\ EffectsInv'
    BY <1>4 DEF VerdictInv, RecordInv, EffectsInv
  <1>11. QED
    BY <1>9, <1>10 DEF VerdictInv

LEMMA VerdictStays == VerdictInv /\ [VNext]_<<vars, verificationVars>> => VerdictInv'
  <1> SUFFICES ASSUME VerdictInv, [VNext]_<<vars, verificationVars>> PROVE VerdictInv'
    OBVIOUS
  <1>1. CASE UNCHANGED <<vars, verificationVars>>
    BY <1>1 DEF vars, verificationVars, VerdictInv, RecordInv, EffectsInv, ReportInv, IsSnapshot
  <1>2. ASSUME NEW q \in NextQuery, read(q) \/ read_orphan(q) PROVE VerdictInv'
    BY <1>2, ReadKeeps
  <1>3. ASSUME NEW a \in Repairs, NEW received \in BOOLEAN, dispatch(a, received) PROVE VerdictInv'
    BY <1>3, DispatchKeeps
  <1>4. ASSUME NEW e \in effects, resolve(e) PROVE VerdictInv'
    BY <1>4, ResolveKeeps
  <1>5. CASE Finished
    BY <1>1, <1>5 DEF Finished
  <1>6. QED
    BY <1>1, <1>2, <1>3, <1>4, <1>5, RecoverKeeps, ProgressStep, FaultStep, AdvanceKeeps, EvaluateKeeps
       DEF VNext



(***************************************************************************)
(* What the invariant says of the report.                                  *)
(***************************************************************************)
LEMMA NoReportIsSafe ==
  ASSUME report = NoReport
  PROVE  PassIsEarned /\ PassIsTrue /\ MoneyIsNotDenied /\ NothingOutstanding
  BY DEF NoReport, PassIsEarned, PassIsTrue, MoneyIsNotDenied, NothingOutstanding

LEMMA ReportIsSafe ==
  ASSUME RecordInv, EffectsInv, NEW s, IsSnapshot(s), report = Report(s)
  PROVE  PassIsEarned /\ PassIsTrue /\ MoneyIsNotDenied /\ NothingOutstanding
  <1>1. PICK F, now, O, all : F = frames /\ now = clock /\ O = observations /\ all = observations \cup lost
    OBVIOUS
  <1>2. Recorded(F, now, all) /\ O \subseteq all
    BY <1>1 DEF RecordInv
  <1>3. Recorded(F, now, O)
    BY <1>2, RecordedPart
  <1>4. Recorded(frames, clock, observations)
    BY <1>1, <1>3
  <1>5. /\ Evaluates(s, observations, clock) /\ s.effects = effects
        /\ s.work.pending_reads = (lost # {})
        /\ \A e \in effects : e.action # "ADMINISTRATIVE"
    BY DEF IsSnapshot, EffectsInv
  <1>6. QED
    BY <1>4, <1>5, PassEarned, PassTrue, MoneyNotDenied, NothingPassedOver

LEMMA VerdictSafe == VerdictInv => VerdictIsSafe
  <1> SUFFICES ASSUME VerdictInv PROVE VerdictIsSafe
    OBVIOUS
  <1>1. RecordInv /\ EffectsInv
    BY DEF VerdictInv
  <1>2. CASE report = NoReport
    <2>1. PICK r, s : r = report /\ s = 0
      OBVIOUS
    <2>2. r.path \in OutcomePath /\ \A d \in EvaluationDimension : r.dimensions[d] \in DimensionStatus
      BY <1>2, <2>1, ReportTyped
    <2>3. VTypeOK
      BY <1>1, <2>1, <2>2 DEF VTypeOK, EffectsInv
    <2>4. QED
      BY <1>2, <2>3, NoReportIsSafe DEF VerdictIsSafe
  <1>3. ASSUME NEW s, IsSnapshot(s), report = Report(s) PROVE VerdictIsSafe
    <2>1. PICK r : r = report
      OBVIOUS
    <2>2. r.path \in OutcomePath /\ \A d \in EvaluationDimension : r.dimensions[d] \in DimensionStatus
      BY <1>3, <2>1, ReportTyped
    <2>3. VTypeOK
      BY <1>1, <2>1, <2>2 DEF VTypeOK, EffectsInv
    <2>4. PassIsEarned /\ PassIsTrue /\ MoneyIsNotDenied /\ NothingOutstanding
      BY <1>1, <1>3, ReportIsSafe
    <2>5. QED
      BY <2>3, <2>4 DEF VerdictIsSafe
  <1>4. QED
    BY <1>2, <1>3 DEF VerdictInv, ReportInv

(* The verdict is safe, for every set of scenarios, faults, changes and    *)
(* repairs, every age limit, and every order of readings, losses, effects, *)
(* waits and late publications: a PASS rests on recent answers of the      *)
(* primary that together satisfy the benchmark's oracle and show a signed  *)
(* callback, with no call or effect of unknown fate and every applied      *)
(* effect seen at its target afterwards; it is true of a world that has    *)
(* not changed since; and money seen to settle is never reported as not    *)
(* disbursed (evaluation/evaluator.py).                                    *)
THEOREM VerdictStaysSafe == VSpec => []VerdictIsSafe
  BY VerdictSafe, VerdictStarts, VerdictStays, PTL DEF VSpec
=============================================================================
