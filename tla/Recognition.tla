---------------------------- MODULE Recognition ----------------------------
(***************************************************************************)
(* One scan, from the detector's proposals to the event that is sent:       *)
(* CameraInferenceRuntime.analyze over ClassifierPipeline.infer ("serial")  *)
(* or infer_many ("batch"), the tight/context batch of infer_many           *)
(* ("static"), which no caller in the repository composes into an event,    *)
(* and Rtx5080Pipeline.infer ("rtx5080").  A step is a call of a model or   *)
(* the code between two of them; any call may raise.  A stage lasts one     *)
(* tick of the clock.                                                      *)
(***************************************************************************)
EXTENDS Classification, Integers

CONSTANTS Configs,      \* the configurations of the pipeline
          Scenes,       \* what the detector may find: sets of proposals
          Samples,      \* the evidence an object may give
          Captures,     \* what the scene analyser may report
          FrameWidth, FrameHeight,
          OverlapIou, PairIou,  \* <<numerator, denominator>>
          WeakScore, WeakMargin \* of version 1 of the presentation policy

ASSUME ScenesAreProposals ==
  \A S \in Scenes : /\ IsFiniteSet(S)
                    /\ S \subseteq [box : [x : Int, y : Int, w : Int, h : Int],
                                    score : Int]
ASSUME SamplesAreEvidence == Samples \subseteq Evidence
ASSUME ConfigsAreKnown ==
  \A c \in Configs : /\ c.path \in {"serial", "batch", "static", "rtx5080"}
                     /\ c.chunk \in Nat \ {0}

VARIABLES cfg, scene, evidence, \* the configuration; what is seen; what the models say of it
          pc,
          order,       \* ordered: the proposals in the order they are reported
          decisions,   \* the decision on each, Nothing while there is none
          todo,        \* recheck_indexes not yet given to DINO
          rechecked,   \* dino_object_count
          phases,      \* progress events emitted
          elapsed, charged,  \* the clock; the sum of the stage timings
          result

vars == <<cfg, scene, evidence, pc, order, decisions, todo, rechecked, phases,
          elapsed, charged, result>>

Boxes(S) == {p.box : p \in S}
Of(i) == evidence[order[i].box]
Consensus == "fusion_local_or_global_consensus_margin_v1"

\* the camera runtime's own paths; the others report no progress
Reference == cfg.path \in {"serial", "batch"}

Init ==
  /\ cfg \in Configs /\ scene \in Scenes /\ evidence \in [Boxes(scene) -> Samples]
  /\ pc = "detect" /\ order = <<>> /\ decisions = <<>> /\ todo = {}
  /\ rechecked = 0 /\ phases = <<>> /\ elapsed = 0 /\ charged = 0
  /\ result = Nothing

Spend(host, stages) ==
  elapsed' = elapsed + host /\ charged' = charged + stages

\* _emit_progress: a phase is reported once
Report(phase) ==
  phases' = IF \E i \in DOMAIN phases : phases[i] = phase
            THEN phases ELSE Append(phases, phase)

-----------------------------------------------------------------------------
(* Geometry.                                                                *)

LexBefore(a, b) ==
  \E k \in DOMAIN a : a[k] < b[k] /\ \A j \in 1..(k - 1) : a[j] = b[j]

Enumerations(S) ==
  {s \in [1..Cardinality(S) -> S] :
     \A i, j \in 1..Cardinality(S) : s[i] = s[j] => i = j}

\* twice the centre, then the corner
CentreKey(p) ==
  <<2 * p.box.y + p.box.h, 2 * p.box.x + p.box.w, p.box.x, p.box.y>>

CornerKey(p) == <<p.box.y, p.box.x, p.box.h, p.box.w, 0 - p.score>>

Key(p) == IF cfg.path = "rtx5080" THEN CentreKey(p) ELSE CornerKey(p)

\* sorted() of the detector's proposals, whatever order it gave them in
SortedProposals ==
  {s \in Enumerations(scene) :
     \A i, j \in DOMAIN s : i < j => ~LexBefore(Key(s[j]), Key(s[i]))}

Larger(a, b) == IF a > b THEN a ELSE b
Smaller(a, b) == IF a < b THEN a ELSE b
Intersection(a, b) ==
  Larger(0, Smaller(a.x + a.w, b.x + b.w) - Larger(a.x, b.x))
    * Larger(0, Smaller(a.y + a.h, b.y + b.h) - Larger(a.y, b.y))
Union(a, b) == a.w * a.h + b.w * b.h - Intersection(a, b)

Overlaps(a, b) == Intersection(a, b) * OverlapIou[2] >= OverlapIou[1] * Union(a, b)
Occludes(a, b) == Intersection(a, b) * PairIou[2] > PairIou[1] * Union(a, b)
Truncated(b) ==
  b.x <= 0 \/ b.y <= 0 \/ b.x + b.w >= FrameWidth \/ b.y + b.h >= FrameHeight

-----------------------------------------------------------------------------
(* Detection.                                                               *)

\* analyze: decode, detect, order.  The static batch takes its boxes as given.
Detect ==
  /\ pc = "detect" /\ cfg.path # "rtx5080"
  /\ order' \in IF Reference THEN SortedProposals ELSE Enumerations(scene)
  /\ phases' = IF Reference THEN <<"detecting", "classifying">> ELSE <<>>
  /\ pc' = "classify" /\ Spend(2, 1)
  /\ UNCHANGED <<cfg, scene, evidence, decisions, todo, rechecked, result>>

\* evaluate_completeness
RetakeReasons(capture) ==
  (IF scene = {} THEN {"no_target_detected"} ELSE {})
    \cup (IF \E p \in scene : Truncated(p.box) THEN {"truncated_object"} ELSE {})
    \cup (IF \E p, q \in scene : p # q /\ Occludes(p.box, q.box)
          THEN {"overlap_or_occlusion"} ELSE {})
    \cup capture

Retake(reasons) ==
  [type |-> "candidate", state |-> "needs_retake", objects |-> <<>>,
   counts |-> <<>>, unknown |-> 0, reasons |-> reasons,
   attempt |-> cfg.attempt, manual |-> cfg.attempt >= 3]

\* Rtx5080Pipeline.infer, up to the completeness gate
Gate ==
  /\ pc = "detect" /\ cfg.path = "rtx5080"
  /\ \E capture \in Captures :
       IF RetakeReasons(capture) # {}
       THEN /\ result' = Retake(RetakeReasons(capture)) /\ pc' = "composed"
            /\ UNCHANGED order
       ELSE /\ order' \in SortedProposals /\ pc' = "classify" /\ UNCHANGED result
  /\ Spend(3, 3)
  /\ UNCHANGED <<cfg, scene, evidence, decisions, todo, rechecked, phases>>

-----------------------------------------------------------------------------
(* ClassifierPipeline.infer, one object at a time.                          *)

\* a schema-3 policy is refused by infer and infer_many, and is all the static batch takes
Served == (cfg.rule = Consensus) <=> (cfg.path = "static")

\* a fusion policy and every batch need the local bank
Scorable == cfg.bank \/ (cfg.path = "serial" /\ cfg.rule = Nothing)

Recheck(e) ==
  CASE cfg.rule # Nothing -> FusionDecision(cfg.rule, e)
    [] cfg.rule = Nothing /\ cfg.bank -> AfterLocalRecheck(e)
    [] OTHER -> AfterRecheck(e)

Decided == Len(decisions)

Infer ==
  /\ pc = "classify" /\ cfg.path = "serial" /\ Served
  /\ Decided < Len(order)
  /\ LET e == Of(Decided + 1) IN
       \/ /\ Direct(e) # Nothing
          /\ decisions' = Append(decisions, Direct(e))
          /\ Spend(2, IF cfg.cuda THEN 1 ELSE 2) /\ UNCHANGED <<rechecked, phases>>
       \/ /\ Direct(e) = Nothing
          /\ Scorable
          /\ \E d \in {Recheck(e), DinoFailure(e)} : decisions' = Append(decisions, d)
          /\ rechecked' = rechecked + 1 /\ Report("rechecking")
          /\ Spend(4, IF cfg.cuda THEN 2 ELSE 4)
  /\ UNCHANGED <<cfg, scene, evidence, pc, order, todo, result>>

InferDone ==
  /\ pc = "classify" /\ cfg.path = "serial" /\ Decided = Len(order)
  /\ pc' = "aggregate"
  /\ UNCHANGED <<cfg, scene, evidence, order, decisions, todo, rechecked, phases,
                 elapsed, charged, result>>

-----------------------------------------------------------------------------
(* infer_many: all the RepViT evidence, then DINO in chunks of rejects.     *)

Rejects(d) == {i \in DOMAIN d : d[i] = Nothing}

Scored(d) ==
  /\ decisions' = d /\ todo' = Rejects(d) /\ rechecked' = Cardinality(Rejects(d))
  /\ pc' = "recheck"
  /\ UNCHANGED <<cfg, scene, evidence, order, phases, result>>

\* analyze does not call the classifier for an empty tray
ScoreAll ==
  /\ pc = "classify" /\ cfg.path = "batch"
  /\ order # <<>> => Served
  /\ Scored([i \in DOMAIN order |-> Direct(Of(i))])
  /\ IF order = <<>> THEN UNCHANGED <<elapsed, charged>> ELSE Spend(2, 2)

\* _infer_many_tight_context: no direct decision unless both crops agree
ScoreTightContext ==
  /\ pc = "classify" /\ cfg.path = "static" /\ Served /\ cfg.bank
  /\ Scored([i \in DOMAIN order |-> IF Of(i).agree THEN Direct(Of(i)) ELSE Nothing])
  /\ Spend(2, 2)

\* the next objects in reading order
Chunk == {i \in todo : Cardinality({j \in todo : j < i}) < cfg.chunk}

\* mutation: the next chunk starts with the last object of this one
RestOverlaps == todo \ {i \in Chunk : \E j \in Chunk : i < j}

Rest == todo \ Chunk

\* mutation: the evidence of a chunk is read by the position of its rejects
FuseByPosition ==
  decisions' = [i \in DOMAIN decisions |->
                  IF i \in Chunk
                  THEN Recheck(Of(Cardinality({j \in Chunk : j <= i})))
                  ELSE decisions[i]]

FuseChunk ==
  decisions' = [i \in DOMAIN decisions |->
                  IF i \in Chunk THEN Recheck(Of(i)) ELSE decisions[i]]

ChunkDone ==
  /\ todo' = Rest
  /\ UNCHANGED <<cfg, scene, evidence, pc, order, rechecked, phases, result>>

\* without CUDA events the time of DINO includes that of fusion
RecheckChunk ==
  /\ pc = "recheck" /\ cfg.path = "batch" /\ todo # {} /\ Scorable
  /\ FuseChunk /\ Spend(2, IF cfg.cuda THEN 2 ELSE 3)
  /\ ChunkDone

\* DinoInferenceError: the whole chunk stays unknown
ChunkFails ==
  /\ pc = "recheck" /\ cfg.path = "batch" /\ todo # {} /\ Scorable
  /\ decisions' = [i \in DOMAIN decisions |->
                     IF i \in Chunk THEN DinoFailure(Of(i)) ELSE decisions[i]]
  /\ Spend(1, 1)
  /\ ChunkDone

\* the static batch lets the error out
ContextChunk ==
  /\ pc = "recheck" /\ cfg.path = "static" /\ todo # {}
  /\ FuseChunk /\ Spend(2, 2)
  /\ ChunkDone

BatchDone ==
  /\ pc = "recheck" /\ cfg.path \in {"batch", "static"} /\ todo = {}
  /\ IF cfg.path = "batch" /\ rechecked > 0
     THEN Report("rechecking") ELSE UNCHANGED phases
  /\ pc' = "aggregate"
  /\ UNCHANGED <<cfg, scene, evidence, order, decisions, todo, rechecked,
                 elapsed, charged, result>>

-----------------------------------------------------------------------------
(* The gates of the RTX 5080 pipeline.  The two policies are handed to it:   *)
(* they may answer anything, and an answer its checks refuse ends the scan.  *)

DirectGate(e) ==
  {Nothing} \cup (IF e.agree THEN {Named(Top1(e.repvit, Skus), "direct_approved")}
                             ELSE {})

Agreed(e, s) ==
  \/ LocalAgrees(e, s)
  \/ GlobalsAgree(e, s) /\ Margin(Ranked(e), CandidateUnion(e)) >= ConsensusFloor

FusionGate(e) ==
  {Unknown(Ranked(e), CandidateUnion(e), Nothing)}
    \cup {Named(s, "consensus_approved") : s \in {t \in Skus : Agreed(e, t)}}

ScorePairs ==
  /\ pc = "classify" /\ cfg.path = "rtx5080"
  /\ \E d \in [DOMAIN order -> UNION {DirectGate(Of(i)) : i \in DOMAIN order}] :
       (\A i \in DOMAIN order : d[i] \in DirectGate(Of(i))) /\ Scored(d)
  /\ Spend(3, 3)

ScoreRejections ==
  /\ pc = "recheck" /\ cfg.path = "rtx5080"
  /\ \E f \in [todo -> UNION {FusionGate(Of(i)) : i \in todo}] :
       /\ \A i \in todo : f[i] \in FusionGate(Of(i))
       /\ decisions' = [i \in DOMAIN decisions |->
                          IF i \in todo THEN f[i] ELSE decisions[i]]
  /\ todo' = {} /\ pc' = "aggregate" /\ Spend(2, 2)
  /\ UNCHANGED <<cfg, scene, evidence, order, rechecked, phases, result>>

-----------------------------------------------------------------------------
(* The result.                                                              *)

Objects ==
  [i \in DOMAIN order |->
     [id |-> i, box |-> order[i].box, score |-> order[i].score,
      decision |-> decisions[i]]]

UnknownIds(objects) == {i \in DOMAIN objects : objects[i].decision.sku = Nothing}

\* mutation: the objects of a product are not added up
CountsOfFirst(objects) ==
  [s \in {objects[i].decision.sku : i \in DOMAIN objects \ UnknownIds(objects)} |-> 1]

CountsOf(objects) ==
  [s \in {objects[i].decision.sku : i \in DOMAIN objects \ UnknownIds(objects)} |->
     Cardinality({i \in DOMAIN objects : objects[i].decision.sku = s})]

OverlappingIds(objects) ==
  {i \in DOMAIN objects : \E j \in DOMAIN objects \ {i} :
     Overlaps(objects[i].box, objects[j].box)}

\* only version 1 of the presentation policy asks for another photograph of weak evidence
WeakIds(objects) ==
  {i \in UnknownIds(objects) :
     LET t == objects[i].decision.top3
     IN  t[1].score < WeakScore \/ t[1].score - t[2].score < WeakMargin}

Show(state, scope, retake, code, candidates) ==
  [state |-> state, usable |-> state # "needs_retake", scope |-> scope,
   retake |-> retake, code |-> code, candidates |-> candidates]

\* PresentationPolicy.evaluate
Present(objects) ==
  CASE objects = <<>> ->
         Show("needs_retake", "scan", {}, "no_bread_detected", {})
    [] objects # <<>> /\ OverlappingIds(objects) # {} ->
         Show("needs_retake", "object", OverlappingIds(objects), "separate_breads", {})
    [] /\ objects # <<>> /\ OverlappingIds(objects) = {}
       /\ cfg.presentation = 1 /\ WeakIds(objects) # {} ->
         Show("needs_retake", "object", WeakIds(objects), "candidate_evidence_weak", {})
    [] OTHER ->
         Show(IF UnknownIds(objects) = {} THEN "normal" ELSE "unknown", Nothing, {},
              Nothing, UnknownIds(objects))

Composed ==
  [type |-> "reference", objects |-> Objects, counts |-> CountsOf(Objects),
   unknown |-> Cardinality(UnknownIds(Objects)), rechecked |-> rechecked,
   inference |-> charged + 1, total |-> elapsed + 1, show |-> Present(Objects)]

Accepted ==
  [type |-> "candidate", state |-> "accepted_scan", objects |-> Objects,
   counts |-> CountsOf(Objects), unknown |-> Cardinality(UnknownIds(Objects)),
   reasons |-> {}, attempt |-> Nothing, manual |-> FALSE]

Aggregate ==
  /\ pc = "aggregate"
  /\ result' = CASE Reference -> Composed
                 [] cfg.path = "rtx5080" -> Accepted
                 [] OTHER -> [type |-> "batch", objects |-> Objects]
  /\ pc' = "composed" /\ Spend(1, 1)
  /\ IF Reference THEN Report("aggregating") ELSE UNCHANGED phases
  /\ UNCHANGED <<cfg, scene, evidence, order, decisions, todo, rechecked>>

-----------------------------------------------------------------------------
(* validate_result_event, which the worker applies before it sends.         *)

ValidTop3(t) ==
  /\ Len(t) = 3
  /\ Cardinality({t[k].sku : k \in DOMAIN t}) = 3
  /\ \A k \in 1..2 : \/ t[k].score > t[k + 1].score
                     \/ t[k].score = t[k + 1].score /\ t[k].sku < t[k + 1].sku

ValidObject(objects, i) ==
  LET d == objects[i].decision IN
  /\ objects[i].id = i
  /\ IF d.sku = Nothing THEN d.path = "unknown_top3" /\ ValidTop3(d.top3)
     ELSE d.path \in Paths \ {"unknown_top3"} /\ d.top3 = <<>> /\ d.reason = Nothing

ValidShow(show, objects) ==
  CASE show.state = "normal" ->
         show.usable /\ show.scope = Nothing /\ show.code = Nothing
           /\ show.retake = {} /\ show.candidates = {}
    [] show.state = "unknown" ->
         show.usable /\ show.scope = Nothing /\ show.code = Nothing
           /\ show.retake = {} /\ show.candidates # {}
           /\ show.candidates \subseteq UnknownIds(objects)
    [] OTHER ->
         /\ ~show.usable /\ show.candidates = {}
         /\ \/ show.scope = "scan" /\ show.retake = {} /\ show.code = "no_bread_detected"
            \/ /\ show.scope = "object" /\ show.retake # {}
               /\ show.retake \subseteq DOMAIN objects
               /\ show.code \in {"separate_breads"}
                    \cup (IF cfg.presentation = 1 THEN {"candidate_evidence_weak"} ELSE {})

Tally(objects, counts, unknown) ==
  /\ unknown = Cardinality(UnknownIds(objects))
  /\ DOMAIN counts = {objects[i].decision.sku : i \in DOMAIN objects \ UnknownIds(objects)}
  /\ \A s \in DOMAIN counts :
       counts[s] = Cardinality({i \in DOMAIN objects : objects[i].decision.sku = s})

ValidReference(r) ==
  /\ r.inference <= r.total
  /\ \A i \in DOMAIN r.objects : ValidObject(r.objects, i)
  /\ Tally(r.objects, r.counts, r.unknown)
  /\ r.rechecked \in 0..Len(r.objects)
  /\ ValidShow(r.show, r.objects)

ValidCandidate(r) ==
  /\ \A i, j \in DOMAIN r.objects :
       i < j => ~LexBefore(CentreKey(r.objects[j]), CentreKey(r.objects[i]))
  /\ \A i \in DOMAIN r.objects : r.objects[i].id = i
  /\ Tally(r.objects, r.counts, r.unknown)
  /\ IF r.state = "needs_retake"
     THEN r.objects = <<>> /\ r.reasons # {} /\ r.manual = (r.attempt >= 3)
     ELSE r.objects # <<>> /\ r.reasons = {} /\ r.attempt = Nothing /\ ~r.manual

\* _LEGAL_NEXT_PHASES, from the first phase to the last
LegalCourses ==
  {<<"detecting", "classifying", "aggregating">>,
   <<"detecting", "classifying", "rechecking", "aggregating">>}

Valid(r) ==
  CASE r.type = "reference" -> ValidReference(r)
    [] r.type = "candidate" -> ValidCandidate(r)
    [] OTHER -> TRUE

Answer ==
  /\ pc = "composed" /\ Valid(result) /\ pc' = "answered"
  /\ Reference => phases \in LegalCourses
  /\ UNCHANGED <<cfg, scene, evidence, order, decisions, todo, rechecked, phases,
                 elapsed, charged, result>>

\* an exception anywhere, a result that is not valid: no part of it is sent
Fail ==
  /\ pc \in {"detect", "classify", "recheck", "aggregate"} \/ (pc = "composed" /\ (~Valid(result) \/ (Reference /\ phases \notin LegalCourses)))
  /\ pc' = "failed" /\ result' = Nothing
  /\ UNCHANGED <<cfg, scene, evidence, order, decisions, todo, rechecked, phases,
                 elapsed, charged>>

Next ==
  \/ Detect \/ Gate \/ Infer \/ InferDone
  \/ ScoreAll \/ ScoreTightContext \/ RecheckChunk \/ ChunkFails \/ ContextChunk
  \/ BatchDone \/ ScorePairs \/ ScoreRejections \/ Aggregate \/ Answer \/ Fail

Spec == Init /\ [][Next]_vars

-----------------------------------------------------------------------------
(* Properties.                                                              *)

\* Types: todo holds objects that have no decision yet.
RecognitionTypeOK ==
  /\ cfg \in Configs /\ scene \in Scenes /\ evidence \in [Boxes(scene) -> Samples]
  /\ pc \in {"detect", "classify", "recheck", "aggregate", "composed", "answered",
             "failed"}
  /\ order \in {<<>>} \cup Enumerations(scene)
  /\ Len(decisions) <= Len(order)
  /\ todo \subseteq DOMAIN decisions /\ \A i \in todo : decisions[i] = Nothing
  /\ rechecked \in 0..Len(order) /\ {elapsed, charged} \subseteq Nat
  /\ pc \in {"detect", "classify", "recheck", "aggregate", "failed"} => result = Nothing

\* Every result the runtime composes passes the validator the worker puts before
\* it (camera_worker.py:201), and the progress it reported is a legal course of
\* phases (camera_worker.py:184), so that no finished scan is lost there.  The batch
\* path without CUDA events is the exception: it counts fusion twice, and a scan
\* with a recheck may claim more inference than time has passed.
ResultValidates ==
  (pc = "composed" /\ ~(cfg.path = "batch" /\ ~cfg.cuda /\ rechecked > 0))
    => /\ Valid(result)
       /\ Reference => phases \in LegalCourses

Promise == INSTANCE OneByOne
  WITH answer <- IF pc = "answered" THEN result ELSE Nothing

\* Batching, chunks, detector order and failed chunks do not show: what is sent
\* names each object from its own evidence, once, in reading order.
ImplementsOneByOne == Promise!Spec
=============================================================================
