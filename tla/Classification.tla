--------------------------- MODULE Classification ---------------------------
(***************************************************************************)
(* How one object is named from the evidence of its own crops: the policies *)
(* of classification/policy.py and fusion_policy.py, and the gates of the   *)
(* RTX 5080 pipeline.  A score is a natural number that stands for a        *)
(* calibrated log-probability, so that the fusion of two score vectors is   *)
(* their sum; the thresholds are compared with it as the code compares      *)
(* them with the probability.                                              *)
(***************************************************************************)
EXTENDS Naturals, Sequences, FiniteSets

CONSTANTS NSku,          \* the code has 20 products
          DinoTop,       \* and takes the 5 best of DINO as candidates
          DirectScore, DirectMargin, DinoThreshold, FusedMargin, ConsensusFloor,
          Nothing

ASSUME PolicyBounds ==
  /\ NSku \in Nat /\ DinoTop \in 3..NSku
  /\ {DirectScore, DirectMargin, DinoThreshold, FusedMargin, ConsensusFloor} \subseteq Nat

Skus == 1..NSku

ASSUME NothingIsNoProduct == Nothing \notin Skus

(* The evidence of an object: the three score vectors; whether the tight   *)
(* and the context crop have the same best product; whether the crops       *)
(* disagree too much or lie too far from every prototype; whether the risk  *)
(* the calibrator predicts is above the policy's threshold.                 *)
Evidence == [repvit : [Skus -> Nat], dino : [Skus -> Nat], local : [Skus -> Nat],
             agree : BOOLEAN, far : BOOLEAN, risky : BOOLEAN]

Paths == {"repvit_direct", "dinov3_confirmed", "fusion_ranked", "unknown_top3"}

\* ties go to the lower product number
Before(score, s, t) == score[s] > score[t] \/ (score[s] = score[t] /\ s < t)
Top1(score, cands) == CHOOSE s \in cands : \A t \in cands \ {s} : Before(score, s, t)
Margin(score, cands) ==
  LET s == Top1(score, cands)
  IN  score[s] - score[Top1(score, cands \ {s})]

Top3(score, cands) ==
  LET a == Top1(score, cands)
      b == Top1(score, cands \ {a})
      c == Top1(score, cands \ {a, b})
  IN  <<[sku |-> a, score |-> score[a]], [sku |-> b, score |-> score[b]],
        [sku |-> c, score |-> score[c]]>>

Sum2(f, g) == [s \in Skus |-> f[s] + g[s]]
Fused(e) == Sum2(e.repvit, e.dino)
Ranked(e) == Sum2(Fused(e), e.local)

Best(score, k) == {s \in Skus : Cardinality({t \in Skus : Before(score, t, s)}) < k}
CandidateUnion(e) == Best(e.dino, DinoTop) \cup Best(e.repvit, 2)

Named(s, path) == [sku |-> s, path |-> path, top3 |-> <<>>, reason |-> Nothing]
Unknown(score, cands, reason) ==
  [sku |-> Nothing, path |-> "unknown_top3", top3 |-> Top3(score, cands),
   reason |-> reason]

-----------------------------------------------------------------------------
(* DecisionPolicy.                                                          *)

Direct(e) ==
  LET s == Top1(e.repvit, Skus)
  IN  IF e.repvit[s] >= DirectScore /\ Margin(e.repvit, Skus) >= DirectMargin /\ ~e.far
      THEN Named(s, "repvit_direct") ELSE Nothing

AfterRecheck(e) ==
  LET r == Top1(e.repvit, Skus)
      d == Top1(e.dino, Skus)
      Reject(reason) == Unknown(Fused(e), Skus, reason)
  IN  CASE r # d -> Reject("cross_model_disagreement")
        [] r = d /\ e.dino[d] < DinoThreshold -> Reject("dino_low_confidence")
        [] r = d /\ e.dino[d] >= DinoThreshold /\ Margin(Fused(e), Skus) < FusedMargin
             -> Reject("fused_low_margin")
        [] OTHER -> Named(Top1(Fused(e), Skus), "dinov3_confirmed")

AfterLocalRecheck(e) ==
  LET C == CandidateUnion(e)
      s == Top1(Ranked(e), C)
  IN  IF /\ s = Top1(e.repvit, Skus) /\ e.dino[s] >= DinoThreshold
         /\ Margin(Ranked(e), C) >= FusedMargin
      THEN Named(s, "dinov3_confirmed")
      ELSE Unknown(Fused(e), Skus, "dino_local_disagreement")

DinoFailure(e) == Unknown(e.repvit, Skus, "dino_inference_failed")

-----------------------------------------------------------------------------
(* FusionPolicyArtifact.decide and _fusion_decision.                        *)

Rules == {"risk_threshold_v1", "fusion_local_agree_v1",
          "fusion_local_or_global_consensus_margin_v1"}

LocalAgrees(e, s) == s = Top1(e.local, CandidateUnion(e))
GlobalsAgree(e, s) == s = Top1(e.repvit, Skus) /\ s = Top1(e.dino, Skus)

Accepts(rule, e) ==
  LET s == Top1(Ranked(e), CandidateUnion(e))
  IN  CASE rule = "risk_threshold_v1" -> ~e.risky
        [] rule = "fusion_local_agree_v1" -> LocalAgrees(e, s)
        [] OTHER -> \/ LocalAgrees(e, s)
                    \/ /\ GlobalsAgree(e, s)
                       /\ Margin(Ranked(e), CandidateUnion(e)) >= ConsensusFloor

Reason(rule) ==
  CASE rule = "fusion_local_agree_v1" -> "fusion_local_disagreement"
    [] rule = "risk_threshold_v1" -> "fusion_risk_threshold"
    [] OTHER -> "fusion_global_consensus_margin"

FusionDecision(rule, e) ==
  LET C == CandidateUnion(e)
  IN  IF Accepts(rule, e) THEN Named(Top1(Ranked(e), C), "fusion_ranked")
                          ELSE Unknown(Ranked(e), C, Reason(rule))
=============================================================================
