-------------------------- MODULE RecognitionProofs --------------------------
(***************************************************************************)
(* What a scan answers, for every tray, every number of products, all       *)
(* evidence, every threshold and every size of chunk.                       *)
(***************************************************************************)
EXTENDS Recognition, FiniteSetTheorems, SequenceTheorems, TLAPS

-----------------------------------------------------------------------------
(* The best product of a set.                                               *)

Scores == [Skus -> Nat]

\* The products are finitely many, and three at least.
LEMMA SkusFacts ==
  /\ IsFiniteSet(Skus) /\ Skus \subseteq Nat
  /\ 1 \in Skus /\ 2 \in Skus /\ 3 \in Skus
<1>1. NSku \in Nat /\ NSku >= 3
  BY PolicyBounds
<1>2. IsFiniteSet(1..NSku)
  BY <1>1, FS_Interval
<1> QED
  BY <1>1, <1>2 DEF Skus

\* Pairs and triples are as large as they look.
LEMMA SmallSets ==
  ASSUME NEW a, NEW b, NEW c
  PROVE  /\ IsFiniteSet({a, b}) /\ Cardinality({a, b}) <= 2
         /\ a # b /\ b # c /\ a # c => Cardinality({a, b, c}) = 3
<1> DEFINE A == {a}
           B == A \cup {b}
           C == B \cup {c}
<1>1. IsFiniteSet(A) /\ Cardinality(A) = 1
  BY FS_Singleton
<1>2. b \in A <=> a = b
  OBVIOUS
<1>3. c \in B <=> a = c \/ b = c
  OBVIOUS
<1>4. {a, b} = B /\ {a, b, c} = C
  OBVIOUS
<1> HIDE DEF A
<1>5. IsFiniteSet(B) /\ Cardinality(B) = IF b \in A THEN 1 ELSE 2
  BY <1>1, FS_AddElement
<1> HIDE DEF B
<1>6. Cardinality(C) = IF c \in B THEN Cardinality(B) ELSE Cardinality(B) + 1
  BY <1>5, FS_AddElement
<1> HIDE DEF C
<1> QED
  BY <1>2, <1>3, <1>4, <1>5, <1>6

\* Before is a strict total order of the products.
LEMMA BeforeOrder ==
  ASSUME NEW score \in Scores
  PROVE  /\ \A s \in Skus : ~Before(score, s, s)
         /\ \A s, t \in Skus : s # t => Before(score, s, t) \/ Before(score, t, s)
         /\ \A s, t \in Skus : Before(score, s, t) => ~Before(score, t, s)
         /\ \A s, t, u \in Skus :
              Before(score, s, t) /\ Before(score, t, u) => Before(score, s, u)
BY SkusFacts DEF Scores, Before

\* A set of products that is not empty has a best one: one with as few as can be before it.
LEMMA BestExists ==
  ASSUME NEW score \in Scores, NEW cands \in SUBSET Skus, cands # {}
  PROVE  \E s \in cands : \A t \in cands \ {s} : Before(score, s, t)
<1> DEFINE R == {x \in Skus \X Skus : Before(score, x[1], x[2])}
           B == [s \in cands |-> {t \in cands : Before(score, t, s)}]
           T == {B[s] : s \in cands}
<1>1. IsFiniteSet(cands)
  BY SkusFacts, FS_Subset
<1>2. IsWellFoundedOn(StrictSubsetOrdering(cands), SUBSET cands)
  BY <1>1, FS_StrictSubsetOrderingWellFounded, FS_FiniteSubsetsOfFinite
<1>3. T \subseteq SUBSET cands /\ T # {}
  OBVIOUS
<1>4. PICK m \in T : \A y \in T : ~(<<y, m>> \in StrictSubsetOrdering(cands))
  BY <1>2, <1>3, WFMin
<1>5. PICK s \in cands : m = B[s]
  BY <1>4
<1>6. ASSUME NEW t \in cands \ {s}, ~Before(score, s, t)
      PROVE  FALSE
  <2>1. Before(score, t, s)
    BY <1>6, BeforeOrder
  <2>2. B[t] \subseteq B[s] /\ t \in B[s] /\ t \notin B[t]
    BY <2>1, BeforeOrder
  <2>3. <<B[t], B[s]>> \in StrictSubsetOrdering(cands)
    BY <2>2 DEF StrictSubsetOrdering
  <2> QED
    BY <1>4, <1>5, <2>3
<1> QED
  BY <1>6

\* Top1 is the only product of the set that is before the others.
LEMMA Top1Is ==
  ASSUME NEW score \in Scores, NEW cands \in SUBSET Skus, cands # {}
  PROVE  /\ Top1(score, cands) \in cands
         /\ \A t \in cands \ {Top1(score, cands)} : Before(score, Top1(score, cands), t)
BY BestExists DEF Top1

\* The three best of three products or more are in order, and no two the same.
LEMMA Top3Valid ==
  ASSUME NEW score \in Scores, NEW cands \in SUBSET Skus,
         NEW p \in cands, NEW q \in cands, NEW r \in cands, p # q, q # r, p # r
  PROVE  ValidTop3(Top3(score, cands))
<1> DEFINE a == Top1(score, cands)
           b == Top1(score, cands \ {a})
           c == Top1(score, cands \ {a, b})
           t == Top3(score, cands)
<1>1. a \in cands /\ \A u \in cands \ {a} : Before(score, a, u)
  BY Top1Is
<1>2. cands \ {a} # {}
  OBVIOUS
<1>3. b \in cands \ {a} /\ \A u \in (cands \ {a}) \ {b} : Before(score, b, u)
  BY <1>2, Top1Is
<1>4. cands \ {a, b} # {}
  OBVIOUS
<1>5. c \in cands \ {a, b}
  BY <1>4, Top1Is
<1>6. t = <<[sku |-> a, score |-> score[a]], [sku |-> b, score |-> score[b]],
            [sku |-> c, score |-> score[c]]>>
  BY DEF Top3
<1> HIDE DEF a, b, c, t
<1>7. Before(score, a, b) /\ Before(score, b, c)
  BY <1>1, <1>3, <1>5
<1>8. {t[k].sku : k \in DOMAIN t} = {a, b, c}
  <2>1. DOMAIN t = {1, 2, 3} /\ t[1].sku = a /\ t[2].sku = b /\ t[3].sku = c
    BY <1>6
  <2> QED
    BY <2>1
<1>9. Cardinality({a, b, c}) = 3
  BY <1>3, <1>5, SmallSets
<1>10. \A k \in 1..2 : \/ t[k].score > t[k + 1].score
                       \/ t[k].score = t[k + 1].score /\ t[k].sku < t[k + 1].sku
  <2>1. \/ t[1].score > t[2].score
        \/ t[1].score = t[2].score /\ t[1].sku < t[2].sku
    BY <1>6, <1>7 DEF Before
  <2>2. \/ t[2].score > t[3].score
        \/ t[2].score = t[3].score /\ t[2].sku < t[3].sku
    BY <1>6, <1>7 DEF Before
  <2> QED
    BY <2>1, <2>2
<1>11. Len(t) = 3
  BY <1>6
<1>12. ValidTop3(t)
  BY <1>8, <1>9, <1>10, <1>11 DEF ValidTop3
<1> QED
  BY <1>12 DEF t

\* Three products at least are candidates: the three that DINO finds best.
LEMMA ThreeAreBest ==
  ASSUME NEW score \in Scores, NEW k \in Nat, k >= 3
  PROVE  /\ Best(score, k) \subseteq Skus
         /\ \E p, q, r \in Best(score, k) : p # q /\ q # r /\ p # r
<1> DEFINE Above(s) == {t \in Skus : Before(score, t, s)}
           a == Top1(score, Skus)
           b == Top1(score, Skus \ {a})
           c == Top1(score, Skus \ {a, b})
<1>1. Best(score, k) = {s \in Skus : Cardinality(Above(s)) < k}
  BY DEF Best
<1>2. a \in Skus /\ \A u \in Skus \ {a} : Before(score, a, u)
  BY Top1Is, SkusFacts
<1>3. Skus \ {a} # {}
  BY SkusFacts
<1>4. b \in Skus \ {a} /\ \A u \in (Skus \ {a}) \ {b} : Before(score, b, u)
  BY <1>3, Top1Is
<1>5. Skus \ {a, b} # {}
  BY SkusFacts
<1>6. c \in Skus \ {a, b} /\ \A u \in (Skus \ {a, b}) \ {c} : Before(score, c, u)
  BY <1>5, Top1Is
<1> HIDE DEF a, b, c
<1>7. ASSUME NEW s \in Skus, Above(s) \subseteq {a, b}
      PROVE  s \in Best(score, k)
  <2>1. IsFiniteSet({a, b}) /\ Cardinality({a, b}) <= 2
    BY SmallSets
  <2>2. IsFiniteSet(Above(s)) /\ Cardinality(Above(s)) <= Cardinality({a, b})
    BY <1>7, <2>1, FS_Subset
  <2>3. Cardinality(Above(s)) \in Nat /\ Cardinality({a, b}) \in Nat
    BY <2>1, <2>2, FS_CardinalityType
  <2> QED
    BY <1>1, <2>1, <2>2, <2>3
<1>8. Above(a) \subseteq {a, b} /\ Above(b) \subseteq {a, b}
  BY <1>2, <1>4, BeforeOrder
<1>9. Above(c) \subseteq {a, b}
  BY <1>6, BeforeOrder
<1>10. a \in Best(score, k) /\ b \in Best(score, k) /\ c \in Best(score, k)
  BY <1>2, <1>4, <1>6, <1>7, <1>8, <1>9
<1> QED
  BY <1>1, <1>4, <1>6, <1>10

-----------------------------------------------------------------------------
(* The decision on one object.                                              *)

\* What the validator asks of a decision.
WellFormed(d) ==
  IF d.sku = Nothing
  THEN d.path = "unknown_top3" /\ ValidTop3(d.top3)
  ELSE d.sku \in Skus /\ d.path \in Paths \ {"unknown_top3"} /\ d.top3 = <<>>
         /\ d.reason = Nothing

\* The scores of an object are scores, and so are their sums.
LEMMA EvidenceScores ==
  ASSUME NEW e \in Evidence
  PROVE  /\ e.repvit \in Scores /\ e.dino \in Scores /\ e.local \in Scores
         /\ Fused(e) \in Scores /\ Ranked(e) \in Scores
<1>1. e.repvit \in Scores /\ e.dino \in Scores /\ e.local \in Scores
  BY DEF Evidence, Scores
<1>2. Fused(e) \in Scores
  BY <1>1 DEF Fused, Sum2, Scores
<1> QED
  BY <1>1, <1>2 DEF Ranked, Sum2, Scores

LEMMA CandidatesOf ==
  ASSUME NEW e \in Evidence
  PROVE  /\ CandidateUnion(e) \in SUBSET Skus
         /\ \E p, q, r \in CandidateUnion(e) : p # q /\ q # r /\ p # r
<1>1. DinoTop \in Nat /\ DinoTop >= 3
  BY PolicyBounds
<1>2. Best(e.repvit, 2) \subseteq Skus
  BY DEF Best
<1> QED
  BY <1>1, <1>2, EvidenceScores, ThreeAreBest DEF CandidateUnion

LEMMA NamedIs ==
  ASSUME NEW s \in Skus, NEW path \in Paths \ {"unknown_top3"}
  PROVE  WellFormed(Named(s, path))
BY NothingIsNoProduct DEF Named, WellFormed

\* An object left unknown is shown with three products to choose from.
LEMMA UnknownIs ==
  ASSUME NEW e \in Evidence, NEW score \in Scores, NEW reason,
         NEW cands \in {Skus, CandidateUnion(e)}
  PROVE  WellFormed(Unknown(score, cands, reason))
<1>1. cands \in SUBSET Skus /\ \E p, q, r \in cands : p # q /\ q # r /\ p # r
  <2>1. CASE cands = Skus
    <3>1. 1 \in cands /\ 2 \in cands /\ 3 \in cands
      BY <2>1, SkusFacts
    <3> QED
      BY <2>1, <3>1
  <2>2. CASE cands = CandidateUnion(e)
    BY <2>2, CandidatesOf
  <2> QED
    BY <2>1, <2>2
<1>2. ValidTop3(Top3(score, cands))
  BY <1>1, Top3Valid
<1> QED
  BY <1>2 DEF Unknown, WellFormed

LEMMA BestOf ==
  ASSUME NEW e \in Evidence, NEW score \in Scores
  PROVE  Top1(score, Skus) \in Skus /\ Top1(score, CandidateUnion(e)) \in Skus
BY CandidatesOf, SkusFacts, Top1Is

\* Every rule decides well: a product, or three to choose from.
LEMMA DecisionsAre ==
  ASSUME NEW e \in Evidence
  PROVE  /\ Direct(e) # Nothing => WellFormed(Direct(e))
         /\ WellFormed(AfterRecheck(e)) /\ WellFormed(AfterLocalRecheck(e))
         /\ WellFormed(DinoFailure(e))
         /\ \A rule : WellFormed(FusionDecision(rule, e))
<1> DEFINE C == CandidateUnion(e)
<1>1. \A reason : /\ WellFormed(Unknown(Fused(e), Skus, reason))
                  /\ WellFormed(Unknown(e.repvit, Skus, reason))
                  /\ WellFormed(Unknown(Ranked(e), C, reason))
  BY EvidenceScores, UnknownIs
<1>2. /\ Top1(e.repvit, Skus) \in Skus /\ Top1(Fused(e), Skus) \in Skus
      /\ Top1(Ranked(e), C) \in Skus
  BY EvidenceScores, BestOf
<1>3. {"repvit_direct", "dinov3_confirmed", "fusion_ranked"}
        \subseteq Paths \ {"unknown_top3"}
  BY DEF Paths
<1>4. \A s \in Skus : /\ WellFormed(Named(s, "repvit_direct"))
                      /\ WellFormed(Named(s, "dinov3_confirmed"))
                      /\ WellFormed(Named(s, "fusion_ranked"))
  BY <1>3, NamedIs
<1> HIDE DEF C
<1>5. Direct(e) # Nothing => WellFormed(Direct(e))
  BY <1>2, <1>4 DEF Direct
<1>6. WellFormed(AfterRecheck(e))
  BY <1>1, <1>2, <1>4 DEF AfterRecheck
<1>7. WellFormed(AfterLocalRecheck(e))
  BY <1>1, <1>2, <1>4 DEF AfterLocalRecheck, C
<1>8. WellFormed(DinoFailure(e))
  BY <1>1 DEF DinoFailure
<1>9. ASSUME NEW rule
      PROVE  WellFormed(FusionDecision(rule, e))
  BY <1>1, <1>2, <1>4 DEF FusionDecision, C
<1> QED
  BY <1>5, <1>6, <1>7, <1>8, <1>9

-----------------------------------------------------------------------------
(* The inductive invariant.                                                 *)

\* What the rules and the gates may say of an object.
Verdicts(e) ==
  {Nothing, Direct(e), Recheck(e), DinoFailure(e)} \cup DirectGate(e) \cup FusionGate(e)

AllVerdicts == UNION {Verdicts(e) : e \in Samples}

\* The decisions an object may be left with: of all the evidence, only its own.
Final(d, e) ==
  \/ cfg.path = "rtx5080" /\ d \in DirectGate(e) /\ d # Nothing
  \/ cfg.path = "rtx5080" /\ d \in FusionGate(e)
  \/ cfg.path # "rtx5080" /\ Promise!Sure(e) /\ d = Direct(e)
  \/ cfg.path # "rtx5080" /\ ~Promise!Sure(e) /\ d = Recheck(e)
  \/ cfg.path \in {"serial", "batch"} /\ ~Promise!Sure(e) /\ d = DinoFailure(e)

Undecided(d, e) ==
  d = Nothing /\ (cfg.path # "rtx5080" => ~Promise!Sure(e))

\* The order is one of all the objects of the scene, as its path sorts them.
Ordered ==
  /\ order \in Enumerations(scene)
  /\ cfg.path # "static" => order \in SortedProposals

Typed ==
  /\ cfg \in Configs /\ scene \in Scenes /\ evidence \in [Boxes(scene) -> Samples]
  /\ pc \in {"detect", "classify", "recheck", "aggregate", "composed", "answered",
             "failed"}
  /\ order = <<>> \/ Ordered
  /\ decisions \in Seq(AllVerdicts) /\ Len(decisions) <= Len(order)
  /\ todo \subseteq DOMAIN decisions
  /\ rechecked \in Nat /\ rechecked <= Len(order)
  /\ elapsed \in Nat /\ charged \in Nat

\* Objects that wait for DINO have no decision, the others their last one.
Settled ==
  \A i \in DOMAIN decisions :
    IF i \in todo THEN Undecided(decisions[i], Of(i)) ELSE Final(decisions[i], Of(i))

\* How far the scan is.
Staged ==
  /\ pc = "detect" => order = <<>> /\ decisions = <<>> /\ rechecked = 0
  /\ pc \in {"classify", "recheck", "aggregate"} =>
       Ordered /\ (cfg.path = "rtx5080" => RetakeReasons({}) = {})
  /\ pc = "classify" /\ cfg.path # "serial" => decisions = <<>> /\ rechecked = 0
  /\ cfg.path = "serial" => todo = {} /\ rechecked <= Len(decisions)
  /\ pc = "recheck" => /\ cfg.path # "serial" /\ Len(decisions) = Len(order)
                       /\ todo # {} => rechecked > 0
  /\ pc \in {"aggregate", "composed", "answered"} =>
       todo = {} /\ Len(decisions) = Len(order)

\* Only the batch path without CUDA events charges more than has passed, for a recheck.
Timed ==
  charged <= elapsed \/ (cfg.path = "batch" /\ ~cfg.cuda /\ rechecked > 0)

Course ==
  IF rechecked > 0 THEN <<"detecting", "classifying", "rechecking">>
                   ELSE <<"detecting", "classifying">>

\* What has been reported, from how far the scan is.
Phased ==
  Reference =>
    /\ pc = "detect" => phases = <<>>
    /\ pc = "classify" /\ cfg.path = "serial" => phases = Course
    /\ pc \in {"classify", "recheck"} /\ cfg.path = "batch" =>
         phases = <<"detecting", "classifying">>
    /\ pc = "aggregate" => phases = Course
    /\ pc \in {"composed", "answered"} => phases = Append(Course, "aggregating")

Reported ==
  [type |-> "reference", objects |-> Objects, counts |-> CountsOf(Objects),
   unknown |-> Cardinality(UnknownIds(Objects)), rechecked |-> rechecked,
   inference |-> charged, total |-> elapsed, show |-> Present(Objects)]

\* The result, once composed, is made of what the scan holds.
Resulted ==
  /\ pc \notin {"composed", "answered"} => result = Nothing
  /\ pc \in {"composed", "answered"} =>
       \/ Reference /\ Ordered /\ result = Reported
       \/ /\ cfg.path = "rtx5080" /\ Ordered /\ RetakeReasons({}) = {}
          /\ result = Accepted
       \/ cfg.path = "static" /\ Ordered /\ result = [type |-> "batch", objects |-> Objects]
       \/ /\ cfg.path = "rtx5080" /\ order = <<>>
          /\ \E capture \in Captures :
               RetakeReasons(capture) # {} /\ result = Retake(RetakeReasons(capture))

IInv == Typed /\ Settled /\ Staged /\ Timed /\ Phased /\ Resulted

-----------------------------------------------------------------------------
(* The promise is stated with the rules of the same module.                 *)

LEMMA SameCardinality == \A S : Promise!Cardinality(S) = Cardinality(S)
BY DEF Promise!Cardinality, Promise!IsFiniteSet, Cardinality, IsFiniteSet

LEMMA SameBest ==
  /\ \A score, s, t : Promise!Before(score, s, t) = Before(score, s, t)
  /\ \A score, cands : Promise!Top1(score, cands) = Top1(score, cands)
  /\ \A score, cands : Promise!Margin(score, cands) = Margin(score, cands)
  /\ \A score, cands : Promise!Top3(score, cands) = Top3(score, cands)
  /\ \A score, k : Promise!Best(score, k) = Best(score, k)
<1>1. \A score, cands : Promise!Top1(score, cands) = Top1(score, cands)
  BY DEF Promise!Top1, Top1, Promise!Before, Before
<1>2. \A score, cands : Promise!Margin(score, cands) = Margin(score, cands)
  BY <1>1 DEF Promise!Margin, Margin
<1>3. \A score, cands : Promise!Top3(score, cands) = Top3(score, cands)
  BY <1>1 DEF Promise!Top3, Top3
<1>4. \A score, k : Promise!Best(score, k) = Best(score, k)
  BY SameCardinality DEF Promise!Best, Best, Promise!Before, Before, Promise!Skus, Skus
<1>5. \A score, s, t : Promise!Before(score, s, t) = Before(score, s, t)
  BY DEF Promise!Before, Before
<1> QED
  BY <1>1, <1>2, <1>3, <1>4, <1>5

LEMMA SameRules ==
  /\ Promise!Skus = Skus
  /\ \A e : /\ Promise!Direct(e) = Direct(e)
            /\ Promise!AfterRecheck(e) = AfterRecheck(e)
            /\ Promise!AfterLocalRecheck(e) = AfterLocalRecheck(e)
            /\ Promise!DinoFailure(e) = DinoFailure(e)
            /\ Promise!Ranked(e) = Ranked(e)
            /\ Promise!CandidateUnion(e) = CandidateUnion(e)
  /\ \A rule, e : Promise!FusionDecision(rule, e) = FusionDecision(rule, e)
  /\ \A e, s : /\ Promise!LocalAgrees(e, s) = LocalAgrees(e, s)
               /\ Promise!GlobalsAgree(e, s) = GlobalsAgree(e, s)
<1>1. Promise!Skus = Skus
  BY DEF Promise!Skus, Skus
<1>2. \A s, path : Promise!Named(s, path) = Named(s, path)
  BY DEF Promise!Named, Named
<1>3. \A score, cands, reason :
        Promise!Unknown(score, cands, reason) = Unknown(score, cands, reason)
  BY SameBest DEF Promise!Unknown, Unknown
<1>4. \A e : Promise!Fused(e) = Fused(e)
  BY <1>1 DEF Promise!Fused, Fused, Promise!Sum2, Sum2
<1>5. \A e : Promise!Ranked(e) = Ranked(e)
  BY <1>1, <1>4 DEF Promise!Ranked, Ranked, Promise!Sum2, Sum2
<1>6. \A e : Promise!CandidateUnion(e) = CandidateUnion(e)
  BY SameBest DEF Promise!CandidateUnion, CandidateUnion
<1>7. \A e : Promise!Direct(e) = Direct(e)
  BY <1>1, <1>2, SameBest DEF Promise!Direct, Direct
<1>8. \A e : Promise!AfterRecheck(e) = AfterRecheck(e)
  BY <1>1, <1>2, <1>3, <1>4, SameBest DEF Promise!AfterRecheck, AfterRecheck
<1>9. \A e : Promise!AfterLocalRecheck(e) = AfterLocalRecheck(e)
  BY <1>1, <1>2, <1>3, <1>4, <1>5, <1>6, SameBest
  DEF Promise!AfterLocalRecheck, AfterLocalRecheck
<1>10. \A e : Promise!DinoFailure(e) = DinoFailure(e)
  BY <1>1, <1>3 DEF Promise!DinoFailure, DinoFailure
<1>11. \A e, s : /\ Promise!LocalAgrees(e, s) = LocalAgrees(e, s)
                /\ Promise!GlobalsAgree(e, s) = GlobalsAgree(e, s)
  BY <1>1, <1>6, SameBest
  DEF Promise!LocalAgrees, LocalAgrees, Promise!GlobalsAgree, GlobalsAgree
<1>12. \A rule, e : Promise!Accepts(rule, e) = Accepts(rule, e)
  BY <1>5, <1>6, <1>11, SameBest DEF Promise!Accepts, Accepts
<1>13. \A rule : Promise!Reason(rule) = Reason(rule)
  BY DEF Promise!Reason, Reason
<1>14. \A rule, e : Promise!FusionDecision(rule, e) = FusionDecision(rule, e)
  BY <1>2, <1>3, <1>5, <1>6, <1>12, <1>13, SameBest
  DEF Promise!FusionDecision, FusionDecision
<1> QED
  BY <1>1, <1>5, <1>6, <1>7, <1>8, <1>9, <1>10, <1>11, <1>14

\* A final decision is a product or unknown, as the evidence of the object says.
LEMMA FinalIs ==
  ASSUME NEW e \in Evidence, NEW d, Final(d, e)
  PROVE  /\ d.sku \in Skus \cup {Nothing}
         /\ Promise!Honest(d, e)
         /\ Reference => WellFormed(d)
<1>1. Promise!Sure(e) <=> Direct(e) # Nothing /\ (cfg.path = "static" => e.agree)
  BY SameRules DEF Promise!Sure
<1>2. CASE cfg.path = "rtx5080"
  <2>1. Promise!Nameable(e) = {t \in Skus : (e.agree /\ t = Top1(e.repvit, Skus)) \/ Agreed(e, t)}
    BY <1>2, SameRules, SameBest DEF Promise!Nameable, Agreed
  <2>2. CASE d \in DirectGate(e) /\ d # Nothing
    <3>1. e.agree /\ d.sku = Top1(e.repvit, Skus)
      BY <2>2 DEF DirectGate, Named
    <3>2. d.sku \in Skus
      BY <3>1, BestOf, EvidenceScores
    <3> QED
      BY <1>2, <2>1, <3>1, <3>2, NothingIsNoProduct DEF Promise!Honest, Reference
  <2>3. CASE d \in FusionGate(e)
    <3>1. d.sku = Nothing \/ (d.sku \in Skus /\ Agreed(e, d.sku))
      BY <2>3 DEF FusionGate, Unknown, Named
    <3> QED
      BY <1>2, <2>1, <3>1, NothingIsNoProduct DEF Promise!Honest, Reference
  <2> QED
    BY <1>2, <2>2, <2>3 DEF Final
<1>3. CASE cfg.path # "rtx5080" /\ Promise!Sure(e) /\ d = Direct(e)
  <2>1. WellFormed(d)
    BY <1>1, <1>3, DecisionsAre
  <2>2. d.sku \in Skus
    BY <1>1, <1>3, BestOf, EvidenceScores DEF Direct, Named
  <2>3. Promise!Nameable(e) = {d.sku}
    BY <1>3, SameRules DEF Promise!Nameable
  <2> QED
    BY <2>1, <2>2, <2>3, NothingIsNoProduct DEF Promise!Honest
<1>4. CASE cfg.path # "rtx5080" /\ ~Promise!Sure(e) /\ d = Recheck(e)
  <2>1. WellFormed(d)
    BY <1>4, DecisionsAre DEF Recheck
  <2>2. Promise!Nameable(e) = {d.sku} \ {Nothing}
    BY <1>4, SameRules DEF Promise!Nameable, Recheck
  <2> QED
    BY <2>1, <2>2 DEF Promise!Honest, WellFormed
<1>5. CASE cfg.path \in {"serial", "batch"} /\ ~Promise!Sure(e) /\ d = DinoFailure(e)
  <2>1. WellFormed(d)
    BY <1>5, DecisionsAre
  <2> QED
    BY <1>5, <2>1, SameRules DEF Promise!Honest, WellFormed
<1> QED
  BY <1>2, <1>3, <1>4, <1>5 DEF Final

\* An enumeration lists every proposal of the scene once.
LEMMA EnumerationIs ==
  ASSUME NEW S, IsFiniteSet(S), NEW s \in Enumerations(S)
  PROVE  /\ Cardinality(S) \in Nat /\ s \in Seq(S) /\ Len(s) = Cardinality(S)
         /\ DOMAIN s = 1..Cardinality(S)
         /\ \A i, j \in DOMAIN s : s[i] = s[j] => i = j
         /\ \A p \in S : \E i \in DOMAIN s : s[i] = p
<1> DEFINE n == Cardinality(S)
<1>1. n \in Nat
  BY FS_CardinalityType
<1>2. s \in [1..n -> S] /\ \A i, j \in 1..n : s[i] = s[j] => i = j
  BY DEF Enumerations
<1>3. s \in Seq(S) /\ Len(s) = n /\ DOMAIN s = 1..n
  BY <1>1, <1>2, SeqDef
<1>4. IsFiniteSet(1..n) /\ Cardinality(1..n) = n
  BY <1>1, FS_Interval
<1>5. s \in Injection(1..n, S)
  BY <1>2 DEF Injection, IsInjective
<1>6. s \in Surjection(1..n, S)
  BY <1>4, <1>5, FS_Injection
<1> QED
  BY <1>1, <1>2, <1>3, <1>6 DEF Surjection

\* In a state of the invariant, the objects are those of the scene.
LEMMA OrderIs ==
  ASSUME Typed, Ordered
  PROVE  /\ Cardinality(scene) \in Nat /\ order \in Seq(scene)
         /\ Len(order) = Cardinality(scene) /\ DOMAIN order = 1..Len(order)
         /\ \A i, j \in DOMAIN order : order[i] = order[j] => i = j
         /\ \A p \in scene : \E i \in DOMAIN order : order[i] = p
<1>1. IsFiniteSet(scene)
  BY ScenesAreProposals DEF Typed
<1> QED
  BY <1>1, EnumerationIs DEF Ordered

LEMMA OrderLength ==
  ASSUME Typed
  PROVE  Len(order) \in Nat /\ DOMAIN order = 1..Len(order) /\ order \in Seq(scene)
<1>1. CASE order = <<>>
  BY <1>1
<1>2. CASE Ordered
  BY <1>2, OrderIs
<1> QED
  BY <1>1, <1>2 DEF Typed

LEMMA EvidenceOf ==
  ASSUME Typed, NEW i \in DOMAIN order
  PROVE  Of(i) \in Samples /\ Of(i) \in Evidence
<1>1. order[i] \in scene
  BY OrderLength
<1>2. order[i].box \in Boxes(scene)
  BY <1>1 DEF Boxes
<1> QED
  BY <1>2, SamplesAreEvidence DEF Of, Typed

-----------------------------------------------------------------------------
(* Every step keeps the invariant.                                          *)

\* What the rules say of an object does not change.
LEMMA SameFinal ==
  ASSUME cfg' = cfg
  PROVE  /\ \A d, e : Final(d, e)' <=> Final(d, e)
         /\ \A d, e : Undecided(d, e)' <=> Undecided(d, e)
<1>1. \A e : Promise!Sure(e)' <=> Promise!Sure(e)
  BY DEF Promise!Sure
<1>2. \A e : Recheck(e)' = Recheck(e)
  BY DEF Recheck
<1> QED
  BY <1>1, <1>2 DEF Final, Undecided

LEMMA SettledKept ==
  ASSUME Settled, UNCHANGED <<cfg, evidence, order, decisions, todo>>
  PROVE  Settled'
<1>1. \A i : Of(i)' = Of(i)
  BY DEF Of
<1> QED
  BY <1>1, SameFinal DEF Settled

LEMMA VerdictsSame ==
  ASSUME cfg' = cfg
  PROVE  AllVerdicts' = AllVerdicts
<1>1. \A e : Verdicts(e)' = Verdicts(e)
  BY DEF Verdicts, Recheck
<1> QED
  BY <1>1 DEF AllVerdicts

LEMMA OrderedSame ==
  ASSUME UNCHANGED <<cfg, scene>>
  PROVE  /\ SortedProposals' = SortedProposals
         /\ order' = order => (Ordered' <=> Ordered)
         /\ \A capture : RetakeReasons(capture)' = RetakeReasons(capture)
<1>1. \A p : Key(p)' = Key(p)
  BY DEF Key
<1>2. SortedProposals' = SortedProposals
  BY <1>1 DEF SortedProposals
<1>3. \A capture : RetakeReasons(capture)' = RetakeReasons(capture)
  BY DEF RetakeReasons
<1> QED
  BY <1>2, <1>3 DEF Ordered

LEMMA VerdictIn ==
  ASSUME NEW e \in Samples, NEW d,
         Final(d, e) \/ d \in Verdicts(e)
  PROVE  d \in AllVerdicts
<1>1. d \in Verdicts(e)
  BY DEF Final, Verdicts
<1> QED
  BY <1>1 DEF AllVerdicts

\* A phase is reported once.
LEMMA Reports ==
  ASSUME phases \in {<<"detecting", "classifying">>,
                     <<"detecting", "classifying", "rechecking">>}
  PROVE  /\ Report("rechecking") =>
              phases' = <<"detecting", "classifying", "rechecking">>
         /\ Report("aggregating") => phases' = Append(phases, "aggregating")
<1>1. CASE phases = <<"detecting", "classifying">>
  <2>1. DOMAIN phases = {1, 2} /\ phases[1] = "detecting" /\ phases[2] = "classifying"
    BY <1>1
  <2> QED
    BY <1>1, <2>1 DEF Report
<1>2. CASE phases = <<"detecting", "classifying", "rechecking">>
  <2>1. DOMAIN phases = {1, 2, 3} /\ phases[1] = "detecting"
        /\ phases[2] = "classifying" /\ phases[3] = "rechecking"
    BY <1>2
  <2> QED
    BY <1>2, <2>1 DEF Report
<1> QED
  BY <1>1, <1>2

\* The same scan has the same result.
LEMMA ResultedSame ==
  ASSUME Resulted,
         UNCHANGED <<cfg, scene, evidence, order, decisions, rechecked, elapsed, charged,
                     result>>,
         (pc \in {"composed", "answered"}) <=> (pc' \in {"composed", "answered"})
  PROVE  Resulted'
<1>1. Objects' = Objects
  BY DEF Objects
<1>2. /\ CountsOf(Objects)' = CountsOf(Objects) /\ UnknownIds(Objects)' = UnknownIds(Objects)
      /\ Present(Objects)' = Present(Objects)
  BY <1>1 DEF CountsOf, Present, WeakIds, OverlappingIds, UnknownIds, Show
<1>3. Reported' = Reported /\ Accepted' = Accepted
  BY <1>1, <1>2 DEF Reported, Accepted
<1>4. \A reasons : Retake(reasons)' = Retake(reasons)
  BY DEF Retake
<1>5. (Ordered' <=> Ordered) /\ \A capture : RetakeReasons(capture)' = RetakeReasons(capture)
  BY OrderedSame
<1>6. Reference' <=> Reference
  BY DEF Reference
<1> QED
  BY <1>1, <1>3, <1>4, <1>5, <1>6 DEF Resulted

LEMMA InitInv == Init => IInv
<1> SUFFICES ASSUME Init
             PROVE  IInv
  OBVIOUS
<1>1. Typed
  BY DEF Init, Typed
<1>2. Settled
  BY DEF Init, Settled
<1>3. Staged
  BY DEF Init, Staged
<1>4. Timed /\ Phased /\ Resulted
  BY DEF Init, Timed, Phased, Resulted
<1> QED
  BY <1>1, <1>2, <1>3, <1>4 DEF IInv

LEMMA DetectInv == ASSUME IInv, Detect PROVE IInv'
<1> USE DEF Detect, Spend
<1>1. order' \in Enumerations(scene) /\ Ordered'
  BY OrderedSame, ConfigsAreKnown DEF Ordered, Reference, SortedProposals, IInv, Typed
<1>2. Len(order') \in Nat
  BY <1>1, EnumerationIs, ScenesAreProposals DEF IInv, Typed
<1>3. decisions = <<>> /\ todo = {} /\ rechecked = 0
  BY DEF IInv, Staged, Typed
<1>4. Typed'
  BY <1>1, <1>2, <1>3, VerdictsSame DEF IInv, Typed
<1>5. Settled'
  BY <1>3 DEF Settled
<1>6. Staged'
  BY <1>1, <1>3 DEF Staged
<1>7. Timed' /\ Phased' /\ Resulted'
  BY <1>3 DEF IInv, Typed, Timed, Phased, Resulted, Course, Reference
<1> QED
  BY <1>4, <1>5, <1>6, <1>7 DEF IInv

LEMMA GateInv == ASSUME IInv, Gate PROVE IInv'
<1> USE DEF Gate, Spend
<1>1. decisions = <<>> /\ todo = {} /\ rechecked = 0 /\ order = <<>>
  BY DEF IInv, Staged, Typed
<1>2. PICK capture \in Captures :
        IF RetakeReasons(capture) # {}
        THEN /\ result' = Retake(RetakeReasons(capture)) /\ pc' = "composed"
             /\ UNCHANGED order
        ELSE /\ order' \in SortedProposals /\ pc' = "classify" /\ UNCHANGED result
  OBVIOUS
<1>3. Settled'
  BY <1>1 DEF Settled
<1>4. Timed' /\ Phased'
  BY <1>1, <1>2 DEF IInv, Typed, Timed, Phased, Course, Reference
<1>5. CASE RetakeReasons(capture) # {}
  <2>1. Typed'
    BY <1>1, <1>2, <1>5, VerdictsSame DEF IInv, Typed
  <2>2. Staged'
    BY <1>1, <1>2, <1>5 DEF Staged
  <2>3. RetakeReasons(capture)' = RetakeReasons(capture)
        /\ Retake(RetakeReasons(capture))' = Retake(RetakeReasons(capture))
    BY OrderedSame DEF Retake
  <2>4. Resulted'
    BY <1>1, <1>2, <1>5, <2>3 DEF Resulted
  <2> QED
    BY <1>3, <1>4, <2>1, <2>2, <2>4 DEF IInv
<1>6. CASE RetakeReasons(capture) = {}
  <2>1. order' \in Enumerations(scene) /\ Ordered'
    BY <1>2, <1>6, OrderedSame DEF Ordered, SortedProposals
  <2>2. Len(order') \in Nat
    BY <2>1, EnumerationIs, ScenesAreProposals DEF IInv, Typed
  <2>3. Typed'
    BY <1>1, <1>2, <1>6, <2>1, <2>2, VerdictsSame DEF IInv, Typed
  <2>4. RetakeReasons({})' = {}
    BY <1>6, OrderedSame DEF RetakeReasons
  <2>5. Staged'
    BY <1>1, <1>2, <1>6, <2>1, <2>4 DEF Staged
  <2>6. Resulted'
    BY <1>2, <1>6 DEF IInv, Resulted
  <2> QED
    BY <1>3, <1>4, <2>3, <2>5, <2>6 DEF IInv
<1> QED
  BY <1>5, <1>6

\* The object is decided from its own evidence, or a model has failed.
LEMMA InferInv == ASSUME IInv, Infer PROVE IInv'
<1> DEFINE i == Decided + 1
           e == Of(i)
<1>1. Decided \in Nat /\ Len(order) \in Nat /\ i \in 1..Len(order) /\ i \in DOMAIN order
  BY OrderLength DEF Infer, IInv, Typed, Decided
<1>2. e \in Samples /\ e \in Evidence
  BY <1>1, EvidenceOf DEF IInv
<1>3. PICK d : /\ decisions' = Append(decisions, d) /\ Final(d, e)
               /\ \/ UNCHANGED <<rechecked, phases>>
                  \/ rechecked' = rechecked + 1 /\ Report("rechecking")
               /\ \E host, stages \in 1..4 : stages <= host /\ Spend(host, stages)
  <2>1. CASE /\ Direct(e) # Nothing
             /\ decisions' = Append(decisions, Direct(e))
             /\ Spend(2, IF cfg.cuda THEN 1 ELSE 2) /\ UNCHANGED <<rechecked, phases>>
    <3>1. Final(Direct(e), e)
      BY <2>1, SameRules DEF Infer, Final, Promise!Sure
    <3>2. \E host, stages \in 1..4 : stages <= host /\ Spend(host, stages)
      BY <2>1
    <3> QED
      BY <2>1, <3>1, <3>2
  <2>2. CASE /\ Direct(e) = Nothing
             /\ \E d \in {Recheck(e), DinoFailure(e)} : decisions' = Append(decisions, d)
             /\ rechecked' = rechecked + 1 /\ Report("rechecking")
             /\ Spend(4, IF cfg.cuda THEN 2 ELSE 4)
    <3>1. Final(Recheck(e), e) /\ Final(DinoFailure(e), e)
      BY <2>2, SameRules DEF Infer, Final, Promise!Sure
    <3>2. \E host, stages \in 1..4 : stages <= host /\ Spend(host, stages)
      BY <2>2
    <3> QED
      BY <2>2, <3>1, <3>2
  <2> QED
    BY <2>1, <2>2 DEF Infer
<1>4. /\ decisions' \in Seq(AllVerdicts) /\ Len(decisions') = Decided + 1
      /\ \A j \in DOMAIN decisions' : decisions'[j] = IF j = i THEN d ELSE decisions[j]
      /\ DOMAIN decisions' = 1..i
  BY <1>1, <1>2, <1>3, VerdictIn DEF IInv, Typed, Decided
<1>5. todo = {} /\ rechecked <= Decided /\ rechecked \in Nat
      /\ rechecked' \in Nat /\ rechecked' <= Decided + 1
  BY <1>1, <1>3 DEF Infer, IInv, Staged, Typed, Decided
<1>6. Ordered' /\ Ordered
  BY OrderedSame DEF Infer, IInv, Staged
<1>7. elapsed' \in Nat /\ charged' \in Nat /\ charged' <= elapsed'
  BY <1>3 DEF IInv, Typed, Timed, Infer, Spend
<1>8. Typed'
  BY <1>1, <1>4, <1>5, <1>6, <1>7, VerdictsSame DEF IInv, Typed, Infer
<1>9. Settled'
  <2>1. \A j : Of(j)' = Of(j)
    BY DEF Of, Infer
  <2>2. \A j \in DOMAIN decisions : Final(decisions[j], Of(j))
    BY <1>5 DEF IInv, Settled
  <2>3. \A j \in DOMAIN decisions' : Final(decisions'[j], Of(j))
    BY <1>1, <1>3, <1>4, <2>2 DEF IInv, Typed, Decided
  <2> QED
    BY <1>5, <2>1, <2>3, SameFinal DEF Settled, Infer
<1>10. Staged'
  BY <1>4, <1>5, <1>6 DEF Infer, Staged
<1>11. Phased'
  <2>1. phases = Course
    BY DEF IInv, Phased, Infer, Reference
  <2>2. CASE UNCHANGED <<rechecked, phases>>
    BY <2>1, <2>2 DEF Course, Phased, Infer
  <2>3. CASE rechecked' = rechecked + 1 /\ Report("rechecking")
    <3>1. phases' = Course'
      BY <1>5, <2>1, <2>3, Reports DEF Course
    <3> QED
      BY <3>1 DEF Phased, Infer
  <2> QED
    BY <1>3, <2>2, <2>3
<1>12. Timed' /\ Resulted'
  BY <1>7 DEF Timed, Resulted, IInv, Infer
<1> QED
  BY <1>8, <1>9, <1>10, <1>11, <1>12 DEF IInv

LEMMA InferDoneInv == ASSUME IInv, InferDone PROVE IInv'
<1> USE DEF InferDone
<1>1. Ordered' /\ AllVerdicts' = AllVerdicts
  BY OrderedSame, VerdictsSame DEF IInv, Staged
<1>2. Typed'
  BY <1>1 DEF IInv, Typed
<1>3. Settled'
  BY SettledKept DEF IInv
<1>4. Staged'
  BY <1>1 DEF IInv, Staged, Decided
<1>5. Timed' /\ Phased' /\ Resulted'
  BY DEF IInv, Timed, Phased, Course, Reference, Resulted
<1> QED
  BY <1>2, <1>3, <1>4, <1>5 DEF IInv

\* The first pass over a batch: what it leaves open is what waits.
LEMMA ScoredInv ==
  ASSUME IInv, pc = "classify", cfg.path # "serial", NEW d, Scored(d),
         NEW host \in Nat, NEW stages \in 0..host, Spend(host, stages),
         DOMAIN d = DOMAIN order,
         \A i \in DOMAIN order :
           /\ d[i] \in Verdicts(Of(i))
           /\ IF d[i] = Nothing THEN Undecided(d[i], Of(i)) ELSE Final(d[i], Of(i)),
         d = [i \in DOMAIN d |-> d[i]]
  PROVE  IInv'
<1> USE DEF Scored, Spend
<1>1. Ordered /\ Ordered' /\ AllVerdicts' = AllVerdicts
  BY OrderedSame, VerdictsSame DEF IInv, Staged
<1>2. Len(order) \in Nat /\ DOMAIN order = 1..Len(order)
  BY OrderLength DEF IInv
<1>3. \A i \in DOMAIN order : d[i] \in AllVerdicts
  BY EvidenceOf, VerdictIn DEF IInv
<1>4. d \in Seq(AllVerdicts) /\ Len(d) = Len(order)
  <2>1. d \in [1..Len(order) -> AllVerdicts]
    BY <1>2, <1>3
  <2> QED
    BY <1>2, <2>1, SeqDef
<1>5. /\ Rejects(d) \subseteq 1..Len(order) /\ Cardinality(Rejects(d)) \in Nat
      /\ Cardinality(Rejects(d)) <= Len(order)
      /\ Rejects(d) # {} => Cardinality(Rejects(d)) > 0
  <2>1. Rejects(d) \subseteq 1..Len(order)
    BY <1>2 DEF Rejects
  <2>2. IsFiniteSet(1..Len(order)) /\ Cardinality(1..Len(order)) = Len(order)
    BY <1>2, FS_Interval
  <2>3. IsFiniteSet(Rejects(d)) /\ Cardinality(Rejects(d)) <= Len(order)
    BY <2>1, <2>2, FS_Subset
  <2> QED
    BY <2>1, <2>3, FS_CardinalityType, FS_EmptySet
<1>6. elapsed' \in Nat /\ charged' \in Nat /\ Timed'
  BY DEF IInv, Typed, Timed, Staged
<1>7. Typed'
  BY <1>1, <1>2, <1>4, <1>5, <1>6 DEF IInv, Typed
<1>8. Settled'
  <2>1. \A j : Of(j)' = Of(j)
    BY DEF Of
  <2>2. \A i \in DOMAIN order : IF i \in todo' THEN Undecided(d[i], Of(i)) ELSE Final(d[i], Of(i))
    BY DEF Rejects
  <2> QED
    BY <2>1, <2>2, SameFinal DEF Settled
<1>9. Staged'
  BY <1>1, <1>4, <1>5, OrderedSame DEF IInv, Staged
<1>10. Phased' /\ Resulted'
  BY DEF IInv, Phased, Course, Reference, Resulted
<1> QED
  BY <1>6, <1>7, <1>8, <1>9, <1>10 DEF IInv

LEMMA ScoreAllInv == ASSUME IInv, ScoreAll PROVE IInv'
<1> DEFINE d == [i \in DOMAIN order |-> Direct(Of(i))]
<1>1. \A i \in DOMAIN order :
        /\ d[i] \in Verdicts(Of(i))
        /\ IF d[i] = Nothing THEN Undecided(d[i], Of(i)) ELSE Final(d[i], Of(i))
  BY SameRules DEF ScoreAll, Verdicts, Undecided, Final, Promise!Sure
<1>2. \E host \in Nat : \E stages \in 0..host : Spend(host, stages)
  <2>1. CASE order = <<>>
    <3>1. Spend(0, 0)
      BY <2>1 DEF ScoreAll, Spend, IInv, Typed
    <3> QED
      BY <3>1
  <2>2. CASE order # <<>>
    <3>1. Spend(2, 2)
      BY <2>2 DEF ScoreAll
    <3> QED
      BY <3>1
  <2> QED
    BY <2>1, <2>2
<1>3. Scored(d) /\ DOMAIN d = DOMAIN order /\ d = [i \in DOMAIN d |-> d[i]]
      /\ pc = "classify" /\ cfg.path # "serial"
  BY DEF ScoreAll
<1> HIDE DEF d
<1> QED
  BY <1>1, <1>2, <1>3, ScoredInv

LEMMA ScoreTightContextInv == ASSUME IInv, ScoreTightContext PROVE IInv'
<1> DEFINE d == [i \in DOMAIN order |-> IF Of(i).agree THEN Direct(Of(i)) ELSE Nothing]
<1>1. \A i \in DOMAIN order :
        /\ d[i] \in Verdicts(Of(i))
        /\ IF d[i] = Nothing THEN Undecided(d[i], Of(i)) ELSE Final(d[i], Of(i))
  BY SameRules DEF ScoreTightContext, Verdicts, Undecided, Final, Promise!Sure
<1>2. Scored(d) /\ DOMAIN d = DOMAIN order /\ d = [i \in DOMAIN d |-> d[i]]
      /\ pc = "classify" /\ cfg.path # "serial" /\ Spend(2, 2)
  BY DEF ScoreTightContext
<1> HIDE DEF d
<1> QED
  BY <1>1, <1>2, ScoredInv

LEMMA ScorePairsInv == ASSUME IInv, ScorePairs PROVE IInv'
<1>1. PICK d \in [DOMAIN order -> UNION {DirectGate(Of(i)) : i \in DOMAIN order}] :
        (\A i \in DOMAIN order : d[i] \in DirectGate(Of(i))) /\ Scored(d)
  BY DEF ScorePairs
<1>2. \A i \in DOMAIN order :
        /\ d[i] \in Verdicts(Of(i))
        /\ IF d[i] = Nothing THEN Undecided(d[i], Of(i)) ELSE Final(d[i], Of(i))
  BY <1>1 DEF ScorePairs, Verdicts, Undecided, Final
<1>3. DOMAIN d = DOMAIN order /\ d = [i \in DOMAIN d |-> d[i]]
      /\ pc = "classify" /\ cfg.path # "serial" /\ Spend(3, 3)
  BY <1>1 DEF ScorePairs
<1> QED
  BY <1>1, <1>2, <1>3, ScoredInv

\* DINO decides on some of the objects that wait: each from its own evidence.
LEMMA RecheckInv ==
  ASSUME IInv, pc = "recheck", NEW S \in SUBSET todo, NEW f,
         \A i \in S : Final(f[i], Of(i)),
         decisions' = [i \in DOMAIN decisions |-> IF i \in S THEN f[i] ELSE decisions[i]],
         todo' = todo \ S,
         NEW host \in Nat, NEW stages \in Nat, Spend(host, stages),
         stages <= host \/ (cfg.path = "batch" /\ ~cfg.cuda /\ todo # {}),
         pc' = "recheck" \/ (pc' = "aggregate" /\ ~Reference /\ todo' = {}),
         UNCHANGED <<cfg, scene, evidence, order, rechecked, phases, result>>
  PROVE  IInv'
<1> USE DEF Spend
<1>1. Ordered /\ Ordered' /\ AllVerdicts' = AllVerdicts
  BY OrderedSame, VerdictsSame DEF IInv, Staged
<1>2. /\ Len(order) \in Nat /\ DOMAIN order = 1..Len(order)
      /\ Len(decisions) = Len(order) /\ DOMAIN decisions = DOMAIN order
      /\ todo \subseteq DOMAIN order
  BY OrderLength DEF IInv, Typed, Staged
<1>3. \A i \in S : f[i] \in AllVerdicts
  BY <1>2, EvidenceOf, VerdictIn DEF IInv
<1>4. decisions' \in Seq(AllVerdicts) /\ Len(decisions') = Len(order)
      /\ DOMAIN decisions' = DOMAIN decisions
  <2>1. \A i \in DOMAIN decisions : decisions[i] \in AllVerdicts
    BY DEF IInv, Typed
  <2>2. decisions' \in [1..Len(order) -> AllVerdicts]
    BY <1>2, <1>3, <2>1
  <2> QED
    BY <1>2, <2>2, SeqDef
<1>5. elapsed' \in Nat /\ charged' \in Nat /\ Timed'
  BY DEF IInv, Typed, Timed, Staged
<1>6. Typed'
  BY <1>1, <1>2, <1>4, <1>5 DEF IInv, Typed
<1>7. Settled'
  <2>1. \A j : Of(j)' = Of(j)
    BY DEF Of
  <2>2. \A i \in DOMAIN decisions :
          IF i \in todo' THEN Undecided(decisions'[i], Of(i)) ELSE Final(decisions'[i], Of(i))
    BY DEF IInv, Settled
  <2> QED
    BY <1>4, <2>1, <2>2, SameFinal DEF Settled
<1>8. Staged'
  BY <1>1, <1>4, OrderedSame DEF IInv, Staged
<1>9. Phased' /\ Resulted'
  BY DEF IInv, Phased, Course, Reference, Resulted
<1> QED
  BY <1>5, <1>6, <1>7, <1>8, <1>9 DEF IInv

\* The objects that wait are not sure, except to the RTX 5080 pipeline.
LEMMA WaitingIs ==
  ASSUME IInv, NEW i \in todo, cfg.path # "rtx5080"
  PROVE  /\ Final(Recheck(Of(i)), Of(i))
         /\ cfg.path = "batch" => Final(DinoFailure(Of(i)), Of(i))
BY DEF IInv, Typed, Settled, Undecided, Final

LEMMA RecheckChunkInv == ASSUME IInv, RecheckChunk PROVE IInv'
<1> DEFINE f == [i \in Chunk |-> Recheck(Of(i))]
           stages == IF cfg.cuda THEN 2 ELSE 3
<1>1. Chunk \in SUBSET todo /\ todo' = todo \ Chunk
  BY DEF RecheckChunk, ChunkDone, Chunk, Rest
<1>2. \A i \in Chunk : Final(f[i], Of(i))
  BY <1>1, WaitingIs DEF RecheckChunk
<1>3. decisions' = [i \in DOMAIN decisions |-> IF i \in Chunk THEN f[i] ELSE decisions[i]]
  BY DEF RecheckChunk, FuseChunk
<1>4. /\ stages \in Nat /\ Spend(2, stages)
      /\ stages <= 2 \/ (cfg.path = "batch" /\ ~cfg.cuda /\ todo # {})
  BY DEF RecheckChunk
<1> HIDE DEF f, stages
<1> QED
  BY <1>1, <1>2, <1>3, <1>4, RecheckInv DEF RecheckChunk, ChunkDone

LEMMA ChunkFailsInv == ASSUME IInv, ChunkFails PROVE IInv'
<1> DEFINE f == [i \in Chunk |-> DinoFailure(Of(i))]
<1>1. Chunk \in SUBSET todo /\ todo' = todo \ Chunk
  BY DEF ChunkFails, ChunkDone, Chunk, Rest
<1>2. \A i \in Chunk : Final(f[i], Of(i))
  BY <1>1, WaitingIs DEF ChunkFails
<1>3. decisions' = [i \in DOMAIN decisions |-> IF i \in Chunk THEN f[i] ELSE decisions[i]]
  BY DEF ChunkFails
<1>4. Spend(1, 1)
  BY DEF ChunkFails
<1> HIDE DEF f
<1> QED
  BY <1>1, <1>2, <1>3, <1>4, RecheckInv DEF ChunkFails, ChunkDone

LEMMA ContextChunkInv == ASSUME IInv, ContextChunk PROVE IInv'
<1> DEFINE f == [i \in Chunk |-> Recheck(Of(i))]
<1>1. Chunk \in SUBSET todo /\ todo' = todo \ Chunk
  BY DEF ContextChunk, ChunkDone, Chunk, Rest
<1>2. \A i \in Chunk : Final(f[i], Of(i))
  BY <1>1, WaitingIs DEF ContextChunk
<1>3. decisions' = [i \in DOMAIN decisions |-> IF i \in Chunk THEN f[i] ELSE decisions[i]]
  BY DEF ContextChunk, FuseChunk
<1>4. Spend(2, 2)
  BY DEF ContextChunk
<1> HIDE DEF f
<1> QED
  BY <1>1, <1>2, <1>3, <1>4, RecheckInv DEF ContextChunk, ChunkDone

LEMMA ScoreRejectionsInv == ASSUME IInv, ScoreRejections PROVE IInv'
<1>1. PICK f \in [todo -> UNION {FusionGate(Of(i)) : i \in todo}] :
        /\ \A i \in todo : f[i] \in FusionGate(Of(i))
        /\ decisions' = [i \in DOMAIN decisions |->
                           IF i \in todo THEN f[i] ELSE decisions[i]]
  BY DEF ScoreRejections
<1>2. \A i \in todo : Final(f[i], Of(i))
  BY <1>1 DEF ScoreRejections, Final
<1>3. PICK S \in SUBSET todo : S = todo
  OBVIOUS
<1>4. todo' = todo \ S /\ todo' = {} /\ Spend(2, 2) /\ ~Reference
  BY <1>3 DEF ScoreRejections, Reference
<1>5. /\ \A i \in S : Final(f[i], Of(i))
      /\ decisions' = [i \in DOMAIN decisions |-> IF i \in S THEN f[i] ELSE decisions[i]]
  BY <1>1, <1>2, <1>3
<1>6. pc = "recheck" /\ pc' = "aggregate"
      /\ UNCHANGED <<cfg, scene, evidence, order, rechecked, phases, result>>
  BY DEF ScoreRejections
<1> QED
  BY <1>4, <1>5, <1>6, RecheckInv

LEMMA BatchDoneInv == ASSUME IInv, BatchDone PROVE IInv'
<1> USE DEF BatchDone
<1>1. Ordered' /\ AllVerdicts' = AllVerdicts
  BY OrderedSame, VerdictsSame DEF IInv, Staged
<1>2. Typed'
  BY <1>1 DEF IInv, Typed
<1>3. Settled'
  BY SettledKept DEF IInv
<1>4. Staged'
  BY <1>1, OrderedSame DEF IInv, Staged
<1>5. Phased'
  BY Reports DEF IInv, Phased, Course, Reference
<1>6. Timed' /\ Resulted'
  BY DEF IInv, Timed, Resulted
<1> QED
  BY <1>2, <1>3, <1>4, <1>5, <1>6 DEF IInv

LEMMA AggregateInv == ASSUME IInv, Aggregate PROVE IInv'
<1> USE DEF Aggregate, Spend
<1>1. Ordered' /\ AllVerdicts' = AllVerdicts /\ RetakeReasons({})' = RetakeReasons({})
  BY OrderedSame, VerdictsSame DEF IInv, Staged
<1>2. Typed'
  BY <1>1 DEF IInv, Typed
<1>3. Settled'
  BY SettledKept DEF IInv
<1>4. Staged'
  BY <1>1 DEF IInv, Staged
<1>5. Phased'
  BY Reports DEF IInv, Phased, Course, Reference
<1>6. Timed'
  BY DEF IInv, Typed, Timed
<1>7. Resulted'
  <2>1. Objects' = Objects
    BY DEF Objects
  <2>2. CASE Reference
    <3>1. result' = Composed /\ Reference'
      BY <2>2 DEF Reference
    <3>2. Present(Objects)' = Present(Objects)
      BY <2>1 DEF Present, WeakIds, OverlappingIds, UnknownIds, Show
    <3>3. CountsOf(Objects)' = CountsOf(Objects) /\ UnknownIds(Objects)' = UnknownIds(Objects)
      BY <2>1 DEF CountsOf, UnknownIds
    <3>4. Composed = Reported'
      BY <2>1, <3>2, <3>3 DEF Composed, Reported
    <3> QED
      BY <1>1, <3>1, <3>4 DEF Resulted
  <2>3. CASE cfg.path = "rtx5080"
    <3>1. result' = Accepted
      BY <2>3 DEF Reference
    <3>2. Accepted' = Accepted
      BY <2>1 DEF Accepted, CountsOf, UnknownIds
    <3> QED
      BY <1>1, <2>3, <3>1, <3>2 DEF Resulted, IInv, Staged
  <2>4. CASE ~Reference /\ cfg.path # "rtx5080"
    <3>1. result' = [type |-> "batch", objects |-> Objects]
      BY <2>4
    <3>2. cfg.path = "static"
      BY <2>4, ConfigsAreKnown DEF IInv, Typed, Reference
    <3> QED
      BY <1>1, <2>1, <3>1, <3>2 DEF Resulted
  <2> QED
    BY <2>2, <2>3, <2>4
<1> QED
  BY <1>2, <1>3, <1>4, <1>5, <1>6, <1>7 DEF IInv

\* Nothing but pc changes: the rest of the invariant is about the same scan.
LEMMA AnswerInv == ASSUME IInv, Answer PROVE IInv'
<1> USE DEF Answer
<1>1. Ordered' <=> Ordered
  BY OrderedSame
<1>2. AllVerdicts' = AllVerdicts
  BY VerdictsSame
<1>3. Typed'
  BY <1>1, <1>2 DEF IInv, Typed
<1>4. Settled'
  BY SettledKept DEF IInv
<1>5. Staged' /\ Timed' /\ Phased'
  BY DEF IInv, Staged, Timed, Phased, Course, Reference
<1>6. Resulted'
  BY ResultedSame DEF IInv
<1> QED
  BY <1>3, <1>4, <1>5, <1>6 DEF IInv

LEMMA FailInv == ASSUME IInv, Fail PROVE IInv'
<1>0. pc' = "failed" /\ result' = Nothing
      /\ UNCHANGED <<cfg, scene, evidence, order, decisions, todo, rechecked, phases,
                     elapsed, charged>>
  BY DEF Fail
<1>1. Ordered' <=> Ordered
  BY <1>0, OrderedSame
<1>2. AllVerdicts' = AllVerdicts
  BY <1>0, VerdictsSame
<1>3. Typed'
  BY <1>0, <1>1, <1>2 DEF IInv, Typed
<1>4. Settled'
  BY <1>0, SettledKept DEF IInv
<1>5. Staged' /\ Timed' /\ Phased' /\ Resulted'
  BY <1>0 DEF IInv, Staged, Timed, Phased, Resulted
<1> QED
  BY <1>3, <1>4, <1>5 DEF IInv

LEMMA StutterInv == ASSUME IInv, UNCHANGED vars PROVE IInv'
<1> USE DEF vars
<1>1. Ordered' <=> Ordered
  BY OrderedSame
<1>2. AllVerdicts' = AllVerdicts /\ RetakeReasons({})' = RetakeReasons({})
  BY VerdictsSame, OrderedSame
<1>3. Typed'
  BY <1>1, <1>2 DEF IInv, Typed
<1>4. Settled'
  BY SettledKept DEF IInv
<1>5. Staged' /\ Timed' /\ Phased'
  BY <1>1, <1>2 DEF IInv, Staged, Timed, Phased, Course, Reference
<1>6. Resulted'
  BY ResultedSame DEF IInv
<1> QED
  BY <1>3, <1>4, <1>5, <1>6 DEF IInv

\* The invariant is inductive.
LEMMA NextInv == ASSUME IInv, [Next]_vars PROVE IInv'
BY DetectInv, GateInv, InferInv, InferDoneInv, ScoreAllInv, ScoreTightContextInv,
   RecheckChunkInv, ChunkFailsInv, ContextChunkInv, BatchDoneInv, ScorePairsInv,
   ScoreRejectionsInv, AggregateInv, AnswerInv, FailInv, StutterInv
DEF Next

LEMMA AlwaysInv == Spec => []IInv
BY InitInv, NextInv, PTL DEF Spec

-----------------------------------------------------------------------------
(* What the invariant says of the result.                                   *)

\* The objects of the result are those of the order, each with its final decision.
LEMMA ObjectsAre ==
  ASSUME IInv, pc \in {"composed", "answered"}, Ordered
  PROVE  /\ DOMAIN Objects = 1..Len(order) /\ Len(order) \in Nat
         /\ DOMAIN Objects = DOMAIN order /\ Len(Objects) = Len(order)
         /\ Objects = <<>> <=> Len(order) = 0
         /\ \A i \in DOMAIN Objects :
              /\ Objects[i].id = i /\ Objects[i].box = order[i].box
              /\ Objects[i].score = order[i].score
              /\ Objects[i].decision = decisions[i] /\ Final(decisions[i], Of(i))
              /\ Of(i) \in Evidence
<1> DEFINE S == {Objects[i] : i \in DOMAIN order}
<1>1. Len(order) \in Nat /\ DOMAIN order = 1..Len(order)
  BY OrderLength DEF IInv
<1>2. DOMAIN Objects = DOMAIN order
  BY DEF Objects
<1>3. Objects \in [1..Len(order) -> S]
  BY <1>1 DEF Objects
<1>4. Objects \in Seq(S) /\ Len(Objects) = Len(order)
  BY <1>1, <1>3, SeqDef
<1>5. \A i \in DOMAIN Objects :
        /\ Objects[i].id = i /\ Objects[i].box = order[i].box
        /\ Objects[i].score = order[i].score /\ Objects[i].decision = decisions[i]
  BY DEF Objects
<1>6. DOMAIN decisions = DOMAIN order /\ todo = {}
  BY <1>1 DEF IInv, Typed, Staged
<1>7. \A i \in DOMAIN order : Final(decisions[i], Of(i)) /\ Of(i) \in Evidence
  BY <1>6, EvidenceOf DEF IInv, Settled
<1>8. Objects = <<>> <=> Len(order) = 0
  BY <1>4, EmptySeq
<1> QED
  BY <1>1, <1>2, <1>4, <1>5, <1>7, <1>8

\* The totals are those of the list, by how they are computed.
LEMMA TallyIs ==
  ASSUME NEW objects
  PROVE  Tally(objects, CountsOf(objects), Cardinality(UnknownIds(objects)))
BY DEF Tally, CountsOf

LEMMA ShowFields ==
  ASSUME NEW state, NEW scope, NEW retake, NEW code, NEW candidates, NEW v,
         v = Show(state, scope, retake, code, candidates)
  PROVE  /\ v.state = state /\ v.scope = scope /\ v.retake = retake /\ v.code = code
         /\ v.candidates = candidates
         /\ state = "needs_retake" => ~v.usable
         /\ state # "needs_retake" => v.usable
BY DEF Show

\* What is shown is well formed, and usable only with objects that do not overlap.
LEMMA ShowIs ==
  ASSUME NEW objects
  PROVE  /\ ValidShow(Present(objects), objects)
         /\ Present(objects).usable => objects # <<>> /\ OverlappingIds(objects) = {}
<1> DEFINE v == Present(objects)
<1>1. OverlappingIds(objects) \subseteq DOMAIN objects
      /\ WeakIds(objects) \subseteq DOMAIN objects
  BY DEF OverlappingIds, WeakIds, UnknownIds
<1>2. CASE objects = <<>>
  <2>1. v = Show("needs_retake", "scan", {}, "no_bread_detected", {})
    BY <1>2 DEF Present
  <2> HIDE DEF v
  <2>2. v.state = "needs_retake" /\ ~v.usable /\ v.candidates = {}
        /\ v.scope = "scan" /\ v.retake = {} /\ v.code = "no_bread_detected"
    BY <2>1, ShowFields
  <2>3. ValidShow(v, objects)
    BY <2>2 DEF ValidShow
  <2> QED
    BY <2>2, <2>3 DEF v
<1>3. CASE objects # <<>> /\ OverlappingIds(objects) # {}
  <2>1. v = Show("needs_retake", "object", OverlappingIds(objects), "separate_breads", {})
    BY <1>3 DEF Present
  <2> HIDE DEF v
  <2>2. v.state = "needs_retake" /\ ~v.usable /\ v.candidates = {} /\ v.scope = "object"
        /\ v.retake = OverlappingIds(objects) /\ v.code = "separate_breads"
    BY <2>1, ShowFields
  <2>3. ValidShow(v, objects)
    BY <1>1, <1>3, <2>2 DEF ValidShow
  <2> QED
    BY <2>2, <2>3 DEF v
<1>4. CASE /\ objects # <<>> /\ OverlappingIds(objects) = {}
           /\ cfg.presentation = 1 /\ WeakIds(objects) # {}
  <2>1. v = Show("needs_retake", "object", WeakIds(objects), "candidate_evidence_weak", {})
    BY <1>4 DEF Present
  <2> HIDE DEF v
  <2>2. v.state = "needs_retake" /\ ~v.usable /\ v.candidates = {} /\ v.scope = "object"
        /\ v.retake = WeakIds(objects) /\ v.code = "candidate_evidence_weak"
    BY <2>1, ShowFields
  <2>3. ValidShow(v, objects)
    BY <1>1, <1>4, <2>2 DEF ValidShow
  <2> QED
    BY <2>2, <2>3 DEF v
<1>5. CASE /\ objects # <<>> /\ OverlappingIds(objects) = {}
           /\ ~(cfg.presentation = 1 /\ WeakIds(objects) # {})
  <2>1. v = Show(IF UnknownIds(objects) = {} THEN "normal" ELSE "unknown", Nothing, {},
                 Nothing, UnknownIds(objects))
    BY <1>5 DEF Present
  <2> HIDE DEF v
  <2>2. CASE UnknownIds(objects) = {}
    <3>1. v.state = "normal" /\ v.usable /\ v.candidates = {} /\ v.scope = Nothing
          /\ v.retake = {} /\ v.code = Nothing
      BY <2>1, <2>2, ShowFields
    <3> QED
      BY <1>5, <3>1 DEF ValidShow, v
  <2>3. CASE UnknownIds(objects) # {}
    <3>1. v.state = "unknown" /\ v.usable /\ v.candidates = UnknownIds(objects)
          /\ v.scope = Nothing /\ v.retake = {} /\ v.code = Nothing
      BY <2>1, <2>3, ShowFields
    <3> QED
      BY <1>5, <2>3, <3>1 DEF ValidShow, v
  <2> QED
    BY <2>2, <2>3
<1> QED
  BY <1>2, <1>3, <1>4, <1>5

\* A course and the last phase.
LEMMA Courses ==
  ASSUME NEW S, NEW x \in S, NEW y \in S, NEW z \in S, NEW last \in S
  PROVE  /\ Append(<<x, y>>, last) = <<x, y, last>>
         /\ Append(<<x, y, z>>, last) = <<x, y, z, last>>
<1> DEFINE a == Append(<<x, y>>, last)
           b == Append(<<x, y, z>>, last)
<1>1. <<x, y>> \in Seq(S) /\ <<x, y, last>> \in Seq(S)
  OBVIOUS
<1>2. <<x, y, z>> \in Seq(S) /\ <<x, y, z, last>> \in Seq(S)
  OBVIOUS
<1>3. a \in Seq(S) /\ Len(a) = 3 /\ a[1] = x /\ a[2] = y /\ a[3] = last
  BY <1>1
<1>4. b \in Seq(S) /\ Len(b) = 4 /\ b[1] = x /\ b[2] = y /\ b[3] = z /\ b[4] = last
  BY <1>2
<1> HIDE DEF a, b
<1>5. a = <<x, y, last>>
  BY <1>1, <1>3, SeqEqual
<1>6. b = <<x, y, z, last>>
  BY <1>2, <1>4, SeqEqual
<1> QED
  BY <1>5, <1>6 DEF a, b

LEMMA ReferenceValid ==
  ASSUME IInv, pc \in {"composed", "answered"}, Reference, Ordered, result = Reported,
         charged <= elapsed
  PROVE  Valid(result) /\ phases \in LegalCourses
<1>1. \A i \in DOMAIN Objects : ValidObject(Objects, i)
  <2> SUFFICES ASSUME NEW i \in DOMAIN Objects
               PROVE  ValidObject(Objects, i)
    OBVIOUS
  <2>1. WellFormed(Objects[i].decision)
    BY ObjectsAre, FinalIs
  <2> QED
    BY <2>1, ObjectsAre, NothingIsNoProduct DEF ValidObject, WellFormed
<1>2. Tally(Objects, CountsOf(Objects), Cardinality(UnknownIds(Objects)))
  BY TallyIs
<1>3. rechecked \in 0..Len(Objects)
  BY ObjectsAre DEF IInv, Typed
<1>4. ValidShow(Present(Objects), Objects)
  BY ShowIs
<1>5. ValidReference(result)
  BY <1>1, <1>2, <1>3, <1>4 DEF ValidReference, Reported
<1>6. Valid(result)
  BY <1>5 DEF Valid, Reported
<1>7. phases = Append(Course, "aggregating")
  BY DEF IInv, Phased
<1>8. phases \in LegalCourses
  <2> DEFINE S == {"detecting", "classifying", "rechecking", "aggregating"}
  <2>1. /\ "detecting" \in S /\ "classifying" \in S /\ "rechecking" \in S
        /\ "aggregating" \in S
    OBVIOUS
  <2> HIDE DEF S
  <2>2. /\ Append(<<"detecting", "classifying">>, "aggregating")
             = <<"detecting", "classifying", "aggregating">>
        /\ Append(<<"detecting", "classifying", "rechecking">>, "aggregating")
             = <<"detecting", "classifying", "rechecking", "aggregating">>
    BY <2>1, Courses
  <2>3. phases = IF rechecked > 0
                 THEN <<"detecting", "classifying", "rechecking", "aggregating">>
                 ELSE <<"detecting", "classifying", "aggregating">>
    BY <1>7, <2>2 DEF Course
  <2> QED
    BY <2>3 DEF LegalCourses
<1> QED
  BY <1>6, <1>8

LEMMA RetakeValid ==
  ASSUME NEW reasons, reasons # {}
  PROVE  Valid(Retake(reasons))
<1> DEFINE r == Retake(reasons)
<1>1. r.objects = <<>> /\ r.counts = <<>> /\ r.unknown = 0 /\ r.type = "candidate"
      /\ r.state = "needs_retake" /\ r.reasons = reasons
      /\ r.manual = (r.attempt >= 3)
  BY DEF Retake
<1> HIDE DEF r
<1>2. UnknownIds(<<>>) = {} /\ DOMAIN <<>> = {}
  BY DEF UnknownIds
<1>3. Tally(<<>>, <<>>, 0)
  BY <1>2, FS_EmptySet DEF Tally
<1>4. ValidCandidate(r)
  BY <1>1, <1>2, <1>3 DEF ValidCandidate
<1> QED
  BY <1>1, <1>4 DEF Valid, r

LEMMA AcceptedValid ==
  ASSUME IInv, pc \in {"composed", "answered"}, cfg.path = "rtx5080", Ordered,
         RetakeReasons({}) = {}
  PROVE  Valid(Accepted)
<1>1. /\ Accepted.objects = Objects /\ Accepted.counts = CountsOf(Objects)
      /\ Accepted.unknown = Cardinality(UnknownIds(Objects))
      /\ Accepted.type = "candidate" /\ Accepted.state = "accepted_scan"
      /\ Accepted.reasons = {} /\ Accepted.attempt = Nothing /\ ~Accepted.manual
  BY DEF Accepted
<1>2. \A i, j \in DOMAIN Objects :
        i < j => ~LexBefore(CentreKey(Objects[j]), CentreKey(Objects[i]))
  <2>1. \A i \in DOMAIN Objects : CentreKey(Objects[i]) = Key(order[i])
    BY ObjectsAre DEF CentreKey, Key
  <2>2. \A i, j \in DOMAIN order : i < j => ~LexBefore(Key(order[j]), Key(order[i]))
    BY DEF Ordered, SortedProposals
  <2> QED
    BY <2>1, <2>2, ObjectsAre
<1>3. Objects # <<>>
  <2>1. scene # {}
    BY DEF RetakeReasons
  <2> QED
    BY <2>1, ObjectsAre, OrderIs DEF IInv
<1>4. ValidCandidate(Accepted)
  BY <1>1, <1>2, <1>3, ObjectsAre, TallyIs DEF ValidCandidate
<1> QED
  BY <1>1, <1>4 DEF Valid

LEMMA InvValidates == IInv => ResultValidates
<1> SUFFICES ASSUME IInv, pc = "composed",
                    ~(cfg.path = "batch" /\ ~cfg.cuda /\ rechecked > 0)
             PROVE  Valid(result) /\ (Reference => phases \in LegalCourses)
  BY DEF ResultValidates
<1>1. CASE Reference /\ Ordered /\ result = Reported
  BY <1>1, ReferenceValid DEF IInv, Timed
<1>2. CASE cfg.path = "rtx5080" /\ Ordered /\ RetakeReasons({}) = {} /\ result = Accepted
  BY <1>2, AcceptedValid DEF Reference
<1>3. CASE cfg.path = "static" /\ result = [type |-> "batch", objects |-> Objects]
  BY <1>3 DEF Reference, Valid
<1>4. CASE /\ cfg.path = "rtx5080"
           /\ \E capture \in Captures :
                RetakeReasons(capture) # {} /\ result = Retake(RetakeReasons(capture))
  BY <1>4, RetakeValid DEF Reference
<1> QED
  BY <1>1, <1>2, <1>3, <1>4 DEF IInv, Resulted

-----------------------------------------------------------------------------
(* What the invariant says of the promise.                                  *)

\* Sorted as the path sorts them, the objects are in reading order.
LEMMA ReadingOrder ==
  ASSUME IInv, Ordered, cfg.path # "static",
         NEW i \in DOMAIN order, NEW j \in DOMAIN order, i < j
  PROVE  Promise!InReadingOrder(order[i].box, order[j].box)
<1> DEFINE a == order[i].box
           b == order[j].box
<1>1. ~LexBefore(Key(order[j]), Key(order[i]))
  BY DEF Ordered, SortedProposals
<1>2. /\ a \in [x : Int, y : Int, w : Int, h : Int]
      /\ b \in [x : Int, y : Int, w : Int, h : Int]
  <2>1. order[i] \in scene /\ order[j] \in scene
    BY OrderIs DEF IInv
  <2> QED
    BY <2>1, ScenesAreProposals DEF IInv, Typed
<1>3. CASE cfg.path = "rtx5080"
  <2> DEFINE k == CentreKey(order[i])
             l == CentreKey(order[j])
  <2>1. /\ k[1] = 2 * a.y + a.h /\ k[2] = 2 * a.x + a.w
        /\ l[1] = 2 * b.y + b.h /\ l[2] = 2 * b.x + b.w
        /\ 1 \in DOMAIN l /\ 2 \in DOMAIN l
    BY DEF CentreKey
  <2>2. ~LexBefore(l, k)
    BY <1>1, <1>3 DEF Key
  <2> HIDE DEF k, l
  <2>3. ~(l[1] < k[1]) /\ (l[1] = k[1] => ~(l[2] < k[2]))
    BY <2>1, <2>2 DEF LexBefore
  <2> HIDE DEF a, b
  <2> QED
    BY <1>2, <1>3, <2>1, <2>3 DEF Promise!InReadingOrder, a, b
<1>4. CASE cfg.path # "rtx5080"
  <2> DEFINE k == CornerKey(order[i])
             l == CornerKey(order[j])
  <2>1. /\ k[1] = a.y /\ k[2] = a.x /\ l[1] = b.y /\ l[2] = b.x
        /\ 1 \in DOMAIN l /\ 2 \in DOMAIN l
    BY DEF CornerKey
  <2>2. ~LexBefore(l, k)
    BY <1>1, <1>4 DEF Key
  <2> HIDE DEF k, l
  <2>3. ~(l[1] < k[1]) /\ (l[1] = k[1] => ~(l[2] < k[2]))
    BY <2>1, <2>2 DEF LexBefore
  <2> HIDE DEF a, b
  <2> QED
    BY <1>2, <1>4, <2>1, <2>3 DEF Promise!InReadingOrder, a, b
<1> QED
  BY <1>3, <1>4

\* A proposal is its box and its score.
LEMMA ProposalIs ==
  ASSUME NEW Box, NEW Score, NEW p \in [box : Box, score : Score]
  PROVE  [box |-> p.box, score |-> p.score] = p
OBVIOUS

\* The objects are those of the scene, once each.
LEMMA ListedIs ==
  ASSUME IInv, pc \in {"composed", "answered"}, Ordered
  PROVE  Promise!Listed(Objects)
<1>1. Len(Objects) = Promise!Cardinality(scene)
  BY ObjectsAre, OrderIs, SameCardinality DEF IInv
<1>2. Promise!Proposals(Objects) = scene
  <2>1. \A i \in DOMAIN order :
          [box |-> order[i].box, score |-> order[i].score] = order[i] /\ order[i] \in scene
    <3>1. \A i \in DOMAIN order : order[i] \in scene
      BY OrderIs DEF IInv
    <3>2. scene \subseteq [box : [x : Int, y : Int, w : Int, h : Int], score : Int]
      BY ScenesAreProposals DEF IInv, Typed
    <3> QED
      BY <3>1, <3>2, ProposalIs
  <2>2. Promise!Proposals(Objects) = {order[i] : i \in DOMAIN order}
    BY <2>1, ObjectsAre DEF Promise!Proposals
  <2> QED
    BY <2>1, <2>2, OrderIs DEF IInv
<1>3. cfg.path # "static" =>
        \A i, j \in DOMAIN Objects :
          i < j => Promise!InReadingOrder(Objects[i].box, Objects[j].box)
  BY ObjectsAre, ReadingOrder
<1> QED
  BY <1>1, <1>2, <1>3 DEF Promise!Listed

LEMMA HonestIs ==
  ASSUME IInv, pc \in {"composed", "answered"}, Ordered, NEW i \in DOMAIN Objects
  PROVE  Promise!Honest(Objects[i].decision, evidence[Objects[i].box])
<1>1. Of(i) = evidence[Objects[i].box]
  BY ObjectsAre DEF Of
<1> QED
  BY <1>1, ObjectsAre, FinalIs

\* The totals count every object of a product, and no other product.
LEMMA TotalsIs ==
  ASSUME IInv, pc \in {"composed", "answered"}, Ordered,
         NEW a, a.objects = Objects, a.counts = CountsOf(Objects)
  PROVE  Promise!Totals(a)
<1> SUFFICES ASSUME NEW s \in Skus
             PROVE  LET n == Cardinality({i \in DOMAIN Objects : Objects[i].decision.sku = s})
                    IN  IF n = 0 THEN s \notin DOMAIN CountsOf(Objects)
                                 ELSE CountsOf(Objects)[s] = n
  BY SameCardinality, SameRules DEF Promise!Totals
<1> DEFINE N == {i \in DOMAIN Objects : Objects[i].decision.sku = s}
           D == {Objects[i].decision.sku : i \in DOMAIN Objects \ UnknownIds(Objects)}
<1>1. IsFiniteSet(N)
  <2>1. IsFiniteSet(DOMAIN Objects)
    BY ObjectsAre, FS_Interval
  <2> QED
    BY <2>1, FS_Subset
<1>2. Cardinality(N) = 0 <=> N = {}
  BY <1>1, FS_EmptySet
<1>3. s \in D <=> N # {}
  BY NothingIsNoProduct DEF UnknownIds
<1>4. DOMAIN CountsOf(Objects) = D /\ \A t \in D :
        CountsOf(Objects)[t] =
          Cardinality({i \in DOMAIN Objects : Objects[i].decision.sku = t})
  BY DEF CountsOf
<1> QED
  BY <1>2, <1>3, <1>4

\* No two objects overlap in an answer whose count may be used.
LEMMA NoOverlap ==
  ASSUME IInv, pc \in {"composed", "answered"}, Ordered, Present(Objects).usable
  PROVE  scene # {} /\ \A p, q \in scene : p # q => ~Overlaps(p.box, q.box)
<1>1. Objects # <<>> /\ OverlappingIds(Objects) = {}
  BY ShowIs
<1>2. scene # {}
  BY <1>1, ObjectsAre, OrderIs, FS_EmptySet DEF IInv
<1>3. ASSUME NEW p \in scene, NEW q \in scene, p # q, Overlaps(p.box, q.box)
      PROVE  FALSE
  <2>1. PICK i \in DOMAIN order, j \in DOMAIN order : order[i] = p /\ order[j] = q
    BY OrderIs DEF IInv
  <2>2. i \in OverlappingIds(Objects)
    BY <1>3, <2>1, ObjectsAre DEF OverlappingIds
  <2> QED
    BY <1>1, <2>2
<1> QED
  BY <1>2, <1>3

LEMMA ClearIs ==
  ASSUME RetakeReasons({}) = {}
  PROVE  Promise!Clear
BY DEF RetakeReasons, Promise!Clear

\* Whatever is composed is a retake or keeps the promise.
LEMMA ResultPromised ==
  ASSUME IInv, pc \in {"composed", "answered"}
  PROVE  \/ Promise!Retaken(result)
         \/ /\ Promise!Listed(result.objects)
            /\ \A i \in DOMAIN result.objects :
                 Promise!Honest(result.objects[i].decision, evidence[result.objects[i].box])
            /\ Promise!Totals(result) /\ Promise!CountUsable(result)
<1>1. CASE Reference /\ Ordered /\ result = Reported
  <2>1. result.objects = Objects /\ result.counts = CountsOf(Objects)
        /\ result.type = "reference" /\ result.show = Present(Objects)
    BY <1>1 DEF Reported
  <2>2. Promise!CountUsable(result)
    BY <1>1, <2>1, NoOverlap DEF Promise!CountUsable
  <2> QED
    BY <1>1, <2>1, <2>2, ListedIs, HonestIs, TotalsIs
<1>2. CASE cfg.path = "rtx5080" /\ Ordered /\ RetakeReasons({}) = {} /\ result = Accepted
  <2>1. result.objects = Objects /\ result.counts = CountsOf(Objects)
        /\ result.type = "candidate"
    BY <1>2 DEF Accepted
  <2>2. Promise!CountUsable(result)
    BY <1>2, <2>1, ClearIs DEF Promise!CountUsable
  <2> QED
    BY <1>2, <2>1, <2>2, ListedIs, HonestIs, TotalsIs
<1>3. CASE cfg.path = "static" /\ Ordered /\ result = [type |-> "batch", objects |-> Objects]
  <2>1. result.objects = Objects /\ result.type = "batch"
    BY <1>3
  <2>2. Promise!CountUsable(result) /\ Promise!Totals(result)
    BY <2>1 DEF Promise!CountUsable, Promise!Totals
  <2> QED
    BY <1>3, <2>1, <2>2, ListedIs, HonestIs
<1>4. CASE /\ cfg.path = "rtx5080"
           /\ \E capture \in Captures : result = Retake(RetakeReasons(capture))
  BY <1>4 DEF Promise!Retaken, Retake
<1> QED
  BY <1>1, <1>2, <1>3, <1>4 DEF IInv, Resulted

\* Only Answer shows; the steps before it are stutters of the promise.
LEMMA StepsPromised ==
  ASSUME IInv, [Next]_vars
  PROVE  [Promise!Answer]_<<cfg, scene, evidence,
                             IF pc = "answered" THEN result ELSE Nothing>>
<1>1. UNCHANGED <<cfg, scene, evidence>>
  BY DEF Next, vars, Detect, Gate, Infer, InferDone, ScoreAll, ScoreTightContext,
     RecheckChunk, ChunkFails, ContextChunk, BatchDone, ScorePairs, ScoreRejections,
     Scored, ChunkDone, Aggregate, Answer, Fail
<1>2. CASE Answer
  <2>1. pc = "composed" /\ pc' = "answered" /\ result' = result
    BY <1>2 DEF Answer
  <2>2. CASE result = Nothing
    BY <1>1, <2>1, <2>2
  <2>3. CASE result # Nothing
    <3>1. Promise!Answer
      BY <1>1, <2>1, <2>3, ResultPromised DEF Promise!Answer
    <3> QED
      BY <3>1
  <2> QED
    BY <2>2, <2>3
<1>3. CASE UNCHANGED vars
  BY <1>3 DEF vars
<1>4. CASE Next /\ ~Answer
  <2>1. pc # "answered" /\ pc' # "answered"
    BY <1>4 DEF Next, Detect, Gate, Infer, InferDone, ScoreAll, ScoreTightContext,
       RecheckChunk, ChunkFails, ContextChunk, BatchDone, ScorePairs, ScoreRejections,
       Scored, ChunkDone, Aggregate, Fail
  <2> QED
    BY <1>1, <2>1
<1> QED
  BY <1>2, <1>3, <1>4

-----------------------------------------------------------------------------
(* The theorems.                                                            *)

\* In every state the variables have their types, and the objects that wait for
\* DINO have no decision.
THEOREM TypeCorrect == Spec => []RecognitionTypeOK
<1>1. IInv => RecognitionTypeOK
  <2> SUFFICES ASSUME IInv
               PROVE  RecognitionTypeOK
    OBVIOUS
  <2>1. order \in {<<>>} \cup Enumerations(scene)
    BY DEF IInv, Typed, Ordered
  <2>2. rechecked \in 0..Len(order)
    BY OrderLength DEF IInv, Typed
  <2>3. \A i \in todo : decisions[i] = Nothing
    BY DEF IInv, Typed, Settled, Undecided
  <2>4. pc \in {"detect", "classify", "recheck", "aggregate", "failed"} => result = Nothing
    BY DEF IInv, Resulted
  <2> QED
    BY <2>1, <2>2, <2>3, <2>4 DEF RecognitionTypeOK, IInv, Typed
<1> QED
  BY <1>1, AlwaysInv, PTL

\* The worker's validator never loses a finished scan, but for the batch path that
\* counts fusion twice.
THEOREM ResultsPass == Spec => []ResultValidates
BY InvValidates, AlwaysInv, PTL

\* Whatever the tray, the evidence, the order the detector gives and the size of the
\* chunks, the objects are named as if each had been alone.
THEOREM OneByOneImplemented == Spec => ImplementsOneByOne
<1>1. Init => Promise!Init
  BY DEF Init, Promise!Init
<1> QED
  BY <1>1, StepsPromised, AlwaysInv, PTL DEF Spec, ImplementsOneByOne, Promise!Spec

=============================================================================
