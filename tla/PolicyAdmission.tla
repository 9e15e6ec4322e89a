--------------------------- MODULE PolicyAdmission ---------------------------
(***************************************************************************)
(* Start-up of the classifier with one fusion policy: the camera runtime    *)
(* validates the policy it is given, ClassifierPipeline.load validates it   *)
(* again, and an analysis then calls infer or infer_many.  Each of the      *)
(* three asks something of the policy's schema, decision rule and           *)
(* preprocessing identity.  Every other artifact is taken to match.         *)
(***************************************************************************)
EXTENDS Naturals, TLAPS

CONSTANTS Floor,    \* the consensus margin floor of a schema-3 artifact
          Nothing

VARIABLES policy,    \* the artifact the configuration names
          device,    \* the one being tried
          admitted,  \* _validate_classifier_artifacts has returned
          pc         \* "validate", "load", "analyze", "answered", "failed"

vars == <<policy, device, admitted, pc>>

RiskRule == "risk_threshold_v1"
LocalRule == "fusion_local_agree_v1"
FusionPolicyId == "fusion_local_or_global_consensus_margin_v1"

\* the two preprocessing identities: of padded crops, and of the static tight/context pair
Preprocessing == {"padded", "static"}

\* the artifacts FusionPolicyArtifact accepts
FusionPolicies ==
  {p \in [schema : 1..3, rule : {RiskRule, LocalRule, FusionPolicyId},
          floor : {Floor, Nothing}, preprocess : Preprocessing] :
     /\ p.schema = 1 => p.rule = RiskRule
     /\ p.schema = 2 => p.rule \in {RiskRule, LocalRule}
     /\ p.schema = 3 => p.rule = FusionPolicyId
     /\ p.floor # Nothing <=> p.schema = 3}

StaticPolicy == policy.schema = 3 /\ policy.rule = FusionPolicyId

Init ==
  /\ policy \in FusionPolicies /\ device \in {"cuda:0", "cpu"}
  /\ admitted = FALSE /\ pc = "validate"

\* a device that cannot be loaded is left for the processor, once
FallBack ==
  IF device = "cuda:0"
  THEN device' = "cpu" /\ pc' = "validate" /\ admitted' = FALSE
  ELSE pc' = "failed" /\ UNCHANGED <<device, admitted>>

\* _validate_classifier_artifacts: the identity of padded crops and the one rule
Admits == policy.preprocess = "padded" /\ policy.rule = FusionPolicyId

Validate ==
  /\ pc = "validate"
  /\ IF Admits THEN pc' = "load" /\ admitted' = TRUE /\ UNCHANGED device
               ELSE FallBack
  /\ UNCHANGED policy

\* ClassifierPipeline.load: a static policy must carry the static identity, any other
\* the identity of padded crops
Loads == policy.preprocess = (IF StaticPolicy THEN "static" ELSE "padded")

Load ==
  /\ pc = "load"
  /\ IF Loads THEN pc' = "analyze" /\ UNCHANGED <<device, admitted>> ELSE FallBack
  /\ UNCHANGED policy

\* infer and infer_many, called as the runtime calls them: a static policy is refused
Analyze ==
  /\ pc = "analyze"
  /\ pc' = IF StaticPolicy THEN "failed" ELSE "answered"
  /\ UNCHANGED <<policy, device, admitted>>

Next == Validate \/ Load \/ Analyze

Spec == Init /\ [][Next]_vars

-----------------------------------------------------------------------------
\* The only rule the camera runtime admits is one that the classifier refuses, at load or
\* at the first analysis: with the default loader no policy artifact ever answers.
NoPolicyAnswers == pc # "answered"

PolicyTypeOK ==
  /\ policy \in FusionPolicies /\ device \in {"cuda:0", "cpu"} /\ admitted \in BOOLEAN
  /\ pc \in {"validate", "load", "analyze", "answered", "failed"}

\* a policy past the first check is padded and, carrying the one rule, of schema 3; one
\* past the second would have to be static as well
Policies ==
  /\ PolicyTypeOK
  /\ pc = "load" => Admits
  /\ pc \notin {"analyze", "answered"}

\* No artifact passes the three checks, whatever its margin floor.
THEOREM PolicyRefused == Spec => []NoPolicyAnswers
<1>1. Init => Policies
  BY DEF Init, Policies, PolicyTypeOK
<1>2. Policies /\ [Next]_vars => Policies'
  <2> SUFFICES ASSUME Policies, [Next]_vars PROVE Policies'
    OBVIOUS
  <2> USE DEF Policies, PolicyTypeOK
  <2>1. CASE Validate
    BY <2>1 DEF Validate, Admits, FallBack
  <2>2. CASE Load
    <3>1. StaticPolicy
      BY <2>2 DEF Load, Admits, StaticPolicy, FusionPolicies, FusionPolicyId, RiskRule,
                  LocalRule
    <3>2. ~Loads
      BY <2>2, <3>1 DEF Load, Loads, Admits
    <3> QED
      BY <2>2, <3>2 DEF Load, FallBack, Admits
  <2>3. CASE Analyze
    BY <2>3 DEF Analyze
  <2>4. CASE UNCHANGED vars
    BY <2>4 DEF vars, Admits
  <2> QED
    BY <2>1, <2>2, <2>3, <2>4 DEF Next
<1>3. Policies => NoPolicyAnswers
  BY DEF Policies, NoPolicyAnswers
<1> QED
  BY <1>1, <1>2, <1>3, PTL DEF Spec
=============================================================================
