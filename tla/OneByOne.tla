------------------------------ MODULE OneByOne ------------------------------
(***************************************************************************)
(* What a scan promises, with no batch, chunk, stage or order of work in    *)
(* it: the answer lists the objects of the scene once each, in reading      *)
(* order, each named from its own evidence alone and nothing else in the    *)
(* tray; an object whose DINO evidence was lost stays unknown, with what    *)
(* RepViT proposes; the totals are those of the list, and the count is      *)
(* offered as final only when no two objects overlap.  Otherwise there is   *)
(* no answer at all.                                                       *)
(***************************************************************************)
EXTENDS Classification

CONSTANTS Overlaps(_, _), \* of two boxes
          Occludes(_, _), Truncated(_)

VARIABLES cfg, scene, evidence, answer

InReadingOrder(a, b) ==
  IF cfg.path = "rtx5080"
  THEN \/ 2 * a.y + a.h < 2 * b.y + b.h
       \/ /\ 2 * a.y + a.h = 2 * b.y + b.h
          /\ 2 * a.x + a.w <= 2 * b.x + b.w
  ELSE a.y < b.y \/ (a.y = b.y /\ a.x <= b.x)

\* whether RepViT alone names the object
Sure(e) == Direct(e) # Nothing /\ (cfg.path = "static" => e.agree)

\* the products it may be named
Nameable(e) ==
  CASE cfg.path = "rtx5080" ->
         {t \in Skus : \/ e.agree /\ t = Top1(e.repvit, Skus)
                       \/ LocalAgrees(e, t)
                       \/ /\ GlobalsAgree(e, t)
                          /\ Margin(Ranked(e), CandidateUnion(e)) >= ConsensusFloor}
    [] cfg.path # "rtx5080" /\ Sure(e) -> {Direct(e).sku}
    [] cfg.path # "rtx5080" /\ ~Sure(e) /\ cfg.rule # Nothing ->
         {FusionDecision(cfg.rule, e).sku} \ {Nothing}
    [] OTHER ->
         {(IF cfg.bank THEN AfterLocalRecheck(e) ELSE AfterRecheck(e)).sku} \ {Nothing}

Honest(d, e) ==
  \/ d.sku # Nothing /\ d.sku \in Nameable(e)
  \/ d.sku = Nothing /\ (cfg.path = "rtx5080" \/ Nameable(e) = {})
  \/ d = DinoFailure(e) /\ cfg.path \in {"serial", "batch"} /\ ~Sure(e)

Proposals(objects) ==
  {[box |-> objects[i].box, score |-> objects[i].score] : i \in DOMAIN objects}

Listed(objects) ==
  /\ Len(objects) = Cardinality(scene) /\ Proposals(objects) = scene
  /\ cfg.path # "static" =>
       \A i, j \in DOMAIN objects :
         i < j => InReadingOrder(objects[i].box, objects[j].box)

Retaken(a) ==
  /\ cfg.path = "rtx5080" /\ a.type = "candidate" /\ a.state = "needs_retake"
  /\ a.objects = <<>>

Clear ==
  /\ scene # {}
  /\ \A p, q \in scene : p # q => ~Occludes(p.box, q.box)
  /\ \A p \in scene : ~Truncated(p.box)

CountUsable(a) ==
  CASE a.type = "reference" ->
         a.show.usable => /\ scene # {}
                          /\ \A p, q \in scene : p # q => ~Overlaps(p.box, q.box)
    [] a.type = "candidate" -> a.state = "accepted_scan" => Clear
    [] OTHER -> TRUE

\* the products found, with their number
Totals(a) ==
  a.type # "batch" =>
    \A s \in Skus :
      LET n == Cardinality({i \in DOMAIN a.objects : a.objects[i].decision.sku = s})
      IN  IF n = 0 THEN s \notin DOMAIN a.counts ELSE a.counts[s] = n

Init == answer = Nothing

Answer ==
  /\ answer = Nothing /\ answer' # Nothing
  /\ \/ Retaken(answer')
     \/ /\ Listed(answer'.objects)
        /\ \A i \in DOMAIN answer'.objects :
             Honest(answer'.objects[i].decision, evidence[answer'.objects[i].box])
        /\ Totals(answer') /\ CountUsable(answer')
  /\ UNCHANGED <<cfg, scene, evidence>>

Spec == Init /\ [][Answer]_<<cfg, scene, evidence, answer>>
=============================================================================
