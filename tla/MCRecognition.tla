--------------------------- MODULE MCRecognition ---------------------------
(***************************************************************************)
(* Five products, trays of at most three objects, and the evidence that      *)
(* tells the rules apart.                                                    *)
(***************************************************************************)
EXTENDS Recognition

Box(x, y, w, h) == [x |-> x, y |-> y, w |-> w, h |-> h]
At(b, s) == [box |-> b, score |-> s]

\* P, L and R stand in one row; W covers L; C has the centre of R; E is cut off
P == At(Box(1, 2, 2, 2), 1)
L == At(Box(4, 2, 2, 2), 1)
R == At(Box(7, 2, 2, 2), 2)
W == At(Box(4, 2, 3, 2), 1)
C == At(Box(6, 1, 4, 4), 2)
D == At(Box(7, 4, 2, 2), 1)
E == At(Box(0, 5, 2, 2), 1)
MCScenes ==
  {{}, {P}, {P, L}, {L, W}, {R, C}, {P, E}, {P, At(P.box, 2)}, {P, D}, {P, L, R}}

Sample(r, d, l, agree, far, risky) ==
  [repvit |-> r, dino |-> d, local |-> l, agree |-> agree, far |-> far, risky |-> risky]

\* named at once; too far from the prototypes; the models disagree; two of them tie;
\* local evidence alone disagrees; DINO is not sure
MCSamples ==
  {Sample(<<6, 1, 0, 0, 0>>, <<3, 1, 0, 0, 0>>, <<3, 0, 0, 0, 0>>, TRUE, FALSE, FALSE),
   Sample(<<0, 6, 1, 0, 0>>, <<1, 4, 0, 0, 0>>, <<1, 3, 0, 0, 0>>, FALSE, TRUE, FALSE),
   Sample(<<2, 0, 3, 0, 0>>, <<3, 1, 0, 0, 0>>, <<4, 0, 0, 0, 0>>, TRUE, FALSE, TRUE),
   Sample(<<2, 2, 0, 0, 0>>, <<2, 2, 1, 0, 0>>, <<1, 1, 0, 0, 0>>, TRUE, FALSE, FALSE),
   Sample(<<3, 1, 0, 0, 0>>, <<4, 1, 0, 0, 0>>, <<1, 2, 0, 0, 0>>, TRUE, FALSE, TRUE),
   Sample(<<0, 0, 3, 1, 0>>, <<0, 0, 1, 0, 0>>, <<0, 0, 0, 1, 0>>, TRUE, FALSE, FALSE)}

Config(path, rule, bank, chunk, cuda, presentation, attempt) ==
  [path |-> path, rule |-> rule, bank |-> bank, chunk |-> chunk, cuda |-> cuda,
   presentation |-> presentation, attempt |-> attempt]

MCConfigs ==
  {Config("serial", rule, bank, 1, FALSE, p, 1) :
     rule \in Rules \cup {Nothing}, bank \in BOOLEAN, p \in {1, 2}}
    \cup {Config("batch", rule, TRUE, chunk, cuda, 2, 1) :
            rule \in Rules \cup {Nothing}, chunk \in {1, 2, 3}, cuda \in BOOLEAN}
    \cup {Config("batch", Nothing, FALSE, 1, TRUE, 2, 1)}
    \cup {Config("serial", Nothing, TRUE, 1, TRUE, 2, 1)}
    \cup {Config("static", rule, bank, 2, cuda, 2, 1) :
            rule \in {Nothing, Consensus}, bank \in BOOLEAN, cuda \in BOOLEAN}
    \cup {Config("rtx5080", Consensus, TRUE, 1, TRUE, 2, attempt) : attempt \in {1, 3}}

MCCaptures == {{}, {"uncovered_foreground"}, {"possible_split", "possible_merge"},
               {"capture_quality_unverified", "completeness_risk_exceeded"}}
MCOverlapIou == <<6, 10>>
MCPairIou == <<3, 10>>
=============================================================================
