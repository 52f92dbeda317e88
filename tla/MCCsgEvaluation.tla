--------------------------- MODULE MCCsgEvaluation ----------------------------
(***************************************************************************)
(* Planner and evaluator on small decoded models.                          *)
(***************************************************************************)
EXTENDS CsgEvaluation, MCCsgGraph

\* Cutters of cutters down to the depth limit, met at different depths.
DeepGraphs == Plain(OpLists({<<Cut("a"), Cut("b")>>, <<Cut("b"), Cut("a")>>, <<Cut("a"), Add("b")>>},
                            Lists({Cut("b"), Cut("x"), Add("x")}, 2),
                            Lists({Cut("a"), Cut("c"), Add("x")}, 2),
                            {<<>>, <<EdgeChamfer>>, <<Cut("d")>>}))

\* The cutter a has a cutter b of its own, and then no room for its edge chamfer; e, further
\* down, shares b.
Abandoned ==
    {[i EXCEPT !.rootBytes = 2] :
        i \in Plain([r : {<<Cut("a"), Cut("d")>>}, a : {<<Cut("b"), EdgeChamfer>>},
                     b : {<<Cut("c")>>}, c : {<<>>}, d : {<<Cut("e")>>}, e : {<<Cut("b")>>},
                     x : {<<>>}])}

PlannedModels == {Decoded(i) : i \in Inputs \cup DeepGraphs \cup Abandoned}
=============================================================================
