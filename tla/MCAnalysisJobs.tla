--------------------------- MODULE MCAnalysisJobs ---------------------------
(* Instances of AnalysisJobs for TLC: one logical input of each stage, with  *)
(* the sizes that make every branch of its run_* function happen.            *)
EXTENDS AnalysisJobs, TLC

CONSTANTS uni, biv, mul, s1, s2

\* The stage of each input a configuration may use.
MCStageOf == [i \in Inputs |-> CASE i = uni -> "univariate"
                                 [] i = biv -> "bivariate"
                                 [] i = mul -> "multivariate"]

\* Two computing phases, artifact_persistence and complete; one member; one pair.
MCWork == [i \in Inputs |-> IF i = mul THEN 4 ELSE 1]

MCArtifactCount == [i \in Inputs |-> IF i = biv THEN 1 ELSE 2]

MCPinned == [i \in Inputs |-> s1]

\* One stage at a time: the requests of a behaviour are all for one input.
OneInput == Cardinality({jobs[j].input : j \in {k \in Jobs : jobs[k].status # "absent"}}
                        \union UNION {lookedUp[w] : w \in Workers}) <= 1

Symmetry == {p @@ q : p \in Permutations(Workers), q \in Permutations(Jobs)}
=============================================================================
