------------------------- MODULE MC_PhasePipeline -------------------------
EXTENDS PhasePipeline, TLC

\* Three phases in a chain; the last also reads what the first made.
MCNeeds == <<{"source"}, {"plan"}, {"plan", "scan"}>>
MCMakes == <<{"plan"}, {"scan"}, {"parse"}>>

\* The second release has another version of the second phase.
MCVersion == "r1" :> <<1, 1, 1>> @@ "r2" :> <<1, 2, 1>>

RunSymmetry == Permutations(Runs)
=============================================================================
