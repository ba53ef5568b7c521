--------------------------- MODULE MCGridProtocol ---------------------------
(***************************************************************************)
(* Configurations of run_coordinator for TLC.                              *)
(***************************************************************************)
EXTENDS GridProtocol

CONSTANTS w1, w2, w3, a, b

Config(workers, hybrid, join, departure, strict) ==
    [num_workers |-> workers, hybrid_coordinator |-> hybrid, elastic_join |-> join,
     elastic_departure |-> departure, retain_partitions |-> departure, strict_bsp |-> strict]

(* The plain grid (an empty cohort included); an elastic one; elastic ones *)
(* whose cohort is small enough for ids to run out and for a hybrid        *)
(* coordinator to be left on its own.                                      *)
PlainConfigs ==
    {Config(n, FALSE, FALSE, FALSE, strict) : n \in {0, 2}, strict \in BOOLEAN}
ElasticConfigs == {Config(2, FALSE, TRUE, TRUE, TRUE)}
HybridConfigs == {Config(n, TRUE, TRUE, TRUE, TRUE) : n \in {1, 2}}

CohortConfigs == PlainConfigs \cup ElasticConfigs
LiveConfigs == PlainConfigs \cup HybridConfigs
=============================================================================
