----------------------------- MODULE MCCollector -----------------------------
(* Two scrapes, two updates and two configurations that share one of two   *)
(* mount points.                                                           *)
EXTENDS Collector, TLC

CONSTANTS s1, s2, u1, u2, none, small, large, data, backup

MCScrapers == {s1, s2}
MCUpdaters == {u1, u2}
MCConfigs == {small, large}
MCMounts == {data, backup}
MCMountPoints == (small :> <<backup>>) @@ (large :> <<data, backup>>)
=============================================================================
