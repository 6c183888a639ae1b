-------------------------- MODULE MCQualityProber --------------------------
(* A show of two episodes, each with one of two programmes: 720p with a    *)
(* hidden 1080p, and a claimed 1080p whose master ends at 720p.            *)
EXTENDS QualityProber

CONSTANTS a, b

MCShow == <<a, b>>

Master(listed, rewrite) == [listed |-> listed, rewritable |-> TRUE, rewrite |-> rewrite]

MCProgrammes ==
  {[claims |-> {720, 540}, hls |-> TRUE, master |-> Master(720, "video")],
   [claims |-> {1080, 720, 540}, hls |-> TRUE, master |-> Master(720, "audio")]}
============================================================================
