------------------------------ MODULE JobLanes ------------------------------
(***************************************************************************)
(* The two lanes one library's queue drains in: which job kinds may reach  *)
(* the canonical (git) library, and which only touch what can be rebuilt.  *)
(* Translated from job_lanes.py and the constants the queue adapter keeps  *)
(* beside it.                                                              *)
(***************************************************************************)

\* LANES, in the fixed order every body that takes both lanes' locks uses.
Lanes == {"canonical", "derived"}

\* The keys of JOB_LANES, plus one kind no build classifies.
CanonicalKinds ==
    {"compile", "evolve", "evolve_adopt", "groom", "archive", "review", "challenge"}
DerivedLaneKinds == {"index", "episodes", "recall_projection", "recall_rebuild"}
Kinds == CanonicalKinds \cup DerivedLaneKinds \cup {"unclassified"}

\* lane_of: the strict lane is the default for a kind nobody classified.
LaneOf(kind) == IF kind \in DerivedLaneKinds THEN "derived" ELSE "canonical"

\* The derived kinds whose payload names an L0 source: a compile waits for them.
SourceDerivedKinds == {"index", "episodes"}

\* CLAIM_FIRST_KINDS: model-free derived work goes ahead of everything else.
ClaimFirstKinds == {"index", "recall_projection", "recall_rebuild"}

\* Kinds a launched coding agent runs; every other kind runs in the worker's own body.
AgentKinds == {"compile", "episodes", "evolve", "review"}
=============================================================================
