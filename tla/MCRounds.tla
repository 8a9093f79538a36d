------------------------------ MODULE MCRounds ------------------------------
(***************************************************************************)
(* Unattended: one source's index row, the judgement the index commissions *)
(* and the compile that waits for both.  Attended: a compile and a groom   *)
(* (a plain canonical body) between a worker and a Steward.                *)
(***************************************************************************)
EXTENDS Rounds, TLC

CONSTANTS c1, e1, i1, g1, s1

MCJob     == {c1, e1, i1}
MCKindOf  == c1 :> "compile" @@ e1 :> "episodes" @@ i1 :> "index"
MCAbout   == c1 :> {s1} @@ e1 :> {s1} @@ i1 :> {s1}
MCImports == <<i1, c1>>

AttendedJob     == {c1, g1}
AttendedKindOf  == c1 :> "compile" @@ g1 :> "groom"
AttendedAbout   == c1 :> {} @@ g1 :> {}
AttendedImports == <<c1, g1>>

MCSkips == {{}}
=============================================================================
