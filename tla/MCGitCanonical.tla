--------------------------- MODULE MCGitCanonical ---------------------------
(***************************************************************************)
(* A page and its place in the archive, and the calls that meet on them:   *)
(* a compile's patch of the page, a groom's patch that also removes the    *)
(* archived one, the archive (which leaves a record where the page was),   *)
(* its undoing, and a call that only writes a ref.                         *)
(***************************************************************************)
EXTENDS GitCanonical, TLC

CONSTANTS page, archived, v1, v2

NoFiles == [p \in {} |-> v1]
Away    == [from |-> page, to |-> archived]
Back    == [from |-> archived, to |-> page]

MCCall ==
    {[verb |-> "patch", moves |-> {}, files |-> page :> v2, removals |-> {}],
     [verb |-> "patch", moves |-> {}, files |-> page :> v2, removals |-> {archived}],
     [verb |-> "move", moves |-> {Away}, files |-> page :> v1, removals |-> {}],
     [verb |-> "move", moves |-> {Back}, files |-> NoFiles, removals |-> {page}],
     [verb |-> "ref", moves |-> {}, files |-> NoFiles, removals |-> {}]}

WriterSymmetry == Permutations(Writer)
=============================================================================
