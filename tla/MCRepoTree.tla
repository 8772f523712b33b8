----------------------------- MODULE MCRepoTree -----------------------------
(* Small instances of RepoTree for TLC. *)
EXTENDS RepoTree, TLC

CONSTANTS r1, r2, a, b

\* a is withdrawn from both repositories at once; b moves from r2 to r1, and
\* r2 disappears.  And back.
MovingMod == {r1 :> {a} @@ r2 :> {a, b}, r1 :> {b}}

\* The only mod is listed or not.
OneMod == {r1 :> {a}, r1 :> {}}
=============================================================================
