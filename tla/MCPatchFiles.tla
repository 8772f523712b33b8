---------------------------- MODULE MCPatchFiles ----------------------------
(* Small instances of PatchFiles for TLC. *)
EXTENDS PatchFiles, TLC

CONSTANTS f, g, h, d

\* A file in the mod's own directory and two in another.
Where == f :> Root @@ g :> d @@ h :> d

\* Content 4 is as long as 1.
Sizes == [c \in Contents |-> IF c = 4 THEN 1 ELSE c]

A == f :> 1 @@ g :> 1
B == f :> 2 @@ g :> 1 @@ h :> 1
C == f :> 1 @@ g :> 2 @@ h :> 2
D == f :> 4 @@ g :> 1     \* its hash is A's

FourReleases == {A, B, C, D}
SomeOrder == {<<A, B>>, <<B, C>>, <<C, B>>, <<C, D>>, <<D, A>>}

\* One file, which changes with each release.
OneFile(n) == f :> n
Line == {OneFile(n) : n \in Contents}
InOrder == {<<OneFile(n), OneFile(n + 1)>> : n \in Contents \ {12}}
Start == OneFile(1)
Same == [c \in Contents |-> c]
=============================================================================
