---------------------------- MODULE MCDeltaSync ----------------------------
(* Small instances of DeltaSync for TLC. *)
EXTENDS DeltaSync, TLC

CONSTANTS m1, m2, u1, u2, u3

TwoAndOne == m1 :> <<u1, u2>> @@ m2 :> <<u3>>

AllListed  == {Urls}
\* The second patch of m1 is released, or withdrawn.
NewRelease == {Urls, Urls \ {u2}}
=============================================================================
