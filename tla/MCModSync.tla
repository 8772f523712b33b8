----------------------------- MODULE MCModSync -----------------------------
(* Instances of ModSync for TLC.  A mod's handlers touch no other mod, and *)
(* mods meet only in the queue, the settings and disableDelta's loop: the  *)
(* instances have one mod, in one or two repositories.                     *)
EXTENDS ModSync, Progress

CONSTANTS m1, m2, r1, r2, d1, d2

OneMod == <<m1>>
Shared == [r \in {r1, r2} |-> <<m1>>]
Single == [r \in {r1} |-> <<m1>>]

\* The mod is optional in r1 and mandatory in r2.
OptionalInR1 == {<<m1, r1>>}

\* Progress, around whole megabytes: a repository of up to two mods reads
\* complete only if each mod that is counted and known is.
Bytes == {-1, 0, 1, MegaDivider, MegaDivider + 1, 2 * MegaDivider}
Shown == {[ticked |-> t, checkingPatches |-> FALSE, wanted |-> b[1], done |-> b[2]] :
            t \in BOOLEAN,
            b \in {x \in Bytes \X Bytes : x[2] <= x[1] /\ (x[1] < 0 <=> x[2] < 0)}}

ASSUME RepositoryShownComplete ==
  \A n \in 1..2 : \A mods \in [1..n -> Shown] :
    ShownComplete(RepositoryProgress(mods)) =>
      \A i \in 1..n : mods[i].ticked => mods[i].done = mods[i].wanted

\* A move of these files, of which the first ones have arrived, is not taken
\* for done and does not read complete as long as a file that is not empty
\* is missing: whatever dirSize leaves out, it never counts too much.
MovedFiles == UNION {[1..n -> {0, 1, MegaDivider, MegaDivider + 1}] : n \in 0..3}

ASSUME MoveNotEarly ==
  \A files \in MovedFiles : \A n \in 0..Len(files) :
    LET wanted == SumFunction(files)
        arrived == SubSeq(files, 1, n)
    IN (\E i \in n + 1..Len(files) : files[i] # 0) =>
         /\ ~MoveDone(wanted, arrived, TRUE)
         /\ ~ShownComplete(ToProgress(wanted, DirSize(arrived)))

\* Its end is seen by the sizes only if the last file is empty.
ASSUME MoveEndsBySource ==
  \A files \in MovedFiles :
    MoveDone(SumFunction(files), files, TRUE) => files = <<>> \/ files[Len(files)] = 0
=============================================================================
