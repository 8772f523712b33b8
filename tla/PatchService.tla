---------------------------- MODULE PatchService ----------------------------
(***************************************************************************)
(* What delta patching promises the torrent registry (LibTorrentApi): a    *)
(* mod handed over with DeltaManager::patch passes the stages in order,    *)
(* reaches the patcher only when at least one of its patch torrents is     *)
(* there, and comes back once with the signal patched().  ModSync uses     *)
(* this service and DeltaSync provides it.                                 *)
(***************************************************************************)
CONSTANT Mods    \* mod keys

Stages == {"none", "download", "patch", "signal"}

VARIABLES
  stage,    \* where each mod is; "none": DeltaManager does not contain it
  known     \* mods for which getHandle gives a patch torrent

vars == <<stage, known>>

Init == stage = [m \in Mods |-> "none"] /\ known = {}

Pass(m, from, to) ==
  /\ stage[m] = from
  /\ stage' = [stage EXCEPT ![m] = to]

\* A mod is handed over; torrents of an earlier patch or of the mirror count.
Take(m) == Pass(m, "none", "download") /\ known' \in {known, known \cup {m}}

Fetched(m) ==
  /\ stage[m] = "download" /\ m \notin known
  /\ known' = known \cup {m}
  /\ UNCHANGED stage

Start(m)  == m \in known /\ Pass(m, "download", "patch") /\ UNCHANGED known
End(m)    == Pass(m, "patch", "signal") /\ UNCHANGED known
Return(m) == Pass(m, "signal", "none") /\ UNCHANGED known

\* The DeltaManager is deleted: all its mods go back unpatched.
Clear == stage' = [m \in Mods |-> "none"] /\ known' = {}

Next ==
  \/ \E m \in Mods : Take(m) \/ Fetched(m) \/ Start(m) \/ End(m) \/ Return(m)
  \/ Clear

Spec == Init /\ [][Next]_vars
=============================================================================
