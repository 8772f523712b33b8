------------------------------ MODULE Progress ------------------------------
(***************************************************************************)
(* The progress the user sees: what LibTorrentApi says of a folder, what   *)
(* Mod's update timer keeps of it, the whole megabytes it is shown in, and *)
(* the sum over a repository's mods.  -1 stands for what is not known.     *)
(*                                                                         *)
(* A folder is a record: is its .torrent fetched, are its PBOs checked, is *)
(* it moved, has DeltaManager got it, has its torrent metadata; the bytes  *)
(* wanted and done of the torrent; the bytes a move wants and the sizes of *)
(* the files at its destination; and what DeltaManager knows:              *)
(*   name      the mod's name                                              *)
(*   handles   handleMap_: the patch torrents by the mods' keys, each with *)
(*             its bytes done and whether it is finished                   *)
(*   waiting   inDl_ is not empty                                          *)
(*   patched   the mod the patcher is at, and bytesPatched_                *)
(***************************************************************************)
EXTENDS Functions, Integers, Sequences, TLAPS

Folder(Deltas) ==
  [fetching : BOOLEAN, checkingPbos : BOOLEAN, moving : BOOLEAN,
   patching : BOOLEAN, metadata : BOOLEAN, wanted : Nat, done : Nat,
   moveWanted : Nat, moved : Seq(Nat), delta : Deltas]

\* FileUtils::dirSize, of a directory's files in the iterator's order: a size
\* is read before the iterator advances, and the last file's never is.
DirSize(sizes) == SumFunctionOnSet(sizes, 1..Len(sizes) - 1)

\* DirectoryWatcher::done; libtorrent removes the source directory at the end.
MoveDone(moveWanted, moved, sourceExists) ==
  DirSize(moved) = moveWanted \/ ~sourceExists

\* DeltaDownloader::patchesDownloaded
PatchesDownloaded(d, key) ==
  /\ ~d.waiting /\ key \in DOMAIN d.handles
  /\ \A i \in DOMAIN d.handles[key] : d.handles[key][i].finished

\* DeltaDownloader::totalWantedDone
PatchTorrentsDone(d, key) ==
  IF key \notin DOMAIN d.handles THEN 0
  ELSE SumFunction([i \in DOMAIN d.handles[key] |-> d.handles[key][i].done])

\* DeltaPatcher::bytesPatched
BytesPatched(d) == IF d.patched = d.name THEN d.bytesPatched ELSE 0

\* DeltaManager::totalWantedDone asks the downloader, whose table has the
\* mods' keys, by the mod's name.
DeltaTotalWantedDone(d) ==
  IF PatchesDownloaded(d, d.name) THEN BytesPatched(d)
  ELSE PatchTorrentsDone(d, d.name)

\* LibTorrentApi::folderTotalWanted.  DeltaManager says what is done.
FolderTotalWanted(f) ==
  IF f.fetching THEN -1
  ELSE IF f.patching THEN DeltaTotalWantedDone(f.delta)
  ELSE IF f.moving THEN f.moveWanted
  ELSE IF f.metadata THEN f.wanted ELSE -1

\* LibTorrentApi::folderTotalWantedDone.  (The product that is to circumvent
\* a bug in libtorrent has the factor 0 and is 0, as is what it replaces.)
FolderTotalWantedDone(f) ==
  IF f.fetching THEN -1
  ELSE IF f.checkingPbos THEN 0
  ELSE IF f.moving THEN DirSize(f.moved)
  ELSE IF f.patching THEN DeltaTotalWantedDone(f.delta)
  ELSE IF f.metadata THEN f.done ELSE -1

MegaDivider == 1024 * 1024

BytesToMegasCeil(bytes) == IF bytes = 0 THEN 0 ELSE 1 + (bytes - 1) \div MegaDivider

NoProgress == <<-1, -1>>    \* "???"

\* Mod::toProgressStr: the megabytes done and wanted.
ToProgress(wanted, done) ==
  LET shown == IF done >= wanted THEN done
               ELSE IF done > MegaDivider THEN done - MegaDivider ELSE 0
  IN IF wanted < 0 \/ done < 0 THEN NoProgress
     ELSE <<BytesToMegasCeil(shown), BytesToMegasCeil(wanted)>>

\* Mod::updateProgress and progressStr, of a mod that has started.  The mod is
\* active if its status is and its folder exists.  The folder is asked twice
\* and may have changed.
ModProgress(active, f, later) ==
  IF active THEN ToProgress(FolderTotalWanted(f), FolderTotalWantedDone(later))
  ELSE NoProgress

\* The user reads: complete.
ShownComplete(progress) == progress # NoProgress /\ progress[1] = progress[2]

\* Repository::progressStr of a ticked repository: mods is a sequence of
\* records of ticked, wanted, done and whether patches are being checked, of
\* which the first with something to do stands for all.
RepositoryProgress(mods) ==
  LET Counted == {i \in DOMAIN mods : mods[i].ticked /\ ~mods[i].checkingPatches}
      Delta == {i \in DOMAIN mods : mods[i].ticked /\ mods[i].checkingPatches
                                      /\ mods[i].wanted # 0}
      Parts == Counted \cup {i \in Delta : \A j \in Delta : i <= j}
  IN ToProgress(SumFunctionOnSet([i \in DOMAIN mods |-> mods[i].wanted], Parts),
                SumFunctionOnSet([i \in DOMAIN mods |-> mods[i].done], Parts))

-----------------------------------------------------------------------------
\* A progress that reads complete is complete: rounding up to megabytes never
\* hides what is left (mod.cpp:559, "Do not ceil to 100 %").
THEOREM NoCeilToComplete ==
  ASSUME NEW wanted \in Int, NEW done \in Int, ShownComplete(ToProgress(wanted, done))
  PROVE  done >= wanted
<1>1. wanted >= 0 /\ done >= 0
  BY DEF ShownComplete, ToProgress
<1>2. SUFFICES ASSUME done < wanted PROVE FALSE
  OBVIOUS
<1>3. BytesToMegasCeil(wanted) >= 1 + (wanted - 1) \div MegaDivider
  BY <1>1, <1>2 DEF BytesToMegasCeil, MegaDivider
<1>4. CASE done > MegaDivider
  <2>1. BytesToMegasCeil(done - MegaDivider) = BytesToMegasCeil(wanted)
    BY <1>1, <1>2, <1>4 DEF ShownComplete, ToProgress
  <2>2. (wanted - 1) \div MegaDivider >= (done - 1) \div MegaDivider
    BY <1>1, <1>2, <1>4 DEF MegaDivider
  <2>3. (done - MegaDivider - 1) \div MegaDivider = (done - 1) \div MegaDivider - 1
    BY <1>1, <1>4 DEF MegaDivider
  <2> QED
    BY <1>1, <1>2, <1>4, <2>1, <2>2, <2>3 DEF BytesToMegasCeil, MegaDivider
<1>5. CASE ~(done > MegaDivider)
  <2>1. BytesToMegasCeil(0) = BytesToMegasCeil(wanted)
    BY <1>1, <1>2, <1>5 DEF ShownComplete, ToProgress
  <2>2. (wanted - 1) \div MegaDivider >= 0
    BY <1>1, <1>2 DEF MegaDivider
  <2> QED
    BY <1>1, <1>2, <2>1, <2>2 DEF BytesToMegasCeil, MegaDivider
<1> QED
  BY <1>4, <1>5

\* A mod that is downloading or checked, and is asked for its bytes twice,
\* reads complete only if it is, the second time.
THEOREM ModShownComplete ==
  ASSUME NEW Deltas, NEW f \in Folder(Deltas), NEW later \in Folder(Deltas), NEW active,
         f.fetching = FALSE, f.moving = FALSE, f.patching = FALSE, f.metadata = TRUE,
         later.fetching = FALSE, later.moving = FALSE, later.patching = FALSE,
         later.wanted = f.wanted,
         ShownComplete(ModProgress(active, f, later))
  PROVE  later.done >= later.wanted
<1>1. f.wanted \in Nat /\ later.wanted \in Nat /\ later.done \in Nat
  BY DEF Folder
<1>2. FolderTotalWanted(f) = f.wanted
  BY DEF FolderTotalWanted
<1>3. FolderTotalWantedDone(later) \in {-1, 0, later.done}
  BY DEF FolderTotalWantedDone
<1>4. ShownComplete(ToProgress(FolderTotalWanted(f), FolderTotalWantedDone(later)))
  BY DEF ModProgress, ShownComplete
<1>5. FolderTotalWantedDone(later) >= FolderTotalWanted(f)
  <2>1. FolderTotalWanted(f) \in Int /\ FolderTotalWantedDone(later) \in Int
    BY <1>1, <1>2, <1>3
  <2> QED
    BY <1>4, <2>1, NoCeilToComplete
<1> QED
  BY <1>1, <1>2, <1>3, <1>5

\* While DeltaManager has a mod, nothing is shown to be wanted and nothing to
\* be done, so that its progress reads complete from the hand-over to the
\* return: totalWantedDone looks for the mod's name among keys
\* (deltamanager.cpp:165), and stands for totalWanted too
\* (libtorrentapi.cpp:464).  A key is a torrent's URL, and no mod's name.
THEOREM PatchingShownComplete ==
  ASSUME NEW Deltas, NEW f \in Folder(Deltas),
         f.delta.name \notin DOMAIN f.delta.handles,
         f.patching = TRUE, f.fetching = FALSE, f.checkingPbos = FALSE, f.moving = FALSE
  PROVE  /\ ModProgress(TRUE, f, f) = <<0, 0>>
         /\ ShownComplete(ModProgress(TRUE, f, f))
<1>1. DeltaTotalWantedDone(f.delta) = 0
  BY DEF DeltaTotalWantedDone, PatchesDownloaded, PatchTorrentsDone
<1>2. FolderTotalWanted(f) = 0 /\ FolderTotalWantedDone(f) = 0
  BY <1>1 DEF FolderTotalWanted, FolderTotalWantedDone
<1>3. ToProgress(0, 0) = <<0, 0>>
  BY DEF ToProgress, BytesToMegasCeil
<1> QED
  BY <1>2, <1>3 DEF ModProgress, ShownComplete, NoProgress
=============================================================================
