# A formal model of AFISync

AFISync keeps sets of Arma 3 mods ("repositories") in step with torrents.  The
user ticks repositories and optional mods; for each ticked mod the program
fetches a `.torrent` file or, when delta patching is on, patch torrents, lets
libtorrent download, checks and seeds, and finally deletes files that do not
belong to the mod and installs the rest.

This directory holds TLA+ modules of that program, the TLC configurations that
check them on small instances, and TLAPS proofs.  `PROJECT.json` lists the
runs, the source lines behind every definition, the hazards and the theorems.

    tlc -workers 2 -config ModPatched.cfg MCModSync.tla    # a run
    tlapm ModRunProofs.tla                                 # the proofs of a module

## 1. The system

Two threads matter.  The **GUI thread** owns the tree of repositories, the
settings and the widgets.  The **worker thread** owns every `Mod`, the
`LibTorrentApi` and the `DeltaManager`.  The GUI thread asks for work by posting
slots (`QMetaObject::invokeMethod` with a queued connection); the worker thread
runs them in the order they were posted, and between them timers (each mod's
`update`, once a second) and replies (network, PBO check, patcher).  A third
thread patches, and libtorrent has threads of its own.  The settings file and
the repositories' status strings are read by the worker while the GUI writes
them.

| component | state | operations | hard behaviour |
|---|---|---|---|
| `Mod` (mod.cpp) | `ticked_`, `adapters_`, status, update timer, postponed move | repositoryChanged (start, stop), startUpdates, check, forceCheck, moveFiles, onFolderAdded, update | decides from data another thread is changing; READY and completion depend on what a one-second sample sees |
| `LibTorrentApi` | `keyHash_`, `torrentParams_`, `torrentDownloading_`, `pendingFolder_`, `checkingPbos_`, `deltaManager_` | addFolder, checkFolder, setFolderPath, setFolderPaused, enable/disableDeltaUpdates, shutdown | replies arrive late; a mod may be in several of its tables; an empty handle ends the process |
| `Repository`, `ModAdapter` | tick (setting), status, list of adapters | checkboxClicked, check, startUpdates, changed, update | tick, status and posted events are three steps |
| `DeltaManager`, `DeltaDownloader`, `DeltaPatcher` | `keyHash_`, `inDownload_`, `handleMap_`, `inDl_`, `patchingMod_` | patch, update, handlePatched | shared lists, failures without a handler, a thread deleted at work |
| `StorageMoveManager`, `DirectoryWatcher` | watched moves | insert, update | the end of a move is read off directory sizes |
| `SettingsModel` | ticks, `processed` marks, modDownloadPath, deltaPatchingEnabled | setters | both threads use it |
| `TreeModel`, `JsonReader` | repositories, JSON map | periodicRepoUpdate, updateRepositories, constructor, destructor | mods come and go while they are queued, fetched or patched; the file is fetched more than once |
| `LibTorrentApi`'s files | resume data, `.torrent`, `.link` of each torrent | loadTorrentFiles, cleanUnusedFiles, removeFiles, generateResumeData, saveTorrentFile, shutdown | three files per torrent, a GUI thread that waits for a limited time, kills |
| a mod's files (`DeltaPatcher`, `Mod::processCompletion`, `Installer`, `FileUtils`) | the mod's directory, the patches, `delta_patch`, `delta_patch_tmp`, what is installed | delta, filterPatches, extract, patchExtracted, move, deleteExtraFiles, install | partial failure, kills, releases that go back, names of patches |
| the rest | | logging, hashing, version check, widgets, CLI, network access, external tools | no protocol of their own |

What makes each correct:

* **Mod and registry**: a mod runs exactly when its ticks say so, up to events
  on their way; it is in one table at a time; its directory follows the
  setting; a download is followed by a completion before READY; it becomes READY.
* **Repository**: its status follows from its mods' and never says READY of a
  mod that is not.
* **Delta patching**: each mod handed over comes back once, also when a patch
  fails; a chain of patches ends at the wanted version.
* **Repository updates**: after an update the tree is what the file says, the
  worker has followed it, and no adapter or mod in use is destroyed.
* **Files of the torrents**: a kill costs at most one torrent its data, an orderly
  end none; a removal is not undone.
* **A mod's files**: a patch that cannot be applied changes nothing, the patches lead
  to the latest release, and a completion leaves the torrent's files and no other but
  those it could not delete.
* **Progress**: what reads complete is complete.
* **Moves**: a move is reported done only when it is.

## 2. Modules

| file | role |
|---|---|
| `ModSync.tla` | the core: mods, registry, both threads, libtorrent, crash and restart |
| `MCModSync.tla` | constants for TLC: which mods, in which repositories; the check of Progress |
| `ModSyncProofs.tla` | types; a mod has one owner; ModSync uses delta patching as PatchService allows; why the process ends |
| `ModRunProofs.tla` | a mod runs exactly when it should |
| `ModDueProofs.tla` | what is due comes: the timer is started, the torrent moved, the download completed |
| `PatchService.tla` | abstract: what delta patching promises the registry |
| `DeltaSync.tla`, `MCDeltaSync.tla` | DeltaManager, DeltaDownloader and DeltaPatcher for several mods |
| `DeltaSyncProofs.tla` | DeltaSync: types, who holds a mod, polling, and that it implements PatchService |
| `RepoTree.tla`, `MCRepoTree.tla` | the list of repositories changes while the program runs |
| `RepoTreeProofs.tla` | all its properties: the tree equals the file, no destroyed adapter is used, the worker and the torrents follow the tree |
| `TorrentStore.tla`, `MCTorrentStore.tla` | what LibTorrentApi keeps on disk, and the end of a run |
| `TorrentStoreProofs.tla` | all its safety properties |
| `PatchFiles.tla`, `MCPatchFiles.tla` | one mod's files: releases, patches, download, completion |
| `PatchFilesProofs.tla` | all its properties: a patch never breaks the mod, chains fit, completion is exact |
| `Progress.tla` | the arithmetic of the progress shown, with its three theorems |

Each module looks at the program from one side, with what the others detail left
free: `ModSync` follows a mod's torrent and fixes the list of repositories;
`RepoTree` follows the list and reduces a torrent to fetching, running or paused;
`TorrentStore` follows the files behind a torrent; `DeltaSync` the order of
patching, and `PatchFiles` what it does to the files.

### ModSync

A handler of the worker thread is one action, with every call it makes.
`RepositoryChanged` is `Mod::repositoryChanged` with `Start` and `Stop`;
`AddFolder` and `AddFolderGeneric` are `LibTorrentApi::addFolder` and
`addFolderGenericAsync`; the reply to the request the latter sends is
`FetchFinished` or `FetchFailed`.  `OnFolderAdded` is both functions of that
name, since the signal between them is delivered at once on the same thread.
`Update` is the mod's `update`, which computes the status (`StatusOf`) and with
it writes the `processed` mark.  `Check` starts a PBO check and `CheckFinished`
is its callback.  `DisableDeltaUpdates` and, for each key the manager held,
`ReAddFolder` make up `disableDeltaUpdatesSlot`: no other worker action runs
while `readd` is not empty, but the GUI does, as in the program.

The GUI's `checkboxClicked` of a repository is two actions, because the worker
reads the tick (`repoTicked`) and the status (`repoActive`) separately.

State and code: `ticked`, `status`, `timer`, `postponed` are the mod's fields;
`tor` the torrent behind `keyHash_` ("none" without one), `paused` its paused
flag when set by hand (libtorrent's own pauses are the `q` of `StatusOf`),
`home` its save path; `params`, `fetching`, `pending`, `checking`, `moving` the
tables `torrentParams_`, `torrentDownloading_`, `pendingFolder_`,
`checkingPbos_` and the watched moves; `delta` the stage of a mod under the
DeltaManager; `queue` the posted events.  `processed`, `resumeFiles`, the ticks
and `dir` are on disk and survive `Kill` and `Restart`.

`owed`, `strayed` and `misplaced` are history: what a completion would be for, which
mods were resumed by a handler that did not look at the ticks, and which had their last
move made on the patch torrent.  No action reads them to decide anything else.  `owed`
is "download" once a last piece has come, and stays so until the completion; it is
"recheck" when the user had a READY mod compared again, and "moved" when a move had a
finished torrent compared again.  These two end with a comparison that finds nothing
missing; what one of them downloads remains under its name, since a sample may not see
it.  Neither ever replaces "download".

libtorrent throws on an empty handle, nobody catches, and the process ends:
`proc' = "aborted"` (only alerthandler.cpp:108 has a handler, for something
else).  `HandleValid` says when the handle is not empty.

Abstractions, all of them widening what may happen unless said otherwise:

* Whether a patch is available, a check finds a torrent complete, or a `.torrent`
  can be fetched is a free choice.
* `Repository::check` skips a repository whose status is CHECKING; the model
  may post the checks anyway.  The recheck of a mod is offered in any state.
* `SetModDownloadPath` is one step although the worker could read the new
  setting before the events are posted (narrows by that instant).
* A handler reads the ticks once, although the GUI could write between two reads
  of the same handler (narrows; the click's event follows in either case).
* Patching is seen through its stages only; the patch list is not empty.
* The mods of the repositories do not change while the process runs, so
  `removeConflicting` and `removeFolder` do nothing (`RepoTree` has the change of
  the list).  Restart keeps the list too.
* A move of the storage ends at any time, as far as ModSync is concerned; how the
  program notices is in `Progress`, below.  LiveReady assumes that it does.
* libtorrent's error states, and statuses that differ only in their wording.

### PatchService: where the two detailed modules meet

`PatchService` knows two things of each mod: the stage it is in (`none`,
`download`, `patch`, `signal`) and whether the registry can get a patch torrent's
handle for it (`known`).  A mod is taken, its torrent becomes known, it is patched
only when known, the signal follows, and it comes back; deleting the DeltaManager
clears everything.  `ModSync` has these two as variables (`delta`, `deltaKnown`)
and `UsesService` says that all it does to them is allowed by the service.
`DeltaSync` computes them from its own state (`Stage`, `Known`) and
`ProvidesService` says that what it does is a behaviour of the service.  So what
the stages a mod may be in, and their order, are the same for both.  One difference
remains: torrents the mirror has fetched are known as soon as the mod is taken,
where `ModSync`, which has no mirror, lets them become known a step later.

### DeltaSync

Worker-thread handlers are `Patch` (DeltaManager::patch and downloadPatches),
`Reply` and `ReplyFails` (its replies), `Update` (the manager's timer),
`HandlePatched`, `MirrorDeltaPatches`, `MirrorReply`, and the registry's
`EnableDeltaUpdates`, `SetDeltaUrls` and `DisableDeltaUpdates`.  The patcher's
thread takes a queued call (`PatcherTakes`, which sets `patchingMod_`), fails
(`PatcherFails`) or applies patches (`PatcherApplies`), and clears `patchingMod_`
only after the signal (`PatcherClears`): the worker may act between those.

State and code: `keyHash`, `inDownload`, `timer` are DeltaManager's; `inDl` (one
list for all mods, as in the code), `handleMap`, `urlHandle` (the keys of
`urlHandleMap_`), `mirrored` are DeltaDownloader's; `patchingMod` is the
patcher's, `named` the mod whose name latestVersion's static regular expression
holds.  `posted` and `signals` are the two queues between the threads, `asked`
and `mirrorAsked` the requests under way, `files` the complete files of the
patches directory, `version[m]` how many of its patches a mod has had.

Abstractions:

* A mod is its key, its name and its directory at once; a URL is the patch
  torrent and the file it brings.  Patch i of a mod brings version i - 1 to
  version i, which stands for the hash in its name.
* `patchAvailable` asks whether the *first* listed URL of the mod has its hash;
  the model asks whether any has (widens).
* The patches directory is read once, at the end of patchDirSync; a torrent
  under way may have its file there, incomplete (`Partial`), and a patch from such
  a file is not applied, nor are those after it.
* Deleting the patcher at work is undefined behaviour: the process ends, or the
  patches have been applied, or not.
* The two queues are first in, first out, as Qt's event queues of one thread are.
* The mirror is asked for when every mod is READY (TreeModel::update), hence when
  the manager holds none; it runs without a GUI, but the model lets the setting
  change beside it (widens).  `mirrorDeltaPatches` resumes its handle before it
  looks at the error code (deltadownloader.cpp:57); this failure is not modelled.
* Moves of the download directory between the hand-over and the patch are not
  modelled.

### RepoTree

`PeriodicRepoUpdate` (TreeModel), `GetRemovables`, `UpdateRepositories`, `Remove`,
`StartRepository` and `EndUpdate` are the steps of one update of the list, in the
order the GUI thread makes them; it fetches `repositories.json` at the first three
of them, and `UpdateJsonMap` lets the server have any of `FilesOnServer` each time.
Between them the worker runs.  `Remove` is the destructor of an adapter: it posts
`removeModAdapter` and blocks (`removing`, `Waits`) until `RemoveModAdapter` has run.
`Click`, `RepositoryUpdate` and `GraceEnds` are the user's checkbox and the
repository's status, which is not recomputed for two seconds after a click.  The
worker's actions are the slots of `Mod` and `removeFolderPriv`.

State and code: `json` is `jsonMap_`; `tree` is `repositories_` with the mods each
repository has adapters for; `objs` the mods the GUI thread refers to, `exists` those
constructed and not yet deleted; `adapters`, `mstatus`, `timer` the mod's; `folder`
its torrent; `queue[k]` the calls posted for one mod and its folder.  One queue per
mod is enough: its handlers touch no other mod, so that the order between two mods'
calls changes nothing.  `excused` is history: a mod whose `.torrent` could not be
fetched, which the second and third fetch of one update disagreed on, or which left
several repositories in one update and fetched its torrent again.

Left out: optional mods, delta patching and rechecks (ModSync has them); file
sizes; the place of a mod in its repository (repository.cpp:393 inserts at the index
of the new file, which may lie behind the end of the list still held); launching.

What was seen while modelling: the lambda behind `fileSizeInitialized` keeps an
adapter that may be gone; a repository's file size is never reduced; a changed
`optional` flag of a mod that stays is not applied; a mod whose folder was removed
because the fetches differed stays ERRORED, its repository shows "Error", and
`periodicRepoUpdate`, which wants all of them READY or INACTIVE, does not run
again until the user clicks.

### TorrentStore

Each torrent has three files; `resume`, `meta` and `link` say of each whether it is
absent, empty, cut short or whole.  `Load` is loadTorrentFiles and the selection of
cleanUnusedFiles, `RemoveNext` one step of removeFiles.  A list update posts
`removeFolder` (`PostRemoval`), which the worker runs later, also when the GUI thread is
leaving already (`RemoveFolder`); `Withdraw` and `NewMod` are the rest of the update, and
may come without it, since the two read different fetches.  `OpenResume` to
`ShutdownCompleted` are `shutdown`, one step per file opened or written.  On the GUI
thread `Quit`, `DeleteApi`, `StopWaiting` and `Leave` are the steps from `exec`'s
return to the end of the process, with the wait for the mods (no limit) and the wait
for LibTorrentApi (15 s, then `quit` and 20 s more), after which the worker thread
may be in the middle of a file.  `Kill` may come anywhere.

`had` (complete at the start, and not removed since), `gone` (removal begun) and
`unsaved` (no resume data to be had) are history.

Left out or assumed: a file that is opened can be written (no full disk); the wait
of five seconds for alerts of a conflict; two torrents of one hash; the torrents of
delta patches, which are stored like others.

What was seen: resume data that was cut short makes `bdecode` throw at each start
(`Malformed`), until the file is deleted by hand; `removeFolderPriv` does not take
the folder out of `torrentParams_`, so that a mod that comes back in the same run is
added with its old parameters and may not get new resume data (`unsaved`).

### PatchFiles

`Delta` is `DeltaPatcher::delta`, run by the publisher for each release.  On the
client `PatchDirSync` and `FilterPatches` choose the chain; `Extract` or
`ExtractFails`, then per file `Rename`, `RenameFails`, `Xdelta` or `XdeltaFails`, then
`RemoveTarget`, `MoveFile` or `MoveFails` apply one patch; `NextPatch` goes on whatever
the outcome, since the assertion on the result is not in a release build.  `Download` is
libtorrent, `DeleteExtraFile`, `KeepExtraFile`, `Install`, `CopyFile`, `CopyFails` and
`Completed` are `Mod::processCompletion`.  `Kill` may come between any two files.

Failures the code looks at are free.  Those it does not look at are counted by
`Unasked`, so that TLC can bound them: in `Delta`, xdelta3 failing at a file (with no
output, or with one that later does not apply), a file not copied, no archive made
(deltapatcher.cpp:327, 341, 354); in `Extract`, 7za leaving out any files and cutting any
others short (:388; ending the program ends 7za, too); a whole file that is not renamed
(:240); and files of `delta_patch` that cannot be deleted (:202).  rmCi's failures
(mod.cpp:248) and FileUtils::move's (:258) are not looked at either, and are not counted.
`missed` and `kept` (history) name the files such a failure has cost the patch, and
those left in the folder; `DeleteExtraFile` never makes the completion wait.

A folder is a function from paths to contents.  `Hash` is what `AHasher::hash` tells
apart: names, sizes, and what signature files hold.  `Releases` and `Follows` are the
publisher's freedom, so going back to an old release and two releases of one hash
are included.

Abstractions: names are in upper case (on a case-sensitive file system a variant in
another case would survive); directories are one level and matter only where
`delta()` copies a file before it makes the directory (deltapatcher.cpp:327); the
directory iterator has one order everywhere (the hash depends on it); libtorrent's
download is one step; TeamSpeak's plug-ins are left out.  On the publisher's side it is
assumed that an old `delta_patch` can be emptied before a patch is made
(deltapatcher.cpp:301) and that a patch found from the latest release can be removed
(:374): `ChainsFit` would fail without the latter.

What was seen, and how the properties put it: the first new file of a new directory
is missing from the patch (`Losses`); what 7za
or xdelta3 could not do is missing without a word, and a file cut short goes into the
mod's folder (`missed`); an extra file that cannot be deleted stays beside a mod that is
READY (`kept`); files a killed process left in `delta_patch`
become part of the next patch (`pure`); a release that only adds files, or one whose
predecessor's hash has a patch already, gets no patch (`skipped`); after A, B, C, B
the chain has a hole (exception of `ChainFound`) and nobody is patched across it;
`FileUtils::move`'s result is ignored (`MoveFails`).  In each case libtorrent's check
repairs the torrent's own files afterwards: of these exceptions `CompletedExact` has
only `kept`.

### Progress

Operators only: what LibTorrentApi, DeltaManager and DirectoryWatcher answer of a
folder's bytes, `toProgressStr`'s whole megabytes, and the sum over a repository's
mods.  The three theorems are in the same module, and `MCModSync` has TLC check, around
the borders of a megabyte, the sum (`RepositoryShownComplete`) and the moves.

Of moves: `FileUtils::dirSize` reads a file's size before the iterator advances to it,
so that the last file is never counted (fileutils.cpp:164).  A move is therefore not
taken for done too early (`MoveNotEarly`, for an empty destination), but its end is not
seen by the sizes either, unless the last file is empty (`MoveEndsBySource`): what
counts is that libtorrent removes the source directory (directorywatcher.cpp:25).  A
move whose source keeps other files stays MOVING_FILES.

Of patches: `DeltaManager::totalWantedDone` passes a mod's name where the downloader's
table has its key (deltamanager.cpp:165), so that its answer is always 0, and
`folderTotalWanted` uses the same answer for the bytes wanted
(libtorrentapi.cpp:464): from the hand-over to the return the progress is 0 of 0
megabytes, which reads complete (`PatchingShownComplete`).

## 3. Runs

| run (cfg) | instance | properties | states |
|---|---|---|---|
| `mod_patched_moves` (ModPatched) | one repository, two directories; clicks, moves, delta switch, quits and kills; queue 2 | OneOwner, PathFollowsSetting, CompletionCovered, AbortExplained, UsesService | 1.0 M |
| `mod_optional_restarts` (ModOptional) | mod optional in r1, mandatory in r2; everything but moves, with quits and kills; queue 3 | TypeOK, NoLostStart, NoStrayRun, CompletionCovered, AbortExplained | 2.7 M |
| `mod_move` (ModMove) | two repositories, two directories; clicks, moves, quits and kills; queue 2 | NoDeadTimer, LiveReady | 0.19 M |
| `mod_stopped_violated` (ModStopped) | one repository; clicks, checks | StoppedWhenInactive | violated |
| `mod_completed_violated` (ModCompleted) | one repository; clicks, restarts | ReadyIsCompleted | violated |
| `delta_two_mods` (DeltaTwo) | a mod with two patches, one with one; a second list without m1's second patch; mirror, switch | TypeOK, HeldOnce, WaitIsPolled, ProvidesService, HandedReturns | 0.6 M |
| `delta_stuck_violated` (DeltaStuck) | the same, one list | DownloadedIsPatched | violated |
| `repo_moving` (RepoMoving) | two repositories, two mods; one mod leaves both at once, the other moves between them, one repository appears and disappears; queue 1 per mod | TypeOK, AdapterAlive, TreeIsFile, WorkerSeesTree, FoldersMatch, PausedUnwanted | 2.4 M |
| `repo_removed_violated` (RepoRemoved) | one repository, its only mod comes and goes | RemovalSurvives | violated |
| `store_two` (StoreTwo) | two torrents, any number of runs | TypeOK, AtMostOneBroken, ExitKeeps, RemovalSticks, QuitEnds | 1.2 M |
| `patch_files` (PatchReleases) | four releases of up to three files, two of one hash, in five successions with two cycles; a client; patches to number 2; one failure nobody looks at | TypeOK, ModIntact, ChainsFit, PatchMakesNew, CompletedExact | 0.4 M |
| `patch_chain_violated` (PatchChain) | one file, twelve releases, no client | ChainFound | violated |

**What the properties say.**  `NoLostStart` and `NoStrayRun` are the two halves
of "a mod runs exactly when it should": whatever clicks, checks, fetches and
patches overlap, a torrent that is paused though it should run, or runs though
it should not, still has a notice (`repositoryChanged`) on its way, or the check
that paused it is not over; the exception of `NoStrayRun` is named in `strayed`.
`OneOwner` says that a mod is pending, or being fetched, or patched, or in the
session, or about to be added again, and never two of these.  `NoDeadTimer`: the
progress of a running mandatory mod is sampled.  `CompletionCovered`: READY means
that the completion of everything downloaded since the last one was made, but
for restarts with resume data and for what a second comparison of a complete torrent
finds missing and a sample does not see: after a user's recheck that completion stays
asked for, and after a move's it does not.
`PathFollowsSetting`: a torrent that is elsewhere has its move posted or postponed,
but for one whose patch torrent was moved instead (`misplaced`).  `AbortExplained`
confines the ways in which the process ends by itself; one run has it with delta
patching and moves, one with optional mods and checks.  `LiveReady` is liveness: a mod that should run, whose directory is
left alone in the end, becomes READY and stays so.

`HeldOnce`: a mod under delta patching waits, or is in a call queued for the
patcher, or in the patcher, or in a queued signal, and is there once - what breaks
when a hand-over is made twice or a reset forgotten.  `WaitIsPolled`: while a mod
waits the timer runs, and every entry of the shared `inDl_` has a reply coming, so
that a failed fetch does not block the others.  `HandedReturns`: a mod given to the
patcher comes back, patched or not.

`AdapterAlive`: the worker neither holds a destroyed adapter nor is a call that
carries one left in its queue.  `TreeIsFile`: between updates the GUI's tree is the
file last read, though its three fetches may have differed.  `WorkerSeesTree` and
`FoldersMatch` relate the two threads: once a mod's calls are handled its adapters
are those of the tree, and its torrent runs or not as the ticks say, with the
exceptions of `excused`.
`PausedUnwanted`: a mod that moves from one active repository to another is not
stopped in between, or the call that resumes it is queued already.

`AtMostOneBroken`, `ExitKeeps`, `RemovalSticks` are about what the next run finds,
wherever this one ended, and `QuitEnds` says that the program ends however long
libtorrent takes and whatever removals are still posted.

`ModIntact`: until a whole patch is made the folder is as it was, and then at most
one file is missing at any moment.  `ChainsFit`: the patches found lead from what
the folder is to the latest release, also after the publisher went back - if no
patch is taken for another (`Numbered`).
`PatchMakesNew`: differences and new files together make the next release, whichever
failures the code looks at came on the way, and those it does not look at cost the
files in `missed` only.  `CompletedExact`: in the end the folder has the torrent's files
and no other but those in `kept`, and what is installed is what the folder holds.

**What the violated ones show.**

* `StoppedWhenInactive` (mod.cpp:277).  Tick, fetch, untick: the torrent is paused.
  "Recheck", which the menu offers for inactive mods too, resumes it
  (libtorrentapi.cpp:448, or :204 when the check ends), and nothing pauses it again.
* `ReadyIsCompleted` (settingsmodel.h:50).  The download ends, the program is closed
  before the timer has seen WAITING and READY; at the next start there is resume
  data, and `start()` writes the mark as if the completion had been made (mod.cpp:108).
* `DownloadedIsPatched` (deltamanager.cpp:106).  A mod whose patch could not be
  fetched completely finds no chain; patchDirSync returns with `patchingMod_` set,
  and no later mod is taken off the waiting list.
* `RemovalSurvives` (repositories-update-mod-remove.sh).  A mod that was never
  ticked has no torrent; when it leaves repositories.json, `removeFolderPriv` asks
  its empty handle for its status and libtorrent throws (libtorrentapi.cpp:831).
* `ChainFound` (deltapatcher.h:27).  With the eleventh patch of a mod the expression
  for version 1 finds version 10 as well; two matches are given up on.

**What the models show besides**, each of which can be seen by stating it as an
invariant:

* The delta setting is visible to the worker before the event that makes the
  DeltaManager: a mod started in between is put in `pendingFolder_`, which nothing
  empties (libtorrentapi.cpp:1054).
* m1 is handed over and one of its two patches arrives; m2 is handed over and `inDl_`
  is m2's now; m2's reply empties it; m1 counts as downloaded and is patched while
  its second request is open (deltadownloader.cpp:80).
* `latestVersion`'s regular expression is static: the second mod the process patches
  is compared with the first one's latest number (deltapatcher.cpp:447).
* While delta patching has a mod its progress reads complete, 0 of 0 (Progress).

Four more came from proof attempts that failed; each has its counterexample in TLC
when the exception is taken out of the property.

* A mod that was restarted with resume data is patched, and the download directory is
  changed before the next sample shows PATCHING: the move is made on the patch torrent
  (libtorrentapi.cpp:342).  Afterwards the mod's own torrent is added from the resume
  data, at the old path (libtorrentapi.cpp:930), and no move of it is queued: the
  exception of `PathFollowsSetting`.
* A move of a finished torrent onto files that are there already is followed by a
  recheck (libtorrentapi.cpp:361).  What that finds missing, and what is downloaded
  again between two samples of the timer, gets no completion (mod.cpp:464): the mod
  has been READY throughout.  Hence `owed` is "moved" then.
* A user's recheck of a READY mod asks for a completion (mod.cpp:590), but the status
  stays READY unless a sample sees the check or a download.  If none does, what was
  missing has come and is not completed until a later check or download is seen.  The mark is right (`processed` is cleared), and `owed` is "recheck" then.
* A mod that leaves two ticked repositories in one update: `removeFolder` comes first,
  then the first adapter's removal finds the other repository active and starts the
  mod, which fetches the torrent that was just removed (mod.cpp:314, treemodel.cpp:236,
  jsonreader.cpp:146).  The last adapter's removal stops it: a paused torrent is left
  over, or, while its file is still being fetched, an empty handle is asked and the
  process ends.  The exception of `FoldersMatch`.
* The publisher goes back, so that patch 1 is removed, and later makes patch 10: the
  expression `modName\.1.*7z`, meant for patch 1, finds patch 10, and the client is
  given the chain 0, 10, 2, 3 ... (deltapatcher.cpp:129).  The exception of `ChainsFit`.

**Bounds.**  In ModSync `MaxQueue` is the only one: the user waits while more than that many
events would be queued.  Two to four leave room for a click on each repository
while the previous one's events are not yet handled, and each handler takes one
event, so longer queues repeat the same overtakings.  One mod is the rule because a
mod's handlers touch no other mod; mods meet in the queue, in the settings and in
`disableDeltaUpdatesSlot`, and what could go wrong there (an owner lost or doubled,
a start lost behind another mod's events) is proved for any number of mods.  `Ops` chooses the
user's operations per run: all together exceed what TLC can finish in minutes.
Mods are not symmetric (the queue and `BootOrder` order them), so no symmetry is used.

In DeltaSync `MaxRequests` bounds the requests under way of one URL (for one mod,
and for the mirror) and its entries in `mirrored_`.  A second request of the same URL
for the same mod needs delta patching to be left and entered again before the first
reply; it only repeats the same reply.  Two mods are what the shared list needs, a
mod with two patches what a partial download needs; the mods differ in their
patches, so no symmetry applies.

In RepoTree `MaxQueue` bounds, per mod, the calls that may be waiting when the user
clicks or an update begins; an update posts up to five more on top.  The two files are
chosen so that a repository comes and goes, one mod moves between repositories and
the other is withdrawn from both at once; the number of updates is not bounded.

What the runs of ModSync see only in part: libtorrent's own pause is not in `paused` (it
is a free choice where the status is computed), so `NoLostStart` does not follow a torrent
in libtorrent's queue; of a torrent that is loaded with the wrong directory
(libtorrentapi.cpp:1252) `PathFollowsSetting` sees the path, and the model has no files;
and `LiveReady` asks for a mod that has its folder, so a `.torrent` that is never asked
for again does not violate it.

TorrentStore needs no bound.  Two torrents are what "at most one" needs: one whose
file is open, and one that must not be touched.

In PatchFiles `MaxNo` bounds the patches' numbers: with numbers 0 to 2 a chain can
be three long, and the publisher can go back once or twice.  The contents have two
of one size, the paths a signature and a file in a new directory.  PatchChain goes to
number 10, the first with two digits, and leaves the client out.  `MaxFaults` bounds the
failures nobody looks at, of which the run has one, wherever it may come; `Cut` is the
content of a file that was extracted in part.  The theorems hold for any number of them.  `Numbered`, the
condition of `ChainsFit`, always holds at MaxNo 2; `ChainsFitAlways` covers the rest.

**Deadlock** is checked in every run of ModSync, in TorrentStore and in `patch_files`:
there is none, since a process that has ended can be started again.  In DeltaSync it is
not: when every patch is applied and nothing is left to mirror, or the process has
ended, there is nothing to do.  In RepoTree a process that has ended is not
started again, and in PatchChain the publisher has no number left.

**Fairness** (`FairSpec` of ModSync): the worker thread takes its events, the second half of
a click is executed, the update timer fires, requests are answered (or fail),
checks and moves end, and a torrent that libtorrent runs progresses.  These are
the event loop's, the timers' and the network stack's guarantees (a reply always
comes, as `QNetworkReply::finished` is emitted on errors also).  That a download
finishes assumes that there are peers, and that a move is seen to end assumes that
libtorrent removes the source directory, as a comment in directorywatcher.cpp says
it does (see Progress).  Weak fairness suffices: each of these actions stays enabled until it is
taken or no longer wanted.  Nothing is assumed of the user, of restarts, or of a
patch torrent's reply, for which the code has no failure path.

DeltaSync has two: `ThreadFairness`, enough for HandedReturns, lets both threads take
what is queued for them.  `Fairness` adds that the manager's timer ticks, requests
are answered and torrents finish.  `Update` of a mod gets strong fairness, so that a
mod is not blamed for waiting behind others: `findDownloadedMod` picks any of those
downloaded, and the patcher is busy now and then.  It is the assumption most in
favour of the code, and DownloadedIsPatched fails in spite of it.

TorrentStore's `FairSpec` lets the worker thread go on loading, removing and
deleting mods, and ends the GUI thread's waits that have a limit.  It assumes nothing
of libtorrent's alerts or of writing files, which is the point of `QuitEnds`.

## 4. Proofs

**ModSync.**  For any sets of mods, repositories, directories and optional adapters, any order
of mods and any queue bound, assuming only `Assumptions` (there is a directory,
`NoRepo` is no repository, mod lists are sequences of mods):

* `TypeCorrect`: `Spec => []TypeOK`.
* `OneOwnerAlways`: `Spec => []OneOwner`.  OneOwner is not inductive.  `OwnerInv`
  adds that no mod is left with a stage when there is no DeltaManager (otherwise
  `folderExists` would not see it and `start()` would add it twice) and that a
  mod whose PBOs are checked has its torrent (otherwise the callback would revive
  it).  `Apart` is OneOwner pair by pair, in a form the provers can use.
* `ModUsesService`: `Spec => UsesService`.  It needs what the types and `OwnerInv` say:
  without a DeltaManager no mod has a stage, so that a hand-over starts from `none`.
* `AbortExplainedAlways`: a handler that ends the process leaves the registry as it
  found it, so the reason can still be seen; and `addFolder`, which would also end it
  on a folder that is there, meets none because a mod has one owner (`OwnerInv`).
* `NoLostStartAlways`, `NoStrayRunAlways`: both from one invariant, `RunInv`:
  `RunOk` of each mod; only what has a handle is paused (so that what is added
  is never added paused); and the loop of `disableDelta` runs without a manager.
  The proof follows one mod through each action.  If the action is the mod's own,
  it ends running, paused, without a handle, or marked in `strayed`
  (`RunResumed`, `AddFolderRuns`); if it is another mod's, nothing the mod is
  judged by changes (`OthersStay`, `OneModStep`) except the head of the queue,
  which is no notice of this mod (`NoticeSurvives`); and if it is a click, who
  should run may change, but exactly those mods are notified (`ShouldRunIsLocal`,
  `RunClick`).
* `NoDeadTimerAlways`, `PathFollowsSettingAlways`: both rest on one fact about the
  queue, `EventStays`: an event stays until its own handler runs.  `TimerInv`: only
  `stop()` ends the timer, of a mod that should not run, and a mandatory mod begins to
  be one that should in the very step that posts its `startUpdates` (`RanBefore`).
  `PathInv` adds to the property what holds of resume data from which a torrent will
  be added: if its path is not the set one, a move is due already.
* `CompletionCoveredAlways`, from `DoneInv`: a mod without resume data that is on its
  way to the session, or downloads there, is neither marked as processed nor shown
  complete (`Fresh`), so that the sample which finds it complete runs the completion;
  what is shown complete has a torrent.  A torrent that may turn out to lack something
  (`Open`) while nothing is recorded as owed is neither marked nor READY, which is what a
  check of a mod that is not READY relies on; and "recheck" is owed only by a mod that
  is not marked.

**DeltaSync.**  For any mods, patch chains, lists and `MaxRequests`, assuming `DeltaAssumptions`
(`NoMod` is no mod, chains are sequences of URLs, lists are sets of URLs):

* `DeltaTypeCorrect`: `Spec => []TypeOK`.  TypeOK is not inductive: the patcher's signal
  carries `patchingMod_`, which must be a mod while it is at work (`TypeInv`).
* `HeldOnceAlways`: `Spec => []HeldOnce`, inductive beside TypeInv.  `AppendFacts` and
  `TailFacts` say what the two queues' operations do to their sets of elements.
* `WaitIsPolledAlways`: from HeldOnce (an empty `keyHash_` means that no mod waits, which
  is when the timer stops and when the mirror fills `inDl_`).
* `DeltaProvidesService`: `Spec => ProvidesService`.  The refinement invariant `RefInv`
  adds `AskedHeld`: a mod with a request open and no torrent yet is still waiting (so a
  reply makes a torrent known only in the download stage).  `StageMoves` shows
  that a mod's stage is changed as HeldOnce lets one read it, and each action is then
  a step of the service or leaves it alone.

**RepoTree.**  For any repositories, keys, files on the server and queue bound,
assuming `TreeAssumptions` (the files are files, there is one, `NoAdapter` is none):
`TreeTypeCorrect`, `TreeIsFileAlways`, `AdapterAliveAlways`, all from `TreeInv`.  Beside
the types it says: while an update is applied the tree is the new file and what is
still to be removed (`Applying`), which at the end leaves the file; a removal that is
queued is the one the GUI thread waits for, and nothing about adapters is behind it
in that mod's queue (`RemovalLast`), which is why a call that carries an adapter is
handled before the adapter goes.

* `WorkerSeesTreeAlways`: `KnowInv` describes what the worker *will* know.  The calls of
  a mod's queue follow each other only in some orders (`InOrder`, `Never`); with these,
  the adapters the mod holds until it is made anew (`Held`) and those that will be
  added (`Appended`) are together the ones the GUI thread has (`Alive`), and the mod
  will exist if the GUI thread refers to it.  `ObjsMatch` ties that to the tree, and
  `Withdrawn` says that what the file does not list has its removal to come.
* `PausedUnwantedAlways`: the same invariant, for one step; `TickedRuns` relates the
  status a handler reads to the tick.
* `FoldersMatchAlways`: `FolderInv` of each mod.  Once a mod has handled what it was told
  about its adapters its torrent is as the ticks of *those* ask (`Follows`), also while
  calls of other kinds wait; no torrent is without a mod (`Needed`), and a removal is
  handled within its update (`RemovedSoon`).  For the timer: every `append` of an
  active repository has a `startUpdates` behind it, and what stops updates comes before
  what starts them (`StoppedFirst`, `Sampled`).

**TorrentStore.**  For any finite set of torrents: `StoreTypeCorrect`,
`RemovalSticksAlways`, `AtMostOneBrokenAlways`, `ExitKeepsAlways`, all from `StoreInv`.  Beside the properties it says that no torrent is both in the session
and gone, that what shutdown writes is of the session and what is removed is not; that
every torrent of `had` is whole but the one whose file is open (`WholeBut`); and, for
`ExitKeeps`, which files are whole at each stage of shutdown (`SavedSoFar`).

**PatchFiles.**  For any releases, order of releases, sizes and signatures, assuming
`FilesAssumptions`: `FilesTypeCorrect`, `ModIntactAlways`, `CompletedExactAlways`,
`PatchMakesNewAlways`, `ChainsFitAlways`, from `FilesInv`.  It adds that every patch has been made by `delta()`
from two releases, with what it lacks recorded (`AllMade`), what has been done of the
current patch, file by file, for all but `missed` (`Applying`, `Moved`) and of a
completion, for all but `kept` (`Completing`), and that what is still to be moved or
copied is there and numbers are bounded (`Bounded`; `LatestIs` says that latestVersion then finds the largest number).  For
ChainsFit, `Lined`: as long as each release got its patch, consecutive numbers lead on,
the last one leads to the latest release, and none starts there; `FilterNumbers` says
which patches filterPatches picks, provided no number is taken for another.

**Progress.**  `NoCeilToComplete`, `ModShownComplete`, `PatchingShownComplete`: for any
number of bytes; the last assumes that a mod's name is not one of the keys, which are
URLs of torrents.

Every invariant and action property that a passing run checks is thus stated by a
theorem.  Only model-checked are `LiveReady`, `HandedReturns` and `QuitEnds`, since
liveness under fairness is beyond the prover, and, in `Progress`, the sum over a
repository's mods and the sizes of moved files, which are folds.

## 5. Plan

Done: ModSync; DeltaSync and PatchService, with the refinement proved from both
sides; RepoTree (the repositories' status and the change of the list); PatchFiles
(making, choice and application of patches, completion and installation);
TorrentStore (stored files, the end of a run); Progress; and a proof of every safety
property the runs check.

Next, in this order:

1. `StorageMove`: two directories that change during a move, with what the destination
   holds already, and moves of a torrent that is patched.
2. Optional mods in RepoTree, with the list's collision report.
3. Delta torrents' files in TorrentStore.

Composition: `DeltaSync` under `ModSync` is the refinement through `PatchService`.
`RepoTree`'s mod is a reduced `ModSync` mod, and `TorrentStore`'s session the set of mods
with a torrent; both are related in words only.

## 6. Not modelled

A download directory that cannot be read (libtorrentapi.cpp:971), which makes
`addFolder` give up; it is an error of the environment with no way back.
`removeConflicting` (mod.cpp:74), which removes the torrent of another key that has the
new mod's directory: it needs two mods of one name, and a mod's directory is its own
in every module.  The bandwidth limits and the port, stored values that are passed on.

Alerts, speed display, logging, path look-ups, the version check, the process
monitor, the widgets and the external tools: they keep no state another part
decides by, or are pure I/O.  `PROJECT.json` lists every component with its reason.
