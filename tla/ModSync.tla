------------------------------ MODULE ModSync ------------------------------
(***************************************************************************)
(* One mod's life in AFISync: the Mod objects (mod.cpp), the torrent       *)
(* registry they drive (libtorrentapi.cpp) and the two threads around      *)
(* them.                                                                   *)
(*                                                                         *)
(* GUI thread: ticks repositories and optional mods, changes settings, and *)
(* posts work to the worker thread's event queue.                          *)
(* Worker thread: takes posted events in FIFO order, and in between runs   *)
(* timers (Mod::update, once a second) and completion callbacks (a fetched *)
(* .torrent file, a finished PBO check, a patched mod).  A worker handler  *)
(* is one action.                                                          *)
(* Environment: libtorrent's own threads, the patcher thread, the network. *)
(*                                                                         *)
(* Patching is seen here only through the stages a mod passes under the    *)
(* DeltaManager.                                                           *)
(***************************************************************************)
EXTENDS Naturals, Sequences

CONSTANTS
  Mods,       \* mod keys
  Repos,      \* repositories
  ModsOf,     \* ModsOf[r]: the mods of r in the order of repositories.json
  BootOrder,  \* the order in which the mods are created at start-up
  Optional,   \* the adapters <<m, r>> that are optional
  Dirs,       \* download directories the user can choose
  NoRepo,     \* no checkbox handler is running
  Ops,        \* the user operations that happen: "repo", "mod", "check",
              \* "move", "delta", "quit"
  MaxQueue    \* bound: the user waits while more than this would be queued

RangeOf(s) == {s[i] : i \in DOMAIN s}

ASSUME Assumptions ==
  /\ Dirs # {}
  /\ NoRepo \notin Repos
  /\ MaxQueue \in Nat
  /\ ModsOf \in [Repos -> Seq(Mods)]
  /\ BootOrder \in Seq(Mods)
  /\ RangeOf(BootOrder) = Mods

Statuses == {"STARTING", "INACTIVE", "ERRORED", "MOVING_FILES", "QUEUED",
  "CHECKING_PATCHES", "CHECKING", "DOWNLOADING_PATCHES", "DOWNLOADING",
  "WAITING", "READY", "PAUSED", "PATCHING", "NO_PEERS"}
\* What libtorrent does with a torrent; "none": it is not in keyHash_.
TorrentStates == {"checking", "downloading", "finished"}
\* Where a mod is under DeltaManager: its patches in inDownload_, handed to
\* the patcher, or patched with the patched() signal on its way.
DeltaStages == {"none", "download", "patch", "signal"}

Event == ({"changed", "startUpdates", "check", "forceCheck", "move"} \X Mods)
           \cup {<<"enableDelta">>, <<"disableDelta">>}

VARIABLES
  (* GUI thread; repoTicked, modTicked, dir, deltaSetting are in AFISync.ini *)
  repoTicked,    \* repositories whose checkbox is ticked
  modTicked,     \* optional adapters whose checkbox is ticked
  repoActive,    \* repositories whose status is not INACTIVE
  clicking,      \* the repository whose checkbox handler is half done
  dir,           \* modDownloadPath
  deltaSetting,  \* deltaPatchingEnabled
  (* on disk *)
  processed,     \* mods whose "processed" setting holds their key
  resumeFiles,   \* mods with .torrent, .link and .fastresume files
  (* Mod objects *)
  ticked, status, timer, postponed,
  (* LibTorrentApi *)
  tor,           \* state of the mod's torrent, "none" without a valid handle
  paused,        \* mods whose handle is paused by hand
  home,          \* save path of the torrent
  params,        \* torrentParams_: mods with resume data in memory
  paramsDir,     \* the save path loadTorrentFiles gave them
  fetching,      \* torrentDownloading_
  pending,       \* pendingFolder_
  checking,      \* checkingPbos_
  moving,        \* StorageMoveManager's watched mods
  (* DeltaManager, as LibTorrentApi sees it *)
  deltaMgr,      \* deltaManager_ is not null
  delta,         \* stage of each mod
  deltaKnown,    \* mods with a patch torrent in handleMap_
  readd,         \* rest of disableDeltaUpdatesSlot's loop
  (* threads *)
  queue,         \* events posted to the worker thread
  proc,          \* "up", "down" (ended) or "aborted"
  (* history *)
  owed,          \* what processCompletion is due for: a finished "download";
                 \* what a "recheck" of a READY mod, or the one after its files
                 \* "moved", finds missing; or "none"
  strayed,       \* mods resumed by a completion although they should not run
  misplaced      \* mods whose last move was made on their patch torrent

gui   == <<repoTicked, modTicked, repoActive, clicking, dir, deltaSetting>>
disk  == <<processed, resumeFiles>>
modv  == <<ticked, status, timer, postponed>>
api   == <<tor, paused, home, params, paramsDir, fetching, pending, checking,
           moving>>
dlt   == <<deltaMgr, delta, deltaKnown, readd>>
hist  == <<owed, strayed, misplaced>>
vars  == <<gui, disk, modv, api, dlt, queue, proc, hist>>

TypeOK ==
  /\ repoTicked \subseteq Repos /\ repoActive \subseteq Repos
  /\ modTicked \subseteq Optional
  /\ clicking \in Repos \cup {NoRepo}
  /\ dir \in Dirs /\ paramsDir \in Dirs /\ home \in [Mods -> Dirs]
  /\ deltaSetting \in BOOLEAN /\ deltaMgr \in BOOLEAN
  /\ processed \subseteq Mods /\ resumeFiles \subseteq Mods
  /\ ticked \subseteq Mods /\ timer \subseteq Mods /\ postponed \subseteq Mods
  /\ status \in [Mods -> Statuses]
  /\ tor \in [Mods -> TorrentStates \cup {"none"}]
  /\ paused \subseteq Mods /\ params \subseteq Mods /\ fetching \subseteq Mods
  /\ pending \subseteq Mods /\ checking \subseteq Mods /\ moving \subseteq Mods
  /\ delta \in [Mods -> DeltaStages]
  /\ deltaKnown \subseteq Mods /\ readd \subseteq Mods
  /\ queue \in Seq(Event)
  /\ proc \in {"up", "down", "aborted"}
  /\ owed \in [Mods -> {"none", "download", "recheck", "moved"}]
  /\ strayed \subseteq Mods /\ misplaced \subseteq Mods

-----------------------------------------------------------------------------
(* What the code asks before it acts. *)

ReposOf(m) == {r \in Repos : m \in RangeOf(ModsOf[r])}

\* Mod::reposInactive: also true of a mod without repositories.
ReposInactive(m) == ReposOf(m) \cap repoActive = {}

\* ModAdapter::ticked
AdapterTicked(m, r) == <<m, r>> \in Optional => <<m, r>> \in modTicked

\* Mod::updateTicked: the value it gives ticked_.
TickedNow(m) ==
  \/ /\ \A r \in ReposOf(m) : <<m, r>> \notin Optional
     /\ ~ReposInactive(m)
  \/ \E r \in ReposOf(m) : AdapterTicked(m, r) /\ r \in repoTicked

\* The decision of Mod::repositoryChanged.
ShouldRun(m) == TickedNow(m) /\ ~ReposInactive(m)

DeltaContains(m) == deltaMgr /\ delta[m] # "none"

\* Mutant: a mod under DeltaManager does not count.
FolderExistsForgetsDelta(m) ==
  m \in pending \/ m \in fetching \/ tor[m] # "none"

FolderExists(m) ==
  m \in pending \/ m \in fetching \/ DeltaContains(m) \/ tor[m] # "none"

\* getHandle(m) is valid: the mod's torrent or, while the mod is with the
\* DeltaManager, its first patch torrent.  libtorrent throws on any other
\* handle, no caller catches, and the process ends.
HandleValid(m) == tor[m] # "none" \/ (DeltaContains(m) /\ m \in deltaKnown)

FolderChecking(m) == m \in checking \/ tor[m] = "checking"

\* Mod::updateStatus from the registry and the previous status.  q is what
\* only the other threads know: libtorrent has queued the torrent, checks
\* the patch torrents, or the patcher has not picked the mod up yet.
\* EXTRACTING_PATCH is shown as PATCHING, the final ERRORED as NO_PEERS.
StatusOf(m, old, q) ==
  IF m \notin ticked \/ ReposInactive(m) THEN "INACTIVE"
  ELSE IF ~FolderExists(m) THEN "ERRORED"
  ELSE IF m \in moving THEN "MOVING_FILES"
  ELSE IF q /\ ~DeltaContains(m) /\ tor[m] \in {"checking", "downloading"}
            /\ m \notin paused THEN "QUEUED"
  ELSE IF q /\ DeltaContains(m) /\ delta[m] = "download" /\ m \in deltaKnown
       THEN "CHECKING_PATCHES"
  ELSE IF FolderChecking(m) THEN "CHECKING"
  ELSE IF DeltaContains(m) /\ delta[m] = "download" THEN "DOWNLOADING_PATCHES"
  ELSE IF m \in fetching \/ tor[m] = "downloading" THEN "DOWNLOADING"
  ELSE IF old \in {"WAITING", "READY"} THEN "READY"
  ELSE IF tor[m] = "finished" /\ ~DeltaContains(m) THEN "WAITING"
  ELSE IF m \in paused THEN "PAUSED"
  ELSE IF DeltaContains(m) /\ delta[m] = "patch" /\ ~q THEN "PATCHING"
  ELSE "NO_PEERS"

-----------------------------------------------------------------------------
(* Effects shared by several handlers. *)

Ended(how) == proc' = how /\ UNCHANGED <<gui, disk, modv, api, dlt, queue, hist>>

Post(kind, mods) == [i \in DOMAIN mods |-> <<kind, mods[i]>>]

\* Mod::update: status, and with it the "processed" setting: entering
\* DOWNLOADING asks for a completion, leaving WAITING runs one if asked for.
\* With over = TRUE the caller overwrites the setting afterwards.
Update(m, over) ==
  \E old \in {status[m]}, q \in BOOLEAN :
    /\ status' = [status EXCEPT ![m] = StatusOf(m, old, q)']
    /\ LET enters == status'[m] = "DOWNLOADING" /\ old # "DOWNLOADING"
           leaves == status'[m] = "READY" /\ old = "WAITING"
       IN /\ over \/ processed' = CASE enters -> processed \ {m}
                                    [] leaves -> processed \cup {m}
                                    [] OTHER  -> processed
          /\ owed' = IF leaves /\ m \notin processed
                     THEN [owed EXCEPT ![m] = "none"] ELSE owed

\* handle.resume() from a handler that may not have looked at the ticks.
Resumed(m) ==
  /\ paused' = paused \ {m}
  /\ strayed' = IF ShouldRun(m) THEN strayed \ {m} ELSE strayed \cup {m}

\* Mutant: the postponed move is forgotten.
OnFolderAddedForgetsMove(m, path, over, q) ==
  /\ \E st \in TorrentStates : tor' = [tor EXCEPT ![m] = st]
  /\ Resumed(m)
  /\ home' = [home EXCEPT ![m] = path]
  /\ postponed' = postponed \ {m}
  /\ queue' = Append(q, <<"startUpdates", m>>)
  /\ UNCHANGED moving
  /\ Update(m, over)

\* LibTorrentApi::onFolderAdded and, on its signal, Mod::onFolderAdded: the
\* torrent runs whatever the ticks say; a postponed move is made now.
OnFolderAdded(m, path, over, q) ==
  /\ \E st \in TorrentStates : tor' = [tor EXCEPT ![m] = st]
  /\ Resumed(m)
  /\ home' = [home EXCEPT ![m] = IF m \in postponed THEN dir ELSE path]
  /\ moving' = IF m \in postponed THEN moving \cup {m} ELSE moving
  /\ postponed' = postponed \ {m}
  /\ queue' = Append(q, <<"startUpdates", m>>)
  /\ Update(m, over)

\* Mutant: start() does not ask for a completion.
AddFolderGenericKeepsProcessed(m, over, q) ==
  \/ /\ m \in params
     /\ UNCHANGED <<fetching, proc>>
     /\ OnFolderAdded(m, paramsDir, FALSE, q)
  \/ /\ m \notin params
     /\ fetching' = fetching \cup {m}
     /\ paused' = paused \ {m}
     /\ queue' = q
     /\ UNCHANGED <<processed, tor, home, moving, postponed, status, owed,
                    strayed, proc>>

\* LibTorrentApi::addFolderGenericAsync; q is the queue left by the caller.
\* Resume data adds the torrent at once, otherwise its file is fetched; a
\* folder that is there already is announced with an empty handle.
AddFolderGeneric(m, over, q) ==
  \/ /\ m \in params
     /\ UNCHANGED <<fetching, proc>>
     /\ OnFolderAdded(m, paramsDir, over, q)
     /\ over => processed' = processed \cup {m}
  \/ /\ m \notin params
     /\ proc' = IF FolderExists(m) /\ ~(DeltaContains(m) /\ delta'[m] = "none")
              THEN "aborted" ELSE proc
     /\ fetching' = fetching \cup {m}
     /\ paused' = paused \ {m}
     /\ queue' = q
     /\ processed' = IF over THEN processed \ {m} ELSE processed
     /\ UNCHANGED <<tor, home, moving, postponed, status, owed, strayed>>

\* LibTorrentApi::addFolder.  Whether a patch is available depends on the
\* files on disk and the patch list.  deltaUrls_ is not empty.
AddFolder(m, over, q) ==
  \/ /\ ~deltaMgr' /\ deltaSetting
     /\ pending' = pending \cup {m}
     /\ processed' = IF over THEN processed \ {m} ELSE processed
     /\ queue' = q
     /\ paused' = paused \ {m}
     /\ UNCHANGED <<delta, tor, home, moving, postponed, status, owed, strayed,
                    fetching, proc>>
  \/ /\ deltaMgr' /\ deltaSetting
     /\ delta' = [delta EXCEPT ![m] = "download"]
     /\ processed' = IF over THEN processed \ {m} ELSE processed
     /\ queue' = q
     /\ UNCHANGED <<pending, tor, paused, home, moving, postponed, status, owed,
                    strayed, fetching, proc>>
  \/ /\ deltaMgr' \/ ~deltaSetting
     /\ UNCHANGED <<delta, pending>>
     /\ AddFolderGeneric(m, over, q)

-----------------------------------------------------------------------------
(* Worker thread: posted events. *)

Worker == proc = "up" /\ readd = {}

Takes(event) == Worker /\ queue # <<>> /\ Head(queue) = event

\* Mod::stop, of a folder that exists; its handle may not be there yet.
Stop(m) ==
  /\ UNCHANGED <<tor, home, fetching, pending, moving, delta, postponed>>
  /\ \/ /\ HandleValid(m)
        /\ paused' = paused \cup {m}
        /\ strayed' = strayed \ {m}
        /\ timer' = timer \ {m}
        /\ queue' = Tail(queue)
        /\ UNCHANGED proc
        /\ Update(m, FALSE)
     \/ /\ ~HandleValid(m)
        /\ proc' = "aborted"
        /\ UNCHANGED <<processed, status, timer, paused, queue, owed, strayed>>

\* Mod::start.  (removeConflicting concerns an older version of the mod.)
Start(m) ==
  /\ UNCHANGED timer
  /\ \/ /\ FolderExists(m)
        /\ Resumed(m)
        /\ queue' = Tail(queue)
        /\ UNCHANGED <<processed, status, postponed, tor, home, fetching,
                       pending, moving, delta, proc, owed>>
     \/ /\ ~FolderExists(m)
        /\ AddFolder(m, TRUE, Tail(queue))

\* Mod::repositoryChanged, also the body of init and checkboxClickedSlot.
RepositoryChanged(m) ==
  /\ Takes(<<"changed", m>>)
  /\ ticked' = IF TickedNow(m) THEN ticked \cup {m} ELSE ticked \ {m}
  /\ UNCHANGED <<gui, resumeFiles, params, paramsDir, checking, deltaMgr,
                 deltaKnown, readd, misplaced>>
  /\ \/ ~ShouldRun(m) /\ FolderExists(m) /\ Stop(m)
     \/ ShouldRun(m) /\ (FolderExists(m) => m \in paused) /\ Start(m)
     \/ /\ FolderExists(m) <=> ShouldRun(m)
        /\ m \in paused => ~ShouldRun(m)
        /\ queue' = Tail(queue)
        /\ UNCHANGED <<processed, status, timer, postponed, tor, paused, home,
                       fetching, pending, moving, delta, proc, owed, strayed>>

\* Mod::startUpdatesSlot
StartUpdates(m) ==
  /\ Takes(<<"startUpdates", m>>)
  /\ timer' = timer \cup {m}
  /\ queue' = Tail(queue)
  /\ UNCHANGED <<gui, disk, ticked, status, postponed, api, dlt, proc, hist>>

\* Mutant: a check does not ask for a completion.
CheckUncompleted(kind, m) ==
  /\ Takes(<<kind, m>>)
  /\ queue' = Tail(queue)
  /\ ~FolderChecking(m) /\ ~DeltaContains(m) /\ HandleValid(m)
  /\ paused' = paused \cup {m}
  /\ strayed' = strayed \ {m}
  /\ checking' = checking \cup {m}
  /\ owed' = [owed EXCEPT ![m] = IF @ = "download" THEN @
                                 ELSE IF status[m] = "READY" THEN "recheck"
                                 ELSE "none"]
  /\ UNCHANGED <<gui, disk, modv, tor, home, params, paramsDir, fetching,
                 pending, moving, dlt, proc, misplaced>>

\* Mod::check and Mod::forceCheck, with LibTorrentApi::checkFolder.  A check
\* pauses the torrent, and its callback will resume it; forceCheck takes the
\* torrent out of libtorrent's queue and resumes it first.
Check(kind, m) ==
  /\ Takes(<<kind, m>>)
  /\ queue' = Tail(queue)
  /\ \/ /\ ~FolderChecking(m) /\ ~DeltaContains(m) /\ HandleValid(m)
        /\ paused' = paused \cup {m}
        /\ strayed' = strayed \ {m}
        /\ checking' = checking \cup {m}
        /\ processed' = processed \ {m}
        /\ owed' = [owed EXCEPT ![m] = IF @ = "download" THEN @
                                       ELSE IF status[m] = "READY" THEN "recheck"
                                       ELSE "none"]
     \/ /\ FolderChecking(m) \/ DeltaContains(m) \/ ~HandleValid(m)
        /\ IF kind = "forceCheck" /\ HandleValid(m)
           THEN Resumed(m) ELSE UNCHANGED <<paused, strayed>>
        /\ UNCHANGED <<checking, processed, owed>>
  /\ UNCHANGED <<gui, resumeFiles, modv, tor, home, params, paramsDir, fetching,
                 pending, moving, dlt, proc, misplaced>>

\* LibTorrentApi::setFolderPath.  While the patcher has the mod, the handle
\* that is moved is its patch torrent's, and its resume data keeps the old
\* path.  Moving a running torrent onto existing files the user keeps is
\* followed by a recheck, for which no completion is asked.
SetFolderPath(m) ==
  /\ moving' = moving \cup {m}
  /\ \/ /\ tor[m] = "none"
        /\ misplaced' = misplaced \cup {m}
        /\ UNCHANGED <<tor, home, owed>>
     \/ /\ tor[m] # "none"
        /\ misplaced' = misplaced \ {m}
        /\ home' = [home EXCEPT ![m] = dir]
        /\ \/ UNCHANGED <<tor, owed>>
           \/ /\ m \notin paused
              /\ tor' = [tor EXCEPT ![m] = "checking"]
              /\ owed' = IF tor[m] = "finished" /\ owed[m] = "none"
                         THEN [owed EXCEPT ![m] = "moved"] ELSE owed

\* Mutant: neither the status nor the folder is looked at.
MoveFilesUnasked(m) ==
  /\ Takes(<<"move", m>>)
  /\ UNCHANGED <<gui, disk, ticked, status, timer, paused, paramsDir, fetching,
                 pending, checking, dlt, strayed, postponed, params>>
  /\ IF HandleValid(m)
     THEN SetFolderPath(m) /\ queue' = Tail(queue) /\ UNCHANGED proc
     ELSE /\ proc' = "aborted"
          /\ UNCHANGED <<tor, home, moving, queue, owed, misplaced>>

\* The body of Mod::moveFiles, with moveFilesNow.
MoveFiles(m) ==
  /\ Takes(<<"move", m>>)
  /\ UNCHANGED <<gui, disk, ticked, status, timer, paused, paramsDir, fetching,
                 pending, checking, dlt, strayed>>
  /\ \/ /\ status[m] \in {"PATCHING", "DOWNLOADING_PATCHES", "STARTING"}
        /\ postponed' = postponed \cup {m}
        /\ queue' = Tail(queue)
        /\ UNCHANGED <<tor, home, params, moving, proc, owed, misplaced>>
     \/ /\ status[m] \notin {"PATCHING", "DOWNLOADING_PATCHES", "STARTING"}
        /\ FolderExists(m) /\ HandleValid(m)
        /\ SetFolderPath(m)
        /\ queue' = Tail(queue)
        /\ UNCHANGED <<postponed, params, proc>>
     \/ /\ status[m] \notin {"PATCHING", "DOWNLOADING_PATCHES", "STARTING"}
        /\ FolderExists(m) /\ ~HandleValid(m)
        /\ proc' = "aborted"
        /\ UNCHANGED <<tor, home, params, moving, postponed, queue, owed,
                       misplaced>>
     \/ /\ status[m] \notin {"PATCHING", "DOWNLOADING_PATCHES", "STARTING"}
        /\ ~FolderExists(m)
        /\ params' = params \ {m}
        /\ queue' = Tail(queue)
        /\ UNCHANGED <<tor, home, moving, postponed, proc, owed, misplaced>>

\* LibTorrentApi::enableDeltaUpdatesPriv
EnableDeltaUpdates ==
  /\ Takes(<<"enableDelta">>)
  /\ deltaMgr' = TRUE
  /\ queue' = Tail(queue)
  /\ UNCHANGED <<gui, disk, modv, api, delta, deltaKnown, readd, proc, hist>>

\* LibTorrentApi::disableDeltaUpdatesSlot up to its loop.  Deleting a
\* patcher in the middle of a patch is undefined: the process may end.
DisableDeltaUpdates ==
  /\ Takes(<<"disableDelta">>)
  /\ \/ /\ deltaMgr' = FALSE
        /\ readd' = {m \in Mods : DeltaContains(m)}
        /\ delta' = [m \in Mods |-> "none"]
        /\ deltaKnown' = {}
        /\ paused' = paused \ readd'
        /\ queue' = Tail(queue)
        /\ UNCHANGED <<gui, disk, modv, tor, home, params, paramsDir, fetching,
                       pending, checking, moving, proc, hist>>
     \/ /\ deltaMgr /\ \E m \in Mods : delta[m] = "patch"
        /\ Ended("aborted")

\* One turn of that loop: addFolder for a key the manager held.
ReAddFolder(m) ==
  /\ proc = "up"
  /\ m \in readd
  /\ readd' = readd \ {m}
  /\ UNCHANGED <<gui, resumeFiles, ticked, timer, params, paramsDir, checking,
                 deltaMgr, deltaKnown, misplaced>>
  /\ AddFolder(m, FALSE, queue)

-----------------------------------------------------------------------------
(* Worker thread: timers and completions. *)

\* The Mod's update timer.  updateProgress asks a pending folder's empty
\* handle for its size as soon as the status counts as active.
UpdateTimer(m) ==
  /\ Worker /\ m \in timer
  /\ proc' = IF m \in pending /\ m \in ticked /\ ~ReposInactive(m)
             THEN "aborted" ELSE proc
  /\ UNCHANGED <<gui, resumeFiles, ticked, timer, postponed, api, dlt, queue,
                 strayed, misplaced>>
  /\ Update(m, FALSE)

\* The reply to addFolderGenericAsync's request.
FetchFinished(m) ==
  /\ Worker /\ m \in fetching
  /\ fetching' = fetching \ {m}
  /\ UNCHANGED <<gui, resumeFiles, ticked, timer, params, paramsDir, pending,
                 checking, dlt, proc, misplaced>>
  /\ OnFolderAdded(m, dir, FALSE, queue)

FetchFailed(m) ==
  /\ Worker /\ m \in fetching
  /\ fetching' = fetching \ {m}
  /\ UNCHANGED <<gui, disk, modv, tor, paused, home, params, paramsDir, pending,
                 checking, moving, dlt, queue, proc, hist>>

\* Mutant: the check leaves the torrent paused.
CheckFinishedStaysPaused(m) ==
  /\ Worker /\ m \in checking
  /\ tor' = [tor EXCEPT ![m] = "checking"]
  /\ checking' = checking \ {m}
  /\ UNCHANGED <<gui, disk, modv, paused, home, params, paramsDir, fetching,
                 pending, moving, dlt, queue, proc, hist>>

\* checkFolder's callback.
CheckFinished(m) ==
  /\ Worker /\ m \in checking
  /\ Resumed(m)
  /\ tor' = [tor EXCEPT ![m] = "checking"]
  /\ checking' = checking \ {m}
  /\ UNCHANGED <<gui, disk, modv, home, params, paramsDir, fetching, pending,
                 moving, dlt, queue, proc, owed, misplaced>>

\* Mutant: DeltaManager keeps the key of a patched mod.
HandlePatchedKeepsKey(m) ==
  /\ Worker /\ DeltaContains(m) /\ delta[m] = "signal"
  /\ UNCHANGED <<gui, resumeFiles, ticked, timer, params, paramsDir, pending,
                 checking, dlt, misplaced>>
  /\ AddFolderGeneric(m, FALSE, queue)

\* DeltaManager::handlePatched and LibTorrentApi::handlePatched.
HandlePatched(m) ==
  /\ Worker /\ DeltaContains(m) /\ delta[m] = "signal"
  /\ delta' = [delta EXCEPT ![m] = "none"]
  /\ UNCHANGED <<gui, resumeFiles, ticked, timer, params, paramsDir, pending,
                 checking, deltaMgr, deltaKnown, readd, misplaced>>
  /\ AddFolderGeneric(m, FALSE, queue)

\* StorageMoveManager::update finds the directory moved.
StorageMoved(m) ==
  /\ Worker /\ m \in moving
  /\ moving' = moving \ {m}
  /\ UNCHANGED <<gui, disk, modv, tor, paused, home, params, paramsDir, fetching,
                 pending, checking, dlt, queue, proc, hist>>

-----------------------------------------------------------------------------
(* Environment: libtorrent, the network and the patcher thread.            *)

\* libtorrent has compared the files with the torrent.  If none is missing,
\* nothing is due for the comparison, unless another one is to come.
TorrentChecked(m) ==
  /\ proc = "up" /\ tor[m] = "checking" /\ m \notin paused
  /\ \/ tor' = [tor EXCEPT ![m] = "downloading"] /\ UNCHANGED owed
     \/ /\ tor' = [tor EXCEPT ![m] = "finished"]
        /\ owed' = [owed EXCEPT ![m] = IF @ = "download" \/ m \in checking THEN @
                                       ELSE "none"]
  /\ UNCHANGED <<gui, disk, modv, paused, home, params, paramsDir, fetching,
                 pending, checking, moving, dlt, queue, proc, strayed,
                 misplaced>>

\* The last piece has come: from here on the mod is owed a completion.
TorrentFinished(m) ==
  /\ proc = "up" /\ tor[m] = "downloading" /\ m \notin paused
  /\ tor' = [tor EXCEPT ![m] = "finished"]
  /\ owed' = [owed EXCEPT ![m] = IF @ = "none" THEN "download" ELSE @]
  /\ UNCHANGED <<gui, disk, modv, paused, home, params, paramsDir, fetching,
                 pending, checking, moving, dlt, queue, proc, strayed,
                 misplaced>>

\* A patch torrent's file has come; it runs whatever the ticks say.
DeltaFetched(m) ==
  /\ Worker /\ delta[m] = "download" /\ m \notin deltaKnown
  /\ deltaKnown' = deltaKnown \cup {m}
  /\ Resumed(m)
  /\ UNCHANGED <<gui, disk, modv, tor, home, params, paramsDir, fetching,
                 pending, checking, moving, deltaMgr, delta, readd, queue, proc,
                 owed, misplaced>>

\* Mutant: a mod without a patch torrent counts as downloaded.
PatchStartsAnyway(m) ==
  /\ Worker /\ delta[m] = "download"
  /\ delta' = [delta EXCEPT ![m] = "patch"]
  /\ UNCHANGED <<gui, disk, modv, api, deltaMgr, deltaKnown, readd, queue, proc,
                 hist>>

\* DeltaManager::update hands the downloaded patches to the patcher; a patch
\* torrent that is paused may have finished before.
PatchStarts(m) ==
  /\ Worker /\ delta[m] = "download" /\ m \in deltaKnown
  /\ delta' = [delta EXCEPT ![m] = "patch"]
  /\ UNCHANGED <<gui, disk, modv, api, deltaMgr, deltaKnown, readd, queue, proc,
                 hist>>

\* The patcher thread is done, successful or not.
PatchEnds(m) ==
  /\ proc = "up" /\ delta[m] = "patch"
  /\ delta' = [delta EXCEPT ![m] = "signal"]
  /\ owed' = [owed EXCEPT ![m] = IF @ = "none" THEN "download" ELSE @]
  /\ UNCHANGED <<gui, disk, modv, api, deltaMgr, deltaKnown, readd, queue, proc,
                 strayed, misplaced>>

-----------------------------------------------------------------------------
(* GUI thread. *)

\* The user acts only while the queue has room for n more events (bound).
UserMay(op, n) ==
  /\ op \in Ops
  /\ proc = "up" /\ clicking = NoRepo
  /\ Len(queue) + n <= MaxQueue

\* Repository::checkboxClicked, first half: the setting, read by the worker.
ClickRepository(r) ==
  /\ UserMay("repo", 2 * Len(ModsOf[r]))
  /\ repoTicked' = IF r \in repoTicked THEN repoTicked \ {r}
                   ELSE repoTicked \cup {r}
  /\ clicking' = r
  /\ UNCHANGED <<modTicked, repoActive, dir, deltaSetting, disk, modv, api, dlt,
                 queue, proc, hist>>

\* Mutants: startUpdates() is not called; changed() only when ticking, or
\* only when unticking.
ClickedRepositoryForgetsUpdates(r) ==
  /\ proc = "up" /\ clicking = r
  /\ clicking' = NoRepo
  /\ repoActive' = IF r \in repoTicked THEN repoActive \cup {r}
                   ELSE repoActive \ {r}
  /\ queue' = queue \o Post("changed", ModsOf[r])
  /\ UNCHANGED <<repoTicked, modTicked, dir, deltaSetting, disk, modv, api, dlt,
                 proc, hist>>

ClickedRepositoryForgetsStop(r) ==
  /\ proc = "up" /\ clicking = r
  /\ clicking' = NoRepo
  /\ IF r \in repoTicked
     THEN /\ repoActive' = repoActive \cup {r}
          /\ queue' = queue \o Post("startUpdates", ModsOf[r])
                            \o Post("changed", ModsOf[r])
     ELSE /\ repoActive' = repoActive \ {r}
          /\ UNCHANGED queue
  /\ UNCHANGED <<repoTicked, modTicked, dir, deltaSetting, disk, modv, api, dlt,
                 proc, hist>>

\* Second half: the status, then startUpdates() and changed().
ClickedRepository(r) ==
  /\ proc = "up" /\ clicking = r
  /\ clicking' = NoRepo
  /\ IF r \in repoTicked
     THEN /\ repoActive' = repoActive \cup {r}
          /\ queue' = queue \o Post("startUpdates", ModsOf[r])
                            \o Post("changed", ModsOf[r])
     ELSE /\ repoActive' = repoActive \ {r}
          /\ queue' = queue \o Post("changed", ModsOf[r])
  /\ UNCHANGED <<repoTicked, modTicked, dir, deltaSetting, disk, modv, api, dlt,
                 proc, hist>>

\* Mutant: setTicked() does not ask whether the mod is optional.
ClickModUnasked(m, r) ==
  /\ UserMay("mod", 2)
  /\ modTicked' = IF <<m, r>> \in modTicked THEN modTicked \ {<<m, r>>}
                  ELSE modTicked \cup {<<m, r>>}
  /\ queue' = queue \o Post("changed", <<m, m>>)
  /\ UNCHANGED <<repoTicked, repoActive, clicking, dir, deltaSetting, disk, modv,
                 api, dlt, proc, hist>>

\* ModAdapter::checkboxClicked: setTicked() and it each post a slot.
ClickMod(m, r) ==
  /\ UserMay("mod", 2)
  /\ <<m, r>> \in Optional
  /\ modTicked' = IF <<m, r>> \in modTicked THEN modTicked \ {<<m, r>>}
                  ELSE modTicked \cup {<<m, r>>}
  /\ queue' = queue \o Post("changed", <<m, m>>)
  /\ UNCHANGED <<repoTicked, repoActive, clicking, dir, deltaSetting, disk, modv,
                 api, dlt, proc, hist>>

\* Repository::check: also of a repository, or a mod, that is not ticked.
CheckRepository(r) ==
  /\ UserMay("check", Len(ModsOf[r]))
  /\ queue' = queue \o Post("check", ModsOf[r])
  /\ UNCHANGED <<gui, disk, modv, api, dlt, proc, hist>>

\* ModAdapter::forceCheck
ForceCheck(m) ==
  /\ UserMay("check", 1)
  /\ queue' = Append(queue, <<"forceCheck", m>>)
  /\ UNCHANGED <<gui, disk, modv, api, dlt, proc, hist>>

\* SettingsModel::setModDownloadPath with TreeModel::moveFiles.
SetModDownloadPath(d) ==
  /\ UserMay("move", Len(BootOrder))
  /\ d # dir
  /\ dir' = d
  /\ queue' = queue \o Post("move", BootOrder)
  /\ UNCHANGED <<repoTicked, modTicked, repoActive, clicking, deltaSetting, disk,
                 modv, api, dlt, proc, hist>>

\* SettingsModel::setDeltaPatchingEnabled: the worker sees the setting at
\* once and the event when its turn comes.
SetDeltaPatchingEnabled ==
  /\ UserMay("delta", 1)
  /\ deltaSetting' = ~deltaSetting
  /\ queue' = Append(queue, IF deltaSetting' THEN <<"enableDelta">>
                            ELSE <<"disableDelta">>)
  /\ UNCHANGED <<repoTicked, modTicked, repoActive, clicking, dir, disk, modv,
                 api, dlt, proc, hist>>

-----------------------------------------------------------------------------
(* The process ends and starts. *)

\* TreeModel::~TreeModel: the queue is drained, every adapter's removal
\* stops its mod, and then LibTorrentApi::shutdown saves the torrents.
Shutdown ==
  /\ UserMay("quit", 0)
  /\ queue = <<>> /\ readd = {}
  /\ \/ /\ \E m \in Mods : FolderExists(m) /\ ~HandleValid(m)
        /\ Ended("aborted")
     \/ /\ \A m \in Mods : FolderExists(m) => HandleValid(m)
        /\ resumeFiles' = resumeFiles \cup {m \in Mods : tor[m] # "none"}
        /\ proc' = "down"
        /\ UNCHANGED <<gui, processed, modv, api, dlt, queue, hist>>

\* The process is killed: the settings are on disk, nothing else is saved.
Kill ==
  /\ "quit" \in Ops /\ proc = "up"
  /\ Ended("down")

\* What the constructors post: startUpdates by updateRepositoriesOffline,
\* and then init once the session is ready.
BootQueue == Post("startUpdates", BootOrder) \o Post("changed", BootOrder)

Init ==
  /\ repoTicked \in SUBSET Repos /\ repoActive = repoTicked
  /\ modTicked \in SUBSET Optional
  /\ clicking = NoRepo
  /\ dir \in Dirs /\ paramsDir = dir /\ home = [m \in Mods |-> dir]
  /\ deltaSetting \in (IF "delta" \in Ops THEN BOOLEAN ELSE {FALSE})
  /\ deltaMgr = deltaSetting
  /\ processed = {} /\ resumeFiles = {} /\ params = {}
  /\ ticked = {} /\ timer = {} /\ postponed = {}
  /\ status = [m \in Mods |-> "STARTING"]
  /\ tor = [m \in Mods |-> "none"]
  /\ paused = {} /\ fetching = {} /\ pending = {} /\ checking = {}
  /\ moving = {}
  /\ delta = [m \in Mods |-> "none"] /\ deltaKnown = {} /\ readd = {}
  /\ queue = BootQueue /\ proc = "up"
  /\ owed = [m \in Mods |-> "none"] /\ strayed = {} /\ misplaced = {}

\* A new process: loadTorrentFiles gives every torrent the current path.
Restart ==
  /\ proc # "up"
  /\ proc' = "up"
  /\ repoActive' = repoTicked /\ clicking' = NoRepo
  /\ params' = resumeFiles /\ paramsDir' = dir /\ home' = [m \in Mods |-> dir]
  /\ deltaMgr' = deltaSetting
  /\ ticked' = {} /\ timer' = {} /\ postponed' = {}
  /\ status' = [m \in Mods |-> "STARTING"]
  /\ tor' = [m \in Mods |-> "none"]
  /\ paused' = {} /\ fetching' = {} /\ pending' = {} /\ checking' = {}
  /\ moving' = {}
  /\ delta' = [m \in Mods |-> "none"] /\ deltaKnown' = {} /\ readd' = {}
  /\ queue' = BootQueue
  /\ owed' = [m \in Mods |-> IF owed[m] = "download" THEN "download" ELSE "none"]
  /\ strayed' = {} /\ misplaced' = {}
  /\ UNCHANGED <<repoTicked, modTicked, dir, deltaSetting, disk>>

-----------------------------------------------------------------------------
WorkerEvent ==
  \/ \E m \in Mods :
       \/ RepositoryChanged(m)
       \/ StartUpdates(m)
       \/ Check("check", m)
       \/ Check("forceCheck", m)
       \/ MoveFiles(m)
       \/ ReAddFolder(m)
  \/ EnableDeltaUpdates
  \/ DisableDeltaUpdates

GuiStep ==
  \/ \E r \in Repos : ClickRepository(r) \/ CheckRepository(r)
  \/ \E m \in Mods, r \in Repos : ClickMod(m, r)
  \/ \E m \in Mods : ForceCheck(m)
  \/ \E d \in Dirs : SetModDownloadPath(d)
  \/ SetDeltaPatchingEnabled

Next ==
  \/ WorkerEvent
  \/ \E m \in Mods :
       \/ UpdateTimer(m)
       \/ FetchFinished(m) \/ FetchFailed(m)
       \/ CheckFinished(m)
       \/ HandlePatched(m)
       \/ StorageMoved(m)
       \/ TorrentChecked(m) \/ TorrentFinished(m)
       \/ DeltaFetched(m) \/ PatchStarts(m) \/ PatchEnds(m)
  \/ GuiStep
  \/ \E r \in Repos : ClickedRepository(r)
  \/ Shutdown \/ Kill \/ Restart

Spec == Init /\ [][Next]_vars

\* Both threads go on, the update timers tick, replies come (or fail), and
\* torrents that libtorrent runs make progress.  Nobody owes a click, a
\* patch torrent's reply or a restart.
Fairness ==
  /\ WF_vars(WorkerEvent)
  /\ \A r \in Repos : WF_vars(ClickedRepository(r))
  /\ \A m \in Mods :
       /\ WF_vars(UpdateTimer(m))
       /\ WF_vars(FetchFinished(m) \/ FetchFailed(m))
       /\ WF_vars(CheckFinished(m))
       /\ WF_vars(StorageMoved(m))
       /\ WF_vars(TorrentChecked(m))
       /\ WF_vars(TorrentFinished(m))

FairSpec == Spec /\ Fairness

-----------------------------------------------------------------------------
(* Properties. *)

Up == proc = "up"

\* A repositoryChanged for m is on its way: posted, or about to be.
Notified(m) ==
  \/ <<"changed", m>> \in RangeOf(queue)
  \/ clicking \in ReposOf(m)

\* A mod that should run and has a torrent runs: no order of clicks, checks,
\* fetches and patches leaves it paused, unless repositoryChanged
\* (mod.cpp:279) is still to run or the check that paused it is still on.
NoLostStart ==
  \A m \in Mods :
    Up /\ ShouldRun(m) /\ HandleValid(m) /\ m \in paused
      => Notified(m) \/ m \in checking

\* A mod that should not run is paused once repositoryChanged has run; the
\* one exception is a mod that a completion (fetch, check, patch, or
\* disableDelta's loop) resumed without looking at the ticks.
NoStrayRun ==
  \A m \in Mods :
    Up /\ ~ShouldRun(m) /\ HandleValid(m) /\ m \notin paused
      => Notified(m) \/ m \in strayed

\* In how many places a mod is registered.
Owners(m) ==
  {o \in {"pending", "fetching", "delta", "torrent", "readd"} :
     CASE o = "pending"  -> m \in pending
       [] o = "fetching" -> m \in fetching
       [] o = "delta"    -> delta[m] # "none"
       [] o = "torrent"  -> tor[m] # "none"
       [] o = "readd"    -> m \in readd}

\* A mod has one owner: its files are never patched while libtorrent writes
\* them, its .torrent is not fetched twice, and addFolder (libtorrentapi.cpp
\* :1049) never meets a folder that is there already.
OneOwner == \A m \in Mods : \A o, p \in Owners(m) : o = p

\* Patching, as far as it is seen here, is the service DeltaSync provides.
Service == INSTANCE PatchService WITH stage <- delta, known <- deltaKnown

\* What happens to the mods under the DeltaManager keeps within PatchService:
\* none skips a stage, is patched without a torrent or comes back twice.
UsesService == Service!Spec

\* The process ends by itself only because something was asked of a torrent
\* that is not there yet (its .torrent or patch torrent is still fetched, or
\* it is pending for good), or because a patcher was deleted at work; never
\* because a folder is added twice (libtorrentapi.cpp:985).
AbortExplained ==
  proc = "aborted" =>
    \E m \in Mods : (FolderExists(m) /\ ~HandleValid(m)) \/ delta[m] = "patch"

\* The progress of a mod that should run is sampled: stop() ends the timer,
\* and only a repository's startUpdates() (repository.cpp:118) starts it
\* again, in an order the queue decides.  Optional mods are not promised it.
NoDeadTimer ==
  \A m \in Mods :
    Up /\ ShouldRun(m) /\ (\A r \in Repos : <<m, r>> \notin Optional)
      => m \in timer \/ <<"startUpdates", m>> \in RangeOf(queue)

\* A READY mod without resume data has had its completion (deletion of extra
\* files, install) for everything it downloaded since its last one
\* (mod.cpp:465-495), whatever stopped, checked, patched or moved it in
\* between.  Two exceptions, when a torrent that was complete is compared
\* again and what it lacks comes before a sample sees it downloading: after a
\* user's recheck of a READY mod the completion, though not run, stays asked
\* for (mod.cpp:590); a move's recheck asks for none (libtorrentapi.cpp:362).
CompletionCovered ==
  \A m \in Mods :
    Up /\ status[m] = "READY" /\ m \notin params
      => owed[m] # "download" /\ (owed[m] = "recheck" => m \notin processed)

\* A torrent in another directory than the chosen one is to be moved: its
\* move is posted or postponed (mod.cpp:112, 139).  The exception: a mod with
\* resume data whose patch torrent was moved instead, and which went back to
\* the path of its resume data (libtorrentapi.cpp:342, 930).
PathFollowsSetting ==
  \A m \in Mods :
    Up /\ tor[m] # "none" /\ home[m] # dir
      => \/ <<"move", m>> \in RangeOf(queue) \/ m \in postponed
         \/ m \in misplaced /\ m \in params

\* A mod that should run, whose .torrent was found and which is left alone,
\* becomes READY and stays so, wherever the files were moved before.
LiveReady ==
  \A m \in Mods :
    /\ <>[](Up /\ ShouldRun(m) /\ FolderExists(m))
    /\ <>[][dir' = dir]_dir
    => <>[](status[m] = "READY")

-----------------------------------------------------------------------------
(* What the repository says, and its code does not do.                     *)

\* mod.cpp:277: "If all repositories this mod is included in are disabled
\* then stop the download."
StoppedWhenInactive ==
  \A m \in Mods :
    Up /\ queue = <<>> /\ clicking = NoRepo /\ ReposInactive(m) /\ HandleValid(m)
      => m \in paused

\* settingsmodel.h:50: "Tells if process completion (file checking,
\* installation) is needed": of a READY mod it is not.
ReadyIsCompleted ==
  \A m \in Mods : Up /\ status[m] = "READY" => owed[m] # "download"
=============================================================================
