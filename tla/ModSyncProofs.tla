--------------------------- MODULE ModSyncProofs ---------------------------
(* Theorems about ModSync, for any mods, repositories and queue bound: its  *)
(* types, that a mod has one owner, that it uses delta patching as           *)
(* PatchService allows, and why the process ends by itself.                  *)
EXTENDS ModSync, TLAPS

-----------------------------------------------------------------------------
(* Types.                                                                  *)

\* Every status updateStatus computes is a status.
LEMMA StatusOfType ==
  ASSUME NEW m, NEW old, NEW q
  PROVE  StatusOf(m, old, q)' \in Statuses
  BY DEF StatusOf, Statuses

\* Events posted for a sequence of mods are events.
LEMMA PostType ==
  ASSUME NEW mods \in Seq(Mods),
         NEW kind \in {"changed", "startUpdates", "check", "forceCheck", "move"}
  PROVE  Post(kind, mods) \in Seq(Event)
  BY DEF Post, Event

\* Appending up to two posts to the queue gives a sequence of events.
LEMMA ConcatType ==
  ASSUME NEW a \in Seq(Event), NEW b \in Seq(Event), NEW c \in Seq(Event)
  PROVE  a \o b \in Seq(Event) /\ a \o b \o c \in Seq(Event)
  OBVIOUS

\* So is the queue at start-up.
LEMMA BootQueueType == BootQueue \in Seq(Event)
<1>1. BootOrder \in Seq(Mods)
  BY Assumptions DEF Assumptions
<1> QED
  BY <1>1, PostType DEF BootQueue

\* Taking an event leaves a queue of events.
LEMMA TakesType ==
  ASSUME TypeOK, NEW e, Takes(e)
  PROVE  Tail(queue) \in Seq(Event)
  BY DEF Takes, TypeOK

\* The variables Mod::update changes keep their types.
LEMMA UpdateType ==
  ASSUME TypeOK, NEW m \in Mods, NEW over \in BOOLEAN, Update(m, over)
  PROVE  /\ status' \in [Mods -> Statuses]
         /\ owed' \in [Mods -> {"none", "download", "recheck", "moved"}]
         /\ over \/ processed' \subseteq Mods
<1>1. PICK old \in {status[m]}, q \in BOOLEAN :
        status' = [status EXCEPT ![m] = StatusOf(m, old, q)']
  BY DEF Update
<1>2. status' \in [Mods -> Statuses]
  BY <1>1, StatusOfType DEF TypeOK
<1>3. owed' \in [Mods -> {"none", "download", "recheck", "moved"}]
  BY DEF Update, TypeOK
<1>4. over \/ processed' \subseteq Mods
  BY DEF Update, TypeOK
<1> QED
  BY <1>2, <1>3, <1>4

\* The variables OnFolderAdded changes keep their types.
LEMMA OnFolderAddedType ==
  ASSUME TypeOK, NEW m \in Mods, NEW path \in Dirs, NEW over \in BOOLEAN,
         NEW q \in Seq(Event), OnFolderAdded(m, path, over, q)
  PROVE  /\ tor' \in [Mods -> TorrentStates \cup {"none"}]
         /\ paused' \subseteq Mods /\ strayed' \subseteq Mods
         /\ home' \in [Mods -> Dirs]
         /\ moving' \subseteq Mods /\ postponed' \subseteq Mods
         /\ queue' \in Seq(Event)
         /\ status' \in [Mods -> Statuses]
         /\ owed' \in [Mods -> {"none", "download", "recheck", "moved"}]
         /\ over \/ processed' \subseteq Mods
<1>1. queue' \in Seq(Event)
  <2>1. <<"startUpdates", m>> \in Event
    BY DEF Event
  <2> QED
    BY <2>1 DEF OnFolderAdded
<1>2. /\ status' \in [Mods -> Statuses]
      /\ owed' \in [Mods -> {"none", "download", "recheck", "moved"}]
      /\ over \/ processed' \subseteq Mods
  BY UpdateType DEF OnFolderAdded
<1>3. tor' \in [Mods -> TorrentStates \cup {"none"}]
  BY DEF OnFolderAdded, TypeOK
<1>4. home' \in [Mods -> Dirs]
  BY DEF OnFolderAdded, TypeOK
<1>5. /\ paused' \subseteq Mods /\ strayed' \subseteq Mods
      /\ moving' \subseteq Mods /\ postponed' \subseteq Mods
  BY DEF OnFolderAdded, Resumed, TypeOK
<1> QED
  BY <1>1, <1>2, <1>3, <1>4, <1>5

\* The variables addFolderGenericAsync changes keep their types.
LEMMA AddFolderGenericType ==
  ASSUME TypeOK, NEW m \in Mods, NEW over \in BOOLEAN, NEW q \in Seq(Event),
         AddFolderGeneric(m, over, q)
  PROVE  /\ tor' \in [Mods -> TorrentStates \cup {"none"}]
         /\ paused' \subseteq Mods /\ strayed' \subseteq Mods
         /\ home' \in [Mods -> Dirs]
         /\ moving' \subseteq Mods /\ postponed' \subseteq Mods
         /\ queue' \in Seq(Event)
         /\ status' \in [Mods -> Statuses]
         /\ owed' \in [Mods -> {"none", "download", "recheck", "moved"}]
         /\ processed' \subseteq Mods /\ fetching' \subseteq Mods
         /\ proc' \in {"up", "down", "aborted"}
<1>1. CASE m \in params
  <2>1. OnFolderAdded(m, paramsDir, over, q)
    BY <1>1 DEF AddFolderGeneric
  <2>2. paramsDir \in Dirs
    BY DEF TypeOK
  <2>3. processed' \subseteq Mods
    <3>1. CASE over
      BY <1>1, <3>1 DEF AddFolderGeneric, TypeOK
    <3>2. CASE ~over
      BY <2>1, <2>2, <3>2, OnFolderAddedType
    <3> QED
      BY <3>1, <3>2
  <2> QED
    BY <1>1, <2>1, <2>2, <2>3, OnFolderAddedType DEF AddFolderGeneric, TypeOK
<1>2. CASE m \notin params
  BY <1>2 DEF AddFolderGeneric, TypeOK
<1> QED
  BY <1>1, <1>2

\* The variables addFolder changes keep their types.
LEMMA AddFolderType ==
  ASSUME TypeOK, NEW m \in Mods, NEW over \in BOOLEAN, NEW q \in Seq(Event),
         AddFolder(m, over, q)
  PROVE  /\ tor' \in [Mods -> TorrentStates \cup {"none"}]
         /\ paused' \subseteq Mods /\ strayed' \subseteq Mods
         /\ home' \in [Mods -> Dirs]
         /\ moving' \subseteq Mods /\ postponed' \subseteq Mods
         /\ queue' \in Seq(Event)
         /\ status' \in [Mods -> Statuses]
         /\ owed' \in [Mods -> {"none", "download", "recheck", "moved"}]
         /\ processed' \subseteq Mods /\ fetching' \subseteq Mods
         /\ proc' \in {"up", "down", "aborted"}
         /\ pending' \subseteq Mods
         /\ delta' \in [Mods -> DeltaStages]
<1>1. CASE AddFolderGeneric(m, over, q) /\ UNCHANGED <<delta, pending>>
  BY <1>1, AddFolderGenericType DEF TypeOK
<1>2. CASE /\ delta' = [delta EXCEPT ![m] = "download"]
           /\ processed' = IF over THEN processed \ {m} ELSE processed
           /\ queue' = q
           /\ UNCHANGED <<pending, tor, paused, home, moving, postponed, status,
                          owed, strayed, fetching, proc>>
  BY <1>2 DEF TypeOK, DeltaStages
<1>3. CASE /\ pending' = pending \cup {m}
           /\ processed' = IF over THEN processed \ {m} ELSE processed
           /\ queue' = q
           /\ paused' = paused \ {m}
           /\ UNCHANGED <<delta, tor, home, moving, postponed, status, owed,
                          strayed, fetching, proc>>
  BY <1>3 DEF TypeOK
<1> QED
  BY <1>1, <1>2, <1>3 DEF AddFolder

-----------------------------------------------------------------------------
\* The initial states have the types.
LEMMA TypeInit == Init => TypeOK
<1> SUFFICES ASSUME Init PROVE TypeOK
  OBVIOUS
<1>1. queue \in Seq(Event) /\ clicking \in Repos \cup {NoRepo}
  BY BootQueueType DEF Init
<1>2. /\ deltaSetting \in BOOLEAN /\ deltaMgr \in BOOLEAN
      /\ dir \in Dirs /\ paramsDir \in Dirs /\ home \in [Mods -> Dirs]
  BY DEF Init
<1>3. /\ status \in [Mods -> Statuses]
      /\ tor \in [Mods -> TorrentStates \cup {"none"}]
      /\ delta \in [Mods -> DeltaStages]
      /\ owed \in [Mods -> {"none", "download", "recheck", "moved"}]
      /\ proc \in {"up", "down", "aborted"}
  BY DEF Init, Statuses, DeltaStages
<1>4. /\ repoTicked \subseteq Repos /\ repoActive \subseteq Repos
      /\ modTicked \subseteq Optional
  BY DEF Init
<1>5. /\ processed \subseteq Mods /\ resumeFiles \subseteq Mods
      /\ ticked \subseteq Mods /\ timer \subseteq Mods /\ postponed \subseteq Mods
      /\ paused \subseteq Mods /\ params \subseteq Mods /\ fetching \subseteq Mods
      /\ pending \subseteq Mods /\ checking \subseteq Mods /\ moving \subseteq Mods
      /\ deltaKnown \subseteq Mods /\ readd \subseteq Mods /\ strayed \subseteq Mods
      /\ misplaced \subseteq Mods
  BY DEF Init
<1> QED
  BY <1>1, <1>2, <1>3, <1>4, <1>5 DEF TypeOK

\* The variables setFolderPath changes keep their types.
LEMMA SetFolderPathType ==
  ASSUME TypeOK, NEW m \in Mods, SetFolderPath(m)
  PROVE  /\ tor' \in [Mods -> TorrentStates \cup {"none"}]
         /\ home' \in [Mods -> Dirs]
         /\ owed' \in [Mods -> {"none", "download", "recheck", "moved"}]
         /\ moving' \subseteq Mods /\ misplaced' \subseteq Mods
<1>1. /\ home' \in [Mods -> Dirs]
      /\ moving' \subseteq Mods /\ misplaced' \subseteq Mods
  BY DEF SetFolderPath, TypeOK
<1>2. tor' \in [Mods -> TorrentStates \cup {"none"}]
  BY DEF SetFolderPath, TypeOK, TorrentStates
<1>3. owed' \in [Mods -> {"none", "download", "recheck", "moved"}]
  BY DEF SetFolderPath, TypeOK
<1> QED
  BY <1>1, <1>2, <1>3

\* Posted events keep the types.
LEMMA TypeWorker ==
  ASSUME TypeOK, WorkerEvent
  PROVE  TypeOK'
<1> USE DEF gui, disk, modv, api, dlt, hist
<1>1. ASSUME NEW m \in Mods, RepositoryChanged(m)
      PROVE  TypeOK'
  <2>1. Tail(queue) \in Seq(Event)
    BY <1>1, TakesType DEF RepositoryChanged, Start, Stop
  <2>2. CASE ShouldRun(m) /\ ~FolderExists(m)
    <3>1. AddFolder(m, TRUE, Tail(queue)) /\ UNCHANGED timer
      BY <1>1, <2>2 DEF RepositoryChanged, Start, Stop
    <3> QED
      BY <1>1, <2>1, <3>1, AddFolderType DEF RepositoryChanged, Start, Stop, TypeOK
  <2>3. CASE ~ShouldRun(m) /\ FolderExists(m) /\ HandleValid(m)
    <3>1. /\ Update(m, FALSE)
          /\ paused' = paused \cup {m}
          /\ strayed' = strayed \ {m}
          /\ timer' = timer \ {m}
          /\ queue' = Tail(queue)
          /\ UNCHANGED <<tor, home, fetching, pending, moving, delta, postponed,
                         proc>>
      BY <1>1, <2>3 DEF RepositoryChanged, Start, Stop
    <3>2. /\ status' \in [Mods -> Statuses]
          /\ owed' \in [Mods -> {"none", "download", "recheck", "moved"}]
          /\ processed' \subseteq Mods
      BY <3>1, UpdateType
    <3> QED
      BY <1>1, <2>1, <3>1, <3>2 DEF RepositoryChanged, Start, Stop, TypeOK
  <2>4. CASE ~ShouldRun(m) /\ FolderExists(m) /\ ~HandleValid(m)
    BY <1>1, <2>1, <2>4 DEF RepositoryChanged, Start, Stop, TypeOK
  <2>5. CASE FolderExists(m) <=> ShouldRun(m)
    <3>1. CASE m \in paused /\ ShouldRun(m)
      BY <1>1, <2>1, <2>5, <3>1 DEF RepositoryChanged, Start, Stop, Resumed, TypeOK
    <3>2. CASE ~(m \in paused /\ ShouldRun(m))
      BY <1>1, <2>1, <2>5, <3>2 DEF RepositoryChanged, Start, Stop, TypeOK
    <3> QED
      BY <3>1, <3>2
  <2> QED
    BY <2>2, <2>3, <2>4, <2>5
<1>2. ASSUME NEW m \in Mods, StartUpdates(m)
      PROVE  TypeOK'
  BY <1>2, TakesType DEF StartUpdates, TypeOK
<1>3. ASSUME NEW m \in Mods, NEW kind, Check(kind, m)
      PROVE  TypeOK'
  <2>1. Tail(queue) \in Seq(Event)
    BY <1>3, TakesType DEF Check
  <2> QED
    BY <1>3, <2>1 DEF Check, Resumed, TypeOK
<1>4. ASSUME NEW m \in Mods, MoveFiles(m)
      PROVE  TypeOK'
  <2>1. Tail(queue) \in Seq(Event)
    BY <1>4, TakesType DEF MoveFiles, SetFolderPath
  <2>2. CASE SetFolderPath(m)
    BY <1>4, <2>1, <2>2, SetFolderPathType DEF MoveFiles, TypeOK
  <2>3. CASE UNCHANGED <<tor, home, moving, owed, misplaced>>
    BY <1>4, <2>1, <2>3 DEF MoveFiles, TypeOK
  <2> QED
    BY <1>4, <2>2, <2>3 DEF MoveFiles
<1>5. ASSUME NEW m \in Mods, ReAddFolder(m)
      PROVE  TypeOK'
  <2>1. queue \in Seq(Event)
    BY DEF TypeOK
  <2> QED
    BY <1>5, <2>1, AddFolderType DEF ReAddFolder, TypeOK
<1>6. CASE EnableDeltaUpdates
  BY <1>6, TakesType DEF EnableDeltaUpdates, TypeOK
<1>7. CASE DisableDeltaUpdates
  BY <1>7, TakesType DEF DisableDeltaUpdates, Ended, TypeOK, DeltaStages
<1> QED
  BY <1>1, <1>2, <1>3, <1>4, <1>5, <1>6, <1>7 DEF WorkerEvent

\* Timers and completions keep the types.
LEMMA TypeCompletion ==
  ASSUME TypeOK, NEW m \in Mods,
         \/ UpdateTimer(m) \/ FetchFinished(m) \/ FetchFailed(m)
         \/ CheckFinished(m) \/ HandlePatched(m) \/ StorageMoved(m)
  PROVE  TypeOK'
<1> USE DEF gui, disk, modv, api, dlt, hist
<1>1. CASE UpdateTimer(m)
  <2>1. Update(m, FALSE)
    BY <1>1 DEF UpdateTimer
  <2> QED
    BY <1>1, <2>1, UpdateType DEF UpdateTimer, TypeOK
<1>2. CASE FetchFinished(m)
  <2>1. OnFolderAdded(m, dir, FALSE, queue) /\ dir \in Dirs /\ queue \in Seq(Event)
    BY <1>2 DEF FetchFinished, TypeOK
  <2> QED
    BY <1>2, <2>1, OnFolderAddedType DEF FetchFinished, TypeOK
<1>3. CASE FetchFailed(m)
  BY <1>3 DEF FetchFailed, TypeOK
<1>4. CASE CheckFinished(m)
  BY <1>4 DEF CheckFinished, Resumed, TypeOK, TorrentStates
<1>5. CASE HandlePatched(m)
  <2>1. AddFolderGeneric(m, FALSE, queue) /\ queue \in Seq(Event)
    BY <1>5 DEF HandlePatched, TypeOK
  <2>2. delta' \in [Mods -> DeltaStages]
    BY <1>5 DEF HandlePatched, TypeOK, DeltaStages
  <2> QED
    BY <1>5, <2>1, <2>2, AddFolderGenericType DEF HandlePatched, TypeOK
<1>6. CASE StorageMoved(m)
  BY <1>6 DEF StorageMoved, TypeOK
<1> QED
  BY <1>1, <1>2, <1>3, <1>4, <1>5, <1>6

\* libtorrent and the patcher keep the types.
LEMMA TypeEnvironment ==
  ASSUME TypeOK, NEW m \in Mods,
         \/ TorrentChecked(m) \/ TorrentFinished(m)
         \/ DeltaFetched(m) \/ PatchStarts(m) \/ PatchEnds(m)
  PROVE  TypeOK'
<1> USE DEF gui, disk, modv, api, dlt, hist
<1>1. CASE TorrentChecked(m)
  BY <1>1 DEF TorrentChecked, TypeOK, TorrentStates
<1>2. CASE TorrentFinished(m)
  BY <1>2 DEF TorrentFinished, TypeOK, TorrentStates
<1>3. CASE DeltaFetched(m)
  BY <1>3 DEF DeltaFetched, Resumed, TypeOK
<1>4. CASE PatchStarts(m)
  BY <1>4 DEF PatchStarts, TypeOK, DeltaStages
<1>5. CASE PatchEnds(m)
  BY <1>5 DEF PatchEnds, TypeOK, DeltaStages
<1> QED
  BY <1>1, <1>2, <1>3, <1>4, <1>5

\* The GUI thread keeps the types.
LEMMA TypeGui ==
  ASSUME TypeOK, GuiStep \/ \E r \in Repos : ClickedRepository(r)
  PROVE  TypeOK'
<1> USE DEF gui, disk, modv, api, dlt, hist
<1>0. /\ queue \in Seq(Event)
      /\ \A r \in Repos : ModsOf[r] \in Seq(Mods)
      /\ BootOrder \in Seq(Mods)
  BY Assumptions DEF Assumptions, TypeOK
<1>1. ASSUME NEW r \in Repos, ClickRepository(r)
      PROVE  TypeOK'
  BY <1>1 DEF ClickRepository, TypeOK
<1>2. ASSUME NEW r \in Repos, ClickedRepository(r)
      PROVE  TypeOK'
  <2>1. /\ Post("changed", ModsOf[r]) \in Seq(Event)
        /\ Post("startUpdates", ModsOf[r]) \in Seq(Event)
    BY <1>0, PostType
  <2>2. \/ queue' = queue \o Post("startUpdates", ModsOf[r])
                          \o Post("changed", ModsOf[r])
        \/ queue' = queue \o Post("changed", ModsOf[r])
    BY <1>2 DEF ClickedRepository
  <2>3. queue' \in Seq(Event)
    BY <1>0, <2>1, <2>2, ConcatType
  <2> QED
    BY <1>2, <2>3 DEF ClickedRepository, TypeOK
<1>3. ASSUME NEW m \in Mods, NEW r \in Repos, ClickMod(m, r)
      PROVE  TypeOK'
  <2>1. <<m, m>> \in Seq(Mods)
    OBVIOUS
  <2>2. Post("changed", <<m, m>>) \in Seq(Event)
    BY <2>1, PostType
  <2>3. queue' = queue \o Post("changed", <<m, m>>)
    BY <1>3 DEF ClickMod
  <2>4. queue' \in Seq(Event)
    BY <1>0, <2>2, <2>3
  <2> QED
    BY <1>3, <2>4 DEF ClickMod, TypeOK
<1>4. ASSUME NEW r \in Repos, CheckRepository(r)
      PROVE  TypeOK'
  <2>1. Post("check", ModsOf[r]) \in Seq(Event)
    BY <1>0, PostType
  <2>2. queue' \in Seq(Event)
    BY <1>0, <1>4, <2>1 DEF CheckRepository
  <2> QED
    BY <1>4, <2>2 DEF CheckRepository, TypeOK
<1>5. ASSUME NEW m \in Mods, ForceCheck(m)
      PROVE  TypeOK'
  <2>1. <<"forceCheck", m>> \in Event
    BY DEF Event
  <2> QED
    BY <1>5, <2>1 DEF ForceCheck, TypeOK
<1>6. ASSUME NEW d \in Dirs, SetModDownloadPath(d)
      PROVE  TypeOK'
  <2>1. Post("move", BootOrder) \in Seq(Event)
    BY <1>0, PostType
  <2>2. queue' = queue \o Post("move", BootOrder)
    BY <1>6 DEF SetModDownloadPath
  <2>3. queue' \in Seq(Event)
    BY <1>0, <2>1, <2>2
  <2> QED
    BY <1>6, <2>3 DEF SetModDownloadPath, TypeOK
<1>7. CASE SetDeltaPatchingEnabled
  <2>1. <<"enableDelta">> \in Event /\ <<"disableDelta">> \in Event
    BY DEF Event
  <2>2. PICK e \in Event : queue' = Append(queue, e)
    BY <1>7, <2>1 DEF SetDeltaPatchingEnabled
  <2>3. queue' \in Seq(Event)
    BY <1>0, <2>2
  <2> QED
    BY <1>7, <2>3 DEF SetDeltaPatchingEnabled, TypeOK
<1> QED
  BY <1>1, <1>2, <1>3, <1>4, <1>5, <1>6, <1>7 DEF GuiStep

\* Ending and starting the process keeps the types.
LEMMA TypeProcess ==
  ASSUME TypeOK, Shutdown \/ Kill \/ Restart
  PROVE  TypeOK'
<1> USE DEF gui, disk, modv, api, dlt, hist
<1>1. CASE Shutdown
  BY <1>1 DEF Shutdown, Ended, TypeOK
<1>2. CASE Kill
  BY <1>2 DEF Kill, Ended, TypeOK
<1>3. CASE Restart
  <2>1. /\ status' \in [Mods -> Statuses]
        /\ tor' \in [Mods -> TorrentStates \cup {"none"}]
        /\ delta' \in [Mods -> DeltaStages]
        /\ home' \in [Mods -> Dirs]
        /\ proc' \in {"up", "down", "aborted"}
        /\ queue' \in Seq(Event)
    BY <1>3, BootQueueType DEF Restart, TypeOK, Statuses, DeltaStages
  <2>2. /\ ticked' \subseteq Mods /\ timer' \subseteq Mods
        /\ postponed' \subseteq Mods /\ paused' \subseteq Mods
        /\ params' \subseteq Mods /\ fetching' \subseteq Mods
        /\ pending' \subseteq Mods /\ checking' \subseteq Mods
        /\ moving' \subseteq Mods /\ deltaKnown' \subseteq Mods
        /\ readd' \subseteq Mods /\ strayed' \subseteq Mods
        /\ misplaced' \subseteq Mods
    BY <1>3 DEF Restart, TypeOK
  <2>3. /\ repoActive' \subseteq Repos /\ clicking' \in Repos \cup {NoRepo}
        /\ paramsDir' \in Dirs /\ deltaMgr' \in BOOLEAN
    BY <1>3 DEF Restart, TypeOK
  <2>4. /\ UNCHANGED <<repoTicked, modTicked, dir, deltaSetting, disk>>
        /\ owed' \in [Mods -> {"none", "download", "recheck", "moved"}]
    BY <1>3 DEF Restart
  <2> QED
    BY <2>1, <2>2, <2>3, <2>4 DEF TypeOK
<1> QED
  BY <1>1, <1>2, <1>3

\* Every step keeps the types.
LEMMA TypeStep == TypeOK /\ [Next]_vars => TypeOK'
<1> SUFFICES ASSUME TypeOK, [Next]_vars PROVE TypeOK'
  OBVIOUS
<1>1. CASE UNCHANGED vars
  BY <1>1 DEF vars, gui, disk, modv, api, dlt, hist, TypeOK
<1> QED
  BY <1>1, TypeWorker, TypeCompletion, TypeEnvironment, TypeGui, TypeProcess
  DEF Next

\* Type correctness of ModSync, whatever the mods, repositories and bound.
THEOREM TypeCorrect == Spec => []TypeOK
  BY TypeInit, TypeStep, PTL DEF Spec

-----------------------------------------------------------------------------
(* A mod has one owner in every reachable state: it is never fetched twice, *)
(* nor patched while its torrent is in the session.  OneOwner alone is not   *)
(* inductive: without a DeltaManager no mod may be left with one, or         *)
(* folderExists would miss it, and a PBO check's callback revives the        *)
(* torrent it was started on, which must therefore still be there.           *)

\* The mod has at most one owner, said pair by pair.
Apart(m) ==
  /\ m \in pending =>
       m \notin fetching /\ delta[m] = "none" /\ tor[m] = "none" /\ m \notin readd
  /\ m \in fetching => delta[m] = "none" /\ tor[m] = "none" /\ m \notin readd
  /\ delta[m] # "none" => tor[m] = "none" /\ m \notin readd
  /\ tor[m] # "none" => m \notin readd

DeltaHasManager == ~deltaMgr => \A m \in Mods : delta[m] = "none"

CheckedIsThere == \A m \in checking : tor[m] # "none"

OwnerInv == (\A m \in Mods : Apart(m)) /\ DeltaHasManager /\ CheckedIsThere

\* Said pair by pair, it is OneOwner.
LEMMA ApartIsOneOwner == (\A m \in Mods : Apart(m)) => OneOwner
<1> SUFFICES ASSUME NEW m \in Mods, Apart(m),
                    NEW o \in Owners(m), NEW p \in Owners(m)
             PROVE  o = p
  BY DEF OneOwner
<1> QED
  BY DEF Apart, Owners

\* No owner but, perhaps, the loop that adds the mod again.
Unowned(m) ==
  m \notin pending /\ m \notin fetching /\ delta[m] = "none" /\ tor[m] = "none"

\* Where folderExists is false the mod is unowned.
LEMMA NotThereUnowned ==
  ASSUME TypeOK, OwnerInv, NEW m \in Mods, ~FolderExists(m)
  PROVE  Unowned(m)
  BY DEF FolderExists, DeltaContains, Unowned, OwnerInv, DeltaHasManager

\* What addFolderGenericAsync does to the registry.
LEMMA AddFolderGenericOwners ==
  ASSUME NEW m \in Mods, NEW over, NEW q, AddFolderGeneric(m, over, q)
  PROVE  \/ /\ fetching' = fetching
            /\ \E st \in TorrentStates : tor' = [tor EXCEPT ![m] = st]
         \/ fetching' = fetching \cup {m} /\ tor' = tor
  BY DEF AddFolderGeneric, OnFolderAdded

\* A mod without an owner gets exactly one from addFolder.
LEMMA AddFolderOwners ==
  ASSUME TypeOK, OwnerInv, NEW m \in Mods, NEW over, NEW q, Unowned(m),
         AddFolder(m, over, q), readd' = readd \ {m},
         UNCHANGED <<checking, deltaMgr>>
  PROVE  OwnerInv'
<1>1. CASE /\ ~deltaMgr' /\ pending' = pending \cup {m}
           /\ UNCHANGED <<delta, tor, fetching>>
  BY <1>1 DEF OwnerInv, Apart, DeltaHasManager, CheckedIsThere, Unowned, TypeOK
<1>2. CASE /\ deltaMgr' /\ delta' = [delta EXCEPT ![m] = "download"]
           /\ UNCHANGED <<pending, tor, fetching>>
  BY <1>2 DEF OwnerInv, Apart, DeltaHasManager, CheckedIsThere, Unowned, TypeOK
<1>3. CASE AddFolderGeneric(m, over, q) /\ UNCHANGED <<delta, pending>>
  <2>1. CASE /\ fetching' = fetching
             /\ \E st \in TorrentStates : tor' = [tor EXCEPT ![m] = st]
    BY <1>3, <2>1 DEF OwnerInv, Apart, DeltaHasManager, CheckedIsThere,
                      Unowned, TypeOK, TorrentStates
  <2>2. CASE fetching' = fetching \cup {m} /\ tor' = tor
    BY <1>3, <2>2 DEF OwnerInv, Apart, DeltaHasManager, CheckedIsThere,
                      Unowned, TypeOK
  <2> QED
    BY <1>3, <2>1, <2>2, AddFolderGenericOwners
<1> QED
  BY <1>1, <1>2, <1>3 DEF AddFolder

\* A step that leaves every owner where it is keeps the invariant; torrents
\* may change their state and patches their stage.
LEMMA OwnersStay ==
  ASSUME TypeOK, OwnerInv,
         pending' \subseteq pending, fetching' \subseteq fetching,
         readd' \subseteq readd, checking' \subseteq checking,
         \A m \in Mods : (tor'[m] = "none") = (tor[m] = "none"),
         \A m \in Mods : delta[m] = "none" => delta'[m] = "none",
         UNCHANGED deltaMgr
  PROVE  OwnerInv'
  BY DEF OwnerInv, Apart, DeltaHasManager, CheckedIsThere, TypeOK

-----------------------------------------------------------------------------
\* The registry is empty at first.
LEMMA OwnerInit == Init => OwnerInv
  BY DEF Init, OwnerInv, Apart, DeltaHasManager, CheckedIsThere

\* Posted events.
LEMMA OwnerWorker ==
  ASSUME TypeOK, OwnerInv, WorkerEvent
  PROVE  OwnerInv'
<1> USE DEF gui, disk, modv, api, dlt, hist
<1>1. ASSUME NEW m \in Mods, RepositoryChanged(m)
      PROVE  OwnerInv'
  <2>1. readd = {} /\ UNCHANGED <<checking, deltaMgr, readd>>
    BY <1>1 DEF RepositoryChanged, Start, Stop, Takes, Worker
  <2>2. CASE ShouldRun(m) /\ ~FolderExists(m)
    <3>1. AddFolder(m, TRUE, Tail(queue)) /\ readd' = readd \ {m}
      BY <1>1, <2>1, <2>2 DEF RepositoryChanged, Start, Stop
    <3> QED
      BY <2>1, <2>2, <3>1, NotThereUnowned, AddFolderOwners
  <2>3. CASE ~(ShouldRun(m) /\ ~FolderExists(m))
    <3>1. UNCHANGED <<tor, fetching, pending, delta>>
      BY <1>1, <2>3 DEF RepositoryChanged, Start, Stop
    <3> QED
      BY <2>1, <3>1, OwnersStay
  <2> QED
    BY <2>2, <2>3
<1>2. ASSUME NEW m \in Mods, StartUpdates(m)
      PROVE  OwnerInv'
  BY <1>2, OwnersStay DEF StartUpdates
<1>3. ASSUME NEW m \in Mods, NEW kind, Check(kind, m)
      PROVE  OwnerInv'
  <2>1. UNCHANGED <<pending, fetching, readd, tor, delta, deltaMgr>>
    BY <1>3 DEF Check
  <2>2. CheckedIsThere'
    BY <1>3, <2>1 DEF Check, HandleValid, CheckedIsThere, OwnerInv
  <2> QED
    BY <2>1, <2>2 DEF OwnerInv, Apart, DeltaHasManager
<1>4. ASSUME NEW m \in Mods, MoveFiles(m)
      PROVE  OwnerInv'
  <2>1. UNCHANGED <<pending, fetching, readd, checking, delta, deltaMgr>>
    BY <1>4 DEF MoveFiles, SetFolderPath
  <2>2. \A n \in Mods : (tor'[n] = "none") = (tor[n] = "none")
    BY <1>4 DEF MoveFiles, SetFolderPath, TypeOK
  <2> QED
    BY <2>1, <2>2, OwnersStay
<1>5. ASSUME NEW m \in Mods, ReAddFolder(m)
      PROVE  OwnerInv'
  <2>1. /\ m \in readd /\ readd' = readd \ {m}
        /\ AddFolder(m, FALSE, queue)
        /\ UNCHANGED <<checking, deltaMgr>>
    BY <1>5 DEF ReAddFolder
  <2>2. Unowned(m)
    BY <2>1 DEF OwnerInv, Apart, Unowned
  <2> QED
    BY <2>1, <2>2, AddFolderOwners
<1>6. CASE EnableDeltaUpdates
  BY <1>6 DEF EnableDeltaUpdates, OwnerInv, Apart, DeltaHasManager,
              CheckedIsThere
<1>7. CASE DisableDeltaUpdates
  <2>1. CASE Ended("aborted")
    BY <2>1, OwnersStay DEF Ended
  <2>2. CASE /\ deltaMgr' = FALSE
             /\ readd' = {m \in Mods : DeltaContains(m)}
             /\ delta' = [m \in Mods |-> "none"]
             /\ UNCHANGED <<tor, fetching, pending, checking>>
    BY <2>2 DEF OwnerInv, Apart, DeltaHasManager, CheckedIsThere,
                DeltaContains
  <2> QED
    BY <1>7, <2>1, <2>2 DEF DisableDeltaUpdates
<1> QED
  BY <1>1, <1>2, <1>3, <1>4, <1>5, <1>6, <1>7 DEF WorkerEvent

\* Timers and completions.
LEMMA OwnerCompletion ==
  ASSUME TypeOK, OwnerInv, NEW m \in Mods,
         \/ UpdateTimer(m) \/ FetchFinished(m) \/ FetchFailed(m)
         \/ CheckFinished(m) \/ HandlePatched(m) \/ StorageMoved(m)
  PROVE  OwnerInv'
<1> USE DEF gui, disk, modv, api, dlt, hist
<1>1. CASE UpdateTimer(m)
  BY <1>1, OwnersStay DEF UpdateTimer
<1>2. CASE FetchFinished(m)
  <2>1. /\ m \in fetching /\ fetching' = fetching \ {m}
        /\ UNCHANGED <<pending, checking, deltaMgr, delta, readd>>
        /\ \E st \in TorrentStates : tor' = [tor EXCEPT ![m] = st]
    BY <1>2 DEF FetchFinished, OnFolderAdded
  <2> QED
    BY <2>1 DEF OwnerInv, Apart, DeltaHasManager, CheckedIsThere, TypeOK,
                TorrentStates
<1>3. CASE FetchFailed(m)
  BY <1>3, OwnersStay DEF FetchFailed
<1>4. CASE CheckFinished(m)
  <2>1. /\ m \in checking /\ tor' = [tor EXCEPT ![m] = "checking"]
        /\ checking' = checking \ {m}
        /\ UNCHANGED <<pending, fetching, deltaMgr, delta, readd>>
    BY <1>4 DEF CheckFinished
  <2>2. \A n \in Mods : (tor'[n] = "none") = (tor[n] = "none")
    BY <2>1 DEF OwnerInv, CheckedIsThere, TypeOK
  <2> QED
    BY <2>1, <2>2, OwnersStay
<1>5. CASE HandlePatched(m)
  <2>1. /\ readd = {} /\ readd' = readd /\ delta[m] # "none"
        /\ delta' = [delta EXCEPT ![m] = "none"]
        /\ UNCHANGED <<pending, checking, deltaMgr>>
        /\ AddFolderGeneric(m, FALSE, queue)
    BY <1>5 DEF HandlePatched, Worker
  <2>2. CASE /\ fetching' = fetching
             /\ \E st \in TorrentStates : tor' = [tor EXCEPT ![m] = st]
    BY <2>1, <2>2 DEF OwnerInv, Apart, DeltaHasManager, CheckedIsThere, TypeOK,
                      TorrentStates
  <2>3. CASE fetching' = fetching \cup {m} /\ tor' = tor
    BY <2>1, <2>3 DEF OwnerInv, Apart, DeltaHasManager, CheckedIsThere, TypeOK
  <2> QED
    BY <2>1, <2>2, <2>3, AddFolderGenericOwners
<1>6. CASE StorageMoved(m)
  BY <1>6, OwnersStay DEF StorageMoved
<1> QED
  BY <1>1, <1>2, <1>3, <1>4, <1>5, <1>6

\* libtorrent and the patcher.
LEMMA OwnerEnvironment ==
  ASSUME TypeOK, OwnerInv, NEW m \in Mods,
         \/ TorrentChecked(m) \/ TorrentFinished(m)
         \/ DeltaFetched(m) \/ PatchStarts(m) \/ PatchEnds(m)
  PROVE  OwnerInv'
<1> USE DEF gui, disk, modv, api, dlt, hist
<1>1. CASE TorrentChecked(m) \/ TorrentFinished(m)
  <2>1. \A n \in Mods : (tor'[n] = "none") = (tor[n] = "none")
    BY <1>1 DEF TorrentChecked, TorrentFinished, TypeOK
  <2> QED
    BY <1>1, <2>1, OwnersStay DEF TorrentChecked, TorrentFinished
<1>2. CASE DeltaFetched(m)
  BY <1>2, OwnersStay DEF DeltaFetched
<1>3. CASE PatchStarts(m) \/ PatchEnds(m)
  <2>1. /\ delta[m] # "none" /\ \E s : delta' = [delta EXCEPT ![m] = s]
        /\ UNCHANGED <<api, readd, deltaMgr>>
    BY <1>3 DEF PatchStarts, PatchEnds
  <2>2. \A n \in Mods : delta[n] = "none" => delta'[n] = "none"
    BY <2>1 DEF TypeOK
  <2> QED
    BY <2>1, <2>2, OwnersStay
<1> QED
  BY <1>1, <1>2, <1>3

\* The GUI thread owns no mod, and a new process starts with none.
LEMMA OwnerRest ==
  ASSUME TypeOK, OwnerInv,
         \/ GuiStep \/ \E r \in Repos : ClickedRepository(r)
         \/ Shutdown \/ Kill \/ Restart
  PROVE  OwnerInv'
<1> USE DEF gui, disk, modv, api, dlt, hist
<1>1. CASE GuiStep \/ \E r \in Repos : ClickedRepository(r)
  <2>1. UNCHANGED <<api, dlt>>
    BY <1>1 DEF GuiStep, ClickedRepository, ClickRepository, CheckRepository,
                ClickMod, ForceCheck, SetModDownloadPath, SetDeltaPatchingEnabled
  <2> QED
    BY <2>1, OwnersStay
<1>2. CASE Shutdown \/ Kill
  BY <1>2, OwnersStay DEF Shutdown, Kill, Ended
<1>3. CASE Restart
  BY <1>3 DEF Restart, OwnerInv, Apart, DeltaHasManager, CheckedIsThere
<1> QED
  BY <1>1, <1>2, <1>3

\* Every step keeps the invariant.
LEMMA OwnerStep == TypeOK /\ OwnerInv /\ [Next]_vars => OwnerInv'
<1> SUFFICES ASSUME TypeOK, OwnerInv, [Next]_vars PROVE OwnerInv'
  OBVIOUS
<1>1. CASE UNCHANGED vars
  BY <1>1, OwnersStay DEF vars, api, dlt
<1> QED
  BY <1>1, OwnerWorker, OwnerCompletion, OwnerEnvironment, OwnerRest DEF Next

\* Folders are added, fetched, patched and re-added in any order, and still
\* no mod ever has two owners.
THEOREM OneOwnerAlways == Spec => []OneOwner
<1>1. Spec => []OwnerInv
  BY OwnerInit, OwnerStep, TypeCorrect, PTL DEF Spec
<1>2. OwnerInv => OneOwner
  BY ApartIsOneOwner DEF OwnerInv
<1> QED
  BY <1>1, <1>2, PTL

-----------------------------------------------------------------------------
(* ModSync sees of delta patching what PatchService allows: with           *)
(* DeltaProvidesService (DeltaSyncProofs), the two modules meet at it.     *)

\* The environment's part: a fetched patch torrent, the patcher's progress.
LEMMA ServiceEnvironment ==
  ASSUME NEW m \in Mods, DeltaFetched(m) \/ PatchStarts(m) \/ PatchEnds(m)
  PROVE  Service!Next
<1>1. CASE DeltaFetched(m)
  BY <1>1 DEF DeltaFetched, Service!Fetched, Service!Next
<1>2. CASE PatchStarts(m)
  BY <1>2 DEF PatchStarts, Service!Start, Service!Pass, Service!Next
<1>3. CASE PatchEnds(m)
  BY <1>3 DEF PatchEnds, Service!End, Service!Pass, Service!Next
<1> QED
  BY <1>1, <1>2, <1>3

\* addFolder hands a mod over at most, and one that is not held.
LEMMA ServiceAddFolder ==
  ASSUME NEW m \in Mods, NEW over, NEW q, delta[m] = "none",
         AddFolder(m, over, q), UNCHANGED deltaKnown
  PROVE  Service!Next \/ UNCHANGED <<delta, deltaKnown>>
<1>1. UNCHANGED delta \/ delta' = [delta EXCEPT ![m] = "download"]
  BY DEF AddFolder
<1>2. CASE delta' = [delta EXCEPT ![m] = "download"]
  BY <1>2 DEF Service!Take, Service!Pass, Service!Next
<1> QED
  BY <1>1, <1>2

\* The worker thread hands mods over when it starts them or, in
\* disableDelta's loop, adds them again; there the manager took them all back.
LEMMA ServiceWorker ==
  ASSUME TypeOK, OwnerInv, WorkerEvent
  PROVE  Service!Next \/ UNCHANGED <<delta, deltaKnown>>
<1> USE DEF gui, disk, modv, api, dlt, hist
<1>1. ASSUME NEW m \in Mods, RepositoryChanged(m)
      PROVE  Service!Next \/ UNCHANGED <<delta, deltaKnown>>
  <2>1. UNCHANGED deltaKnown
    BY <1>1 DEF RepositoryChanged
  <2>2. CASE Stop(m)
    BY <2>1, <2>2 DEF Stop
  <2>3. CASE Start(m)
    <3>1. CASE FolderExists(m)
      BY <2>1, <2>3, <3>1 DEF Start
    <3>2. CASE ~FolderExists(m)
      <4>1. delta[m] = "none"
        BY <3>2, NotThereUnowned DEF Unowned
      <4>2. AddFolder(m, TRUE, Tail(queue))
        BY <2>3, <3>2 DEF Start
      <4> QED
        BY <2>1, <4>1, <4>2, ServiceAddFolder
    <3> QED
      BY <3>1, <3>2
  <2>4. CASE UNCHANGED delta
    BY <2>1, <2>4
  <2> QED
    BY <1>1, <2>2, <2>3, <2>4 DEF RepositoryChanged
<1>2. ASSUME NEW m \in Mods, ReAddFolder(m)
      PROVE  Service!Next \/ UNCHANGED <<delta, deltaKnown>>
  <2>1. delta[m] = "none"
    BY <1>2 DEF ReAddFolder, OwnerInv, Apart
  <2> QED
    BY <1>2, <2>1, ServiceAddFolder DEF ReAddFolder
<1>3. ASSUME NEW m \in Mods,
             \/ StartUpdates(m) \/ Check("check", m) \/ Check("forceCheck", m)
             \/ MoveFiles(m)
      PROVE  UNCHANGED <<delta, deltaKnown>>
  BY <1>3 DEF StartUpdates, Check, MoveFiles
<1>4. CASE EnableDeltaUpdates
  BY <1>4 DEF EnableDeltaUpdates
<1>5. CASE DisableDeltaUpdates
  <2>1. CASE Ended("aborted")
    BY <2>1 DEF Ended
  <2>2. CASE delta' = [m \in Mods |-> "none"] /\ deltaKnown' = {}
    BY <2>2 DEF Service!Clear, Service!Next
  <2> QED
    BY <1>5, <2>1, <2>2 DEF DisableDeltaUpdates
<1> QED
  BY <1>1, <1>2, <1>3, <1>4, <1>5 DEF WorkerEvent

\* Completions hand nothing over; a patched mod leaves the manager.
LEMMA ServiceCompletion ==
  ASSUME NEW m \in Mods,
         \/ UpdateTimer(m) \/ FetchFinished(m) \/ FetchFailed(m)
         \/ CheckFinished(m) \/ HandlePatched(m) \/ StorageMoved(m)
         \/ TorrentChecked(m) \/ TorrentFinished(m)
  PROVE  Service!Next \/ UNCHANGED <<delta, deltaKnown>>
<1> USE DEF gui, disk, modv, api, dlt, hist
<1>1. CASE HandlePatched(m)
  BY <1>1 DEF HandlePatched, Service!Return, Service!Pass, Service!Next
<1>2. CASE \/ UpdateTimer(m) \/ FetchFinished(m) \/ FetchFailed(m)
           \/ CheckFinished(m) \/ StorageMoved(m)
           \/ TorrentChecked(m) \/ TorrentFinished(m)
  BY <1>2 DEF UpdateTimer, FetchFinished, FetchFailed, CheckFinished,
     StorageMoved, TorrentChecked, TorrentFinished
<1> QED
  BY <1>1, <1>2

\* The GUI thread leaves patching alone, and a new process starts afresh.
LEMMA ServiceRest ==
  ASSUME \/ GuiStep \/ \E r \in Repos : ClickedRepository(r)
         \/ Shutdown \/ Kill \/ Restart
  PROVE  Service!Next \/ UNCHANGED <<delta, deltaKnown>>
<1> USE DEF gui, disk, modv, api, dlt, hist
<1>1. CASE GuiStep \/ \E r \in Repos : ClickedRepository(r)
  BY <1>1 DEF GuiStep, ClickedRepository, ClickRepository, CheckRepository,
              ClickMod, ForceCheck, SetModDownloadPath, SetDeltaPatchingEnabled
<1>2. CASE Shutdown \/ Kill
  BY <1>2 DEF Shutdown, Kill, Ended
<1>3. CASE Restart
  BY <1>3 DEF Restart, Service!Clear, Service!Next
<1> QED
  BY <1>1, <1>2, <1>3

\* ModSync keeps within the patch service, for any mods and repositories.
THEOREM ModUsesService == Spec => UsesService
<1>1. Spec => []OwnerInv
  BY OwnerInit, OwnerStep, TypeCorrect, PTL DEF Spec
<1>2. Init => Service!Init
  BY DEF Init, Service!Init
<1>3. TypeOK /\ OwnerInv /\ [Next]_vars => [Service!Next]_(Service!vars)
  <2> SUFFICES ASSUME TypeOK, OwnerInv, [Next]_vars
               PROVE  Service!Next \/ UNCHANGED <<delta, deltaKnown>>
    BY DEF Service!vars
  <2>1. CASE UNCHANGED vars
    BY <2>1 DEF vars, dlt
  <2> QED
    BY <2>1, ServiceWorker, ServiceCompletion, ServiceEnvironment, ServiceRest
       DEF Next
<1> QED
  BY <1>1, <1>2, <1>3, TypeCorrect, PTL DEF Spec, UsesService, Service!Spec

-----------------------------------------------------------------------------
(* The process ends by itself for the reasons AbortExplained names.  Each   *)
(* handler that ends it leaves the registry as it found it, so that the      *)
(* reason is still to be seen; addFolder, which would end it on a folder     *)
(* that is there already, meets none, since a mod has one owner.             *)

Explained ==
  \E m \in Mods : (FolderExists(m) /\ ~HandleValid(m)) \/ delta[m] = "patch"

\* A reason stays one while the registry stays as it is.
LEMMA ExplainedStays ==
  ASSUME Explained, UNCHANGED <<pending, fetching, tor, deltaMgr, delta, deltaKnown>>
  PROVE  Explained'
  BY DEF Explained, FolderExists, HandleValid, DeltaContains

\* addFolder of a mod without an owner goes well.
LEMMA AddFolderGoesOn ==
  ASSUME NEW m \in Mods, NEW over, NEW q, AddFolder(m, over, q), Unowned(m)
  PROVE  proc' = proc
<1>1. ~FolderExists(m)
  BY DEF FolderExists, DeltaContains, Unowned
<1> QED
  BY <1>1 DEF AddFolder, AddFolderGeneric

\* The handlers of posted events.
LEMMA AbortWorker ==
  ASSUME TypeOK, OwnerInv, WorkerEvent
  PROVE  proc' = "up" \/ Explained'
<1> USE DEF gui, disk, modv, api, dlt, hist
<1>1. ASSUME NEW m \in Mods, RepositoryChanged(m)
      PROVE  proc' = "up" \/ Explained'
  <2>1. proc = "up" /\ UNCHANGED <<deltaMgr, deltaKnown>>
    BY <1>1 DEF RepositoryChanged, Takes, Worker
  <2>2. CASE ShouldRun(m) /\ ~FolderExists(m)
    <3>1. AddFolder(m, TRUE, Tail(queue))
      BY <1>1, <2>2 DEF RepositoryChanged, Start, Stop
    <3> QED
      BY <2>1, <2>2, <3>1, NotThereUnowned, AddFolderGoesOn
  <2>3. CASE ~ShouldRun(m) /\ FolderExists(m) /\ ~HandleValid(m)
    <3>1. UNCHANGED <<pending, fetching, tor, delta>>
      BY <1>1, <2>3 DEF RepositoryChanged, Start, Stop
    <3>2. Explained
      BY <2>3 DEF Explained
    <3> QED
      BY <2>1, <3>1, <3>2, ExplainedStays
  <2>4. CASE proc' = proc
    BY <2>1, <2>4
  <2> QED
    BY <1>1, <2>2, <2>3, <2>4 DEF RepositoryChanged, Start, Stop
<1>2. ASSUME NEW m \in Mods, NEW kind, StartUpdates(m) \/ Check(kind, m)
      PROVE  proc' = "up"
  BY <1>2 DEF StartUpdates, Check, Takes, Worker
<1>3. ASSUME NEW m \in Mods, MoveFiles(m)
      PROVE  proc' = "up" \/ Explained'
  <2>1. CASE FolderExists(m) /\ ~HandleValid(m) /\ UNCHANGED tor
    <3>1. Explained
      BY <2>1 DEF Explained
    <3> QED
      BY <1>3, <2>1, <3>1, ExplainedStays DEF MoveFiles
  <2>2. CASE UNCHANGED proc
    BY <1>3, <2>2 DEF MoveFiles, Takes, Worker
  <2> QED
    BY <1>3, <2>1, <2>2 DEF MoveFiles
<1>4. ASSUME NEW m \in Mods, ReAddFolder(m)
      PROVE  proc' = "up"
  <2>1. Unowned(m) /\ proc = "up"
    BY <1>4 DEF ReAddFolder, OwnerInv, Apart, Unowned
  <2> QED
    BY <1>4, <2>1, AddFolderGoesOn DEF ReAddFolder
<1>5. CASE EnableDeltaUpdates
  BY <1>5 DEF EnableDeltaUpdates, Takes, Worker
<1>6. CASE DisableDeltaUpdates
  <2>1. CASE (\E m \in Mods : delta[m] = "patch") /\ Ended("aborted")
    BY <2>1, ExplainedStays DEF Explained, Ended
  <2>2. CASE UNCHANGED proc
    BY <1>6, <2>2 DEF DisableDeltaUpdates, Takes, Worker
  <2> QED
    BY <1>6, <2>1, <2>2 DEF DisableDeltaUpdates
<1> QED
  BY <1>1, <1>2, <1>3, <1>4, <1>5, <1>6 DEF WorkerEvent

\* Timers and completions: the progress of a pending folder is asked of an
\* empty handle; a patched mod has left the manager when it is added.
LEMMA AbortCompletion ==
  ASSUME TypeOK, OwnerInv, NEW m \in Mods,
         \/ UpdateTimer(m) \/ FetchFinished(m) \/ FetchFailed(m)
         \/ CheckFinished(m) \/ HandlePatched(m) \/ StorageMoved(m)
  PROVE  proc' = "up" \/ Explained'
<1> USE DEF gui, disk, modv, api, dlt, hist
<1>1. CASE UpdateTimer(m)
  <2>1. CASE m \in pending
    <3>1. Explained
      BY <2>1 DEF Explained, OwnerInv, Apart, FolderExists, HandleValid, DeltaContains
    <3> QED
      BY <1>1, <3>1, ExplainedStays DEF UpdateTimer
  <2>2. CASE m \notin pending
    BY <1>1, <2>2 DEF UpdateTimer, Worker
  <2> QED
    BY <2>1, <2>2
<1>2. CASE FetchFinished(m) \/ FetchFailed(m) \/ CheckFinished(m) \/ StorageMoved(m)
  BY <1>2 DEF FetchFinished, FetchFailed, CheckFinished, StorageMoved, Worker
<1>3. CASE HandlePatched(m)
  <2>1. /\ proc = "up" /\ DeltaContains(m) /\ delta'[m] = "none"
        /\ AddFolderGeneric(m, FALSE, queue)
    BY <1>3 DEF HandlePatched, Worker, TypeOK
  <2> QED
    BY <2>1 DEF AddFolderGeneric
<1> QED
  BY <1>1, <1>2, <1>3

\* Every step keeps AbortExplained.
LEMMA AbortStep == TypeOK /\ OwnerInv /\ AbortExplained /\ [Next]_vars => AbortExplained'
<1> SUFFICES ASSUME TypeOK, OwnerInv, AbortExplained, [Next]_vars
             PROVE  AbortExplained'
  OBVIOUS
<1> USE DEF gui, disk, modv, api, dlt, hist
<1>0. AbortExplained' <=> (proc' = "aborted" => Explained')
  BY DEF AbortExplained, Explained
<1>1. CASE UNCHANGED vars
  <2>1. proc = "aborted" => Explained
    BY DEF AbortExplained, Explained
  <2> QED
    BY <1>0, <1>1, <2>1, ExplainedStays DEF vars
<1>2. CASE \/ GuiStep \/ \E r \in Repos : ClickedRepository(r)
           \/ \E m \in Mods :
                \/ TorrentChecked(m) \/ TorrentFinished(m)
                \/ DeltaFetched(m) \/ PatchStarts(m) \/ PatchEnds(m)
  <2>1. proc' = "up"
    BY <1>2 DEF GuiStep, ClickedRepository, ClickRepository, CheckRepository,
                ClickMod, ForceCheck, SetModDownloadPath,
                SetDeltaPatchingEnabled, UserMay, TorrentChecked,
                TorrentFinished, DeltaFetched, PatchStarts, PatchEnds, Worker
  <2> QED
    BY <1>0, <2>1
<1>3. CASE Shutdown
  <2>1. CASE (\E m \in Mods : FolderExists(m) /\ ~HandleValid(m)) /\ Ended("aborted")
    <3>1. Explained
      BY <2>1 DEF Explained
    <3> QED
      BY <1>0, <2>1, <3>1, ExplainedStays DEF Ended
  <2>2. CASE proc' = "down"
    BY <1>0, <2>2
  <2> QED
    BY <1>3, <2>1, <2>2 DEF Shutdown
<1>4. CASE Kill \/ Restart
  BY <1>0, <1>4 DEF Kill, Ended, Restart
<1> QED
  BY <1>0, <1>1, <1>2, <1>3, <1>4, AbortWorker, AbortCompletion DEF Next

\* Whatever is clicked, moved, checked, fetched and patched, the process ends
\* by itself only on a torrent that is not there yet or under a patcher at
\* work, and never because a folder was added twice.
THEOREM AbortExplainedAlways == Spec => []AbortExplained
<1>1. Init => AbortExplained
  BY DEF Init, AbortExplained
<1>2. Spec => []OwnerInv
  BY OwnerInit, OwnerStep, TypeCorrect, PTL DEF Spec
<1> QED
  BY <1>1, <1>2, AbortStep, TypeCorrect, PTL DEF Spec
=============================================================================
