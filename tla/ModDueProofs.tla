---------------------------- MODULE ModDueProofs ----------------------------
(* What is due to a mod comes: the update timer of one that should run is   *)
(* started (NoDeadTimer), a torrent that is elsewhere is moved               *)
(* (PathFollowsSetting), a download is completed before the mod is READY     *)
(* (CompletionCovered).  The first two rest on one fact about the queue: an  *)
(* event stays in it until its handler runs.                                 *)
EXTENDS ModRunProofs

-----------------------------------------------------------------------------
(* Events stay until they are handled.                                     *)

\* The queue only grows at its end.
Grows ==
  \/ queue' = queue
  \/ \E x \in Event : queue' = Append(queue, x)
  \/ \E t \in Seq(Event) : queue' = queue \o t

\* The head of the queue is handled, which may post one event.
HeadTaken ==
  /\ queue # <<>> /\ readd = {} /\ proc = "up" /\ WorkerEvent
  /\ \/ queue' = Tail(queue)
     \/ \E x \in Event : queue' = Append(Tail(queue), x)

\* The posted events do one or the other.
LEMMA WorkerQueue ==
  ASSUME TypeOK, WorkerEvent
  PROVE  Grows \/ HeadTaken
<1> USE DEF gui, disk, modv, api, dlt, hist
<1>1. ASSUME NEW m \in Mods, RepositoryChanged(m)
      PROVE  Grows \/ HeadTaken
  <2>1. queue # <<>> /\ readd = {} /\ proc = "up"
    BY <1>1 DEF RepositoryChanged, Takes, Worker
  <2>2. CASE AddFolder(m, TRUE, Tail(queue))
    <3>1. \/ queue' = Tail(queue)
          \/ \E x \in Event : queue' = Append(Tail(queue), x)
      BY <2>2, AddFolderOthers
    <3> QED
      BY <2>1, <3>1 DEF HeadTaken
  <2>3. CASE queue' = Tail(queue) \/ queue' = queue
    BY <2>1, <2>3 DEF Grows, HeadTaken
  <2> QED
    BY <1>1, <2>2, <2>3 DEF RepositoryChanged, Start, Stop
<1>2. ASSUME NEW m \in Mods, NEW kind,
             StartUpdates(m) \/ Check(kind, m) \/ MoveFiles(m)
      PROVE  Grows \/ HeadTaken
  <2>1. queue # <<>> /\ readd = {} /\ proc = "up"
    BY <1>2 DEF StartUpdates, Check, MoveFiles, Takes, Worker
  <2>2. queue' = Tail(queue) \/ queue' = queue
    BY <1>2 DEF StartUpdates, Check, MoveFiles
  <2> QED
    BY <2>1, <2>2 DEF Grows, HeadTaken
<1>3. ASSUME NEW m \in Mods, ReAddFolder(m)
      PROVE  Grows
  BY <1>3, AddFolderOthers DEF ReAddFolder, Grows
<1>4. CASE EnableDeltaUpdates \/ DisableDeltaUpdates
  <2>1. queue # <<>> /\ readd = {} /\ proc = "up"
    BY <1>4 DEF EnableDeltaUpdates, DisableDeltaUpdates, Takes, Worker
  <2>2. queue' = Tail(queue) \/ queue' = queue
    BY <1>4 DEF EnableDeltaUpdates, DisableDeltaUpdates, Ended
  <2> QED
    BY <2>1, <2>2 DEF Grows, HeadTaken
<1> QED
  BY <1>1, <1>2, <1>3, <1>4 DEF WorkerEvent

\* Clicks and settings only post.
LEMMA GuiQueue ==
  ASSUME TypeOK, GuiStep \/ \E r \in Repos : ClickedRepository(r)
  PROVE  Grows
<1>0. /\ queue \in Seq(Event) /\ BootOrder \in Seq(Mods)
      /\ \A r \in Repos : ModsOf[r] \in Seq(Mods)
  BY Assumptions DEF Assumptions, TypeOK
<1>1. ASSUME NEW r \in Repos, ClickedRepository(r)
      PROVE  Grows
  <2>1. /\ Post("startUpdates", ModsOf[r]) \in Seq(Event)
        /\ Post("changed", ModsOf[r]) \in Seq(Event)
    BY <1>0, PostType
  <2>2. /\ Post("startUpdates", ModsOf[r]) \o Post("changed", ModsOf[r]) \in Seq(Event)
        /\ queue \o Post("startUpdates", ModsOf[r]) \o Post("changed", ModsOf[r])
             = queue \o (Post("startUpdates", ModsOf[r]) \o Post("changed", ModsOf[r]))
    BY <1>0, <2>1
  <2> QED
    BY <1>1, <2>1, <2>2 DEF ClickedRepository, Grows
<1>2. ASSUME NEW r \in Repos, CheckRepository(r)
      PROVE  Grows
  <2>1. Post("check", ModsOf[r]) \in Seq(Event)
    BY <1>0, PostType
  <2> QED
    BY <1>2, <2>1 DEF CheckRepository, Grows
<1>3. ASSUME NEW m \in Mods, NEW r \in Repos, ClickMod(m, r)
      PROVE  Grows
  <2>1. <<m, m>> \in Seq(Mods)
    OBVIOUS
  <2>2. Post("changed", <<m, m>>) \in Seq(Event)
    BY <2>1, PostType
  <2> QED
    BY <1>3, <2>2 DEF ClickMod, Grows
<1>4. ASSUME NEW m \in Mods, ForceCheck(m)
      PROVE  Grows
  BY <1>4 DEF ForceCheck, Grows, Event
<1>5. ASSUME NEW d \in Dirs, SetModDownloadPath(d)
      PROVE  Grows
  <2>1. Post("move", BootOrder) \in Seq(Event)
    BY <1>0, PostType
  <2> QED
    BY <1>5, <2>1 DEF SetModDownloadPath, Grows
<1>6. CASE SetDeltaPatchingEnabled
  BY <1>6 DEF SetDeltaPatchingEnabled, Grows, Event
<1>7. ASSUME NEW r \in Repos, ClickRepository(r)
      PROVE  Grows
  BY <1>7 DEF ClickRepository, Grows
<1> QED
  BY <1>1, <1>2, <1>3, <1>4, <1>5, <1>6, <1>7 DEF GuiStep

\* In one run of the program every step does one or the other.
LEMMA QueueMoves ==
  ASSUME TypeOK, [Next]_vars, ~Restart
  PROVE  Grows \/ HeadTaken
<1> USE DEF gui, disk, modv, api, dlt, hist
<1>1. CASE UNCHANGED vars
  BY <1>1 DEF vars, Grows
<1>2. ASSUME NEW m \in Mods,
             \/ UpdateTimer(m) \/ FetchFailed(m) \/ CheckFinished(m)
             \/ StorageMoved(m) \/ TorrentChecked(m) \/ TorrentFinished(m)
             \/ DeltaFetched(m) \/ PatchStarts(m) \/ PatchEnds(m)
      PROVE  Grows
  BY <1>2 DEF Grows, UpdateTimer, FetchFailed, CheckFinished, StorageMoved,
     TorrentChecked, TorrentFinished, DeltaFetched, PatchStarts, PatchEnds
<1>3. ASSUME NEW m \in Mods, FetchFinished(m)
      PROVE  Grows
  BY <1>3 DEF FetchFinished, OnFolderAdded, Grows, Event
<1>4. ASSUME NEW m \in Mods, HandlePatched(m)
      PROVE  Grows
  BY <1>4, AddFolderGenericOthers DEF HandlePatched, Grows
<1>5. CASE Shutdown \/ Kill
  BY <1>5 DEF Shutdown, Kill, Ended, Grows
<1> QED
  BY <1>1, <1>2, <1>3, <1>4, <1>5, WorkerQueue, GuiQueue DEF Next

\* An event of a run stays until it is at the head and handled.
LEMMA EventStays ==
  ASSUME TypeOK, [Next]_vars, ~Restart, NEW x \in RangeOf(queue)
  PROVE  x \in RangeOf(queue)' \/ (Takes(x) /\ WorkerEvent)
<1>0. queue \in Seq(Event)
  BY DEF TypeOK
<1>1. CASE Grows
  <2>1. RangeOf(queue) \subseteq RangeOf(queue')
    BY <1>0, <1>1, RangeOfAppend, RangeOfConcat DEF Grows
  <2> QED
    BY <2>1 DEF RangeOf
<1>2. CASE HeadTaken /\ x # Head(queue)
  <2>1. x \in RangeOf(Tail(queue)) /\ Tail(queue) \in Seq(Event)
    BY <1>0, <1>2, RangeOfTail DEF HeadTaken
  <2>2. RangeOf(Tail(queue)) \subseteq RangeOf(queue')
    BY <1>2, <2>1, RangeOfAppend DEF HeadTaken
  <2> QED
    BY <2>1, <2>2 DEF RangeOf
<1>3. CASE HeadTaken /\ x = Head(queue)
  BY <1>3 DEF HeadTaken, Takes, Worker
<1> QED
  BY <1>1, <1>2, <1>3, QueueMoves

\* Each event has its handler.
LEMMA TakenBy ==
  ASSUME NEW m \in Mods, NEW kind \in {"startUpdates", "move"},
         Takes(<<kind, m>>), WorkerEvent
  PROVE  \/ kind = "startUpdates" /\ StartUpdates(m)
         \/ kind = "move" /\ MoveFiles(m)
<1>1. ASSUME NEW e, Takes(e)
      PROVE  e = <<kind, m>>
  BY <1>1 DEF Takes
<1>2. readd = {}
  BY DEF Takes, Worker
<1>3. ~EnableDeltaUpdates /\ ~DisableDeltaUpdates
  BY <1>1 DEF EnableDeltaUpdates, DisableDeltaUpdates
<1>4. ASSUME NEW n \in Mods
      PROVE  /\ ~RepositoryChanged(n) /\ ~ReAddFolder(n)
             /\ ~Check("check", n) /\ ~Check("forceCheck", n)
             /\ StartUpdates(n) => kind = "startUpdates" /\ n = m
             /\ MoveFiles(n) => kind = "move" /\ n = m
  BY <1>1, <1>2 DEF RepositoryChanged, ReAddFolder, Check, StartUpdates, MoveFiles
<1> QED
  BY <1>3, <1>4 DEF WorkerEvent

\* Every mod of a sequence that is posted is among the events.
LEMMA Posted ==
  ASSUME NEW kind \in {"changed", "startUpdates", "check", "forceCheck", "move"},
         NEW mods \in Seq(Mods), NEW n \in RangeOf(mods),
         NEW s \in Seq(Event), NEW t \in Seq(Event)
  PROVE  <<kind, n>> \in RangeOf(s \o Post(kind, mods) \o t)
<1>1. Post(kind, mods) \in Seq(Event) /\ s \o Post(kind, mods) \in Seq(Event)
  BY PostType
<1> QED
  BY <1>1, PostRange, RangeOfConcat

-----------------------------------------------------------------------------
(* The update timer.  Only stop() ends it, of a mod that should not run, and *)
(* a mandatory mod begins to be one that should run in the very step that    *)
(* posts its startUpdates.                                                   *)

Mandatory(m) == \A r \in Repos : <<m, r>> \notin Optional

TimerOk(m) ==
  Up /\ ShouldRun(m) => m \in timer \/ <<"startUpdates", m>> \in RangeOf(queue)

TimerInv == \A m \in Mods : Mandatory(m) => TimerOk(m)

\* Whether a mandatory mod should run is decided by its repositories' status.
LEMMA MandatoryRuns ==
  ASSUME NEW m, Mandatory(m)
  PROVE  ShouldRun(m) <=> ~ReposInactive(m)
  BY DEF Mandatory, ShouldRun, TickedNow, ReposInactive, ReposOf

\* The status changes in the second half of a click only.
LEMMA ActiveChanges ==
  ASSUME [Next]_vars, ~Restart
  PROVE  UNCHANGED repoActive \/ \E r \in Repos : ClickedRepository(r)
<1> USE DEF gui, disk, modv, api, dlt, hist
<1>1. CASE UNCHANGED vars
  BY <1>1 DEF vars
<1>2. CASE WorkerEvent
  BY <1>2 DEF WorkerEvent, RepositoryChanged, StartUpdates, Check, MoveFiles,
     ReAddFolder, EnableDeltaUpdates, DisableDeltaUpdates, Ended
<1>3. CASE GuiStep \/ Shutdown \/ Kill
  BY <1>3 DEF GuiStep, ClickRepository, CheckRepository, ClickMod, ForceCheck,
     SetModDownloadPath, SetDeltaPatchingEnabled, Shutdown, Kill, Ended
<1>4. ASSUME NEW m \in Mods,
             \/ UpdateTimer(m) \/ FetchFinished(m) \/ FetchFailed(m)
             \/ CheckFinished(m) \/ HandlePatched(m) \/ StorageMoved(m)
             \/ TorrentChecked(m) \/ TorrentFinished(m)
             \/ DeltaFetched(m) \/ PatchStarts(m) \/ PatchEnds(m)
      PROVE  UNCHANGED repoActive
  BY <1>4 DEF UpdateTimer, FetchFinished, FetchFailed, CheckFinished,
     HandlePatched, StorageMoved, TorrentChecked, TorrentFinished, DeltaFetched,
     PatchStarts, PatchEnds
<1> QED
  BY <1>1, <1>2, <1>3, <1>4 DEF Next

\* The timer of a mod that should run stays on.
LEMMA TimerStays ==
  ASSUME TypeOK, [Next]_vars, ~Restart, NEW m \in timer
  PROVE  m \in timer' \/ (~ShouldRun(m) /\ UNCHANGED gui)
<1> USE DEF gui, disk, modv, api, dlt, hist
<1>1. CASE UNCHANGED vars
  BY <1>1 DEF vars
<1>2. ASSUME NEW n \in Mods, RepositoryChanged(n)
      PROVE  m \in timer' \/ (~ShouldRun(m) /\ UNCHANGED gui)
  <2>1. UNCHANGED gui
    BY <1>2 DEF RepositoryChanged
  <2>2. UNCHANGED timer \/ (timer' = timer \ {n} /\ ~ShouldRun(n))
    BY <1>2 DEF RepositoryChanged, Start, Stop
  <2> QED
    BY <2>1, <2>2
<1>3. CASE WorkerEvent /\ ~\E n \in Mods : RepositoryChanged(n)
  BY <1>3 DEF WorkerEvent, StartUpdates, Check, MoveFiles, ReAddFolder,
     EnableDeltaUpdates, DisableDeltaUpdates, Ended
<1>4. CASE \/ GuiStep \/ Shutdown \/ Kill
           \/ \E r \in Repos : ClickedRepository(r)
  BY <1>4 DEF GuiStep, ClickRepository, CheckRepository, ClickMod, ForceCheck,
     SetModDownloadPath, SetDeltaPatchingEnabled, ClickedRepository, Shutdown,
     Kill, Ended
<1>5. ASSUME NEW n \in Mods,
             \/ UpdateTimer(n) \/ FetchFinished(n) \/ FetchFailed(n)
             \/ CheckFinished(n) \/ HandlePatched(n) \/ StorageMoved(n)
             \/ TorrentChecked(n) \/ TorrentFinished(n)
             \/ DeltaFetched(n) \/ PatchStarts(n) \/ PatchEnds(n)
      PROVE  UNCHANGED timer
  BY <1>5 DEF UpdateTimer, FetchFinished, FetchFailed, CheckFinished,
     HandlePatched, StorageMoved, TorrentChecked, TorrentFinished, DeltaFetched,
     PatchStarts, PatchEnds
<1> QED
  BY <1>1, <1>2, <1>3, <1>4, <1>5 DEF Next

\* A process that runs after a step that is no restart ran before it.
LEMMA RanBefore ==
  ASSUME [Next]_vars, ~Restart, Up'
  PROVE  Up
<1> USE DEF gui, disk, modv, api, dlt, hist
<1>1. CASE UNCHANGED vars
  BY <1>1 DEF vars, Up
<1>2. CASE WorkerEvent
  BY <1>2 DEF WorkerEvent, RepositoryChanged, StartUpdates, Check, MoveFiles,
     ReAddFolder, EnableDeltaUpdates, DisableDeltaUpdates, Takes, Worker, Up
<1>3. CASE \/ GuiStep \/ Shutdown \/ Kill
           \/ \E r \in Repos : ClickedRepository(r)
  BY <1>3 DEF GuiStep, ClickRepository, CheckRepository, ClickMod, ForceCheck,
     SetModDownloadPath, SetDeltaPatchingEnabled, ClickedRepository, UserMay,
     Shutdown, Kill, Up
<1>4. ASSUME NEW n \in Mods,
             \/ UpdateTimer(n) \/ FetchFinished(n) \/ FetchFailed(n)
             \/ CheckFinished(n) \/ HandlePatched(n) \/ StorageMoved(n)
             \/ TorrentChecked(n) \/ TorrentFinished(n)
             \/ DeltaFetched(n) \/ PatchStarts(n) \/ PatchEnds(n)
      PROVE  Up
  BY <1>4 DEF UpdateTimer, FetchFinished, FetchFailed, CheckFinished,
     HandlePatched, StorageMoved, TorrentChecked, TorrentFinished, DeltaFetched,
     PatchStarts, PatchEnds, Worker, Up
<1> QED
  BY <1>1, <1>2, <1>3, <1>4 DEF Next

\* Every mod's startUpdates is posted when the program starts.
LEMMA BootStarts == \A m \in Mods : <<"startUpdates", m>> \in RangeOf(BootQueue)
<1>1. /\ BootOrder \in Seq(Mods) /\ RangeOf(BootOrder) = Mods
      /\ Post("startUpdates", BootOrder) \in Seq(Event)
      /\ Post("changed", BootOrder) \in Seq(Event)
  BY Assumptions, PostType DEF Assumptions
<1> QED
  BY <1>1, PostRange, RangeOfConcat DEF BootQueue

\* Every step keeps the invariant.
LEMMA TimerStep == TypeOK /\ TimerInv /\ [Next]_vars => TimerInv'
<1> SUFFICES ASSUME TypeOK, TimerInv, [Next]_vars, NEW m \in Mods, Mandatory(m),
                    Up', ShouldRun(m)'
             PROVE  m \in timer' \/ <<"startUpdates", m>> \in RangeOf(queue)'
  BY DEF TimerInv, TimerOk, Mandatory
<1>1. CASE Restart
  BY <1>1, BootStarts DEF Restart, RangeOf
<1>2. CASE ~Restart /\ ShouldRun(m)
  <2>1. Up
    BY <1>2, RanBefore
  <2>2. CASE m \in timer
    BY <1>2, <2>2, TimerStays
  <2>3. CASE <<"startUpdates", m>> \in RangeOf(queue)
    <3>1. CASE Takes(<<"startUpdates", m>>) /\ WorkerEvent
      <4>1. StartUpdates(m)
        BY <3>1, TakenBy
      <4> QED
        BY <4>1 DEF StartUpdates
    <3> QED
      BY <1>2, <2>3, <3>1, EventStays
  <2> QED
    BY <1>2, <2>1, <2>2, <2>3 DEF TimerInv, TimerOk
<1>3. CASE ~Restart /\ ~ShouldRun(m)
  <2>1. ReposInactive(m) /\ ~ReposInactive(m)'
    BY <1>3, MandatoryRuns DEF Mandatory, ShouldRun
  <2>2. ~UNCHANGED repoActive
    BY <2>1 DEF ReposInactive, ReposOf
  <2>3. PICK r \in Repos : ClickedRepository(r)
    BY <1>3, <2>2, ActiveChanges
  <2>4. PICK s \in ReposOf(m) : s \in repoActive' /\ s \notin repoActive
    BY <2>1 DEF ReposInactive, ReposOf
  <2>5. /\ m \in RangeOf(ModsOf[r])
        /\ queue' = queue \o Post("startUpdates", ModsOf[r])
                         \o Post("changed", ModsOf[r])
    BY <2>3, <2>4 DEF ClickedRepository, ReposOf
  <2>6. /\ queue \in Seq(Event) /\ ModsOf[r] \in Seq(Mods)
        /\ Post("changed", ModsOf[r]) \in Seq(Event)
    BY Assumptions, PostType DEF Assumptions, TypeOK
  <2>7. <<"startUpdates", m>> \in RangeOf(queue')
    BY <2>5, <2>6, Posted
  <2> QED
    BY <2>7 DEF RangeOf
<1> QED
  BY <1>1, <1>2, <1>3

\* The update timer of a mandatory mod that should run is on, or the event
\* that starts it is in the queue, whatever was clicked in which order.
THEOREM NoDeadTimerAlways == Spec => []NoDeadTimer
<1>1. Init => TimerInv
  BY BootStarts DEF Init, TimerInv, TimerOk
<1>2. TimerInv => NoDeadTimer
  BY DEF TimerInv, TimerOk, Mandatory, NoDeadTimer
<1> QED
  BY <1>1, <1>2, TimerStep, TypeCorrect, PTL DEF Spec

-----------------------------------------------------------------------------
(* The directory.  A torrent that is elsewhere has its move to come; so has  *)
(* resume data with another path, from which the torrent may still be added. *)

MoveDue(m) ==
  \/ <<"move", m>> \in RangeOf(queue)
  \/ m \in postponed
  \/ m \in misplaced /\ m \in params

PathOk(m) ==
  Up => /\ tor[m] # "none" /\ home[m] # dir => MoveDue(m)
        /\ tor[m] = "none" /\ m \in params /\ paramsDir # dir => MoveDue(m)

PathInv == \A m \in Mods : PathOk(m)

\* Torrent, directories and what is due to mod n stay.
PathUntouched(n) ==
  /\ UNCHANGED <<dir, paramsDir>>
  /\ (tor'[n] = "none") = (tor[n] = "none") /\ home'[n] = home[n]
  /\ n \in params' <=> n \in params
  /\ n \in postponed => n \in postponed'
  /\ n \in misplaced => n \in misplaced'

\* A posted move stays posted, unless it is made.
LEMMA MoveStays ==
  ASSUME TypeOK, [Next]_vars, ~Restart, NEW n \in Mods, ~MoveFiles(n),
         <<"move", n>> \in RangeOf(queue)
  PROVE  <<"move", n>> \in RangeOf(queue)'
  BY EventStays, TakenBy

\* A mod whose directory nothing touches stays as it should be.
LEMMA PathFrame ==
  ASSUME TypeOK, [Next]_vars, ~Restart, NEW n \in Mods, ~MoveFiles(n),
         PathOk(n), PathUntouched(n)
  PROVE  PathOk(n)'
<1>1. MoveDue(n) => MoveDue(n)'
  BY MoveStays DEF MoveDue, PathUntouched
<1>2. Up' => Up
  BY RanBefore
<1> QED
  BY <1>1, <1>2 DEF PathOk, PathUntouched

\* A torrent that is added where the settings or the resume data say, or
\* moved at once, is as it should be.
LEMMA PathAdded ==
  ASSUME TypeOK, [Next]_vars, ~Restart, NEW m \in Mods, ~MoveFiles(m),
         PathOk(m), NEW path, NEW over, NEW q, OnFolderAdded(m, path, over, q),
         tor[m] = "none", path = dir \/ (m \in params /\ path = paramsDir),
         UNCHANGED <<dir, params, misplaced>>
  PROVE  PathOk(m)'
<1> SUFFICES ASSUME Up', tor'[m] # "none", home'[m] # dir'
             PROVE  MoveDue(m)'
  <2>1. tor'[m] # "none"
    BY DEF OnFolderAdded, TypeOK, TorrentStates
  <2> QED
    BY <2>1 DEF PathOk
<1>1. m \notin postponed /\ path # dir
  BY DEF OnFolderAdded, TypeOK
<1>2. MoveDue(m)
  BY <1>1, RanBefore DEF PathOk
<1> QED
  BY <1>1, <1>2, MoveStays DEF MoveDue

\* addFolder for a mod without a torrent.
LEMMA PathAddFolder ==
  ASSUME TypeOK, [Next]_vars, ~Restart, NEW m \in Mods, ~MoveFiles(m), PathInv,
         NEW over, NEW q, AddFolder(m, over, q), tor[m] = "none",
         UNCHANGED <<dir, params, paramsDir, misplaced>>
  PROVE  PathOk(m)' /\ \A n \in Mods \ {m} : PathUntouched(n)
<1>1. CASE OnFolderAdded(m, paramsDir, over, q) /\ m \in params
  <2>1. PathOk(m)'
    BY <1>1, PathAdded DEF PathInv
  <2>2. \A n \in Mods \ {m} : PathUntouched(n)
    BY <1>1 DEF OnFolderAdded, PathUntouched, TypeOK
  <2> QED
    BY <2>1, <2>2
<1>2. CASE UNCHANGED <<tor, home, postponed>>
  <2>1. \A n \in Mods : PathUntouched(n)
    BY <1>2 DEF PathUntouched
  <2> QED
    BY <2>1, PathFrame DEF PathInv
<1> QED
  BY <1>1, <1>2 DEF AddFolder, AddFolderGeneric

\* Posted events: a move puts the torrent where it should be, or notes why not.
LEMMA PathWorker ==
  ASSUME TypeOK, OwnerInv, PathInv, [Next]_vars, ~Restart, WorkerEvent
  PROVE  PathInv'
<1> USE DEF gui, disk, modv, api, dlt, hist
<1>1. ASSUME NEW m \in Mods, MoveFiles(m)
      PROVE  PathInv'
  <2>1. ASSUME NEW n \in Mods \ {m}
        PROVE  PathOk(n)'
    <3>1. ~MoveFiles(n)
      BY <1>1, <2>1 DEF MoveFiles, Takes
    <3>2. PathUntouched(n)
      BY <1>1, <2>1 DEF MoveFiles, SetFolderPath, PathUntouched, TypeOK
    <3> QED
      BY <3>1, <3>2, PathFrame DEF PathInv
  <2>2. PathOk(m)'
    <3>1. CASE m \in postponed'
      BY <3>1 DEF PathOk, MoveDue
    <3>2. CASE SetFolderPath(m) /\ UNCHANGED params
      BY <1>1, <3>2 DEF MoveFiles, SetFolderPath, PathOk, MoveDue, TypeOK
    <3>3. CASE proc' = "aborted"
      BY <3>3 DEF PathOk, Up
    <3>4. CASE ~FolderExists(m) /\ params' = params \ {m} /\ UNCHANGED tor
      BY <3>4 DEF FolderExists, PathOk
    <3> QED
      BY <1>1, <3>1, <3>2, <3>3, <3>4 DEF MoveFiles
  <2> QED
    BY <2>1, <2>2 DEF PathInv
<1>2. ASSUME NEW m \in Mods, RepositoryChanged(m)
      PROVE  PathInv'
  <2>1. UNCHANGED <<dir, params, paramsDir, misplaced>>
    BY <1>2 DEF RepositoryChanged
  <2>2. \A n \in Mods : ~MoveFiles(n)
    BY <1>2 DEF RepositoryChanged, MoveFiles, Takes
  <2>3. CASE AddFolder(m, TRUE, Tail(queue)) /\ ~FolderExists(m)
    <3>1. PathOk(m)' /\ \A n \in Mods \ {m} : PathUntouched(n)
      BY <2>1, <2>2, <2>3, PathAddFolder DEF FolderExists
    <3> QED
      BY <2>2, <3>1, PathFrame DEF PathInv
  <2>4. CASE UNCHANGED <<tor, home, postponed>>
    <3>1. \A n \in Mods : PathUntouched(n)
      BY <2>1, <2>4 DEF PathUntouched
    <3> QED
      BY <2>2, <3>1, PathFrame DEF PathInv
  <2> QED
    BY <1>2, <2>3, <2>4 DEF RepositoryChanged, Start, Stop
<1>3. ASSUME NEW m \in Mods, ReAddFolder(m)
      PROVE  PathInv'
  <2>1. UNCHANGED <<dir, params, paramsDir, misplaced>> /\ readd # {} /\ tor[m] = "none"
    BY <1>3 DEF ReAddFolder, OwnerInv, Apart
  <2>2. \A n \in Mods : ~MoveFiles(n)
    BY <2>1 DEF MoveFiles, Takes, Worker
  <2>3. PathOk(m)' /\ \A n \in Mods \ {m} : PathUntouched(n)
    BY <1>3, <2>1, <2>2, PathAddFolder DEF ReAddFolder
  <2> QED
    BY <2>2, <2>3, PathFrame DEF PathInv
<1>4. CASE /\ ~\E m \in Mods : MoveFiles(m) \/ RepositoryChanged(m) \/ ReAddFolder(m)
  <2>1. \A n \in Mods : PathUntouched(n)
    BY <1>4 DEF WorkerEvent, StartUpdates, Check, EnableDeltaUpdates,
       DisableDeltaUpdates, Ended, PathUntouched
  <2> QED
    BY <1>4, <2>1, PathFrame DEF PathInv
<1> QED
  BY <1>1, <1>2, <1>3, <1>4

\* The other handlers add a torrent, or touch none's directory.
LEMMA PathOthers ==
  ASSUME TypeOK, OwnerInv, PathInv, [Next]_vars, ~Restart, NEW m \in Mods,
         \/ UpdateTimer(m) \/ FetchFinished(m) \/ FetchFailed(m)
         \/ CheckFinished(m) \/ HandlePatched(m) \/ StorageMoved(m)
         \/ TorrentChecked(m) \/ TorrentFinished(m)
         \/ DeltaFetched(m) \/ PatchStarts(m) \/ PatchEnds(m)
  PROVE  PathInv'
<1> USE DEF gui, disk, modv, api, dlt, hist
<1>0. UNCHANGED <<dir, params, paramsDir, misplaced>>
  BY DEF UpdateTimer, FetchFinished, FetchFailed, CheckFinished, HandlePatched,
     StorageMoved, TorrentChecked, TorrentFinished, DeltaFetched, PatchStarts,
     PatchEnds
<1>1. CASE \E n \in Mods : MoveFiles(n)
  BY <1>1, PathWorker DEF WorkerEvent
<1>2. CASE (\A n \in Mods : ~MoveFiles(n)) /\ FetchFinished(m)
  <2>1. OnFolderAdded(m, dir, FALSE, queue) /\ tor[m] = "none"
    BY <1>2 DEF FetchFinished, OwnerInv, Apart
  <2>2. PathOk(m)'
    BY <1>0, <1>2, <2>1, PathAdded DEF PathInv
  <2>3. \A n \in Mods \ {m} : PathUntouched(n)
    BY <1>0, <2>1 DEF OnFolderAdded, PathUntouched, TypeOK
  <2> QED
    BY <1>2, <2>2, <2>3, PathFrame DEF PathInv
<1>3. CASE (\A n \in Mods : ~MoveFiles(n)) /\ HandlePatched(m)
  <2>1. AddFolderGeneric(m, FALSE, queue) /\ tor[m] = "none"
    BY <1>3 DEF HandlePatched, OwnerInv, Apart
  <2>2. CASE OnFolderAdded(m, paramsDir, FALSE, queue) /\ m \in params
    <3>1. PathOk(m)'
      BY <1>0, <1>3, <2>1, <2>2, PathAdded DEF PathInv
    <3>2. \A n \in Mods \ {m} : PathUntouched(n)
      BY <1>0, <2>2 DEF OnFolderAdded, PathUntouched, TypeOK
    <3> QED
      BY <1>3, <3>1, <3>2, PathFrame DEF PathInv
  <2>3. CASE UNCHANGED <<tor, home, postponed>>
    <3>1. \A n \in Mods : PathUntouched(n)
      BY <1>0, <2>3 DEF PathUntouched
    <3> QED
      BY <1>3, <3>1, PathFrame DEF PathInv
  <2> QED
    BY <2>1, <2>2, <2>3 DEF AddFolderGeneric
<1>4. CASE /\ \A n \in Mods : ~MoveFiles(n)
           /\ ~FetchFinished(m) /\ ~HandlePatched(m)
  <2>1. UNCHANGED <<home, postponed>>
    BY <1>4 DEF UpdateTimer, FetchFailed, CheckFinished, StorageMoved,
       TorrentChecked, TorrentFinished, DeltaFetched, PatchStarts, PatchEnds
  <2>2. \A n \in Mods : (tor'[n] = "none") = (tor[n] = "none")
    <3>1. CASE CheckFinished(m) \/ TorrentChecked(m) \/ TorrentFinished(m)
      BY <3>1 DEF CheckFinished, TorrentChecked, TorrentFinished, OwnerInv,
         CheckedIsThere, TypeOK
    <3>2. CASE UNCHANGED tor
      BY <3>2
    <3> QED
      BY <1>4, <3>1, <3>2 DEF UpdateTimer, FetchFailed, StorageMoved,
         DeltaFetched, PatchStarts, PatchEnds
  <2>3. \A n \in Mods : PathUntouched(n)
    BY <1>0, <2>1, <2>2 DEF PathUntouched
  <2> QED
    BY <1>4, <2>3, PathFrame DEF PathInv
<1> QED
  BY <1>1, <1>2, <1>3, <1>4

\* The directory is chosen by one click, which posts a move to every mod.
LEMMA PathGui ==
  ASSUME TypeOK, OwnerInv, PathInv, [Next]_vars, ~Restart,
         \/ GuiStep \/ Shutdown \/ Kill \/ UNCHANGED vars
         \/ \E r \in Repos : ClickedRepository(r)
  PROVE  PathInv'
<1> USE DEF gui, disk, modv, api, dlt, hist
<1>1. CASE \E n \in Mods : MoveFiles(n)
  BY <1>1, PathWorker DEF WorkerEvent
<1>2. ASSUME NEW d \in Dirs, SetModDownloadPath(d)
      PROVE  PathInv'
  <2>1. /\ queue \in Seq(Event) /\ BootOrder \in Seq(Mods) /\ RangeOf(BootOrder) = Mods
        /\ Post("move", BootOrder) \in Seq(Event)
        /\ queue' = queue \o Post("move", BootOrder)
    BY <1>2, Assumptions, PostType DEF Assumptions, TypeOK, SetModDownloadPath
  <2>2. \A n \in Mods : <<"move", n>> \in RangeOf(queue')
    BY <2>1, PostRange, RangeOfConcat
  <2> QED
    BY <2>2 DEF PathInv, PathOk, MoveDue, RangeOf
<1>3. CASE /\ \A n \in Mods : ~MoveFiles(n)
           /\ \A d \in Dirs : ~SetModDownloadPath(d)
  <2>1. UNCHANGED <<dir, api, modv, misplaced>>
    BY <1>3 DEF GuiStep, ClickRepository, CheckRepository, ClickMod, ForceCheck,
       SetDeltaPatchingEnabled, ClickedRepository, Shutdown, Kill, Ended, vars
  <2>2. \A n \in Mods : PathUntouched(n)
    BY <2>1 DEF PathUntouched
  <2> QED
    BY <1>3, <2>2, PathFrame DEF PathInv
<1> QED
  BY <1>1, <1>2, <1>3

\* Every step keeps the invariant; a new process has no torrent, and takes
\* the chosen directory for all resume data.
LEMMA PathStep == TypeOK /\ OwnerInv /\ PathInv /\ [Next]_vars => PathInv'
<1> SUFFICES ASSUME TypeOK, OwnerInv, PathInv, [Next]_vars
             PROVE  PathInv'
  OBVIOUS
<1>1. CASE Restart
  BY <1>1 DEF Restart, PathInv, PathOk
<1> QED
  BY <1>1, PathWorker, PathOthers, PathGui DEF Next

\* A torrent outside the chosen directory has its move posted or postponed,
\* unless its patch torrent was moved in its place.
THEOREM PathFollowsSettingAlways == Spec => []PathFollowsSetting
<1>1. Init => PathInv
  BY DEF Init, PathInv, PathOk
<1>2. PathInv => PathFollowsSetting
  BY DEF PathInv, PathOk, MoveDue, PathFollowsSetting
<1>3. Spec => []OwnerInv
  BY OwnerInit, OwnerStep, TypeCorrect, PTL DEF Spec
<1> QED
  BY <1>1, <1>2, <1>3, PathStep, TypeCorrect, PTL DEF Spec

-----------------------------------------------------------------------------
(* The completion.  A mod without resume data that is on its way, or that    *)
(* downloads, is not marked as processed and is not shown as complete, so    *)
(* that the sample which finds it complete runs a completion.                *)

Coming(m) == m \in pending \/ m \in fetching \/ m \in readd \/ delta[m] # "none"

ShownComplete(m) == status[m] \in {"WAITING", "READY"}

\* What holds of every mod, and of one without resume data.
ShownIsThere(m) == ShownComplete(m) => tor[m] # "none"

\* The torrent may turn out to lack something.
Open(m) == m \in checking \/ tor[m] \in {"checking", "downloading"}

Fresh(m) ==
  /\ Coming(m) => m \notin processed
  /\ Open(m) /\ owed[m] = "none" => m \notin processed /\ status[m] # "READY"
  /\ tor[m] # "none" /\ owed[m] = "download"
       => m \notin processed /\ status[m] # "READY"
  /\ tor[m] # "none" /\ owed[m] = "recheck" => m \notin processed

DoneOk(m) == ShownIsThere(m) /\ (m \notin params => Fresh(m))

DoneInv == \A m \in Mods : DoneOk(m)

\* A step does nothing to mod n that counts here.
DoneUntouched(n) ==
  /\ status'[n] = status[n] /\ tor'[n] = tor[n] /\ owed'[n] = owed[n]
  /\ n \in processed' => n \in processed
  /\ n \in params => n \in params'
  /\ n \in checking' => n \in checking
  /\ Coming(n)' => Coming(n)

LEMMA DoneFrame ==
  ASSUME NEW n, DoneOk(n), DoneUntouched(n)
  PROVE  DoneOk(n)'
  BY DEF DoneOk, DoneUntouched, ShownIsThere, ShownComplete, Open, Fresh

\* updateStatus shows a mod as complete only if its torrent is, and never
\* while its PBOs are checked.
LEMMA StatusShown ==
  ASSUME NEW m, NEW old, NEW q,
         StatusOf(m, old, q)' \in {"WAITING", "READY"}
  PROVE  /\ tor'[m] \notin {"checking", "downloading"} /\ m \notin checking'
         /\ tor'[m] = "finished" \/ old \in {"WAITING", "READY"}
         /\ StatusOf(m, old, q)' = "READY" => old \in {"WAITING", "READY"}
  BY DEF StatusOf, FolderChecking

\* Mod::update changes its own mod's status and marks only.
LEMMA UpdateOthers ==
  ASSUME TypeOK, NEW m \in Mods, NEW over, Update(m, over)
  PROVE  \A n \in Mods \ {m} :
           /\ status'[n] = status[n] /\ owed'[n] = owed[n]
           /\ over \/ (n \in processed' <=> n \in processed)
  BY DEF Update, TypeOK

\* What it does to its own.
LEMMA UpdateOwn ==
  ASSUME TypeOK, TypeOK', NEW m \in Mods, NEW over, Update(m, over),
         ShownComplete(m) => tor'[m] # "none"
  PROVE  /\ ShownComplete(m)' => tor'[m] = "finished" /\ m \notin checking'
         /\ status'[m] = "READY" => ShownComplete(m)
         /\ owed'[m] = owed[m] \/ (owed'[m] = "none" /\ ShownComplete(m)')
         /\ status'[m] = "READY" /\ owed'[m] = "download" /\ m \notin processed
              => status[m] = "READY"
         /\ over \/ (m \in processed' => m \in processed \/ status'[m] = "READY")
         /\ over \/ (m \in processed' /\ m \notin processed => owed'[m] = "none")
<1>1. PICK old \in {status[m]}, q \in BOOLEAN :
        status' = [status EXCEPT ![m] = StatusOf(m, old, q)']
  BY DEF Update
<1>2. status'[m] = StatusOf(m, old, q)' /\ old = status[m]
  BY <1>1 DEF TypeOK
<1>3. tor'[m] \in {"none", "checking", "downloading", "finished"}
  BY DEF TypeOK, TorrentStates
<1>4. /\ ShownComplete(m)' => tor'[m] = "finished" /\ m \notin checking'
      /\ status'[m] = "READY" => ShownComplete(m)
  BY <1>2, <1>3, StatusShown DEF ShownComplete
<1>5. \/ /\ owed' = owed
         /\ status'[m] = "READY" /\ status[m] = "WAITING" => m \in processed
         /\ over \/ (m \in processed' => m \in processed)
      \/ /\ owed' = [owed EXCEPT ![m] = "none"] /\ status'[m] = "READY"
         /\ status[m] = "WAITING"
  BY DEF Update
<1>6. status'[m] = "READY" => ShownComplete(m)'
  BY DEF ShownComplete
<1> QED
  BY <1>4, <1>5, <1>6 DEF ShownComplete, TypeOK

\* An update keeps the mod in order if the new torrent state asks for no more
\* than the marks before the update say.
LEMMA UpdateDone ==
  ASSUME TypeOK, TypeOK', NEW m \in Mods, NEW over \in BOOLEAN, Update(m, over),
         over => m \in params',
         ShownComplete(m) => tor'[m] # "none",
         m \notin params' =>
           /\ Coming(m)' => m \notin processed /\ ~ShownComplete(m)
           /\ Open(m)' /\ owed[m] = "none" => m \notin processed
           /\ tor'[m] # "none" /\ owed[m] = "download"
                => m \notin processed /\ status[m] # "READY"
           /\ tor'[m] # "none" /\ owed[m] = "recheck" => m \notin processed
  PROVE  DoneOk(m)'
<1>1. ShownIsThere(m)'
  BY UpdateOwn DEF ShownIsThere
<1>2. ASSUME m \notin params'
      PROVE  Fresh(m)'
  <2>1. ASSUME Coming(m)'
        PROVE  m \notin processed'
    BY <1>2, <2>1, UpdateOwn
  <2>2. ASSUME Open(m)', owed'[m] = "none"
        PROVE  m \notin processed' /\ status'[m] # "READY"
    <3>1. ~ShownComplete(m)' /\ owed[m] = "none"
      BY <2>2, UpdateOwn DEF Open
    <3>2. status'[m] # "READY"
      BY <3>1 DEF ShownComplete
    <3> QED
      BY <1>2, <2>2, <3>1, <3>2, UpdateOwn
  <2>3. ASSUME tor'[m] # "none", owed'[m] = "download"
        PROVE  m \notin processed' /\ status'[m] # "READY"
    <3>1. owed[m] = "download"
      BY <2>3, UpdateOwn
    <3> QED
      BY <1>2, <2>3, <3>1, UpdateOwn
  <2>4. ASSUME tor'[m] # "none", owed'[m] = "recheck"
        PROVE  m \notin processed'
    <3>1. owed[m] = "recheck"
      BY <2>4, UpdateOwn
    <3> QED
      BY <1>2, <2>4, <3>1, UpdateOwn
  <2> QED
    BY <2>1, <2>2, <2>3, <2>4 DEF Fresh
<1> QED
  BY <1>1, <1>2 DEF DoneOk

\* The update timer, and Mod::stop, update a mod that is as it was.
LEMMA UpdateInPlace ==
  ASSUME TypeOK, TypeOK', OwnerInv, DoneInv, NEW m \in Mods, Update(m, FALSE),
         UNCHANGED <<params, tor, pending, fetching, readd, delta, checking>>
  PROVE  DoneInv'
<1>1. Coming(m)' => Coming(m)
  BY DEF Coming
<1>2. Coming(m) => tor[m] = "none"
  BY DEF Coming, OwnerInv, Apart
<1>3. DoneOk(m)'
  BY <1>1, <1>2, UpdateDone DEF DoneInv, DoneOk, ShownIsThere, ShownComplete,
     Open, Fresh
<1>4. \A n \in Mods \ {m} : DoneUntouched(n)
  BY UpdateOthers DEF DoneUntouched, Coming
<1> QED
  BY <1>3, <1>4, DoneFrame DEF DoneInv

\* A mod without a torrent that is not marked, or has resume data.
LEMMA DoneAbsent ==
  ASSUME NEW m, DoneOk(m), tor'[m] = "none", UNCHANGED <<status, owed, checking>>,
         tor[m] = "none", m \in params' \/ m \notin processed'
  PROVE  DoneOk(m)'
  BY DEF DoneOk, ShownIsThere, ShownComplete, Open, Fresh

\* The torrent of a mod that had none is added.
LEMMA DoneAdded ==
  ASSUME TypeOK, TypeOK', OwnerInv, NEW m \in Mods, NEW over \in BOOLEAN, NEW path,
         NEW q, DoneOk(m), OnFolderAdded(m, path, over, q), tor[m] = "none",
         UNCHANGED <<params, checking>>, over => m \in params,
         m \in params \/ (m \notin processed /\ ~Coming(m)')
  PROVE  DoneOk(m)'
<1>1. /\ tor'[m] # "none" /\ m \notin checking' /\ ~ShownComplete(m)
      /\ Update(m, over)
  BY DEF OnFolderAdded, TypeOK, TorrentStates, OwnerInv, CheckedIsThere, DoneOk,
     ShownIsThere
<1>2. status[m] # "READY"
  BY <1>1 DEF ShownComplete
<1> QED
  BY <1>1, <1>2, UpdateDone

\* addFolderGenericAsync, of a mod without a torrent.
LEMMA DoneAddFolderGeneric ==
  ASSUME TypeOK, TypeOK', OwnerInv, NEW m \in Mods, NEW over \in BOOLEAN, NEW q,
         DoneOk(m), AddFolderGeneric(m, over, q), tor[m] = "none",
         UNCHANGED <<params, checking>>, over \/ m \in params \/ m \notin processed
  PROVE  /\ DoneOk(m)'
         /\ \A n \in Mods \ {m} :
              /\ status'[n] = status[n] /\ tor'[n] = tor[n] /\ owed'[n] = owed[n]
              /\ n \in processed' => n \in processed
              /\ n \in fetching' => n \in fetching
<1>1. CASE /\ m \in params /\ OnFolderAdded(m, paramsDir, over, q)
           /\ UNCHANGED fetching
           /\ over => processed' = processed \cup {m}
  <2>1. DoneOk(m)'
    BY <1>1, DoneAdded
  <2>2. \A n \in Mods \ {m} : tor'[n] = tor[n]
    BY <1>1 DEF OnFolderAdded, TypeOK
  <2>3. \A n \in Mods \ {m} :
          /\ status'[n] = status[n] /\ owed'[n] = owed[n]
          /\ n \in processed' => n \in processed
    BY <1>1, UpdateOthers DEF OnFolderAdded
  <2> QED
    BY <1>1, <2>1, <2>2, <2>3
<1>2. CASE /\ m \notin params
           /\ processed' = IF over THEN processed \ {m} ELSE processed
           /\ fetching' = fetching \cup {m}
           /\ UNCHANGED <<tor, status, owed>>
  <2>1. DoneOk(m)'
    BY <1>2, DoneAbsent
  <2> QED
    BY <1>2, <2>1
<1> QED
  BY <1>1, <1>2 DEF AddFolderGeneric

\* addFolder: what is on its way afterwards is not marked, or has resume data.
LEMMA DoneAddFolder ==
  ASSUME TypeOK, TypeOK', OwnerInv, DoneInv, NEW m \in Mods, NEW over \in BOOLEAN,
         NEW q, AddFolder(m, over, q), tor[m] = "none", readd' = readd \ {m},
         UNCHANGED <<params, checking>>, over \/ m \in params \/ m \notin processed
  PROVE  DoneInv'
<1>1. CASE /\ processed' = IF over THEN processed \ {m} ELSE processed
           /\ \/ pending' = pending \cup {m} /\ UNCHANGED delta
              \/ delta' = [delta EXCEPT ![m] = "download"] /\ UNCHANGED pending
           /\ UNCHANGED <<tor, status, owed, fetching>>
  <2>1. DoneOk(m)'
    BY <1>1, DoneAbsent DEF DoneInv
  <2>2. \A n \in Mods \ {m} : DoneUntouched(n)
    BY <1>1 DEF DoneUntouched, Coming, TypeOK
  <2> QED
    BY <2>1, <2>2, DoneFrame DEF DoneInv
<1>2. CASE AddFolderGeneric(m, over, q) /\ UNCHANGED <<delta, pending>>
  <2>1. \A n \in Mods \ {m} : DoneUntouched(n)
    BY <1>2, DoneAddFolderGeneric DEF DoneInv, DoneUntouched, Coming
  <2> QED
    BY <1>2, <2>1, DoneAddFolderGeneric, DoneFrame DEF DoneInv
<1> QED
  BY <1>1, <1>2 DEF AddFolder

\* A step that touches only mod m, or none, keeps the others in order.
LEMMA DoneOne ==
  ASSUME DoneInv, NEW m \in Mods, DoneOk(m)',
         \A n \in Mods \ {m} : DoneUntouched(n)
  PROVE  DoneInv'
  BY DoneFrame DEF DoneInv

LEMMA DoneNone ==
  ASSUME DoneInv, \A n \in Mods : DoneUntouched(n)
  PROVE  DoneInv'
  BY DoneFrame DEF DoneInv

\* A check asks for a completion, a move's recheck does not.
LEMMA DoneCheck ==
  ASSUME TypeOK, DoneInv, NEW m \in Mods, NEW kind, Check(kind, m)
  PROVE  DoneInv'
<1> USE DEF dlt
<1>1. CASE /\ HandleValid(m) /\ ~DeltaContains(m)
           /\ checking' = checking \cup {m} /\ processed' = processed \ {m}
           /\ owed' = [owed EXCEPT ![m] = IF @ = "download" THEN @
                                          ELSE IF status[m] = "READY"
                                          THEN "recheck" ELSE "none"]
  <2>1. UNCHANGED <<status, tor, params, pending, fetching, delta, readd>>
    BY DEF Check, modv
  <2>2. DoneOk(m)'
    BY <1>1, <2>1 DEF HandleValid, DoneInv, DoneOk, ShownIsThere, ShownComplete,
       Open, Fresh, TypeOK
  <2>3. \A n \in Mods \ {m} : DoneUntouched(n)
    BY <1>1, <2>1 DEF DoneUntouched, Coming, TypeOK
  <2> QED
    BY <2>2, <2>3, DoneOne
<1>2. CASE UNCHANGED <<checking, processed, owed>>
  <2>1. \A n \in Mods : DoneUntouched(n)
    BY <1>2 DEF Check, modv, DoneUntouched, Coming
  <2> QED
    BY <2>1, DoneNone
<1> QED
  BY <1>1, <1>2 DEF Check

LEMMA DoneMove ==
  ASSUME TypeOK, OwnerInv, DoneInv, NEW m \in Mods, MoveFiles(m)
  PROVE  DoneInv'
<1> USE DEF dlt, disk
<1>1. UNCHANGED <<status, processed, pending, fetching, delta, readd, checking>>
  BY DEF MoveFiles
<1>2. CASE SetFolderPath(m) /\ tor[m] # "none" /\ UNCHANGED params
  <2>1. /\ \/ UNCHANGED <<tor, owed>>
           \/ /\ tor' = [tor EXCEPT ![m] = "checking"]
              /\ owed' = IF tor[m] = "finished" /\ owed[m] = "none"
                         THEN [owed EXCEPT ![m] = "moved"] ELSE owed
    BY <1>2 DEF SetFolderPath
  <2>2. tor[m] \in {"checking", "downloading", "finished"}
    BY <1>2 DEF TypeOK, TorrentStates
  <2>3. DoneOk(m)'
    BY <1>1, <1>2, <2>1, <2>2 DEF DoneInv, DoneOk, ShownIsThere, ShownComplete,
       Open, Fresh, Coming, TypeOK
  <2>4. \A n \in Mods \ {m} : DoneUntouched(n)
    BY <1>1, <1>2, <2>1 DEF DoneUntouched, Coming, TypeOK
  <2> QED
    BY <2>3, <2>4, DoneOne
<1>3. CASE UNCHANGED <<tor, owed, params>>
  <2>1. \A n \in Mods : DoneUntouched(n)
    BY <1>1, <1>3 DEF DoneUntouched, Coming
  <2> QED
    BY <2>1, DoneNone
<1>4. CASE ~FolderExists(m) /\ params' = params \ {m} /\ UNCHANGED <<tor, owed>>
  <2>1. Unowned(m) /\ readd = {}
    BY <1>4, NotThereUnowned DEF MoveFiles, Takes, Worker
  <2>2. DoneOk(m)'
    BY <1>1, <1>4, <2>1 DEF DoneInv, DoneOk, ShownIsThere, ShownComplete,
       Open, Fresh, Coming, Unowned, OwnerInv, CheckedIsThere
  <2>3. \A n \in Mods \ {m} : DoneUntouched(n)
    BY <1>1, <1>4 DEF DoneUntouched, Coming
  <2> QED
    BY <2>2, <2>3, DoneOne
<1> QED
  BY <1>2, <1>3, <1>4 DEF MoveFiles, SetFolderPath

\* Posted events.
LEMMA DoneWorker ==
  ASSUME TypeOK, TypeOK', OwnerInv, DoneInv, WorkerEvent
  PROVE  DoneInv'
<1> USE DEF gui, disk, modv, api, dlt, hist
<1>1. ASSUME NEW m \in Mods, RepositoryChanged(m)
      PROVE  DoneInv'
  <2>1. readd = {} /\ UNCHANGED <<params, checking, readd>>
    BY <1>1 DEF RepositoryChanged, Takes, Worker
  <2>2. CASE Update(m, FALSE) /\ UNCHANGED <<tor, pending, fetching, delta>>
    BY <2>1, <2>2, UpdateInPlace
  <2>3. CASE ~FolderExists(m) /\ AddFolder(m, TRUE, Tail(queue))
    <3>1. tor[m] = "none"
      BY <2>3 DEF FolderExists
    <3> QED
      BY <2>1, <2>3, <3>1, DoneAddFolder
  <2>4. CASE UNCHANGED <<processed, status, tor, fetching, pending, delta, owed>>
    <3>1. \A n \in Mods : DoneUntouched(n)
      BY <2>1, <2>4 DEF DoneUntouched, Coming
    <3> QED
      BY <3>1, DoneNone
  <2> QED
    BY <1>1, <2>2, <2>3, <2>4 DEF RepositoryChanged, Start, Stop
<1>2. ASSUME NEW m \in Mods, NEW kind, Check(kind, m)
      PROVE  DoneInv'
  BY <1>2, DoneCheck
<1>3. ASSUME NEW m \in Mods, MoveFiles(m)
      PROVE  DoneInv'
  BY <1>3, DoneMove
<1>4. ASSUME NEW m \in Mods, ReAddFolder(m)
      PROVE  DoneInv'
  <2>1. /\ tor[m] = "none" /\ readd' = readd \ {m} /\ AddFolder(m, FALSE, queue)
        /\ UNCHANGED <<params, checking>>
    BY <1>4 DEF ReAddFolder, OwnerInv, Apart
  <2>2. m \in params \/ m \notin processed
    BY <1>4 DEF ReAddFolder, DoneInv, DoneOk, Fresh, Coming
  <2> QED
    BY <2>1, <2>2, DoneAddFolder
<1>5. CASE DisableDeltaUpdates
  <2>1. \A n \in Mods : DoneUntouched(n)
    BY <1>5 DEF DisableDeltaUpdates, Ended, DeltaContains, DoneUntouched, Coming
  <2> QED
    BY <2>1, DoneNone
<1>6. CASE EnableDeltaUpdates \/ \E m \in Mods : StartUpdates(m)
  <2>1. \A n \in Mods : DoneUntouched(n)
    BY <1>6 DEF EnableDeltaUpdates, StartUpdates, DoneUntouched, Coming
  <2> QED
    BY <2>1, DoneNone
<1> QED
  BY <1>1, <1>2, <1>3, <1>4, <1>5, <1>6 DEF WorkerEvent

\* The timer, and what libtorrent, the network and the patcher report.
LEMMA DoneCompletion ==
  ASSUME TypeOK, TypeOK', OwnerInv, DoneInv, NEW m \in Mods,
         \/ UpdateTimer(m) \/ FetchFinished(m) \/ FetchFailed(m)
         \/ CheckFinished(m) \/ HandlePatched(m) \/ StorageMoved(m)
         \/ TorrentChecked(m) \/ TorrentFinished(m)
         \/ DeltaFetched(m) \/ PatchStarts(m) \/ PatchEnds(m)
  PROVE  DoneInv'
<1> USE DEF gui, disk, modv, api, dlt, hist
<1>1. CASE UpdateTimer(m)
  BY <1>1, UpdateInPlace DEF UpdateTimer
<1>2. CASE FetchFinished(m)
  <2>1. /\ OnFolderAdded(m, dir, FALSE, queue) /\ tor[m] = "none"
        /\ fetching' = fetching \ {m} /\ m \notin pending /\ m \notin readd
        /\ delta[m] = "none" /\ UNCHANGED <<params, checking, pending, delta, readd>>
    BY <1>2 DEF FetchFinished, OwnerInv, Apart
  <2>2. ~Coming(m)' /\ (m \in params \/ m \notin processed)
    BY <1>2, <2>1 DEF FetchFinished, Coming, DoneInv, DoneOk, Fresh
  <2>3. DoneOk(m)'
    BY <2>1, <2>2, DoneAdded DEF DoneInv
  <2>4. \A n \in Mods \ {m} : tor'[n] = tor[n]
    BY <2>1 DEF OnFolderAdded, TypeOK
  <2>5. \A n \in Mods \ {m} : DoneUntouched(n)
    BY <2>1, <2>4, UpdateOthers DEF OnFolderAdded, DoneUntouched, Coming
  <2> QED
    BY <2>3, <2>5, DoneOne
<1>3. CASE HandlePatched(m)
  <2>1. /\ AddFolderGeneric(m, FALSE, queue) /\ tor[m] = "none"
        /\ delta' = [delta EXCEPT ![m] = "none"]
        /\ UNCHANGED <<params, checking, pending, readd>>
    BY <1>3 DEF HandlePatched, OwnerInv, Apart
  <2>2. m \in params \/ m \notin processed
    BY <1>3 DEF HandlePatched, DoneInv, DoneOk, Fresh, Coming
  <2>3. \A n \in Mods \ {m} : DoneUntouched(n)
    BY <2>1, <2>2, DoneAddFolderGeneric DEF DoneInv, DoneUntouched, Coming, TypeOK
  <2> QED
    BY <2>1, <2>2, <2>3, DoneAddFolderGeneric, DoneOne DEF DoneInv
<1>4. CASE CheckFinished(m)
  <2>1. /\ tor' = [tor EXCEPT ![m] = "checking"] /\ checking' = checking \ {m}
        /\ UNCHANGED <<status, processed, params, fetching, pending, dlt, owed>>
    BY <1>4 DEF CheckFinished
  <2>2. m \in checking /\ tor[m] # "none"
    BY <1>4 DEF CheckFinished, OwnerInv, CheckedIsThere
  <2>3. DoneOk(m)'
    BY <2>1, <2>2 DEF DoneInv, DoneOk, ShownIsThere, ShownComplete, Open,
       Fresh, Coming, TypeOK
  <2>4. \A n \in Mods \ {m} : DoneUntouched(n)
    BY <2>1 DEF DoneUntouched, Coming, TypeOK
  <2> QED
    BY <2>3, <2>4, DoneOne
<1>5. CASE TorrentChecked(m) \/ TorrentFinished(m)
  <2>1. /\ tor[m] \in {"checking", "downloading"}
        /\ \/ tor' = [tor EXCEPT ![m] = "downloading"] /\ UNCHANGED owed
           \/ /\ tor' = [tor EXCEPT ![m] = "finished"]
              /\ owed' = [owed EXCEPT ![m] = IF @ = "download" \/ m \in checking
                                             THEN @ ELSE "none"]
           \/ /\ tor' = [tor EXCEPT ![m] = "finished"]
              /\ owed' = [owed EXCEPT ![m] = IF @ = "none" THEN "download" ELSE @]
        /\ UNCHANGED <<status, processed, params, fetching, pending, checking, dlt>>
    BY <1>5 DEF TorrentChecked, TorrentFinished
  <2>2. DoneOk(m)'
    BY <2>1 DEF DoneInv, DoneOk, ShownIsThere, ShownComplete, Open,
       Fresh, Coming, TypeOK
  <2>3. \A n \in Mods \ {m} : DoneUntouched(n)
    BY <2>1 DEF DoneUntouched, Coming, TypeOK
  <2> QED
    BY <2>2, <2>3, DoneOne
<1>6. CASE PatchStarts(m) \/ PatchEnds(m)
  <2>1. /\ delta[m] # "none" /\ tor[m] = "none"
        /\ \E st \in DeltaStages : delta' = [delta EXCEPT ![m] = st]
        /\ \/ UNCHANGED owed
           \/ owed' = [owed EXCEPT ![m] = IF @ = "none" THEN "download" ELSE @]
        /\ UNCHANGED <<status, processed, params, fetching, pending, checking,
                       tor, readd>>
    BY <1>6 DEF PatchStarts, PatchEnds, DeltaStages, OwnerInv, Apart
  <2>2. DoneOk(m)'
    BY <2>1 DEF DoneInv, DoneOk, ShownIsThere, ShownComplete, Open,
       Fresh, Coming, TypeOK
  <2>3. \A n \in Mods \ {m} : DoneUntouched(n)
    BY <2>1 DEF DoneUntouched, Coming, TypeOK
  <2> QED
    BY <2>2, <2>3, DoneOne
<1>7. CASE FetchFailed(m) \/ StorageMoved(m) \/ DeltaFetched(m)
  <2>1. \A n \in Mods : DoneUntouched(n)
    BY <1>7 DEF FetchFailed, StorageMoved, DeltaFetched, DoneUntouched, Coming
  <2> QED
    BY <2>1, DoneNone
<1> QED
  BY <1>1, <1>2, <1>3, <1>4, <1>5, <1>6, <1>7

\* Every step keeps the invariant.
LEMMA DoneStep == TypeOK /\ TypeOK' /\ OwnerInv /\ DoneInv /\ [Next]_vars => DoneInv'
<1> SUFFICES ASSUME TypeOK, TypeOK', OwnerInv, DoneInv, [Next]_vars
             PROVE  DoneInv'
  OBVIOUS
<1> USE DEF gui, disk, modv, api, dlt, hist
<1>1. CASE Restart
  BY <1>1 DEF Restart, DoneInv, DoneOk, ShownIsThere, ShownComplete,
     Open, Fresh, Coming
<1>2. CASE \/ GuiStep \/ Shutdown \/ Kill \/ UNCHANGED vars
           \/ \E r \in Repos : ClickedRepository(r)
  <2>1. \A n \in Mods : DoneUntouched(n)
    BY <1>2 DEF GuiStep, ClickRepository, CheckRepository, ClickMod, ForceCheck,
       SetModDownloadPath, SetDeltaPatchingEnabled, ClickedRepository,
       Shutdown, Kill, Ended, vars, DoneUntouched, Coming
  <2> QED
    BY <2>1, DoneNone
<1> QED
  BY <1>1, <1>2, DoneWorker, DoneCompletion DEF Next

\* Whatever stops, patches, fetches, re-adds or moves a mod without resume
\* data, it is not shown as ready with a download its completion has not seen.
THEOREM CompletionCoveredAlways == Spec => []CompletionCovered
<1>1. Init => DoneInv
  BY DEF Init, DoneInv, DoneOk, ShownIsThere, ShownComplete, Open, Fresh,
     Coming
<1>2. DoneInv => CompletionCovered
  BY DEF DoneInv, DoneOk, ShownIsThere, ShownComplete, Fresh, CompletionCovered
<1>3. Spec => []OwnerInv
  BY OwnerInit, OwnerStep, TypeCorrect, PTL DEF Spec
<1> QED
  BY <1>1, <1>2, <1>3, DoneStep, TypeCorrect, PTL DEF Spec
=============================================================================
