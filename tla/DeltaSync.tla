----------------------------- MODULE DeltaSync -----------------------------
(***************************************************************************)
(* Delta patching of several mods: DeltaManager and DeltaDownloader on the *)
(* worker thread, DeltaPatcher on its own thread.                          *)
(*                                                                         *)
(* A mod handed over (patch) waits in inDownload_ while the .torrent files *)
(* of its patches are fetched and the torrents download.  The manager's    *)
(* timer (update) hands a downloaded mod to the patcher by a queued call;  *)
(* the patcher's signal patched() comes back as another queued call.       *)
(*                                                                         *)
(* Names: a mod stands for its key, its name and its directory; a URL for  *)
(* a patch torrent and for the patch file it downloads.  Chain[m] is the   *)
(* mod's release history: patch i, the file "<mod>.<i>.<hash>.7z", brings  *)
(* version i - 1 to version i.                                             *)
(***************************************************************************)
EXTENDS Naturals, Sequences

CONSTANTS
  Mods,
  Urls,
  Chain,        \* Chain[m]: the URLs of m's patches, oldest first
  UrlLists,     \* the lists deltaUpdates2 of repositories.json may hold
  NoMod,        \* no mod
  MaxRequests   \* bound: requests under way of one URL, for one mod or for
                \* the mirror, and its entries in mirrored_

ASSUME DeltaAssumptions ==
  /\ NoMod \notin Mods
  /\ Chain \in [Mods -> Seq(Urls)]
  /\ UrlLists \subseteq SUBSET Urls
  /\ MaxRequests \in Nat

VARIABLES
  mgr,          \* deltaManager_ # nullptr
  list,         \* deltaUrls_
  (* DeltaManager *)
  keyHash, inDownload,
  timer,        \* updateTimer_ runs
  (* DeltaDownloader *)
  inDl,         \* inDl_, shared by all mods
  asked,        \* asked[m][u]: downloadPatches' requests without a reply
  handleMap,    \* handleMap_: the mod's patch torrents
  urlHandle,    \* the keys of urlHandleMap_
  mirrored,     \* how often mirrored_ lists a URL
  mirrorAsked,  \* mirrorDeltaPatches' requests without a reply
  (* DeltaPatcher *)
  posted,       \* queued calls of patchDirSync
  thread,       \* its thread: "idle", "patch", or "clear" after the signal
  patchingMod,  \* patchingMod_
  named,        \* the mod in latestVersion's static regular expression
  signals,      \* queued signals patched()
  (* elsewhere *)
  torrents,     \* the session's patch torrents
  files,        \* complete files in the patches directory
  version,      \* the mods' versions
  proc          \* the process: "up" or "aborted"

manager    == <<keyHash, inDownload, timer>>
downloader == <<inDl, asked, handleMap, urlHandle, mirrored, mirrorAsked>>
patcher    == <<posted, thread, patchingMod, signals>>
outside    == <<mgr, list, torrents, files, version, named, proc>>
vars       == <<manager, downloader, patcher, outside>>

NoneOfUrls == [u \in Urls |-> 0]
NoRequests == [m \in Mods |-> NoneOfUrls]

TypeOK ==
  /\ mgr \in BOOLEAN /\ list \in UrlLists
  /\ keyHash \subseteq Mods /\ inDownload \subseteq Mods /\ timer \in BOOLEAN
  /\ inDl \subseteq Urls
  /\ asked \in [Mods -> [Urls -> 0..MaxRequests]]
  /\ handleMap \in [Mods -> SUBSET Urls]
  /\ urlHandle \subseteq Urls
  /\ mirrored \in [Urls -> 0..MaxRequests]
  /\ mirrorAsked \in [Urls -> 0..MaxRequests]
  /\ posted \in Seq(Mods) /\ signals \in Seq(Mods)
  /\ thread \in {"idle", "patch", "clear"}
  /\ patchingMod \in Mods \cup {NoMod} /\ named \in Mods \cup {NoMod}
  /\ torrents \in [Urls -> {"none", "downloading", "finished"}]
  /\ files \subseteq Urls
  /\ version \in [Mods -> Nat]
  /\ proc \in {"up", "aborted"}

Worker == proc = "up" /\ mgr

\* The mod patchDirSync works on.
InPatcher == IF thread = "patch" THEN {patchingMod} ELSE {}

-----------------------------------------------------------------------------
(* DeltaDownloader *)

\* The next patch of the mod's version is listed.
PatchAvailable(m) ==
  /\ version[m] < Len(Chain[m])
  /\ Chain[m][version[m] + 1] \in list

\* getDeltaUrls: that patch and all later ones.
DeltaUrls(m) ==
  {Chain[m][i] : i \in (version[m] + 1)..Len(Chain[m])} \cap list

\* A reply gave a torrent; adding it again gives the handle it has.
TorrentAdded(u) ==
  torrents' = [torrents EXCEPT ![u] = IF @ = "none" THEN "downloading" ELSE @]

\* Mutant: a mod without any torrent counts as downloaded.
PatchesDownloadedOfNone(m) ==
  inDl = {} /\ \A u \in handleMap[m] : torrents[u] = "finished"

PatchesDownloaded(m) ==
  /\ inDl = {}
  /\ handleMap[m] # {}
  /\ \A u \in handleMap[m] : torrents[u] = "finished"

\* DeltaManager::patch and DeltaDownloader::downloadPatches.  LibTorrentApi
\* calls it for a folder that does not exist, so not for one held already.
\* A mirrored torrent is used if its reply has come, else fetched again.
Patch(m) ==
  /\ Worker /\ m \notin keyHash /\ PatchAvailable(m)
  /\ LET urls  == DeltaUrls(m)
         taken == {u \in urls : mirrored[u] > 0}
         ready == taken \cap urlHandle
         fetch == urls \ ready
     IN /\ \A u \in fetch : asked[m][u] < MaxRequests
        /\ mirrored' = [u \in Urls |->
                          IF u \in taken THEN mirrored[u] - 1 ELSE mirrored[u]]
        /\ handleMap' = [handleMap EXCEPT ![m] = @ \cup ready]
        /\ inDl' = fetch
        /\ asked' = [asked EXCEPT ![m] =
                       [u \in Urls |-> IF u \in fetch THEN @[u] + 1 ELSE @[u]]]
  /\ keyHash' = keyHash \cup {m}
  /\ inDownload' = inDownload \cup {m}
  /\ timer' = TRUE
  /\ UNCHANGED <<urlHandle, mirrorAsked, patcher, outside>>

\* Mutant: a reply is handled again.
AnsweredAgain(m, u) ==
  /\ Worker
  /\ asked' = [asked EXCEPT ![m][u] = @ - 1]
  /\ inDl' = inDl \ {u}
  /\ UNCHANGED <<manager, mirrored, mirrorAsked, patcher, mgr, list, files, version, named, proc>>

\* The reply to one of downloadPatches' requests.
Answered(m, u) ==
  /\ Worker /\ asked[m][u] > 0
  /\ asked' = [asked EXCEPT ![m][u] = @ - 1]
  /\ inDl' = inDl \ {u}
  /\ UNCHANGED <<manager, mirrored, mirrorAsked, patcher, mgr, list, files, version, named, proc>>

Reply(m, u) ==
  /\ Answered(m, u)
  /\ handleMap' = [handleMap EXCEPT ![m] = @ \cup {u}]
  /\ urlHandle' = urlHandle \cup {u}
  /\ TorrentAdded(u)

\* Mutant: only a good reply takes its URL out of inDl_.
ReplyFailsKeepsUrl(m, u) ==
  /\ Worker /\ asked[m][u] > 0
  /\ asked' = [asked EXCEPT ![m][u] = @ - 1]
  /\ UNCHANGED <<manager, inDl, handleMap, urlHandle, mirrored, mirrorAsked,
                 patcher, outside>>

\* A failed reply emits patchDlFailed, which nothing is connected to.
ReplyFails(m, u) ==
  /\ Answered(m, u)
  /\ UNCHANGED <<handleMap, urlHandle, torrents>>

\* mirrorDeltaPatches, asked for when all mods are ready, and again after each
\* update of the repositories.
MirrorDeltaPatches ==
  /\ Worker /\ keyHash = {}
  /\ LET fetch == list \ urlHandle
     IN /\ \A u \in fetch : mirrored[u] < MaxRequests /\ mirrorAsked[u] < MaxRequests
        /\ mirrored' = [u \in Urls |->
                          IF u \in fetch THEN mirrored[u] + 1 ELSE mirrored[u]]
        /\ mirrorAsked' = [u \in Urls |->
                             IF u \in fetch THEN mirrorAsked[u] + 1 ELSE mirrorAsked[u]]
  /\ inDl' = list
  /\ UNCHANGED <<manager, asked, handleMap, urlHandle, patcher, outside>>

\* Its replies, failed or not, leave inDl_ alone.
MirrorReply(u) ==
  /\ Worker /\ mirrorAsked[u] > 0
  /\ mirrorAsked' = [mirrorAsked EXCEPT ![u] = @ - 1]
  /\ \/ urlHandle' = urlHandle \cup {u} /\ TorrentAdded(u)
     \/ UNCHANGED <<urlHandle, torrents>>
  /\ UNCHANGED <<manager, inDl, asked, handleMap, mirrored, patcher, mgr, list,
                 files, version, named, proc>>

-----------------------------------------------------------------------------
(* DeltaManager *)

\* Mutant: the mod handed over stays in inDownload_.
UpdateKeepsWaiting(m) ==
  /\ Worker /\ timer /\ patchingMod = NoMod
  /\ m \in inDownload /\ PatchesDownloaded(m)
  /\ posted' = Append(posted, m)
  /\ UNCHANGED <<manager, downloader, thread, patchingMod, signals, outside>>

\* update: one downloaded mod goes to the patcher unless it is patching.
Update(m) ==
  /\ Worker /\ timer /\ patchingMod = NoMod
  /\ m \in inDownload /\ PatchesDownloaded(m)
  /\ posted' = Append(posted, m)
  /\ inDownload' = inDownload \ {m}
  /\ UNCHANGED <<keyHash, timer, downloader, thread, patchingMod, signals,
                 outside>>

\* handlePatched; LibTorrentApi goes on with the mod's own torrent.
HandlePatched ==
  /\ Worker /\ signals # <<>>
  /\ signals' = Tail(signals)
  /\ keyHash' = keyHash \ {Head(signals)}
  /\ timer' = (timer /\ keyHash' # {})
  /\ UNCHANGED <<inDownload, downloader, posted, thread, patchingMod, outside>>

\* A DeltaManager's state when it is made, or there is none.
Fresh ==
  /\ keyHash' = {} /\ inDownload' = {} /\ timer' = FALSE
  /\ inDl' = {} /\ asked' = NoRequests
  /\ handleMap' = [m \in Mods |-> {}]
  /\ urlHandle' = {}
  /\ mirrored' = NoneOfUrls /\ mirrorAsked' = NoneOfUrls
  /\ posted' = <<>> /\ thread' = "idle" /\ patchingMod' = NoMod
  /\ signals' = <<>>

\* LibTorrentApi::enableDeltaUpdatesPriv
EnableDeltaUpdates ==
  /\ proc = "up" /\ ~mgr
  /\ mgr' = TRUE
  /\ files' = files \cap list
  /\ UNCHANGED <<manager, downloader, patcher, list, torrents,
                 version, named, proc>>

\* LibTorrentApi::setDeltaUrlsPriv makes a DeltaManager if there is none; the
\* files of patches no longer listed are removed, whoever needs them.
SetDeltaUrls(urls) ==
  /\ proc = "up" /\ urls # list
  /\ list' = urls
  /\ mgr' = TRUE
  /\ files' = files \cap urls
  /\ UNCHANGED <<manager, downloader, patcher, torrents, version,
                 named, proc>>

-----------------------------------------------------------------------------
(* DeltaPatcher *)

\* The patches to apply to m, by number, when dir holds those files; none if
\* filterPatches fails.  latestVersion's regular expression is static: it
\* looks for the first mod it was ever called with.
FilterPatches(m, dir) ==
  LET n      == IF named = NoMod THEN m ELSE named
      latest == {i \in DOMAIN Chain[n] : Chain[n][i] \in dir
                   /\ \A j \in DOMAIN Chain[n] : j > i => Chain[n][j] \notin dir}
      first  == version[m] + 1
  IN {i \in first..Len(Chain[m]) :
        \E last \in latest :
           /\ i <= last /\ last <= Len(Chain[m])
           /\ \A j \in first..last : Chain[m][j] \in dir}

\* Torrents under way may have made their files, without all the data.
Partial == SUBSET {u \in Urls : torrents[u] = "downloading"}

\* patchDirSync begins.
PatcherTakes ==
  /\ proc = "up" /\ thread = "idle" /\ posted # <<>>
  /\ posted' = Tail(posted)
  /\ thread' = "patch"
  /\ patchingMod' = Head(posted)
  /\ UNCHANGED <<manager, downloader, signals, outside>>

\* Mutant: no signal without patches.
PatcherFailsSilently ==
  /\ proc = "up" /\ thread = "patch"
  /\ \E part \in Partial : FilterPatches(patchingMod, files \cup part) = {}
  /\ named' = IF named = NoMod THEN patchingMod ELSE named
  /\ thread' = "idle"
  /\ UNCHANGED <<manager, downloader, posted, patchingMod, signals, mgr, list,
                 torrents, files, version, proc>>

\* No chain of patches: the signal, and patchingMod_ keeps the mod.
PatcherFails ==
  /\ proc = "up" /\ thread = "patch"
  /\ \E part \in Partial : FilterPatches(patchingMod, files \cup part) = {}
  /\ named' = IF named = NoMod THEN patchingMod ELSE named
  /\ signals' = Append(signals, patchingMod)
  /\ thread' = "idle"
  /\ UNCHANGED <<manager, downloader, posted, patchingMod, mgr, list,
                 torrents, files, version, proc>>

\* The versions applyPatches may leave m at: a patch that cannot be applied is
\* passed over (an assertion, compiled out), and so are the later ones, which
\* need its result.
Applied(m) ==
  UNION {{v \in patches \cup {version[m]} :
            \A i \in patches :
              i <= v <=> \A j \in patches : j <= i => Chain[m][j] \in files}
         : patches \in {FilterPatches(m, files \cup part) : part \in Partial} \ {{}}}

PatcherApplies ==
  /\ proc = "up" /\ thread = "patch"
  /\ \E v \in Applied(patchingMod) :
       version' = [version EXCEPT ![patchingMod] = v]
  /\ named' = IF named = NoMod THEN patchingMod ELSE named
  /\ signals' = Append(signals, patchingMod)
  /\ thread' = "clear"
  /\ UNCHANGED <<manager, downloader, posted, patchingMod, mgr, list,
                 torrents, files, proc>>

\* ... and after the signal
PatcherClears ==
  /\ proc = "up" /\ thread = "clear"
  /\ thread' = "idle"
  /\ patchingMod' = NoMod
  /\ UNCHANGED <<manager, downloader, posted, signals, outside>>

\* LibTorrentApi::disableDeltaUpdatesSlot.  The patcher is deleted without
\* waiting for its thread: at work, that ends the process, or the patch, or
\* neither; its signal goes nowhere.
DisableDeltaUpdates ==
  /\ Worker
  /\ mgr' = FALSE
  /\ Fresh
  /\ proc' \in (IF thread = "idle" THEN {"up"} ELSE {"up", "aborted"})
  /\ version' \in {version} \cup
       UNION {{[version EXCEPT ![m] = v] : v \in Applied(m)} : m \in InPatcher}
  /\ UNCHANGED <<list, torrents, files, named>>

\* libtorrent has the last piece.
TorrentFinished(u) ==
  /\ proc = "up" /\ torrents[u] = "downloading"
  /\ torrents' = [torrents EXCEPT ![u] = "finished"]
  /\ files' = files \cup {u}
  /\ UNCHANGED <<manager, downloader, patcher, mgr, list, version,
                 named, proc>>

-----------------------------------------------------------------------------
Init ==
  /\ mgr \in BOOLEAN /\ list \in UrlLists
  /\ keyHash = {} /\ inDownload = {} /\ timer = FALSE
  /\ inDl = {} /\ asked = NoRequests
  /\ handleMap = [m \in Mods |-> {}]
  /\ urlHandle = {}
  /\ mirrored = NoneOfUrls /\ mirrorAsked = NoneOfUrls
  /\ posted = <<>> /\ thread = "idle" /\ patchingMod = NoMod /\ signals = <<>>
  /\ named = NoMod
  /\ torrents = [u \in Urls |-> "none"] /\ files = {}
  /\ version = [m \in Mods |-> 0]
  /\ proc = "up"

Patching == PatcherTakes \/ PatcherFails \/ PatcherApplies \/ PatcherClears

Next ==
  \/ \E m \in Mods : Patch(m) \/ Update(m)
  \/ \E m \in Mods, u \in Urls : Reply(m, u) \/ ReplyFails(m, u)
  \/ MirrorDeltaPatches
  \/ \E u \in Urls : MirrorReply(u) \/ TorrentFinished(u)
  \/ HandlePatched
  \/ EnableDeltaUpdates \/ DisableDeltaUpdates
  \/ \E urls \in UrlLists : SetDeltaUrls(urls)
  \/ Patching

Spec == Init /\ [][Next]_vars

\* Both threads go on: queued signals are handled, queued patches are applied.
ThreadFairness == WF_vars(HandlePatched) /\ WF_vars(Patching)

ThreadSpec == Spec /\ ThreadFairness

\* Moreover the manager's timer ticks and in the end picks every mod it may,
\* requests are answered and torrents finish.  No mod need be handed over,
\* nothing need be mirrored and no setting changed.
Fairness ==
  /\ ThreadFairness
  /\ \A m \in Mods : SF_vars(Update(m))
  /\ \A m \in Mods, u \in Urls : WF_vars(Reply(m, u) \/ ReplyFails(m, u))
  /\ \A u \in Urls : WF_vars(TorrentFinished(u))

FairSpec == Spec /\ Fairness

-----------------------------------------------------------------------------
(* Properties *)

Elements(s) == {s[i] : i \in DOMAIN s}
Distinct(s) == \A i, j \in DOMAIN s : s[i] = s[j] => i = j

\* Each mod the DeltaManager contains is in exactly one place and once there:
\* waiting for downloads, in a queued call of the patcher, in the patcher, or
\* in a queued signal.  (update takes it out of inDownload_ and posts it;
\* handlePatched takes it out of keyHash_.)
HeldOnce ==
  /\ keyHash = inDownload \cup Elements(posted) \cup InPatcher \cup Elements(signals)
  /\ inDownload \cap (Elements(posted) \cup InPatcher \cup Elements(signals)) = {}
  /\ Elements(posted) \cap (InPatcher \cup Elements(signals)) = {}
  /\ InPatcher \cap Elements(signals) = {}
  /\ Distinct(posted) /\ Distinct(signals)

\* While a mod waits for its downloads the manager's timer runs (patch starts
\* it, handlePatched stops it), and whatever else inDl_ still waits for has a
\* reply coming: the mod is not left waiting by the manager's own books.
WaitIsPolled ==
  inDownload # {} =>
    /\ timer
    /\ \A u \in inDl : \E m \in Mods : asked[m][u] > 0

\* The service ModSync relies on.
Stage == [m \in Mods |->
  IF m \in inDownload THEN "download"
  ELSE IF m \in Elements(posted) \cup InPatcher THEN "patch"
  ELSE IF m \in Elements(signals) THEN "signal" ELSE "none"]
Known == {m \in Mods : handleMap[m] # {}}
Service == INSTANCE PatchService WITH stage <- Stage, known <- Known

\* DeltaSync keeps the promises of PatchService.
ProvidesService == Service!Spec

\* A mod that was handed to the patcher comes back, whether or not the patch
\* could be applied: the failure, too, emits patched() (deltapatcher.cpp:78).
HandedReturns ==
  \A m \in Mods : []<>(m \notin keyHash \ inDownload \/ proc # "up")

\* "Patch will be recalled once download is completed." (deltamanager.cpp:106):
\* a mod does not wait for ever with its download completed.
DownloadedIsPatched ==
  \A m \in Mods : ~<>[](m \in inDownload /\ PatchesDownloaded(m))
=============================================================================
