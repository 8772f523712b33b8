------------------------------ MODULE RepoTree ------------------------------
(***************************************************************************)
(* The list of repositories changes while the program runs: TreeModel and  *)
(* JsonReader on the GUI thread, Mod and LibTorrentApi on the worker.      *)
(*                                                                         *)
(* An update fetches repositories.json three times: to see whether it has  *)
(* changed, to remove the folders of mods that are gone, and to change the *)
(* tree.  The GUI thread waits for each fetch and, when it destroys an     *)
(* adapter, for the worker; the user cannot click in between.              *)
(*                                                                         *)
(* A file, like the tree, is a function from the repositories it lists to  *)
(* the sets of their mods' keys.  Mods are mandatory here; the worker is   *)
(* past initCompleted, and delta patching is off.                          *)
(***************************************************************************)
EXTENDS Naturals, Sequences

CONSTANTS
  Repos, Keys,
  FilesOnServer,   \* the contents repositories.json takes on the server
  NoAdapter,       \* no adapter
  MaxQueue         \* bound: the user and updates wait for longer queues

\* What a file or a tree may be.
Lists == UNION {[R -> SUBSET Keys] : R \in SUBSET Repos}

ASSUME TreeAssumptions ==
  /\ FilesOnServer \subseteq Lists /\ FilesOnServer # {}
  /\ NoAdapter \notin Repos \X Keys
  /\ MaxQueue \in Nat

VARIABLES
  (* GUI thread *)
  json,       \* jsonMap_
  tree,       \* repositories_, with the adapters of each
  ticked,     \* the settings' ticks of repositories
  rstatus,    \* the repositories' status
  grace,      \* repositories whose activeTimer_ is below two seconds
  phase,      \* of an update: how far updateRepositories is
  drop,       \* adapters it still has to remove
  toStart,    \* repositories it still has to finish (startUpdates)
  removing,   \* the adapter whose destructor waits for the worker
  objs,       \* the Mod objects it refers to
  (* worker thread *)
  queue,      \* queue[k]: calls posted for mod k and its folder
  exists,     \* Mod objects constructed and not deleted
  adapters,   \* adapters_, by repository
  mstatus,    \* the mods' status
  timer,      \* updateTimer_ runs
  folder,     \* the mod's torrent in the session
  proc,       \* how the process ended, or "up"
  (* history *)
  excused     \* mods whose folder need not match the tree, see FoldersMatch

gui    == <<json, tree, ticked, rstatus, grace>>
update == <<phase, drop, toStart, removing, objs>>
mod    == <<exists, adapters, mstatus, timer>>
vars   == <<gui, update, queue, mod, folder, proc, excused>>

RepoStatuses == {"INACTIVE", "WAITING", "DOWNLOADING", "READY", "Error"}
ModStatuses  == {"STARTING", "INACTIVE", "ERRORED", "DOWNLOADING", "READY"}
Calls == {"new", "stopUpdates", "append", "changed", "startUpdates", "remove",
          "removeFolder", "delete"}

\* The keys a file or a tree lists, and the repositories they are in.
KeysOf(f) == UNION {f[r] : r \in DOMAIN f}
PairsOf(f) == {p \in Repos \X Keys : p[1] \in DOMAIN f /\ p[2] \in f[p[1]]}

TypeOK ==
  /\ json \in FilesOnServer
  /\ tree \in Lists
  /\ ticked \subseteq Repos /\ grace \subseteq Repos
  /\ rstatus \in [Repos -> RepoStatuses]
  /\ phase \in {"idle", "found", "listed", "removing"}
  /\ drop \subseteq Repos \X Keys /\ toStart \subseteq Repos
  /\ removing \in (Repos \X Keys) \cup {NoAdapter}
  /\ objs \subseteq Keys /\ exists \subseteq Keys /\ timer \subseteq Keys
  /\ queue \in [Keys -> Seq(Calls \X SUBSET Repos)]
  /\ adapters \in [Keys -> SUBSET Repos]
  /\ mstatus \in [Keys -> ModStatuses]
  /\ folder \in [Keys -> {"none", "fetching", "runs", "paused"}]
  /\ proc \in {"up", "stop", "removeFolder"}
  /\ excused \subseteq Keys

\* The GUI thread waits for the destructor of an adapter and for stopUpdates.
Waits == \/ removing # NoAdapter
         \/ \E k \in Keys : \E i \in 1..Len(queue[k]) : queue[k][i][1] = "stopUpdates"

Gui  == proc = "up" /\ ~Waits
Idle == Gui /\ phase = "idle"
Room == \A k \in Keys : Len(queue[k]) <= MaxQueue

\* The calls posted for each mod; nothing is a call that is not made.
Nothing == <<>>
Posted(calls(_)) == queue' = [k \in Keys |-> queue[k] \o calls(k)]
Call(kind, repos, cond) == IF cond THEN <<<<kind, repos>>>> ELSE Nothing

-----------------------------------------------------------------------------
(* GUI thread: the update. *)

\* JsonReader::updateAvailable: a reply may differ from the file held.
UpdateAvailable == FilesOnServer # {json}

\* TreeModel::periodicRepoUpdate (no game is running).
PeriodicRepoUpdate ==
  /\ Idle /\ Room
  /\ \A r \in DOMAIN tree : rstatus[r] \in {"READY", "INACTIVE"}
  /\ UpdateAvailable
  /\ phase' = "found"
  /\ UNCHANGED <<gui, drop, toStart, removing, objs, queue, mod,
                 folder, proc, excused>>

\* Mutant: a reply that is no JSON replaces the map.
UpdateJsonMapUnchecked == json' \in FilesOnServer \cup {<<>>}

\* JsonReader::updateJsonMap.  The server may have any file at any fetch; a
\* file that could not be fetched or read changes nothing.
UpdateJsonMap == json' \in FilesOnServer

Removables(file) == KeysOf(tree) \ KeysOf(file)

\* TreeModel::updateRepositories up to the removal of folders.
GetRemovables ==
  /\ Gui /\ phase = "found"
  /\ UpdateJsonMap
  /\ Posted(LAMBDA k : Call("removeFolder", {}, k \in Removables(json')))
  /\ phase' = "listed"
  /\ UNCHANGED <<tree, ticked, rstatus, grace, drop, toStart, removing,
                 objs, mod, folder, proc, excused>>

\* A new repository's status, from its settings (Repository::Repository).
RepositoriesCreated(new) ==
  /\ rstatus' = [r \in Repos |->
       IF r \in new THEN IF r \in ticked THEN "WAITING" ELSE "INACTIVE"
       ELSE rstatus[r]]
  /\ grace' = (grace \ new) \cup (new \cap ticked)

\* JsonReader::updateRepositories, updateRepositoriesOffline: repositories
\* and mods are added first.  A mod held already is used for its adapters in
\* other repositories too.
UpdateRepositories ==
  /\ Gui /\ phase = "listed"
  /\ UpdateJsonMap
  /\ LET kept == DOMAIN tree \cap DOMAIN json'
         had(r) == IF r \in DOMAIN tree THEN tree[r] ELSE {}
         lists(r) == IF r \in DOMAIN json' THEN json'[r] ELSE {}
         added(k) == {r \in DOMAIN json' : k \in lists(r) \ had(r)}
     IN /\ tree' = [r \in DOMAIN tree \cup DOMAIN json' |-> had(r) \cup lists(r)]
        /\ RepositoriesCreated(DOMAIN json' \ DOMAIN tree)
        /\ Posted(LAMBDA k :
             Call("new", {}, k \in KeysOf(json') \ objs)
             \o Call("stopUpdates", {}, \E r \in kept : k \in tree[r])
             \o Call("append", added(k), added(k) # {}))
        /\ drop' = PairsOf(tree) \ PairsOf(json')
        /\ toStart' = DOMAIN json'
        /\ excused' = excused \cup
                      ((KeysOf(json') \ KeysOf(json)) \cap objs) \cup
                      (KeysOf(json) \ KeysOf(json'))
  /\ objs' = objs \cup KeysOf(json')
  /\ phase' = "removing"
  /\ UNCHANGED <<ticked, removing, mod, folder, proc>>

Without(r, k) == [tree EXCEPT ![r] = @ \ {k}]

\* Mutant: the destructor does not wait for the worker.
RemoveAdapterUnblocked(r, k) ==
  /\ tree' = Without(r, k)
  /\ UNCHANGED removing

\* The list gives the adapter up, and its destructor posts and waits.
RemoveAdapter(r, k) ==
  /\ tree' = Without(r, k)
  /\ removing' = <<r, k>>

\* Repository::removeDeprecatedMods, removeAdapter; for a repository that
\* is gone its destructor, when the others are done.
Remove(r, k) ==
  /\ Gui /\ phase = "removing" /\ <<r, k>> \in drop
  /\ r \in DOMAIN json \/ toStart = {}
  /\ RemoveAdapter(r, k)
  /\ drop' = drop \ {<<r, k>>}
  /\ queue' = [queue EXCEPT ![k] = Append(@, <<"remove", {r}>>)]
  /\ UNCHANGED <<json, ticked, rstatus, grace, phase, toStart, objs,
                 mod, folder, proc, excused>>

\* Mutant: the updates of the repository's mods stay stopped.
StartRepositoryForgets(r) ==
  /\ Gui /\ phase = "removing" /\ r \in toStart
  /\ toStart' = toStart \ {r}
  /\ UNCHANGED <<gui, phase, drop, removing, objs, queue, mod, folder, proc, excused>>

\* Repository::startUpdates for a repository that stays, after its removals.
StartRepository(r) ==
  /\ Gui /\ phase = "removing" /\ r \in toStart
  /\ \A p \in drop : p[1] # r
  /\ toStart' = toStart \ {r}
  /\ Posted(LAMBDA k : Call("startUpdates", {}, k \in tree[r]))
  /\ UNCHANGED <<gui, phase, drop, removing, objs, mod, folder, proc,
                 excused>>

\* Mutant: repositories are only appended.
ReplacedNever == tree

\* repositories.clear() and append: what the file does not list is gone.
Replaced == [r \in DOMAIN json |-> tree[r]]

\* repositories is replaced; a mod no adapter refers to is deleted later.
EndUpdate ==
  /\ Gui /\ phase = "removing" /\ drop = {} /\ toStart = {}
  /\ tree' = Replaced
  /\ objs' = KeysOf(tree')
  /\ Posted(LAMBDA k : Call("delete", {}, k \in objs \ objs'))
  /\ phase' = "idle"
  /\ UNCHANGED <<json, ticked, rstatus, grace, drop, toStart, removing,
                 mod, folder, proc, excused>>

-----------------------------------------------------------------------------
(* GUI thread: the user and the repositories' timer. *)

\* Repository::checkboxClicked.
Click(r) ==
  /\ Idle /\ Room /\ r \in DOMAIN tree
  /\ \/ /\ r \notin ticked
        /\ ticked' = ticked \cup {r}
        /\ rstatus' = [rstatus EXCEPT ![r] = "WAITING"]
        /\ grace' = grace \cup {r}
        /\ Posted(LAMBDA k : Call("startUpdates", {}, k \in tree[r])
                             \o Call("changed", {}, k \in tree[r]))
     \/ /\ r \in ticked
        /\ ticked' = ticked \ {r}
        /\ rstatus' = [rstatus EXCEPT ![r] = "INACTIVE"]
        /\ UNCHANGED grace
        /\ Posted(LAMBDA k : Call("changed", {}, k \in tree[r]))
  /\ UNCHANGED <<json, tree, update, mod, folder, proc, excused>>

\* Repository::update for a ticked repository, from its mods' statuses.
StatusFrom(statuses) ==
  IF statuses \subseteq {"READY", "INACTIVE"} THEN "READY"
  ELSE IF "DOWNLOADING" \in statuses THEN "DOWNLOADING"
  ELSE IF "ERRORED" \in statuses THEN "Error" ELSE "WAITING"

\* TreeModel::update, once a second.
RepositoryUpdate(r) ==
  /\ Idle /\ r \in DOMAIN tree /\ (r \in ticked => r \notin grace)
  /\ rstatus' = [rstatus EXCEPT ![r] =
       IF r \notin ticked THEN "INACTIVE"
       ELSE StatusFrom({mstatus[k] : k \in tree[r]})]
  /\ UNCHANGED <<json, tree, ticked, grace, update, queue, mod, folder,
                 proc, excused>>

\* Two seconds after a click.
GraceEnds(r) ==
  /\ proc = "up" /\ r \in grace
  /\ grace' = grace \ {r}
  /\ UNCHANGED <<json, tree, ticked, rstatus, update, queue, mod,
                 folder, proc, excused>>

-----------------------------------------------------------------------------
(* Worker thread. *)

\* Mutant: one inactive repository is enough to stop a mod.
ActiveEverywhere(S) == S # {} /\ \A r \in S : rstatus[r] # "INACTIVE"

\* Mod::reposInactive, of adapters S, and updateTicked of a mandatory mod:
\* the mod runs exactly when one of its repositories is not INACTIVE.
Active(S) == \E r \in S : rstatus[r] # "INACTIVE"

Takes(k, kind) == proc = "up" /\ queue[k] # <<>> /\ Head(queue[k])[1] = kind
Rest(k) == queue' = [queue EXCEPT ![k] = Tail(@)]
RestAnd(k, kind) ==
  queue' = [queue EXCEPT ![k] = Append(Tail(@), <<kind, {}>>)]

\* Mod::repositoryChanged of a mod with adapters S (stop and start included;
\* start posts nothing before the torrent file is there).  A mod that leaves
\* several repositories may ask for the torrent that was just removed.
RepositoryChanged(k, S) ==
  \/ /\ ~Active(S) /\ folder[k] \in {"runs", "paused"}
     /\ folder' = [folder EXCEPT ![k] = "paused"]
     /\ timer' = timer \ {k}
     /\ mstatus' = [mstatus EXCEPT ![k] = "INACTIVE"]
     /\ UNCHANGED <<proc, excused>>
  \/ /\ ~Active(S) /\ folder[k] = "fetching"    \* an empty handle is paused
     /\ proc' = "stop"
     /\ UNCHANGED <<folder, timer, mstatus, excused>>
  \/ /\ Active(S) /\ folder[k] \in {"none", "paused"}
     /\ folder' = [folder EXCEPT ![k] = IF @ = "none" THEN "fetching" ELSE "runs"]
     /\ excused' = IF folder[k] = "none" /\ k \notin KeysOf(json)
                   THEN excused \cup {k} ELSE excused
     /\ UNCHANGED <<timer, mstatus, proc>>
  \/ /\ Active(S) <=> folder[k] \in {"fetching", "runs"}
     /\ folder[k] # "paused" \/ ~Active(S)
     /\ ~Active(S) => folder[k] = "none"
     /\ UNCHANGED <<folder, timer, mstatus, proc, excused>>

\* Mod::threadConstructor
New(k) ==
  /\ Takes(k, "new") /\ Rest(k)
  /\ exists' = exists \cup {k}
  /\ adapters' = [adapters EXCEPT ![k] = {}]
  /\ mstatus' = [mstatus EXCEPT ![k] = "STARTING"]
  /\ timer' = timer \ {k}
  /\ UNCHANGED <<gui, update, folder, proc, excused>>

\* Mod::appendModAdapter; init is updateTicked and repositoryChanged.
AppendModAdapter(k) ==
  /\ Takes(k, "append")
  /\ adapters' = [adapters EXCEPT ![k] = @ \cup Head(queue[k])[2]]
  /\ RestAnd(k, "changed")
  /\ UNCHANGED <<gui, update, exists, mstatus, timer, folder, proc, excused>>

Changed(k) ==
  /\ Takes(k, "changed") /\ Rest(k)
  /\ RepositoryChanged(k, adapters[k])
  /\ UNCHANGED <<gui, update, exists, adapters>>

\* Mutant: removeOne takes nothing out.
LeftAll(k) == adapters[k]

\* What removeOne leaves of the mod's adapters.
Left(k) == adapters[k] \ Head(queue[k])[2]

\* Mod::removeModAdapter; the destructor's wait is over when it returns.
RemoveModAdapter(k) ==
  /\ Takes(k, "remove") /\ Rest(k)
  /\ adapters' = [adapters EXCEPT ![k] = Left(k)]
  /\ RepositoryChanged(k, Left(k))
  /\ removing' = NoAdapter
  /\ UNCHANGED <<gui, phase, drop, toStart, objs, exists>>

\* Mod::startUpdatesSlot, stopUpdatesSlot
SwitchTimer(k) ==
  /\ \/ Takes(k, "startUpdates") /\ timer' = timer \cup {k}
     \/ Takes(k, "stopUpdates") /\ timer' = timer \ {k}
  /\ Rest(k)
  /\ UNCHANGED <<gui, update, exists, adapters, mstatus, folder, proc, excused>>

\* The deferred delete of a Mod, and of its timer.
Delete(k) ==
  /\ Takes(k, "delete") /\ Rest(k)
  /\ exists' = exists \ {k}
  /\ timer' = timer \ {k}
  /\ UNCHANGED <<gui, update, adapters, mstatus, folder, proc, excused>>

\* LibTorrentApi::removeFolderPriv.  Without a torrent it asks an empty
\* handle for its status.
RemoveFolder(k) ==
  /\ Takes(k, "removeFolder") /\ Rest(k)
  /\ IF folder[k] \in {"runs", "paused"}
     THEN folder' = [folder EXCEPT ![k] = "none"] /\ UNCHANGED proc
     ELSE proc' = "removeFolder" /\ UNCHANGED folder
  /\ UNCHANGED <<gui, update, mod, excused>>

\* Mod::update: the timer samples the status.  Whether a torrent is still
\* downloading is libtorrent's knowledge.
ModUpdate(k) ==
  /\ proc = "up" /\ k \in timer /\ k \in exists
  /\ \E s \in IF ~Active(adapters[k]) THEN {"INACTIVE"}
              ELSE IF folder[k] = "none" THEN {"ERRORED"}
              ELSE IF folder[k] = "fetching" THEN {"DOWNLOADING"}
              ELSE {"DOWNLOADING", "READY"} :
       mstatus' = [mstatus EXCEPT ![k] = s]
  /\ UNCHANGED <<gui, update, queue, exists, adapters, timer, folder,
                 proc, excused>>

\* The reply with the torrent file: LibTorrentApi::onFolderAdded, and
\* Mod::onFolderAdded if the mod is still there.
FolderAdded(k) ==
  /\ proc = "up" /\ folder[k] = "fetching"
  /\ folder' = [folder EXCEPT ![k] = "runs"]
  /\ queue' = [queue EXCEPT ![k] = IF k \in exists
                 THEN Append(@, <<"startUpdates", {}>>) ELSE @]
  /\ excused' = IF phase = "idle" THEN excused \ {k} ELSE excused
  /\ UNCHANGED <<gui, update, mod, proc>>

\* The torrent file could not be fetched.
FetchFailed(k) ==
  /\ proc = "up" /\ folder[k] = "fetching"
  /\ folder' = [folder EXCEPT ![k] = "none"]
  /\ excused' = excused \cup {k}
  /\ UNCHANGED <<gui, update, queue, mod, proc>>

-----------------------------------------------------------------------------
\* TreeModel::TreeModel, with initCompleted and the folders the ticks ask
\* for behind it: the tree is the file, and each mod knows its adapters.
Init ==
  /\ json \in FilesOnServer /\ tree = json
  /\ ticked \in SUBSET DOMAIN json /\ grace = {}
  /\ rstatus = [r \in Repos |-> IF r \in ticked THEN "WAITING" ELSE "INACTIVE"]
  /\ phase = "idle" /\ drop = {} /\ toStart = {} /\ removing = NoAdapter
  /\ objs = KeysOf(tree)
  /\ queue = [k \in Keys |-> Call("changed", {}, k \in objs)
                             \o Call("startUpdates", {}, k \in objs)]
  /\ exists = objs /\ timer = {}
  /\ adapters = [k \in Keys |-> {r \in DOMAIN tree : k \in tree[r]}]
  /\ mstatus = [k \in Keys |-> "STARTING"]
  /\ folder = [k \in Keys |-> "none"]
  /\ proc = "up" /\ excused = {}

GuiStep ==
  \/ PeriodicRepoUpdate \/ GetRemovables \/ UpdateRepositories \/ EndUpdate
  \/ \E r \in Repos, k \in Keys : Remove(r, k)
  \/ \E r \in Repos : StartRepository(r) \/ Click(r) \/ RepositoryUpdate(r)
                      \/ GraceEnds(r)

WorkerStep(k) ==
  \/ New(k) \/ AppendModAdapter(k) \/ Changed(k) \/ RemoveModAdapter(k)
  \/ SwitchTimer(k) \/ Delete(k) \/ RemoveFolder(k) \/ ModUpdate(k)
  \/ FolderAdded(k) \/ FetchFailed(k)

Next == GuiStep \/ \E k \in Keys : WorkerStep(k)

Spec == Init /\ [][Next]_vars

-----------------------------------------------------------------------------
(* Properties *)

\* The repositories whose adapters the worker may still touch.
Alive(k) == {r \in DOMAIN tree : k \in tree[r]} \cup
            {r \in Repos : removing = <<r, k>>}

\* The worker never holds a destroyed adapter, nor is a call that carries
\* one left in the queue: an adapter's destructor waits until the mod has
\* forgotten it (modadapter.cpp:37), and its own call came first.
AdapterAlive ==
  \A k \in Keys :
    /\ adapters[k] \subseteq Alive(k)
    /\ \A i \in 1..Len(queue[k]) :
         queue[k][i][1] = "append" => queue[k][i][2] \subseteq Alive(k)

\* Between two updates the tree holds what the last file held, however the
\* three fetches of each update ended (jsonreader.cpp:88).
TreeIsFile == phase = "idle" => tree = json /\ objs = KeysOf(tree)

\* The mod has nothing left to do and no update is on its way.
Settled(k) == proc = "up" /\ phase = "idle" /\ queue[k] = <<>>

Wanted(k) == \E r \in DOMAIN tree : k \in tree[r] /\ r \in ticked

\* Once its calls are handled, a mod knows exactly the repositories that
\* list it, and exists only for these.
WorkerSeesTree ==
  \A k \in Keys : Settled(k) =>
    /\ k \in exists <=> k \in KeysOf(tree)
    /\ k \in exists => adapters[k] = {r \in DOMAIN tree : k \in tree[r]}

\* A mod of an active repository has its torrent running and its progress
\* sampled, and a mod of none runs no torrent - but for mods whose torrent
\* could not be fetched, mods which the second and the third fetch of one
\* update disagreed on (jsonreader.cpp:194), and mods that leave several
\* repositories at once and fetch their torrent again (mod.cpp:314).
FoldersMatch ==
  \A k \in Keys : Settled(k) /\ k \notin excused =>
    /\ Wanted(k) => folder[k] \in {"fetching", "runs"} /\ k \in timer
    /\ ~Wanted(k) => folder[k] \in {"none", "paused"}
    /\ k \notin KeysOf(tree) => folder[k] = "none"

\* Repositories list the mod, in the tree or in the file being applied.
Listed(k) ==
  \/ Wanted(k)
  \/ phase = "removing" /\ \E r \in DOMAIN json : k \in json[r] /\ r \in ticked

\* A torrent is paused only if no ticked repository lists its mod, or if the
\* call that resumes it is queued already: a mod that moves to another
\* repository is not interrupted (jsonreader.cpp:146).
PausedUnwanted ==
  [][\A k \in Keys : folder[k] = "runs" /\ folder'[k] = "paused" =>
       \/ ~Listed(k)
       \/ \E i \in 1..Len(queue'[k]) : queue'[k][i][1] \in {"append", "changed"}]_vars

\* Taking a mod out of repositories.json does not end the process; the test
\* repositories-update-mod-remove.sh looks for a core file.
RemovalSurvives == proc # "removeFolder"
=============================================================================
