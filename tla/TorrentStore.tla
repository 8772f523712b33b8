---------------------------- MODULE TorrentStore ----------------------------
(***************************************************************************)
(* What LibTorrentApi keeps on disk between two runs, and the end of a     *)
(* run.  Each torrent has three files, named by its hash: resume data,     *)
(* the .torrent and the .link with its key.  Starting loads complete       *)
(* triples and deletes those no repository uses; removing a folder deletes *)
(* its triple; leaving the program writes them, while the GUI thread waits *)
(* for a limited time.  The process may be killed between any two steps.   *)
(*                                                                         *)
(* A torrent stands for its key and its hash.                              *)
(***************************************************************************)
EXTENDS FiniteSets, Naturals

CONSTANTS
  Torrents,
  NoTorrent     \* no torrent

ASSUME StoreAssumptions == IsFiniteSet(Torrents) /\ NoTorrent \notin Torrents

VARIABLES
  (* disk *)
  resume, meta, link,  \* the three files: "none", "empty", "cut" or "whole"
  (* process *)
  gui,        \* the GUI thread: "off", "up", or where it waits while leaving
  api,        \* LibTorrentApi: what the worker thread does with the files
  used,       \* keys of the mods in the repositories
  mods,       \* Mod objects
  removals,   \* removeFolder calls posted to the worker thread
  params,     \* torrentParams_
  session,    \* keyHash_
  dirty,      \* torrents with need_save_resume
  todo,       \* files still to write (generateResumeData, shutdown) or remove
  writing,    \* the torrent whose file is open
  (* history *)
  had,        \* triples found complete at the start and not removed since
  gone,       \* torrents whose removal has begun, and not added since
  unsaved     \* torrents shutdown gave up, or never had resume data of

disk == <<resume, meta, link>>
proc == <<gui, api, used, mods, removals, params, session, dirty, todo, writing>>
vars == <<disk, proc, had, gone, unsaved>>

\* "cut" stands for an empty .torrent or .link too; resume data that is empty is
\* skipped, and told apart.
Contents == {"none", "empty", "cut", "whole"}

TypeOK ==
  /\ resume \in [Torrents -> Contents]
  /\ meta \in [Torrents -> Contents \ {"empty"}]
  /\ link \in [Torrents -> Contents \ {"empty"}]
  /\ gui \in {"off", "up", "mods", "api", "quit"}
  /\ api \in {"none", "load", "clean", "up", "remove", "resume", "files", "links", "done"}
  /\ used \subseteq Torrents /\ mods \subseteq Torrents /\ removals \subseteq Torrents
  /\ params \subseteq Torrents /\ session \subseteq Torrents
  /\ dirty \subseteq session /\ todo \subseteq Torrents
  /\ writing \in Torrents \cup {NoTorrent}
  /\ had \subseteq Torrents /\ gone \subseteq Torrents /\ unsaved \subseteq Torrents

Whole(t) == resume[t] = "whole" /\ meta[t] = "whole" /\ link[t] = "whole"

-----------------------------------------------------------------------------
(* Start. *)

\* main, TreeModel::TreeModel: the mods of repositories.json.
Start ==
  /\ gui = "off"
  /\ gui' = "up" /\ api' = "load"
  /\ \E keys \in SUBSET Torrents : used' = keys /\ mods' = keys
  /\ removals' = {} /\ params' = {} /\ session' = {} /\ dirty' = {} /\ todo' = {}
  /\ writing' = NoTorrent
  /\ UNCHANGED <<disk, had, gone, unsaved>>

\* What loadTorrentFiles finds: files without resume data, without a key or
\* with a .torrent that cannot be read are skipped.
\* Mutant: the key is not asked for.
LoadableWithoutLink == {t \in Torrents : resume[t] = "whole" /\ meta[t] = "whole"}

Loadable == {t \in Torrents : Whole(t)}

\* What a .link that was cut after its first byte names is no mod's key, and
\* unused.
Misnamed == {t \in Torrents : resume[t] = "whole" /\ meta[t] = "whole" /\ link[t] = "cut"}

\* bdecode throws on resume data that was cut, and nobody catches.
Malformed == {t \in Torrents : meta[t] # "none" /\ resume[t] = "cut"}

\* LibTorrentApi::loadTorrentFiles, and cleanUnusedFiles' selection.
Load ==
  /\ api = "load"
  /\ had' = Loadable
  /\ unsaved' = {}
  /\ IF Malformed = {}
     THEN /\ params' = Loadable
          /\ api' = "clean"
          /\ \E S \in SUBSET Misnamed : todo' = (Loadable \ used) \cup S
          /\ UNCHANGED <<gui, used, mods, removals, session, dirty, writing>>
     ELSE /\ gui' = "off" /\ api' = "none"
          /\ UNCHANGED <<used, mods, removals, params, session, dirty, todo, writing>>
  /\ UNCHANGED <<disk, gone>>

\* removeFiles, one file after the other: .link, .torrent, .fastresume.
RemoveNext(t) ==
  /\ api \in {"clean", "remove"} /\ t \in todo
  /\ IF link[t] # "none"
     THEN link' = [link EXCEPT ![t] = "none"] /\ UNCHANGED <<meta, resume, todo, params>>
     ELSE IF meta[t] # "none"
     THEN meta' = [meta EXCEPT ![t] = "none"] /\ UNCHANGED <<link, resume, todo, params>>
     ELSE /\ resume' = [resume EXCEPT ![t] = "none"]
          /\ todo' = todo \ {t}
          /\ params' = IF api = "clean" THEN params \ {t} ELSE params
          /\ UNCHANGED <<link, meta>>
  /\ had' = had \ {t} /\ gone' = gone \cup {t}
  /\ UNCHANGED <<gui, api, used, mods, removals, session, dirty, writing, unsaved>>

Removed ==
  /\ api \in {"clean", "remove"} /\ todo = {}
  /\ api' = "up"
  /\ UNCHANGED <<disk, gui, used, mods, removals, params, session, dirty, todo, writing,
                 had, gone, unsaved>>

-----------------------------------------------------------------------------
(* While the program runs. *)

\* addFolder of a mod: with resume data, or fetched.  libtorrent wants what
\* it fetched to be saved, and what it changed.
AddFolder(t) ==
  /\ api = "up" /\ t \in mods /\ t \notin session
  /\ session' = session \cup {t} /\ gone' = gone \ {t}
  /\ \/ dirty' = dirty \cup {t}
     \/ t \in params /\ UNCHANGED dirty
  /\ UNCHANGED <<disk, gui, api, used, mods, removals, params, todo, writing, had, unsaved>>

\* Mutant: session_->remove_torrent is not called.
LeavesSessionNot(t) == session' = session \ {t} /\ UNCHANGED dirty

\* session_->remove_torrent and keyHash_.remove
LeavesSession(t) == session' = session \ {t} /\ dirty' = dirty \ {t}

\* TreeModel::updateRepositories: a fetch that no longer has the key.
PostRemoval(t) ==
  /\ gui = "up" /\ t \in used \ removals
  /\ removals' = removals \cup {t}
  /\ UNCHANGED <<disk, gui, api, used, mods, params, session, dirty, todo, writing,
                 had, gone, unsaved>>

\* removeFolderPriv, maybe when the GUI thread has gone on; the mod may add
\* its torrent again.  Without a torrent the process ends.
RemoveFolder(t) ==
  /\ gui \in {"up", "mods"} /\ api = "up" /\ t \in removals
  /\ removals' = removals \ {t}
  /\ IF t \in session
     THEN /\ LeavesSession(t)
          /\ api' = "remove" /\ todo' = {t}
          /\ UNCHANGED gui
     ELSE /\ gui' = "off" /\ api' = "none"
          /\ UNCHANGED <<session, dirty, todo>>
  /\ UNCHANGED <<disk, used, mods, params, writing, had, gone, unsaved>>

\* removeDeprecatedMods, by the next fetch, which may differ: the adapters'
\* destructors wait for the worker thread, which has done what was posted.
Withdraw(t) ==
  /\ gui = "up" /\ api = "up" /\ t \in used \ removals
  /\ used' = used \ {t}
  /\ UNCHANGED <<disk, gui, api, mods, removals, params, session, dirty, todo, writing,
                 had, gone, unsaved>>

\* A mod comes (back) to repositories.json, its old Mod having been deleted.
NewMod(t) ==
  /\ gui = "up" /\ api = "up" /\ t \notin mods
  /\ used' = used \cup {t} /\ mods' = mods \cup {t}
  /\ UNCHANGED <<disk, gui, api, removals, params, session, dirty, todo, writing,
                 had, gone, unsaved>>

-----------------------------------------------------------------------------
(* End.  GUI thread: main after exec, TreeModel::~TreeModel. *)

\* stopUpdates, then the adapters' destructors; mods are deleted later.
Quit ==
  /\ gui = "up"
  /\ gui' = "mods"
  /\ UNCHANGED <<disk, api, used, mods, removals, params, session, dirty, todo, writing,
                 had, gone, unsaved>>

\* The worker thread deletes a Mod, after what was posted before.
DeleteMod(t) ==
  /\ api = "up" /\ t \in mods
  /\ \/ gui = "mods" /\ removals = {}
     \/ gui \in {"up", "mods"} /\ t \notin used
  /\ mods' = mods \ {t}
  /\ UNCHANGED <<disk, gui, api, used, removals, params, session, dirty, todo, writing,
                 had, gone, unsaved>>

\* Mutant: resume data is only asked for where there was some.
NeedResumeOld == dirty \cap params

\* generateResumeData: the torrents that have metadata and need_save_resume.
NeedResume == dirty

\* DestructionWaiter::wait without a limit, over the mods; then LibTorrentApi
\* is deleted, whose destructor is shutdown.
DeleteApi ==
  /\ gui = "mods" /\ api = "up" /\ mods = {}
  /\ gui' = "api"
  /\ api' = "resume" /\ todo' = NeedResume
  /\ unsaved' = {t \in session \ dirty : resume[t] # "whole"}
  /\ UNCHANGED <<disk, used, mods, removals, params, session, dirty, writing, had, gone>>

\* Mutant: the wait has no time limit.
StopWaitingNever ==
  /\ gui = "api" /\ api = "done"
  /\ gui' = "quit"
  /\ UNCHANGED <<disk, api, used, mods, removals, params, session, dirty, todo, writing,
                 had, gone, unsaved>>

\* syncWaiter.wait(15), workerThread->quit(), wait(20000).
StopWaiting ==
  /\ gui = "api"
  /\ gui' = "quit"
  /\ UNCHANGED <<disk, api, used, mods, removals, params, session, dirty, todo, writing,
                 had, gone, unsaved>>

\* The worker thread has returned from the destructor, or is terminated.
Leave ==
  /\ gui = "quit"
  /\ gui' = "off" /\ api' = "none"
  /\ UNCHANGED <<disk, used, mods, removals, params, session, dirty, todo, writing,
                 had, gone, unsaved>>

Kill ==
  /\ gui # "off"
  /\ gui' = "off" /\ api' = "none"
  /\ UNCHANGED <<disk, used, mods, removals, params, session, dirty, todo, writing,
                 had, gone, unsaved>>

-----------------------------------------------------------------------------
(* End.  Worker thread: LibTorrentApi::shutdown. *)

\* Mutant: all files are opened before the first is written.
OpenAny(t) == t \in todo

\* One file is open at a time.
Open(t) == t \in todo /\ writing = NoTorrent

\* generateResumeData: the alert for t came; its file is opened ...
OpenResume(t) ==
  /\ api = "resume" /\ Open(t)
  /\ \E c \in {"empty", "cut"} : resume' = [resume EXCEPT ![t] = c]
  /\ writing' = t
  /\ UNCHANGED <<meta, link, gui, api, used, mods, removals, params, session, dirty, todo,
                 had, gone, unsaved>>

\* ... and written.
WriteResume(t) ==
  /\ api = "resume" /\ writing = t
  /\ resume' = [resume EXCEPT ![t] = "whole"]
  /\ writing' = NoTorrent /\ todo' = todo \ {t}
  /\ UNCHANGED <<meta, link, gui, api, used, mods, removals, params, session, dirty,
                 had, gone, unsaved>>

\* save_resume_data_failed_alert
ResumeFails(t) ==
  /\ api = "resume" /\ writing = NoTorrent /\ t \in todo
  /\ todo' = todo \ {t}
  /\ unsaved' = unsaved \cup {t}
  /\ UNCHANGED <<disk, gui, api, used, mods, removals, params, session, dirty,
                 writing, had, gone>>

\* All alerts came, or none for ten seconds; then the .torrent files.
EndResume ==
  /\ api = "resume" /\ writing = NoTorrent
  /\ unsaved' = unsaved \cup todo
  /\ api' = "files" /\ todo' = session
  /\ UNCHANGED <<disk, gui, used, mods, removals, params, session, dirty, writing, had, gone>>

\* saveTorrentFile: FileUtils::writeFile removes the file and opens it, ...
OpenTorrent(t) ==
  /\ api = "files" /\ Open(t)
  /\ \E c \in {"none", "cut"} : meta' = [meta EXCEPT ![t] = c]
  /\ writing' = t
  /\ UNCHANGED <<resume, link, gui, api, used, mods, removals, params, session, dirty, todo,
                 had, gone, unsaved>>

\* ... writes it, and does the same to the .link file.
OpenLink(t) ==
  /\ api = "files" /\ writing = t
  /\ meta' = [meta EXCEPT ![t] = "whole"]
  /\ \E c \in {"none", "cut"} : link' = [link EXCEPT ![t] = c]
  /\ api' = "links"
  /\ UNCHANGED <<resume, gui, used, mods, removals, params, session, dirty, todo, writing,
                 had, gone, unsaved>>

\* The torrent is saved and leaves the session.
WriteLink(t) ==
  /\ api = "links" /\ writing = t
  /\ link' = [link EXCEPT ![t] = "whole"]
  /\ writing' = NoTorrent /\ todo' = todo \ {t}
  /\ api' = "files"
  /\ UNCHANGED <<resume, meta, gui, used, mods, removals, params, session, dirty,
                 had, gone, unsaved>>

ShutdownCompleted ==
  /\ api = "files" /\ todo = {}
  /\ api' = "done"
  /\ UNCHANGED <<disk, gui, used, mods, removals, params, session, dirty, todo, writing,
                 had, gone, unsaved>>

-----------------------------------------------------------------------------
Init ==
  /\ resume = [t \in Torrents |-> "none"] /\ meta = resume /\ link = resume
  /\ gui = "off" /\ api = "none"
  /\ used = {} /\ mods = {} /\ removals = {} /\ params = {} /\ session = {} /\ dirty = {}
  /\ todo = {} /\ writing = NoTorrent
  /\ had = {} /\ gone = {} /\ unsaved = {}

Worker(t) ==
  \/ RemoveNext(t) \/ AddFolder(t) \/ RemoveFolder(t) \/ DeleteMod(t) \/ OpenResume(t)
  \/ WriteResume(t) \/ ResumeFails(t) \/ OpenTorrent(t) \/ OpenLink(t) \/ WriteLink(t)

Next ==
  \/ Start \/ Load \/ Removed \/ EndResume \/ ShutdownCompleted
  \/ \E t \in Torrents : Worker(t) \/ PostRemoval(t) \/ Withdraw(t) \/ NewMod(t)
  \/ Quit \/ DeleteApi \/ StopWaiting \/ Leave \/ Kill

Spec == Init /\ [][Next]_vars

\* The worker thread goes on loading, removing and deleting; the GUI thread's
\* waits end.  Nothing is assumed of alerts and of writing files.
Fairness ==
  /\ WF_vars(Load) /\ WF_vars(Removed) /\ WF_vars(DeleteApi)
  /\ WF_vars(StopWaiting) /\ WF_vars(Leave)
  /\ \A t \in Torrents :
       WF_vars(RemoveNext(t)) /\ WF_vars(RemoveFolder(t)) /\ WF_vars(DeleteMod(t))

FairSpec == Spec /\ Fairness

-----------------------------------------------------------------------------
(* Properties *)

\* Of the triples that were complete when the program started, at most one
\* is incomplete at any time, so a kill costs at most one torrent its data.
AtMostOneBroken == Cardinality({t \in had : ~Whole(t)}) <= 1

\* When shutdown has returned, each torrent of the session can be loaded by
\* the next run, but for those whose resume data was given up after ten
\* seconds or refused (libtorrentapi.cpp:1164).
ExitKeeps == api = "done" => session \ unsaved \subseteq Loadable

\* A torrent whose removal has begun is not loaded by a later run, wherever
\* the removal was interrupted, unless it was added again meanwhile
\* (libtorrentapi.cpp:795).
RemovalSticks == gone \cap Loadable = {}

\* A process that is to be left ends, however long libtorrent takes.
QuitEnds == gui = "mods" ~> gui = "off"
=============================================================================
