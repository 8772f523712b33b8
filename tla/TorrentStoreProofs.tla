------------------------- MODULE TorrentStoreProofs -------------------------
(* What TorrentStore keeps on disk, for any finite set of torrents. *)
EXTENDS TorrentStore, FiniteSetTheorems, TLAPS

Writing == {"resume", "files", "links"}

\* The session has no torrent that is gone; while files are removed none of
\* them is of the session, while files are written all of them are.
SessionKept ==
  /\ gone \cap session = {}
  /\ api \in {"load", "clean"} => session = {}
  /\ api = "remove" => todo \cap session = {}
  /\ api \in Writing => todo \subseteq session /\ writing \in session \cup {NoTorrent}
  /\ api \in {"load", "clean", "up", "remove"} => writing = NoTorrent
  /\ api = "links" => writing # NoTorrent

\* A torrent found complete has all its files, but for the one being written;
\* the three files are written in this order.
WholeBut ==
  /\ \E x : \A t \in had : Whole(t) \/ t = x
  /\ api \in {"clean", "up", "remove"} \cup Writing =>
       \A t \in had : Whole(t) \/ t = writing
  /\ api = "resume" => \A t \in had : meta[t] = "whole" /\ link[t] = "whole"
  /\ api \in {"files", "links"} => \A t \in had : resume[t] = "whole"
  /\ api = "files" => \A t \in had : link[t] = "whole"
  /\ api = "links" => meta[writing] = "whole"

\* What shutdown has saved so far.
SavedSoFar ==
  /\ api = "resume" => \A t \in session \ (todo \cup unsaved) : resume[t] = "whole"
  /\ api \in {"files", "links", "done"} =>
       \A t \in session \ unsaved : resume[t] = "whole"
  /\ api \in {"files", "links"} =>
       \A t \in session \ todo : meta[t] = "whole" /\ link[t] = "whole"
  /\ api = "links" => writing \in todo /\ meta[writing] = "whole"
  /\ api = "done" => \A t \in session : meta[t] = "whole" /\ link[t] = "whole"
  /\ api \in {"resume", "files"} /\ writing # NoTorrent => writing \in todo

StoreInv ==
  TypeOK /\ SessionKept /\ RemovalSticks /\ WholeBut /\ SavedSoFar

\* The types of the files, of the process and of the history (TorrentStore's
\* Init and actions).
LEMMA StoreTypes ==
  /\ Init => TypeOK
  /\ TypeOK /\ [Next]_vars => TypeOK'
<1>1. Init => TypeOK
  BY StoreAssumptions DEF Init, TypeOK, Contents
<1>2. TypeOK /\ [Next]_vars => TypeOK'
  <2> SUFFICES ASSUME TypeOK, [Next]_vars PROVE TypeOK'
    OBVIOUS
  <2> USE StoreAssumptions DEF TypeOK, Contents, disk
  <2>1. CASE UNCHANGED vars
    BY <2>1 DEF vars, proc
  <2>2. CASE Start
    BY <2>2 DEF Start
  <2>3. CASE Load
    BY <2>3 DEF Load, Loadable, Misnamed
  <2>4. CASE Removed \/ EndResume \/ ShutdownCompleted
    BY <2>4 DEF Removed, EndResume, ShutdownCompleted
  <2>5. CASE Quit \/ StopWaiting \/ Leave \/ Kill
    BY <2>5 DEF Quit, StopWaiting, Leave, Kill
  <2>6. CASE DeleteApi
    BY <2>6 DEF DeleteApi, NeedResume
  <2>7. ASSUME NEW t \in Torrents, Worker(t) \/ PostRemoval(t) \/ Withdraw(t) \/ NewMod(t)
        PROVE TypeOK'
    <3>1. CASE RemoveNext(t)
      BY <3>1 DEF RemoveNext
    <3>2. CASE AddFolder(t) \/ DeleteMod(t) \/ PostRemoval(t) \/ Withdraw(t) \/ NewMod(t)
      BY <3>2 DEF AddFolder, DeleteMod, PostRemoval, Withdraw, NewMod
    <3>3. CASE OpenResume(t) \/ WriteResume(t) \/ ResumeFails(t)
      BY <3>3 DEF OpenResume, WriteResume, ResumeFails, Open
    <3>4. CASE OpenTorrent(t) \/ OpenLink(t) \/ WriteLink(t)
      BY <3>4 DEF OpenTorrent, OpenLink, WriteLink, Open
    <3>5. CASE RemoveFolder(t)
      BY <3>5 DEF RemoveFolder, LeavesSession
    <3> QED
      BY <2>7, <3>1, <3>2, <3>3, <3>4, <3>5 DEF Worker
  <2> QED
    BY <2>1, <2>2, <2>3, <2>4, <2>5, <2>6, <2>7 DEF Next
<1> QED
  BY <1>1, <1>2

\* How each step keeps the session apart from what is removed.
LEMMA SessionStep ==
  ASSUME TypeOK, SessionKept, [Next]_vars
  PROVE  SessionKept'
<1> USE StoreAssumptions DEF TypeOK, SessionKept, Writing
<1>1. CASE UNCHANGED vars
  BY <1>1 DEF vars, proc, disk, Whole, Loadable
<1>2. CASE Start
  BY <1>2 DEF Start, disk, Whole, Loadable
<1>3. CASE Load
  BY <1>3 DEF Load, Loadable, Misnamed, disk, Whole
<1>4. CASE Removed \/ EndResume \/ ShutdownCompleted
  BY <1>4 DEF Removed, EndResume, ShutdownCompleted, disk, Whole, Loadable
<1>5. CASE Quit \/ StopWaiting \/ Leave \/ Kill
  BY <1>5 DEF Quit, StopWaiting, Leave, Kill, disk, Whole, Loadable
<1>6. CASE DeleteApi
  BY <1>6 DEF DeleteApi, NeedResume, disk, Whole, Loadable
<1>7. ASSUME NEW t \in Torrents, Worker(t) \/ PostRemoval(t) \/ Withdraw(t) \/ NewMod(t)
      PROVE  SessionKept'
  <2>1. CASE RemoveNext(t)
    BY <2>1 DEF RemoveNext, Whole, Loadable
  <2>2. CASE AddFolder(t) \/ DeleteMod(t) \/ PostRemoval(t) \/ Withdraw(t) \/ NewMod(t)
    BY <2>2 DEF AddFolder, DeleteMod, PostRemoval, Withdraw, NewMod, disk, Whole, Loadable
  <2>3. CASE OpenResume(t)
    BY <2>3 DEF OpenResume, Open, Whole, Loadable
  <2>4. CASE WriteResume(t)
    BY <2>4 DEF WriteResume, Whole, Loadable
  <2>5. CASE ResumeFails(t)
    BY <2>5 DEF ResumeFails, disk, Whole, Loadable
  <2>6. CASE OpenTorrent(t)
    BY <2>6 DEF OpenTorrent, Open, Whole, Loadable
  <2>7. CASE OpenLink(t)
    BY <2>7 DEF OpenLink, Whole, Loadable
  <2>8. CASE WriteLink(t)
    BY <2>8 DEF WriteLink, Whole, Loadable
  <2>9. CASE RemoveFolder(t)
    BY <2>9 DEF RemoveFolder, LeavesSession, disk, Whole, Loadable
  <2> QED
    BY <1>7, <2>1, <2>2, <2>3, <2>4, <2>5, <2>6, <2>7, <2>8, <2>9 DEF Worker
<1> QED
  BY <1>1, <1>2, <1>3, <1>4, <1>5, <1>6, <1>7 DEF Next

\* Only what the session holds is made whole, and removal takes the link first.
LEMMA RemovalStep ==
  ASSUME TypeOK, SessionKept, RemovalSticks, [Next]_vars
  PROVE  RemovalSticks'
<1> USE StoreAssumptions DEF TypeOK, SessionKept, RemovalSticks, Writing, Contents
<1>1. CASE UNCHANGED vars
  BY <1>1 DEF vars, proc, disk, Whole, Loadable
<1>2. CASE Start
  BY <1>2 DEF Start, disk, Whole, Loadable
<1>3. CASE Load
  BY <1>3 DEF Load, Loadable, Misnamed, disk, Whole
<1>4. CASE Removed \/ EndResume \/ ShutdownCompleted
  BY <1>4 DEF Removed, EndResume, ShutdownCompleted, disk, Whole, Loadable
<1>5. CASE Quit \/ StopWaiting \/ Leave \/ Kill
  BY <1>5 DEF Quit, StopWaiting, Leave, Kill, disk, Whole, Loadable
<1>6. CASE DeleteApi
  BY <1>6 DEF DeleteApi, NeedResume, disk, Whole, Loadable
<1>7. ASSUME NEW t \in Torrents, Worker(t) \/ PostRemoval(t) \/ Withdraw(t) \/ NewMod(t)
      PROVE  RemovalSticks'
  <2>1. CASE RemoveNext(t)
    BY <2>1 DEF RemoveNext, Whole, Loadable
  <2>2. CASE AddFolder(t) \/ DeleteMod(t) \/ PostRemoval(t) \/ Withdraw(t) \/ NewMod(t)
    BY <2>2 DEF AddFolder, DeleteMod, PostRemoval, Withdraw, NewMod, disk, Whole, Loadable
  <2>3. CASE OpenResume(t)
    BY <2>3 DEF OpenResume, Open, Whole, Loadable
  <2>4. CASE WriteResume(t)
    BY <2>4 DEF WriteResume, Whole, Loadable
  <2>5. CASE ResumeFails(t)
    BY <2>5 DEF ResumeFails, disk, Whole, Loadable
  <2>6. CASE OpenTorrent(t)
    BY <2>6 DEF OpenTorrent, Open, Whole, Loadable
  <2>7. CASE OpenLink(t)
    BY <2>7 DEF OpenLink, Whole, Loadable
  <2>8. CASE WriteLink(t)
    BY <2>8 DEF WriteLink, Whole, Loadable
  <2>9. CASE RemoveFolder(t)
    BY <2>9 DEF RemoveFolder, LeavesSession, disk, Whole, Loadable
  <2> QED
    BY <1>7, <2>1, <2>2, <2>3, <2>4, <2>5, <2>6, <2>7, <2>8, <2>9 DEF Worker
<1> QED
  BY <1>1, <1>2, <1>3, <1>4, <1>5, <1>6, <1>7 DEF Next

\* One file is open at a time.
LEMMA WholeStep ==
  ASSUME TypeOK, SessionKept, WholeBut, [Next]_vars
  PROVE  WholeBut'
<1> USE StoreAssumptions DEF TypeOK, SessionKept, WholeBut, Writing, Contents
<1>1. CASE UNCHANGED vars
  BY <1>1 DEF vars, proc, disk, Whole, Loadable
<1>2. CASE Start
  BY <1>2 DEF Start, disk, Whole, Loadable
<1>3. CASE Load
  BY <1>3 DEF Load, Loadable, Misnamed, disk, Whole
<1>4. CASE Removed \/ EndResume \/ ShutdownCompleted
  BY <1>4 DEF Removed, EndResume, ShutdownCompleted, disk, Whole, Loadable
<1>5. CASE Quit \/ StopWaiting \/ Leave \/ Kill
  BY <1>5 DEF Quit, StopWaiting, Leave, Kill, disk, Whole, Loadable
<1>6. CASE DeleteApi
  BY <1>6 DEF DeleteApi, NeedResume, disk, Whole, Loadable
<1>7. ASSUME NEW t \in Torrents, Worker(t) \/ PostRemoval(t) \/ Withdraw(t) \/ NewMod(t)
      PROVE  WholeBut'
  <2>1. CASE RemoveNext(t)
    BY <2>1 DEF RemoveNext, Whole, Loadable
  <2>2. CASE AddFolder(t) \/ DeleteMod(t) \/ PostRemoval(t) \/ Withdraw(t) \/ NewMod(t)
    BY <2>2 DEF AddFolder, DeleteMod, PostRemoval, Withdraw, NewMod, disk, Whole, Loadable
  <2>3. CASE OpenResume(t)
    BY <2>3 DEF OpenResume, Open, Whole, Loadable
  <2>4. CASE WriteResume(t)
    BY <2>4 DEF WriteResume, Whole, Loadable
  <2>5. CASE ResumeFails(t)
    BY <2>5 DEF ResumeFails, disk, Whole, Loadable
  <2>6. CASE OpenTorrent(t)
    BY <2>6 DEF OpenTorrent, Open, Whole, Loadable
  <2>7. CASE OpenLink(t)
    BY <2>7 DEF OpenLink, Whole, Loadable
  <2>8. CASE WriteLink(t)
    BY <2>8 DEF WriteLink, Whole, Loadable
  <2>9. CASE RemoveFolder(t)
    BY <2>9 DEF RemoveFolder, LeavesSession, disk, Whole, Loadable
  <2> QED
    BY <1>7, <2>1, <2>2, <2>3, <2>4, <2>5, <2>6, <2>7, <2>8, <2>9 DEF Worker
<1> QED
  BY <1>1, <1>2, <1>3, <1>4, <1>5, <1>6, <1>7 DEF Next

\* Each phase of shutdown completes one kind of file.
LEMMA SavedStep ==
  ASSUME TypeOK, SessionKept, SavedSoFar, [Next]_vars
  PROVE  SavedSoFar'
<1> USE StoreAssumptions DEF TypeOK, SessionKept, SavedSoFar, Writing, Contents
<1>1. CASE UNCHANGED vars
  BY <1>1 DEF vars, proc, disk, Whole, Loadable
<1>2. CASE Start
  BY <1>2 DEF Start, disk, Whole, Loadable
<1>3. CASE Load
  BY <1>3 DEF Load, Loadable, Misnamed, disk, Whole
<1>4. CASE Removed \/ EndResume \/ ShutdownCompleted
  BY <1>4 DEF Removed, EndResume, ShutdownCompleted, disk, Whole, Loadable
<1>5. CASE Quit \/ StopWaiting \/ Leave \/ Kill
  BY <1>5 DEF Quit, StopWaiting, Leave, Kill, disk, Whole, Loadable
<1>6. CASE DeleteApi
  BY <1>6 DEF DeleteApi, NeedResume, disk, Whole, Loadable
<1>7. ASSUME NEW t \in Torrents, Worker(t) \/ PostRemoval(t) \/ Withdraw(t) \/ NewMod(t)
      PROVE  SavedSoFar'
  <2>1. CASE RemoveNext(t)
    BY <2>1 DEF RemoveNext, Whole, Loadable
  <2>2. CASE AddFolder(t) \/ DeleteMod(t) \/ PostRemoval(t) \/ Withdraw(t) \/ NewMod(t)
    BY <2>2 DEF AddFolder, DeleteMod, PostRemoval, Withdraw, NewMod, disk, Whole, Loadable
  <2>3. CASE OpenResume(t)
    BY <2>3 DEF OpenResume, Open, Whole, Loadable
  <2>4. CASE WriteResume(t)
    BY <2>4 DEF WriteResume, Whole, Loadable
  <2>5. CASE ResumeFails(t)
    BY <2>5 DEF ResumeFails, disk, Whole, Loadable
  <2>6. CASE OpenTorrent(t)
    BY <2>6 DEF OpenTorrent, Open, Whole, Loadable
  <2>7. CASE OpenLink(t)
    BY <2>7 DEF OpenLink, Whole, Loadable
  <2>8. CASE WriteLink(t)
    BY <2>8 DEF WriteLink, Whole, Loadable
  <2>9. CASE RemoveFolder(t)
    BY <2>9 DEF RemoveFolder, LeavesSession, disk, Whole, Loadable
  <2> QED
    BY <1>7, <2>1, <2>2, <2>3, <2>4, <2>5, <2>6, <2>7, <2>8, <2>9 DEF Worker
<1> QED
  BY <1>1, <1>2, <1>3, <1>4, <1>5, <1>6, <1>7 DEF Next

\* The invariant the properties follow from.
LEMMA StoreInvariant == Spec => []StoreInv
<1>1. Init => StoreInv
  <2> SUFFICES ASSUME Init PROVE StoreInv
    OBVIOUS
  <2>1. TypeOK
    BY StoreTypes
  <2>2. SessionKept /\ RemovalSticks
    BY DEF Init, SessionKept, RemovalSticks, Writing
  <2>3. WholeBut /\ SavedSoFar
    BY DEF Init, WholeBut, SavedSoFar, Writing
  <2> QED
    BY <2>1, <2>2, <2>3 DEF StoreInv
<1>2. StoreInv /\ [Next]_vars => StoreInv'
  BY StoreTypes, SessionStep, RemovalStep, WholeStep, SavedStep
     DEF StoreInv
<1> QED
  BY <1>1, <1>2, PTL DEF Spec

\* TypeOK for any finite set of torrents.
THEOREM StoreTypeCorrect == Spec => []TypeOK
<1>1. StoreInv => TypeOK
  BY DEF StoreInv
<1> QED
  BY <1>1, StoreInvariant, PTL

\* A removal that has begun holds, wherever the process was killed
\* (LibTorrentApi::removeFiles, removeFolderPriv, cleanUnusedFiles).
THEOREM RemovalSticksAlways == Spec => []RemovalSticks
<1>1. StoreInv => RemovalSticks
  BY DEF StoreInv
<1> QED
  BY <1>1, StoreInvariant, PTL

\* Wherever the process is killed, at most one torrent found complete loses
\* a file (saveTorrentFile, generateResumeData).
THEOREM AtMostOneBrokenAlways == Spec => []AtMostOneBroken
<1>1. StoreInv => AtMostOneBroken
  <2> SUFFICES ASSUME StoreInv PROVE AtMostOneBroken
    OBVIOUS
  <2> DEFINE Broken == {t \in had : ~Whole(t)}
  <2>1. PICK x : Broken \subseteq {x}
    BY DEF StoreInv, WholeBut
  <2>2. Broken = {} \/ Broken = {x}
    BY <2>1
  <2>3. Cardinality({}) = 0 /\ Cardinality({x}) = 1
    BY FS_EmptySet, FS_Singleton
  <2> QED
    BY <2>2, <2>3 DEF AtMostOneBroken
<1> QED
  BY <1>1, StoreInvariant, PTL

\* What the session holds when shutdown returns is loaded by the next run
\* (LibTorrentApi::shutdown, loadTorrentFiles).
THEOREM ExitKeepsAlways == Spec => []ExitKeeps
<1>1. StoreInv => ExitKeeps
  BY DEF StoreInv, TypeOK, SavedSoFar, ExitKeeps, Loadable, Whole
<1> QED
  BY <1>1, StoreInvariant, PTL
=============================================================================
