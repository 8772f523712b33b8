----------------------------- MODULE PatchFiles -----------------------------
(***************************************************************************)
(* One mod's files: the publisher makes a delta patch for each release     *)
(* (DeltaPatcher::delta), a client applies patches to the mod's folder     *)
(* (patchDirSync), libtorrent brings the folder to the latest release, and *)
(* Mod::processCompletion deletes and installs.  A kill may come between   *)
(* any two files.                                                          *)
(*                                                                         *)
(* A folder is a function from the paths of its files to what they hold.   *)
(* A path is a name in upper case, as on Windows.  Directories matter only *)
(* where delta() makes them too late.                                      *)
(***************************************************************************)
EXTENDS FiniteSets, Integers, Sequences

CONSTANTS
  Paths, Contents,
  Signed,       \* paths of .bisign files
  DirOf,        \* each path's directory
  Root,         \* the mod's own directory
  Installed,    \* paths the installer copies
  Size,         \* of each content
  Releases,     \* the folders the publisher may release
  Follows,      \* pairs: which release may follow which
  First,        \* the release everything starts with
  Client,       \* does the client run?
  NoPath,       \* no path
  Cut,          \* what a file holds that was extracted in part
  MaxNo,        \* bound: the number of the last patch
  MaxFaults     \* bound: how often a tool or the file system fails unasked

Folders == UNION {[P -> Contents] : P \in SUBSET Paths}

ASSUME FilesAssumptions ==
  /\ Releases \subseteq Folders /\ First \in Releases
  /\ Follows \subseteq Releases \X Releases
  /\ Client \in BOOLEAN
  /\ NoPath \notin Paths /\ Cut \in Contents
  /\ MaxNo \in Nat /\ MaxFaults \in Nat

VARIABLES
  (* publisher *)
  latest,     \* the release the torrent has
  patches,    \* the patches directory
  (* client's disk *)
  folder,     \* the mod's directory
  delta, tmp, \* delta_patch, delta_patch_tmp
  torrent,    \* the release of the torrent the folder was checked against
  installed,  \* what the installer copied
  (* client's process *)
  stage,
  chain,      \* patches still to apply, the current one first
  todo,       \* entries of delta, or files to move, delete or install
  moving,     \* the path removed and not yet renamed to
  (* history *)
  skipped,    \* a release got no patch
  before,     \* the folder when the current patch was extracted
  pure,       \* the current patch met the release it was made from
  missed,     \* files a tool left out of the current patch
  kept,       \* files not of the torrent that were not deleted
  refused,    \* the installer could not copy a file
  faults      \* the failures nobody asked about

maker  == <<latest, patches, skipped>>
client == <<folder, delta, tmp, torrent, installed, stage, chain, todo, moving, before, pure,
            missed, kept, refused>>
vars   == <<maker, client, faults>>

\* A file of an archive: the new file, or its difference from the old one,
\* or a difference that xdelta refuses.
Entries ==
  [path : Paths, kind : {"copy", "diff", "broken"}, from : Contents, to : Contents]

\* A patch; its file name holds its number and the hash of old.  (History:
\* the files that it lacks.)
Patches ==
  [no : Nat, old : Releases, new : Releases, body : SUBSET Entries, lost : SUBSET Paths]

Stages == {"idle", "extract", "apply", "move", "extra", "install", "done"}

TypeOK ==
  /\ latest \in Releases /\ torrent \in Releases /\ patches \subseteq Patches
  /\ folder \in Folders /\ tmp \in Folders /\ before \in Folders /\ installed \in Folders
  /\ delta \subseteq Entries
  /\ stage \in Stages
  /\ chain \in Seq(Patches)
  /\ todo \subseteq Entries \cup Paths
  /\ moving \in Paths \cup {NoPath}
  /\ skipped \in BOOLEAN /\ pure \in BOOLEAN /\ refused \in BOOLEAN
  /\ missed \subseteq Paths /\ kept \subseteq Paths /\ faults \in 0..MaxFaults
  /\ stage \in {"extract", "apply", "move"} <=> chain # <<>>
  /\ moving # NoPath => stage = "move" /\ moving \in DOMAIN tmp

With(f, p, c)  == [q \in DOMAIN f \cup {p} |-> IF q = p THEN c ELSE f[q]]
Less(f, P)     == [q \in DOMAIN f \ P |-> f[q]]
Over(f, g)     == [q \in DOMAIN f \cup DOMAIN g |-> IF q \in DOMAIN g THEN g[q] ELSE f[q]]
Empty          == [q \in {} |-> First]

\* AHasher::hash: sizes and names, and what .bisign files hold.  (The order
\* of the directory iterator is the same everywhere.)
Hash(f) == {<<p, IF p \in Signed THEN f[p] ELSE Size[f[p]]>> : p \in DOMAIN f}

\* runCmd's, QFile's and QDir's results that are not looked at.
Unasked(ok) == IF ok THEN UNCHANGED faults ELSE faults < MaxFaults /\ faults' = faults + 1

-----------------------------------------------------------------------------
(* Publisher. *)

\* DeltaPatcher::latestVersion (of the first mod the process asks for).
LatestVersion(ps) ==
  IF ps = {} THEN -1
  ELSE CHOOSE n \in {p.no : p \in ps} : \A p \in ps : p.no <= n

\* Mutant: files of one size are taken for the same.
ChangedSize(old, new) ==
  {p \in DOMAIN old \cap DOMAIN new : Size[old[p]] # Size[new[p]]}

\* FileUtils::filesIdentical decides.
Changed(old, new) == {p \in DOMAIN old \cap DOMAIN new : old[p] # new[p]}

Added(old, new) == DOMAIN new \ DOMAIN old

\* delta() copies a file before it makes the file's directory: the first new
\* file of a directory is lost, unless a difference has made it before.
Losses(old, new) ==
  {L \in SUBSET Added(old, new) :
     \A d \in {DirOf[p] : p \in Added(old, new)} :
       LET lost == {p \in L : DirOf[p] = d}
       IN IF d = Root THEN lost = {}
          ELSE /\ Cardinality(lost) <= 1
               /\ lost = {} => \E p \in Changed(old, new) : DirOf[p] = d}

Body(old, new, lost, broken) ==
  {[path |-> p, kind |-> IF p \in broken THEN "broken" ELSE "diff",
    from |-> old[p], to |-> new[p]] : p \in Changed(old, new) \ lost}
  \cup {[path |-> p, kind |-> "copy", from |-> new[p], to |-> new[p]] :
          p \in Added(old, new) \ lost}

\* Mutant: patches from the latest release stay.
RemovePatchesNone(ps, new) == ps

\* DeltaPatcher::removePatchesFromLatest
RemovePatchesFromLatest(ps, new) == {p \in ps : Hash(p.old) # Hash(new)}

\* DeltaPatcher::delta, for each release, from the one before; then the
\* release's torrent is published.  xdelta may fail at a file (with or without
\* an output), a file may not be copied or not packed, and 7za may make no
\* archive: nobody asks.
Delta(new) ==
  /\ <<latest, new>> \in Follows
  /\ LatestVersion(patches) < MaxNo
  /\ \/ /\ \/ \E p \in patches : Hash(p.old) = Hash(latest)
           \/ Changed(latest, new) = {}
        /\ skipped' = TRUE
        /\ UNCHANGED <<patches, faults>>
     \/ /\ \A p \in patches : Hash(p.old) # Hash(latest)
        /\ Changed(latest, new) # {}
        /\ \E early \in Losses(latest, new), broken \in SUBSET Changed(latest, new),
              failed \in SUBSET (Changed(latest, new) \cup Added(latest, new)) :
             LET lost == early \cup failed
                 made == [no |-> LatestVersion(patches) + 1, old |-> latest, new |-> new,
                          body |-> Body(latest, new, lost, broken), lost |-> lost]
             IN \E packed \in SUBSET {made} :
                  /\ patches' = RemovePatchesFromLatest(patches \cup packed, new)
                  /\ skipped' = (skipped \/ made \notin patches')
                  /\ Unasked(failed = {} /\ broken = {} /\ packed # {})
  /\ latest' = new
  /\ UNCHANGED client

-----------------------------------------------------------------------------
(* Client: the patcher. *)

\* A file name with number n (below 1000) is found by the expression made for
\* version v, whose digits may go on.
Matches(n, v) == n = v \/ (v # 0 /\ \E tail \in {10, 100} : n \div tail = v)

\* DeltaPatcher::filterPatches: the patch made for what the folder is, then
\* one for each version; none if there is more than one or none for one.
FilterPatches(f, ps) ==
  LET first == {p \in ps : Hash(p.old) = Hash(f)}
      last == LatestVersion(ps)
      Of(v) == {p \in ps : Matches(p.no, v)}
      start == (CHOOSE p \in first : TRUE).no
      One(S) == CHOOSE p \in S : TRUE
  IN IF first = {} \/ \E v \in start + 1..last : Cardinality(Of(v)) # 1 THEN <<>>
     ELSE [i \in 1..last - start + 1 |->
             IF i = 1 THEN One(first) ELSE One(Of(start + i - 1))]

\* DeltaPatcher::patchDirSync
PatchDirSync ==
  /\ Client /\ stage \in {"idle", "done"}
  /\ chain' = FilterPatches(folder, patches)
  /\ chain' # <<>>
  /\ stage' = "extract"
  /\ UNCHANGED <<maker, folder, delta, tmp, torrent, installed, todo, moving, before, pure, missed,
                 kept, refused, faults>>

\* Files that cannot be deleted stay in delta_patch, too.  (Those in
\* delta_patch_tmp are deleted before the next use, or there is none.)
CleanUp == delta' \in SUBSET delta /\ tmp' = Empty /\ Unasked(delta' = {})

\* Mutant: the list of patches is not asked for its end.
NextPatchStays ==
  /\ chain' = Tail(chain)
  /\ stage' = "extract"
  /\ todo' = {} /\ moving' = NoPath /\ missed' = {} /\ pure' = FALSE

\* applyPatches: on to the next patch, whether the last one failed or not,
\* for the assertion is not in a release build.
NextPatch ==
  /\ chain' = Tail(chain)
  /\ stage' = IF chain' = <<>> THEN "idle" ELSE "extract"
  /\ todo' = {} /\ moving' = NoPath /\ missed' = {} /\ pure' = FALSE

\* A file that 7za has written in part.
Damaged(e) == IF e.kind = "copy" THEN [e EXCEPT !.to = Cut] ELSE [e EXCEPT !.kind = "broken"]

\* What 7za may leave of an archive.
Extracted(body) ==
  {(body \ (none \cup part)) \cup {Damaged(e) : e \in part} : none, part \in SUBSET body}

\* What the files extracted do not replace.
Kept(got) ==
  {e \in delta : \A b \in got : b.path # e.path \/ (b.kind = "copy") # (e.kind = "copy")}

\* DeltaPatcher::extract; what a killed process or an earlier patch left in
\* delta_patch stays.  7za's exit code is not looked at.
Extract ==
  /\ stage = "extract"
  /\ LET patch == Head(chain)
     IN /\ \E got \in Extracted(patch.body) :
             /\ delta' = Kept(got) \cup got
             /\ missed' = patch.lost \cup {e.path : e \in patch.body \ got}
             /\ Unasked(got = patch.body)
        /\ pure' = (delta = {} /\ Over(folder, patch.old) = folder)
  /\ delta' # {}
  /\ stage' = "apply" /\ todo' = delta' /\ tmp' = Empty /\ before' = folder
  /\ UNCHANGED <<maker, folder, torrent, installed, chain, moving, kept, refused>>

\* There is nothing to patch.
ExtractFails ==
  /\ stage = "extract" /\ delta = {}
  /\ Unasked(Head(chain).body = {})
  /\ NextPatch
  /\ UNCHANGED <<maker, folder, delta, tmp, torrent, installed, before, kept, refused>>

\* Mutant: xdelta writes over the mod's file.
OutputInPlace(p, c) == folder' = With(folder, p, c) /\ UNCHANGED tmp

\* Whole files are made in delta_patch_tmp.
Output(p, c) == tmp' = With(tmp, p, c) /\ UNCHANGED folder

\* patchExtracted's loop.
Rename(e) ==
  /\ stage = "apply" /\ e \in todo /\ e.kind = "copy"
  /\ e.path \notin DOMAIN tmp
  /\ tmp' = With(tmp, e.path, e.to)
  /\ delta' = delta \ {e}
  /\ todo' = todo \ {e}
  /\ UNCHANGED <<maker, folder, torrent, installed, stage, chain, moving, before, pure, missed,
                 kept, refused, faults>>

\* Renaming to a file that is there always fails.
RenameFails(e) ==
  /\ stage = "apply" /\ e \in todo /\ e.kind = "copy"
  /\ Unasked(e.path \in DOMAIN tmp)
  /\ todo' = todo \ {e}
  /\ missed' = missed \cup {e.path}
  /\ UNCHANGED <<maker, folder, delta, tmp, torrent, installed, stage, chain, moving, before,
                 pure, kept, refused>>

\* xdelta wants the file the difference was made from, and no output there.
Xdelta(e) ==
  /\ stage = "apply" /\ e \in todo /\ e.kind = "diff"
  /\ e.path \in DOMAIN folder /\ folder[e.path] = e.from
  /\ e.path \notin DOMAIN tmp
  /\ Output(e.path, e.to)
  /\ todo' = todo \ {e}
  /\ UNCHANGED <<maker, delta, torrent, installed, stage, chain, moving, before, pure, missed,
                 kept, refused, faults>>

\* Also when the temporary directory cannot be made.
XdeltaFails ==
  /\ stage = "apply" /\ (tmp = Empty \/ \E e \in todo : e.kind # "copy")
  /\ CleanUp /\ NextPatch
  /\ UNCHANGED <<maker, folder, torrent, installed, before, kept, refused>>

Applied ==
  /\ stage = "apply" /\ todo = {}
  /\ stage' = "move" /\ todo' = DOMAIN tmp
  /\ UNCHANGED <<maker, folder, delta, tmp, torrent, installed, chain, moving, before, pure, missed,
                 kept, refused, faults>>

\* FileUtils::move of delta_patch_tmp: the file is removed, ...
RemoveTarget(p) ==
  /\ stage = "move" /\ moving = NoPath /\ p \in todo
  /\ folder' = Less(folder, {p})
  /\ moving' = p /\ todo' = todo \ {p}
  /\ UNCHANGED <<maker, delta, tmp, torrent, installed, stage, chain, before, pure, missed,
                 kept, refused, faults>>

\* ... and the new one renamed.
MoveFile ==
  /\ stage = "move" /\ moving # NoPath
  /\ folder' = With(folder, moving, tmp[moving])
  /\ tmp' = Less(tmp, {moving})
  /\ moving' = NoPath
  /\ UNCHANGED <<maker, delta, torrent, installed, stage, chain, todo, before, pure, missed,
                 kept, refused, faults>>

\* A file that cannot be removed or renamed ends the move; nobody asks.
MoveFails ==
  /\ stage = "move" /\ (moving # NoPath \/ todo # {})
  /\ CleanUp /\ NextPatch
  /\ UNCHANGED <<maker, folder, torrent, installed, before, kept, refused>>

MoveEnds ==
  /\ stage = "move" /\ moving = NoPath /\ todo = {}
  /\ CleanUp /\ NextPatch
  /\ UNCHANGED <<maker, folder, torrent, installed, before, kept, refused>>

-----------------------------------------------------------------------------
(* Client: libtorrent, and Mod::processCompletion. *)

\* Mutant: the torrent's files are the extra ones.
ExtraRemote == IF torrent = Empty THEN {} ELSE DOMAIN folder \cap DOMAIN torrent

\* Mod::deleteExtraFiles: a torrent without files deletes nothing.
Extra == IF torrent = Empty THEN {} ELSE DOMAIN folder \ DOMAIN torrent

\* libtorrent has checked the folder and has downloaded what differs; it
\* touches no other file.  truncateOvergrownFiles cuts what is too long.
Download ==
  /\ Client /\ stage \in {"idle", "done"}
  /\ folder' = Over(folder, latest) /\ torrent' = latest
  /\ stage' = "extra" /\ todo' = Extra' /\ kept' = {}
  /\ UNCHANGED <<maker, delta, tmp, installed, chain, moving, before, pure, missed, refused, faults>>

DeleteExtraFile(p) ==
  /\ stage = "extra" /\ p \in todo
  /\ folder' = Less(folder, {p})
  /\ todo' = todo \ {p}
  /\ UNCHANGED <<maker, delta, tmp, torrent, installed, stage, chain, moving, before, pure,
                 missed, kept, refused, faults>>

\* FileUtils::rmCi fails, or the mod is no longer ticked; the rest goes on.
KeepExtraFile(p) ==
  /\ stage = "extra" /\ p \in todo
  /\ todo' = todo \ {p} /\ kept' = kept \cup {p}
  /\ UNCHANGED <<maker, folder, delta, tmp, torrent, installed, stage, chain, moving, before,
                 pure, missed, refused, faults>>

\* Installer::install, and FileUtils::copy, which removes the old file.
Install ==
  /\ stage = "extra" /\ todo = {}
  /\ stage' = "install" /\ todo' = DOMAIN folder \cap Installed
  /\ refused' = FALSE
  /\ UNCHANGED <<maker, folder, delta, tmp, torrent, installed, chain, moving, before, pure,
                 missed, kept, faults>>

CopyFile(p) ==
  /\ stage = "install" /\ p \in todo
  /\ installed' = With(installed, p, folder[p])
  /\ todo' = todo \ {p}
  /\ UNCHANGED <<maker, torrent, folder, delta, tmp, stage, chain, moving, before, pure, missed,
                 kept, refused, faults>>

\* The first file that cannot be written ends the copying; it may be gone.
CopyFails(p) ==
  /\ stage = "install" /\ p \in todo
  /\ installed' \in {installed, Less(installed, {p})}
  /\ todo' = {} /\ refused' = TRUE
  /\ UNCHANGED <<maker, torrent, folder, delta, tmp, stage, chain, moving, before, pure, missed,
                 kept, faults>>

Completed ==
  /\ stage = "install" /\ todo = {}
  /\ stage' = "done"
  /\ UNCHANGED <<maker, folder, delta, tmp, torrent, installed, chain, todo, moving, before, pure, missed,
                 kept, refused, faults>>

\* The process ends, and is started again.
Kill ==
  /\ stage \notin {"idle", "done"}
  /\ stage' = "idle" /\ chain' = <<>> /\ todo' = {} /\ moving' = NoPath
  /\ missed' = {} /\ pure' = FALSE
  /\ UNCHANGED <<maker, folder, delta, tmp, torrent, installed, before, kept, refused, faults>>

-----------------------------------------------------------------------------
Init ==
  /\ latest = First /\ patches = {} /\ skipped = FALSE
  /\ folder = First
  /\ delta = {} /\ tmp = Empty /\ torrent = First /\ installed = Empty
  /\ stage = "idle" /\ chain = <<>> /\ todo = {} /\ moving = NoPath
  /\ before = First /\ pure = FALSE /\ refused = FALSE
  /\ missed = {} /\ kept = {} /\ faults = 0

Patcher ==
  \/ PatchDirSync \/ Extract \/ ExtractFails \/ XdeltaFails \/ Applied
  \/ MoveFile \/ MoveFails \/ MoveEnds
  \/ \E e \in delta : Rename(e) \/ RenameFails(e) \/ Xdelta(e)
  \/ \E p \in Paths : RemoveTarget(p)

Completion ==
  \/ Download \/ Install \/ Completed
  \/ \E p \in Paths : DeleteExtraFile(p) \/ KeepExtraFile(p) \/ CopyFile(p) \/ CopyFails(p)

Next ==
  \/ \E new \in Releases : Delta(new)
  \/ Patcher \/ Completion \/ Kill

Spec == Init /\ [][Next]_vars

-----------------------------------------------------------------------------
(* Properties *)

\* A patch that cannot be applied to all its files changes none of the
\* mod's, and while one is moved in no file is missing but the one being
\* replaced: a kill costs at most one file (deltapatcher.cpp:254, 258).
ModIntact ==
  /\ stage = "apply" => folder = before
  /\ stage = "move" => DOMAIN before \ DOMAIN folder \subseteq {moving}

Unambiguous(r) == \A q \in Releases : Hash(q) = Hash(r) => q = r

Fits(c, r) ==
  /\ Head(c).old = r
  /\ \A i \in 1..Len(c) - 1 : c[i].new = c[i + 1].old
  /\ c[Len(c)].new = latest

\* Each number up to the last has its patch, or none has two digits.
Numbered(no) ==
  LatestVersion(patches) < 10
    \/ \A v \in no..LatestVersion(patches) : \E p \in patches : p.no = v

\* As long as each release got its patch, the patches found for a folder
\* lead from what it is to the latest release, each from where the one
\* before leads, and there are none for the latest itself
\* (deltapatcher.cpp:357) - also when the publisher goes back to an old one.
\* (Not so once the number of a patch that was removed begins a later one's:
\* then the later is taken for it, deltapatcher.cpp:129.)
ChainsFit ==
  ~skipped => \A r \in {q \in Releases : Unambiguous(q)} :
    LET c == FilterPatches(r, patches)
    IN c # <<>> /\ Numbered(Head(c).no) => r # latest /\ Fits(c, r)

\* A patch applied to the release it was made from, without a failure that
\* the code looks at, makes the new one's files, but for those that a failure
\* it does not look at has cost: delta()'s lost files (deltapatcher.cpp:327,
\* 341, 354), those not extracted (388) and those not renamed (240).  (Not so
\* when files of an earlier patch were in delta_patch.)
PatchMakesNew ==
  stage = "move" /\ todo = {} /\ moving = NoPath /\ pure =>
    LET patch == Head(chain)
    IN \A p \in DOMAIN patch.new \ missed :
         p \in DOMAIN folder /\ folder[p] = patch.new[p]

\* After the completion the folder has the torrent's files, whatever patches
\* and failures came before, and no other but those it was refused to delete
\* (mod.cpp:248 does not ask; 223 deletes none for a mod no longer ticked),
\* unless the torrent has none; and those to install are installed if none
\* was refused.
CompletedExact ==
  stage = "done" /\ torrent # Empty =>
    /\ Over(folder, torrent) = folder
    /\ DOMAIN folder \ DOMAIN torrent \subseteq kept
    /\ ~refused =>
         \A p \in DOMAIN folder \cap Installed :
           p \in DOMAIN installed /\ installed[p] = folder[p]

\* "Patches dir to latest version." (deltapatcher.h:27): a client for which
\* there is a patch, and one from each later release, is patched.
ChainFound ==
  ~skipped => \A p \in patches :
    FilterPatches(p.old, patches) # <<>>
      \/ \E v \in p.no..LatestVersion(patches) : \A q \in patches : q.no # v
=============================================================================
