-------------------------- MODULE PatchFilesProofs --------------------------
(* The files of a mod, for any paths, contents, releases and patches. *)
EXTENDS PatchFiles, FiniteSetTheorems, WellFoundedInduction, TLAPS

-----------------------------------------------------------------------------
(* Folders *)

LEMMA FolderIs ==
  ASSUME NEW f
  PROVE  f \in Folders <=> DOMAIN f \subseteq Paths /\ f \in [DOMAIN f -> Contents]
BY DEF Folders

LEMMA FolderOps ==
  ASSUME NEW f \in Folders
  PROVE  /\ \A p \in Paths, c \in Contents :
              /\ With(f, p, c) \in Folders
              /\ DOMAIN With(f, p, c) = DOMAIN f \cup {p}
              /\ \A q \in DOMAIN f \cup {p} :
                   With(f, p, c)[q] = IF q = p THEN c ELSE f[q]
         /\ \A P : /\ Less(f, P) \in Folders
                   /\ DOMAIN Less(f, P) = DOMAIN f \ P
                   /\ \A q \in DOMAIN f \ P : Less(f, P)[q] = f[q]
<1>1. DOMAIN f \subseteq Paths /\ f \in [DOMAIN f -> Contents]
  BY FolderIs
<1>2. ASSUME NEW p \in Paths, NEW c \in Contents
      PROVE  /\ With(f, p, c) \in Folders
             /\ DOMAIN With(f, p, c) = DOMAIN f \cup {p}
             /\ \A q \in DOMAIN f \cup {p} :
                  With(f, p, c)[q] = IF q = p THEN c ELSE f[q]
  <2>1. /\ DOMAIN With(f, p, c) \subseteq Paths
        /\ With(f, p, c) \in [DOMAIN With(f, p, c) -> Contents]
    BY <1>1 DEF With
  <2> QED
    BY <2>1, FolderIs DEF With
<1>3. ASSUME NEW P
      PROVE  /\ Less(f, P) \in Folders
             /\ DOMAIN Less(f, P) = DOMAIN f \ P
             /\ \A q \in DOMAIN f \ P : Less(f, P)[q] = f[q]
  <2>1. /\ DOMAIN Less(f, P) \subseteq Paths
        /\ Less(f, P) \in [DOMAIN Less(f, P) -> Contents]
    BY <1>1 DEF Less
  <2> QED
    BY <2>1, FolderIs DEF Less
<1> QED
  BY <1>2, <1>3

LEMMA OverIs ==
  ASSUME NEW f \in Folders, NEW g \in Folders
  PROVE  /\ Over(f, g) \in Folders
         /\ DOMAIN Over(f, g) = DOMAIN f \cup DOMAIN g
         /\ \A q \in DOMAIN g : Over(f, g)[q] = g[q]
         /\ \A q \in DOMAIN f \ DOMAIN g : Over(f, g)[q] = f[q]
<1>1. /\ DOMAIN f \subseteq Paths /\ f \in [DOMAIN f -> Contents]
      /\ DOMAIN g \subseteq Paths /\ g \in [DOMAIN g -> Contents]
  BY FolderIs
<1>2. /\ DOMAIN Over(f, g) \subseteq Paths
      /\ Over(f, g) \in [DOMAIN Over(f, g) -> Contents]
  BY <1>1 DEF Over
<1> QED
  BY <1>2, FolderIs DEF Over

LEMMA EmptyIs == Empty \in Folders /\ DOMAIN Empty = {}
BY FolderIs DEF Empty

\* Two folders with the same files are one.
LEMMA SameFolder ==
  ASSUME NEW f \in Folders, NEW g \in Folders, DOMAIN f = DOMAIN g,
         \A p \in DOMAIN g : f[p] = g[p]
  PROVE  f = g
BY FolderIs

-----------------------------------------------------------------------------
(* Patches *)

\* What delta() may have made of a pair of releases.
MadeOf(patch) ==
  \E broken : patch.body = Body(patch.old, patch.new, patch.lost, broken)

LEMMA BodyIs ==
  ASSUME NEW old \in Folders, NEW new \in Folders, NEW lost, NEW broken
  PROVE  Body(old, new, lost, broken) \subseteq Entries
<1>1. /\ DOMAIN old \subseteq Paths /\ old \in [DOMAIN old -> Contents]
      /\ DOMAIN new \subseteq Paths /\ new \in [DOMAIN new -> Contents]
  BY FolderIs
<1> QED
  BY <1>1 DEF Body, Entries, Changed, Added

\* latestVersion finds the largest number, of patches numbered up to MaxNo.
LEMMA LatestIs ==
  ASSUME NEW ps, ps # {}, \A p \in ps : p.no \in 0..MaxNo
  PROVE  /\ LatestVersion(ps) \in {p.no : p \in ps}
         /\ \A p \in ps : p.no <= LatestVersion(ps)
<1>0. MaxNo \in Nat /\ \A p \in ps : p.no \in Nat /\ p.no <= MaxNo
  BY FilesAssumptions
<1> DEFINE gaps == {MaxNo - p.no : p \in ps}
             less == {ss \in Nat \X Nat : ss[1] < ss[2]}
<1>1. gaps \subseteq Nat /\ gaps # {}
  BY <1>0
<1>2. IsWellFoundedOn(less, Nat)
  BY NatLessThanWellFounded DEF OpToRel
<1>3. PICK x \in gaps : \A y \in gaps : ~ (<<y, x>> \in less)
  BY <1>1, <1>2, WFMin
<1>4. \A y \in gaps : x <= y
  <2> SUFFICES ASSUME NEW y \in gaps PROVE x <= y
    OBVIOUS
  <2>1. <<y, x>> \notin less
    BY <1>3
  <2>2. x \in Nat /\ y \in Nat
    BY <1>1, <1>3
  <2> HIDE DEF gaps
  <2> QED
    BY <2>1, <2>2
<1>5. PICK m \in ps : x = MaxNo - m.no
  BY <1>3
<1>6. \A p \in ps : p.no <= m.no
  <2> SUFFICES ASSUME NEW p \in ps PROVE p.no <= m.no
    OBVIOUS
  <2>1. x <= MaxNo - p.no
    BY <1>4
  <2> QED
    BY <2>1, <1>0, <1>5
<1> QED
  BY <1>6 DEF LatestVersion

LEMMA OneIsSome ==
  ASSUME NEW S, Cardinality(S) = 1
  PROVE  S # {}
<1>1. ASSUME S = {} PROVE FALSE
  <2>1. Cardinality(S) = 0
    BY <1>1, FS_EmptySet, Zenon
  <2> QED
    BY <2>1
<1> QED
  BY <1>1

\* filterPatches returns patches it was given.
LEMMA FilterIs ==
  ASSUME NEW ps, ps \subseteq Patches, \A p \in ps : p.no \in 0..MaxNo, NEW f
  PROVE  FilterPatches(f, ps) \in Seq(ps)
<1> DEFINE first == {p \in ps : Hash(p.old) = Hash(f)}
           last == LatestVersion(ps)
           Of(v) == {p \in ps : Matches(p.no, v)}
           start == (CHOOSE p \in first : TRUE).no
           One(S) == CHOOSE p \in S : TRUE
           chosen == [i \in 1..last - start + 1 |->
                        IF i = 1 THEN One(first) ELSE One(Of(start + i - 1))]
           none == first = {} \/ \E v \in start + 1..last : Cardinality(Of(v)) # 1
<1>1. FilterPatches(f, ps) = IF none THEN <<>> ELSE chosen
  BY Zenon DEF FilterPatches
<1>2. CASE none
  <2> HIDE DEF none, chosen
  <2>1. FilterPatches(f, ps) = <<>>
    BY <1>1, <1>2
  <2> QED
    BY <2>1
<1>3. CASE ~none
  <2>1. One(first) \in first
    BY <1>3
  <2>2. last \in Int /\ start \in Nat /\ start <= last
    BY <2>1, LatestIs, FilesAssumptions
  <2>3. ASSUME NEW i \in 1..last - start + 1, i # 1
        PROVE  One(Of(start + i - 1)) \in ps
    <3> DEFINE v == start + i - 1
    <3>1. v \in start + 1..last
      BY <2>2, <2>3
    <3>2. Cardinality(Of(v)) = 1
      BY <3>1, <1>3
    <3>3. Of(v) # {}
      <4> HIDE DEF Of, v
      <4> QED
        BY <3>2, OneIsSome
    <3> QED
      BY <3>3
  <2>4. chosen \in [1..last - start + 1 -> ps]
    BY <2>1, <2>3
  <2>5. last - start + 1 \in Nat
    BY <2>2
  <2> HIDE DEF chosen, last, start, first
  <2>6. chosen \in Seq(ps)
    BY <2>4, <2>5
  <2> QED
    BY <1>1, <1>3, <2>6
<1> QED
  BY <1>2, <1>3

-----------------------------------------------------------------------------
(* Types *)

\* What is beside TypeOK: patches are numbered up to MaxNo, and what is left
\* to move or to install is there.
Bounded ==
  /\ \A p \in patches : p.no \in 0..MaxNo
  /\ stage = "move" => todo \subseteq DOMAIN tmp \ {moving}
  /\ stage = "install" => todo \subseteq DOMAIN folder

LEMMA UnaskedTypes ==
  ASSUME faults \in 0..MaxFaults, NEW ok, Unasked(ok)
  PROVE  faults' \in 0..MaxFaults
BY FilesAssumptions DEF Unasked

LEMMA TypeInit == Init => TypeOK /\ Bounded
<1>1. First \in Releases /\ First \in Folders
  BY FilesAssumptions
<1> SUFFICES ASSUME Init PROVE TypeOK /\ Bounded
  OBVIOUS
<1>2. /\ latest \in Releases /\ torrent \in Releases /\ folder \in Folders
      /\ before \in Folders /\ tmp \in Folders /\ installed \in Folders
  BY <1>1, EmptyIs DEF Init
<1>3. /\ patches = {} /\ delta = {} /\ stage = "idle" /\ chain = <<>> /\ todo = {}
      /\ moving = NoPath /\ skipped = FALSE /\ pure = FALSE /\ refused = FALSE
      /\ missed = {} /\ kept = {} /\ faults \in 0..MaxFaults
  BY FilesAssumptions DEF Init
<1>4. chain \in Seq(Patches)
  BY <1>3
<1> QED
  BY <1>2, <1>3, <1>4 DEF TypeOK, Bounded, Stages

\* The patch that delta() makes.
Made(new, lost, broken) ==
  [no |-> LatestVersion(patches) + 1, old |-> latest, new |-> new,
   body |-> Body(latest, new, lost, broken), lost |-> lost]

\* The publisher's step: a release without a patch, or one that a tool may have spoilt.
LEMMA DeltaIs ==
  ASSUME NEW new \in Releases, Delta(new)
  PROVE  /\ latest' = new /\ UNCHANGED client /\ LatestVersion(patches) < MaxNo
         /\ \/ UNCHANGED patches /\ skipped' = TRUE
            \/ \E early \in Losses(latest, new), broken \in SUBSET Changed(latest, new),
                  failed \in SUBSET (Changed(latest, new) \cup Added(latest, new)) :
                 LET made == Made(new, early \cup failed, broken)
                 IN \E packed \in SUBSET {made} :
                      /\ patches' = RemovePatchesFromLatest(patches \cup packed, new)
                      /\ skipped' = (skipped \/ made \notin patches')
BY Zenon DEF Delta, Made

LEMMA DeltaTypes ==
  ASSUME TypeOK, Bounded, NEW new \in Releases, Delta(new)
  PROVE  TypeOK' /\ Bounded'
<1>1. patches' \subseteq Patches /\ \A p \in patches' : p.no \in 0..MaxNo
  <2>1. CASE patches' = patches
    BY <2>1 DEF TypeOK, Bounded
  <2>2. ASSUME NEW early \in Losses(latest, new), NEW broken \in SUBSET Changed(latest, new),
               NEW failed \in SUBSET (Changed(latest, new) \cup Added(latest, new)),
               NEW packed, packed \subseteq {Made(new, early \cup failed, broken)},
               patches' = RemovePatchesFromLatest(patches \cup packed, new)
        PROVE  patches' \subseteq Patches /\ \A p \in patches' : p.no \in 0..MaxNo
    <3> DEFINE lost == early \cup failed
               made == Made(new, lost, broken)
    <3>1. LatestVersion(patches) + 1 \in 0..MaxNo
      <4>1. LatestVersion(patches) < MaxNo
        BY DEF Delta
      <4>2. CASE patches = {}
        BY <4>1, <4>2, FilesAssumptions DEF LatestVersion
      <4>3. CASE patches # {}
        BY <4>1, <4>3, LatestIs, FilesAssumptions DEF Bounded
      <4> QED
        BY <4>2, <4>3
    <3>2. Body(latest, new, lost, broken) \subseteq Entries /\ lost \subseteq Paths
      <4>1. latest \in Folders /\ new \in Folders
        BY FilesAssumptions DEF TypeOK
      <4>2. DOMAIN latest \subseteq Paths /\ DOMAIN new \subseteq Paths
        BY <4>1, FolderIs
      <4> QED
        BY <4>1, <4>2, BodyIs DEF Losses, Changed, Added
    <3>3. made \in Patches /\ made.no \in 0..MaxNo
      <4> DEFINE no == LatestVersion(patches) + 1
                 body == Body(latest, new, lost, broken)
      <4>1. no \in Nat /\ latest \in Releases
        BY <3>1, FilesAssumptions DEF TypeOK
      <4>2. made = [no |-> no, old |-> latest, new |-> new, body |-> body, lost |-> lost]
        BY DEF Made
      <4> HIDE DEF no, body, made, lost
      <4>3. body \in SUBSET Entries /\ lost \in SUBSET Paths
        BY <3>2 DEF body
      <4>4. made \in Patches /\ made.no = no
        BY <4>1, <4>2, <4>3 DEF Patches
      <4> QED
        BY <3>1, <4>4 DEF no
    <3>4. patches' \subseteq patches \cup {made}
      BY <2>2 DEF RemovePatchesFromLatest
    <3> QED
      BY <3>3, <3>4 DEF TypeOK, Bounded
  <2> QED
    BY <2>1, <2>2, DeltaIs
<1>2. latest' \in Releases /\ skipped' \in BOOLEAN /\ UNCHANGED client
  BY DeltaIs DEF TypeOK
<1>3. faults' \in 0..MaxFaults
  BY UnaskedTypes DEF Delta, TypeOK
<1> QED
  BY <1>1, <1>2, <1>3 DEF TypeOK, Bounded, client

LEMMA NextPatchTypes ==
  ASSUME chain \in Seq(Patches), chain # <<>>, NextPatch
  PROVE  /\ chain' \in Seq(Patches)
         /\ stage' \in {"idle", "extract"}
         /\ stage' = "extract" <=> chain' # <<>>
         /\ todo' = {} /\ moving' = NoPath /\ missed' = {} /\ pure' = FALSE
BY DEF NextPatch

LEMMA CleanUpTypes ==
  ASSUME faults \in 0..MaxFaults, CleanUp
  PROVE  delta' \subseteq delta /\ tmp' = Empty /\ faults' \in 0..MaxFaults
BY UnaskedTypes DEF CleanUp

LEMMA DamagedIs ==
  ASSUME NEW e \in Entries
  PROVE  Damaged(e) \in Entries /\ Damaged(e).path = e.path
BY FilesAssumptions DEF Damaged, Entries

\* What is extracted of an archive has the archive's paths, each as often.
LEMMA ExtractedIs ==
  ASSUME NEW body, body \subseteq Entries, NEW got \in Extracted(body)
  PROVE  /\ got \subseteq Entries
         /\ \A e \in got : \E b \in body : b.path = e.path
         /\ (\A e1, e2 \in body : e1.path = e2.path => e1 = e2)
              => \A e1, e2 \in got : e1.path = e2.path => e1 = e2
<1>1. PICK none \in SUBSET body, part \in SUBSET body :
        got = (body \ (none \cup part)) \cup {Damaged(e) : e \in part}
  BY DEF Extracted
<1>2. \A e \in part : Damaged(e) \in Entries /\ Damaged(e).path = e.path
  BY <1>1, DamagedIs
<1>3. \A e \in got : \/ e \in body /\ e \notin part
                   \/ \E b \in part : e = Damaged(b) /\ b.path = e.path
  BY <1>1, <1>2
<1>4. got \subseteq Entries
  BY <1>2, <1>3
<1>5. \A e \in got : \E b \in body : b.path = e.path
  BY <1>1, <1>3
<1>6. ASSUME \A e1, e2 \in body : e1.path = e2.path => e1 = e2,
             NEW e1 \in got, NEW e2 \in got, e1.path = e2.path
      PROVE  e1 = e2
  <2>1. CASE e1 \in body /\ e1 \notin part
    <3>1. \A b \in part : b.path # e2.path
      BY <1>1, <1>6, <2>1
    <3> QED
      BY <1>3, <1>6, <2>1, <3>1
  <2>2. CASE \E b \in part : e1 = Damaged(b) /\ b.path = e1.path
    BY <1>1, <1>3, <1>6, <2>2
  <2> QED
    BY <1>3, <2>1, <2>2
<1> QED
  BY <1>4, <1>5, <1>6

\* The patcher's steps.
LEMMA PatcherTypes ==
  ASSUME TypeOK, Bounded, Patcher
  PROVE  TypeOK' /\ Bounded'
<1> USE DEF TypeOK, Bounded, Stages, maker
<1>1. CASE PatchDirSync
  <2>1. chain' \in Seq(patches)
    BY <1>1, FilterIs DEF PatchDirSync
  <2>2. chain' \in Seq(Patches)
    BY <2>1
  <2> QED
    BY <1>1, <2>2 DEF PatchDirSync
<1>2. CASE Extract
  <2>1. Head(chain) \in Patches
    BY <1>2 DEF Extract
  <2>2. PICK got \in Extracted(Head(chain).body) :
          /\ delta' = Kept(got) \cup got
          /\ missed' = Head(chain).lost \cup {e.path : e \in Head(chain).body \ got}
          /\ Unasked(got = Head(chain).body)
    BY <1>2 DEF Extract
  <2>3. Head(chain).body \subseteq Entries /\ Head(chain).lost \subseteq Paths
    BY <2>1 DEF Patches
  <2>4. delta' \subseteq Entries
    BY <2>2, <2>3, ExtractedIs DEF Kept
  <2>5. missed' \subseteq Paths
    BY <2>2, <2>3 DEF Entries
  <2>6. faults' \in 0..MaxFaults
    BY <2>2, UnaskedTypes
  <2>7. pure' \in BOOLEAN
    BY <1>2 DEF Extract
  <2> QED
    BY <1>2, <2>4, <2>5, <2>6, <2>7, EmptyIs DEF Extract
<1>3. CASE ExtractFails
  BY <1>3, NextPatchTypes, UnaskedTypes DEF ExtractFails
<1>4. CASE XdeltaFails
  BY <1>4, NextPatchTypes, CleanUpTypes, EmptyIs DEF XdeltaFails
<1>5. CASE MoveFails
  BY <1>5, NextPatchTypes, CleanUpTypes, EmptyIs DEF MoveFails
<1>6. CASE MoveEnds
  BY <1>6, NextPatchTypes, CleanUpTypes, EmptyIs DEF MoveEnds
<1>7. CASE Applied
  <2>1. DOMAIN tmp \subseteq Paths
    BY FolderIs
  <2> QED
    BY <1>7, <2>1, FilesAssumptions DEF Applied
<1>8. CASE MoveFile
  <2>1. moving \in DOMAIN tmp /\ moving \in Paths /\ tmp[moving] \in Contents
    BY <1>8, FolderIs DEF MoveFile
  <2>2. /\ folder' \in Folders /\ tmp' \in Folders
        /\ DOMAIN tmp' = DOMAIN tmp \ {moving}
    BY <1>8, <2>1, FolderOps DEF MoveFile
  <2>3. /\ stage = "move" /\ moving' = NoPath
        /\ UNCHANGED <<maker, delta, torrent, installed, stage, chain, todo, before,
                       pure, missed, kept, refused, faults>>
    BY <1>8 DEF MoveFile
  <2>4. todo \subseteq DOMAIN tmp' \ {NoPath}
    BY <2>1, <2>2, <2>3, FolderIs, FilesAssumptions
  <2> QED
    BY <2>2, <2>3, <2>4
<1>9. ASSUME NEW e \in delta, Rename(e) \/ Xdelta(e)
      PROVE  TypeOK' /\ Bounded'
  <2>1. e.path \in Paths /\ e.to \in Contents
    BY DEF Entries
  <2>2. tmp' \in Folders
    <3>1. With(tmp, e.path, e.to) \in Folders
      BY <2>1, FolderOps
    <3>2. tmp' = tmp \/ tmp' = With(tmp, e.path, e.to)
      BY <1>9 DEF Rename, Xdelta, Output
    <3> QED
      BY <3>1, <3>2
  <2>3. delta' \subseteq delta /\ todo' \subseteq todo /\ stage = "apply"
    BY <1>9 DEF Rename, Xdelta, Output
  <2>4. UNCHANGED <<maker, folder, torrent, installed, stage, chain, moving,
                    before, pure, missed, kept, refused, faults>>
    BY <1>9 DEF Rename, Xdelta, Output
  <2> QED
    BY <2>2, <2>3, <2>4
<1>10. ASSUME NEW p \in Paths, RemoveTarget(p)
       PROVE  TypeOK' /\ Bounded'
  <2>1. folder' \in Folders
    BY <1>10, FolderOps DEF RemoveTarget
  <2> QED
    BY <1>10, <2>1 DEF RemoveTarget
<1>11. ASSUME NEW e \in delta, RenameFails(e)
       PROVE  TypeOK' /\ Bounded'
  <2>1. e.path \in Paths
    BY DEF Entries
  <2> QED
    BY <1>11, <2>1, UnaskedTypes DEF RenameFails
<1> QED
  BY <1>1, <1>2, <1>3, <1>4, <1>5, <1>6, <1>7, <1>8, <1>9, <1>10, <1>11 DEF Patcher

\* libtorrent's, Mod's and the installer's steps.
LEMMA CompletionTypes ==
  ASSUME TypeOK, Bounded, Completion
  PROVE  TypeOK' /\ Bounded'
<1> USE DEF TypeOK, Bounded, Stages, maker
<1>1. CASE Download
  <2>1. latest \in Folders
    BY FilesAssumptions
  <2>2. folder' \in Folders
    BY <1>1, <2>1, OverIs DEF Download
  <2>3. Extra' \subseteq Paths
    BY <2>2, FolderIs DEF Extra
  <2> QED
    BY <1>1, <2>2, <2>3 DEF Download
<1>2. CASE Install
  BY <1>2, FolderIs DEF Install
<1>3. CASE Completed
  BY <1>3 DEF Completed
<1>4. ASSUME NEW p \in Paths, DeleteExtraFile(p)
      PROVE  TypeOK' /\ Bounded'
  BY <1>4, FolderOps DEF DeleteExtraFile
<1>5. ASSUME NEW p \in Paths, CopyFile(p)
      PROVE  TypeOK' /\ Bounded'
  <2>1. folder[p] \in Contents
    BY <1>5, FolderIs DEF CopyFile
  <2>2. installed' \in Folders
    BY <1>5, <2>1, FolderOps DEF CopyFile
  <2> QED
    BY <1>5, <2>2 DEF CopyFile
<1>6. ASSUME NEW p \in Paths, CopyFails(p)
      PROVE  TypeOK' /\ Bounded'
  <2>1. Less(installed, {p}) \in Folders
    BY FolderOps
  <2>2. installed' \in Folders
    BY <1>6, <2>1 DEF CopyFails
  <2> QED
    BY <1>6, <2>2 DEF CopyFails
<1>7. ASSUME NEW p \in Paths, KeepExtraFile(p)
      PROVE  TypeOK' /\ Bounded'
  BY <1>7 DEF KeepExtraFile
<1> QED
  BY <1>1, <1>2, <1>3, <1>4, <1>5, <1>6, <1>7 DEF Completion

LEMMA TypeStep ==
  ASSUME TypeOK, Bounded, [Next]_vars
  PROVE  TypeOK' /\ Bounded'
<1>1. CASE UNCHANGED vars
  BY <1>1 DEF vars, maker, client, TypeOK, Bounded
<1>2. CASE Kill
  <2>1. chain' \in Seq(Patches) /\ chain' = <<>>
    BY <1>2 DEF Kill
  <2> QED
    BY <1>2, <2>1 DEF Kill, maker, TypeOK, Bounded, Stages
<1> QED
  BY <1>1, <1>2, DeltaTypes, PatcherTypes, CompletionTypes DEF Next

-----------------------------------------------------------------------------
(* What a patch leaves of the mod *)

LEMMA IntactStep ==
  ASSUME TypeOK, Bounded, ModIntact, [Next]_vars
  PROVE  ModIntact'
<1> USE DEF ModIntact
<1>1. CASE UNCHANGED vars
  BY <1>1 DEF vars, client
<1>2. ASSUME NEW new \in Releases, Delta(new) PROVE ModIntact'
  BY <1>2 DEF Delta, client
<1>3. CASE Patcher
  <2>1. CASE PatchDirSync \/ Extract
    BY <2>1 DEF PatchDirSync, Extract
  <2>2. CASE ExtractFails \/ XdeltaFails \/ MoveFails \/ MoveEnds
    BY <2>2 DEF ExtractFails, XdeltaFails, MoveFails, MoveEnds, NextPatch
  <2>3. CASE Applied
    BY <2>3 DEF Applied
  <2>4. CASE MoveFile
    <3>1. moving \in Paths /\ tmp[moving] \in Contents
      BY <2>4, FolderIs DEF MoveFile, TypeOK
    <3>2. DOMAIN folder' = DOMAIN folder \cup {moving}
      BY <2>4, <3>1, FolderOps DEF MoveFile, TypeOK
    <3> QED
      BY <2>4, <3>2 DEF MoveFile
  <2>5. ASSUME NEW e \in delta, Rename(e) \/ RenameFails(e) \/ Xdelta(e) PROVE ModIntact'
    BY <2>5 DEF Rename, RenameFails, Xdelta, Output
  <2>6. ASSUME NEW p \in Paths, RemoveTarget(p) PROVE ModIntact'
    <3>1. DOMAIN before \subseteq DOMAIN folder
      <4>1. DOMAIN before \subseteq Paths
        BY FolderIs DEF TypeOK
      <4> QED
        BY <2>6, <4>1, FilesAssumptions DEF RemoveTarget
    <3>2. DOMAIN folder' = DOMAIN folder \ {p}
      BY <2>6, FolderOps DEF RemoveTarget, TypeOK
    <3> QED
      BY <2>6, <3>1, <3>2 DEF RemoveTarget
  <2> QED
    BY <1>3, <2>1, <2>2, <2>3, <2>4, <2>5, <2>6 DEF Patcher
<1>4. CASE Completion
  <2>1. CASE Download \/ Install \/ Completed
    BY <2>1 DEF Download, Install, Completed
  <2>2. ASSUME NEW p \in Paths,
               DeleteExtraFile(p) \/ KeepExtraFile(p) \/ CopyFile(p) \/ CopyFails(p)
        PROVE  ModIntact'
    BY <2>2 DEF DeleteExtraFile, KeepExtraFile, CopyFile, CopyFails
  <2> QED
    BY <1>4, <2>1, <2>2 DEF Completion
<1>5. CASE Kill
  BY <1>5 DEF Kill
<1> QED
  BY <1>1, <1>2, <1>3, <1>4, <1>5 DEF Next

-----------------------------------------------------------------------------
(* What the completion leaves of the mod *)

\* From the download on the torrent's files are there; other files are yet to
\* be deleted or were kept; while files are installed, those not to do are.
Completing ==
  stage \in {"extra", "install", "done"} =>
    /\ \A p \in DOMAIN torrent : p \in DOMAIN folder /\ folder[p] = torrent[p]
    /\ stage = "extra" => todo \cap DOMAIN torrent = {}
    /\ torrent # Empty =>
         \A p \in DOMAIN folder \ DOMAIN torrent :
           p \in kept \/ (p \in todo /\ stage = "extra")
    /\ stage # "extra" /\ refused = FALSE =>
         \A p \in DOMAIN folder \cap Installed :
           \/ p \in todo /\ stage = "install"
           \/ p \in DOMAIN installed /\ installed[p] = folder[p]

LEMMA CompletingStep ==
  ASSUME TypeOK, Bounded, Completing, [Next]_vars
  PROVE  Completing'
<1> USE DEF Completing
<1>1. CASE UNCHANGED vars
  BY <1>1 DEF vars, client
<1>2. ASSUME NEW new \in Releases, Delta(new) PROVE Completing'
  BY <1>2 DEF Delta, client
<1>3. CASE Patcher
  <2>1. stage' \in {"idle", "extract", "apply", "move"}
    BY <1>3 DEF Patcher, PatchDirSync, Extract, ExtractFails, XdeltaFails, Applied,
         MoveFile, MoveFails, MoveEnds, NextPatch, Rename, RenameFails, Xdelta,
         RemoveTarget
  <2> QED
    BY <2>1
<1>4. CASE Download
  <2>1. latest \in Folders /\ folder \in Folders
    BY FilesAssumptions DEF TypeOK
  <2>2. /\ DOMAIN folder' = DOMAIN folder \cup DOMAIN torrent'
        /\ \A p \in DOMAIN torrent' : folder'[p] = torrent'[p]
    BY <1>4, <2>1, OverIs DEF Download
  <2>3. /\ todo' \cap DOMAIN torrent' = {}
        /\ torrent' # Empty => todo' = DOMAIN folder' \ DOMAIN torrent'
    BY <1>4 DEF Download, Extra, Empty
  <2> QED
    BY <1>4, <2>2, <2>3 DEF Download
<1>5. CASE Install
  BY <1>5 DEF Install
<1>6. CASE Completed
  BY <1>6 DEF Completed
<1>7. ASSUME NEW p \in Paths, DeleteExtraFile(p) PROVE Completing'
  <2>1. p \notin DOMAIN torrent
    BY <1>7 DEF DeleteExtraFile
  <2>2. /\ DOMAIN Less(folder, {p}) = DOMAIN folder \ {p}
        /\ \A q \in DOMAIN folder \ {p} : Less(folder, {p})[q] = folder[q]
    <3>1. folder \in Folders
      BY DEF TypeOK
    <3> QED
      BY <3>1, FolderOps, Zenon
  <2>3. /\ folder' = Less(folder, {p}) /\ stage = "extra" /\ todo' = todo \ {p}
        /\ UNCHANGED <<torrent, kept, stage>>
    BY <1>7 DEF DeleteExtraFile
  <2> QED
    BY <2>1, <2>2, <2>3
<1>8. ASSUME NEW p \in Paths, CopyFile(p) PROVE Completing'
  <2>1. folder[p] \in Contents
    BY <1>8, FolderIs DEF CopyFile, TypeOK, Bounded
  <2>2. /\ DOMAIN installed' = DOMAIN installed \cup {p}
        /\ \A q \in DOMAIN installed \cup {p} :
             installed'[q] = IF q = p THEN folder[p] ELSE installed[q]
    <3>1. PICK c \in Contents : c = folder[p]
      BY <2>1
    <3>2. installed \in Folders /\ installed' = With(installed, p, c)
      BY <1>8, <3>1 DEF CopyFile, TypeOK
    <3>3. /\ DOMAIN With(installed, p, c) = DOMAIN installed \cup {p}
          /\ \A q \in DOMAIN installed \cup {p} :
               With(installed, p, c)[q] = IF q = p THEN c ELSE installed[q]
      BY DEF With
    <3> QED
      BY <3>1, <3>2, <3>3
  <2> QED
    BY <1>8, <2>2 DEF CopyFile
<1>9. ASSUME NEW p \in Paths, CopyFails(p) PROVE Completing'
  BY <1>9 DEF CopyFails
<1>10. CASE Kill
  BY <1>10 DEF Kill
<1>11. ASSUME NEW p \in Paths, KeepExtraFile(p) PROVE Completing'
  BY <1>11 DEF KeepExtraFile
<1> QED
  BY <1>1, <1>2, <1>3, <1>4, <1>5, <1>6, <1>7, <1>8, <1>9, <1>10, <1>11 DEF Next, Completion

-----------------------------------------------------------------------------
(* What a patch makes *)

\* What a patch holds of each file that differs, but for those it lacks.
LEMMA BodyFiles ==
  ASSUME NEW patch \in Patches, MadeOf(patch)
  PROVE  /\ \A e \in patch.body :
              e.path \in DOMAIN patch.new /\ e.to = patch.new[e.path]
         /\ \A e1, e2 \in patch.body : e1.path = e2.path => e1 = e2
         /\ \A p \in DOMAIN patch.new \ patch.lost :
              \/ \E e \in patch.body : e.path = p
              \/ p \in DOMAIN patch.old /\ patch.old[p] = patch.new[p]
<1>1. PICK broken : patch.body = Body(patch.old, patch.new, patch.lost, broken)
  BY DEF MadeOf
<1>2. \A e \in patch.body :
        e.path \in DOMAIN patch.new /\ e.to = patch.new[e.path]
  BY <1>1 DEF Body, Changed, Added
<1>3. ASSUME NEW e1 \in patch.body, NEW e2 \in patch.body, e1.path = e2.path
      PROVE  e1 = e2
  BY <1>1, <1>3 DEF Body, Changed, Added
<1>4. ASSUME NEW p \in DOMAIN patch.new \ patch.lost
      PROVE  \/ \E e \in patch.body : e.path = p
             \/ p \in DOMAIN patch.old /\ patch.old[p] = patch.new[p]
  <2>1. CASE p \in Changed(patch.old, patch.new)
    <3>1. [path |-> p, kind |-> IF p \in broken THEN "broken" ELSE "diff",
           from |-> patch.old[p], to |-> patch.new[p]] \in patch.body
      BY <1>1, <2>1 DEF Body
    <3> QED
      BY <3>1
  <2>2. CASE p \in Added(patch.old, patch.new)
    <3>1. [path |-> p, kind |-> "copy", from |-> patch.new[p], to |-> patch.new[p]]
            \in patch.body
      BY <1>1, <2>2 DEF Body
    <3> QED
      BY <3>1
  <2> QED
    BY <2>1, <2>2 DEF Changed, Added
<1> QED
  BY <1>2, <1>3, <1>4

\* Every patch was made by delta().
AllMade ==
  /\ \A p \in patches : MadeOf(p)
  /\ \A i \in 1..Len(chain) : MadeOf(chain[i])

LEMMA MadeStep ==
  ASSUME TypeOK, Bounded, AllMade, [Next]_vars
  PROVE  AllMade'
<1> USE DEF AllMade
<1>1. CASE UNCHANGED <<patches, chain>>
  BY <1>1
<1>2. ASSUME NEW new \in Releases, Delta(new) PROVE AllMade'
  <2>1. ASSUME NEW lost, NEW broken, NEW packed, packed \subseteq {Made(new, lost, broken)},
               patches' = RemovePatchesFromLatest(patches \cup packed, new)
        PROVE  \A p \in patches' : MadeOf(p)
    <3>1. MadeOf(Made(new, lost, broken))
      BY Zenon DEF MadeOf, Made
    <3> QED
      BY <2>1, <3>1 DEF RemovePatchesFromLatest
  <2>2. \A p \in patches' : MadeOf(p)
    <3>1. CASE UNCHANGED patches
      BY <3>1
    <3>2. ASSUME ~UNCHANGED patches
          PROVE  \E lost, broken, packed :
                   /\ packed \subseteq {Made(new, lost, broken)}
                   /\ patches' = RemovePatchesFromLatest(patches \cup packed, new)
      BY <1>2, <3>2, DeltaIs
    <3> QED
      BY <2>1, <3>1, <3>2
  <2> QED
    BY <1>2, <2>2 DEF Delta, client
<1>3. CASE PatchDirSync
  <2>1. chain' \in Seq(patches)
    BY <1>3, FilterIs DEF PatchDirSync, TypeOK, Bounded
  <2>2. \A i \in 1..Len(chain') : chain'[i] \in patches
    BY <2>1
  <2> QED
    BY <1>3, <2>2 DEF PatchDirSync, maker
<1>4. CASE NextPatch /\ chain # <<>> /\ UNCHANGED maker
  BY <1>4 DEF NextPatch, maker, TypeOK
<1>5. CASE Kill
  BY <1>5 DEF Kill, maker
<1>6. CASE Patcher
  BY <1>1, <1>3, <1>4, <1>6 DEF Patcher, Extract, ExtractFails, XdeltaFails, Applied,
     MoveFile, MoveFails, MoveEnds, Rename, RenameFails, Xdelta, RemoveTarget, maker, TypeOK
<1>7. CASE Completion
  BY <1>1, <1>7 DEF Completion, Download, Install, Completed, DeleteExtraFile,
     KeepExtraFile, CopyFile, CopyFails, maker
<1> QED
  BY <1>1, <1>2, <1>5, <1>6, <1>7 DEF Next, vars, maker, client

\* A pure patch at work: but for the files missed, what is left to do is of
\* its body, and the files already made are the new release's.
Applying ==
  stage = "apply" /\ pure = TRUE =>
    LET patch == Head(chain)
    IN /\ patch.lost \subseteq missed
       /\ todo \subseteq delta
       /\ \A e1, e2 \in delta : e1.path = e2.path => e1 = e2
       /\ \A e \in delta : e \in patch.body \/ e.path \in missed
       /\ \A e \in patch.body : e \in todo \/ e.path \in DOMAIN tmp \/ e.path \in missed
       /\ \A e \in todo : e.path \notin DOMAIN tmp
       /\ \A p \in DOMAIN tmp \ missed : p \in DOMAIN patch.new /\ tmp[p] = patch.new[p]
       /\ \A p \in DOMAIN patch.old :
            p \in DOMAIN folder /\ folder[p] = patch.old[p]

Moved ==
  stage = "move" /\ pure = TRUE =>
    LET patch == Head(chain)
    IN \A p \in DOMAIN patch.new \ missed :
         IF p \in todo \cup {moving} THEN tmp[p] = patch.new[p]
         ELSE p \in DOMAIN folder /\ folder[p] = patch.new[p]

LEMMA ApplyingStep ==
  ASSUME TypeOK, Bounded, ModIntact, AllMade, Applying, [Next]_vars
  PROVE  Applying'
<1>1. CASE stage' # "apply"
  BY <1>1 DEF Applying
<1>2. CASE Extract
  <2> DEFINE patch == Head(chain)
  <2>1. patch \in Patches /\ chain' = chain
    BY <1>2 DEF Extract, TypeOK
  <2>2. ASSUME pure' = TRUE
        PROVE  delta = {} /\ Over(folder, patch.old) = folder
    BY <1>2, <2>2 DEF Extract
  <2>3. ASSUME pure' = TRUE
        PROVE  /\ patch.lost \subseteq missed' /\ todo' = delta'
               /\ \A e1, e2 \in delta' : e1.path = e2.path => e1 = e2
               /\ \A e \in delta' : e \in patch.body \/ e.path \in missed'
               /\ \A e \in patch.body : e \in delta' \/ e.path \in missed'
    <3>1. PICK got \in Extracted(patch.body) :
            /\ delta' = Kept(got) \cup got
            /\ missed' = patch.lost \cup {e.path : e \in patch.body \ got}
      BY <1>2 DEF Extract
    <3>2. delta' = got
      BY <2>2, <2>3, <3>1 DEF Kept
    <3>3. patch.body \subseteq Entries /\ MadeOf(patch)
      BY <1>2, <2>1 DEF Patches, Extract, TypeOK, AllMade
    <3>4. \A e1, e2 \in patch.body : e1.path = e2.path => e1 = e2
      BY <2>1, <3>3, BodyFiles
    <3>5. \A e1, e2 \in got : e1.path = e2.path => e1 = e2
      BY <3>3, <3>4, ExtractedIs
    <3>6. \A e \in got : \E b \in patch.body : b.path = e.path
      BY <3>3, ExtractedIs
    <3>7. \A e \in got : e \in patch.body \/ e.path \in missed'
      <4> SUFFICES ASSUME NEW e \in got, e \notin patch.body PROVE e.path \in missed'
        OBVIOUS
      <4>1. PICK b \in patch.body : b.path = e.path
        BY <3>6
      <4>2. b \notin got
        BY <3>5, <4>1
      <4> QED
        BY <3>1, <4>1, <4>2
    <3>8. todo' = delta'
      BY <1>2 DEF Extract
    <3> QED
      BY <3>1, <3>2, <3>5, <3>7, <3>8
  <2>4. patch.old \in Folders /\ folder \in Folders
    BY <2>1, FilesAssumptions DEF Patches, TypeOK
  <2>5. ASSUME pure' = TRUE, NEW p \in DOMAIN patch.old
        PROVE  p \in DOMAIN folder /\ folder[p] = patch.old[p]
    <3>1. Over(folder, patch.old) = folder
      BY <2>2, <2>5
    <3> HIDE DEF patch
    <3>2. /\ DOMAIN Over(folder, patch.old) = DOMAIN folder \cup DOMAIN patch.old
          /\ Over(folder, patch.old)[p] = patch.old[p]
      BY <2>4, OverIs
    <3> QED
      BY <3>1, <3>2
  <2>6. tmp' = Empty /\ folder' = folder
    BY <1>2 DEF Extract
  <2> QED
    BY <2>1, <2>3, <2>5, <2>6, EmptyIs DEF Applying
<1>3. CASE stage = "apply" /\ UNCHANGED <<chain, pure>> /\ stage' = "apply"
  <2> DEFINE patch == Head(chain)
  <2> SUFFICES ASSUME pure = TRUE PROVE Applying'
    BY <1>3 DEF Applying
  <2>1. CASE UNCHANGED <<folder, delta, tmp, todo, missed>>
    BY <1>3, <2>1 DEF Applying
  <2>2. ASSUME NEW e \in delta, Rename(e) \/ Xdelta(e) PROVE Applying'
    <3>1. /\ e \in todo /\ e.path \notin DOMAIN tmp
          /\ e \in patch.body \/ e.path \in missed
      BY <1>3, <2>2 DEF Applying, Rename, Xdelta
    <3>2. /\ tmp' = With(tmp, e.path, e.to) /\ todo' = todo \ {e}
          /\ delta' = delta \/ delta' = delta \ {e}
          /\ UNCHANGED <<folder, missed>>
      BY <2>2, <3>1 DEF Rename, Xdelta, Output
    <3>3. /\ DOMAIN tmp' = DOMAIN tmp \cup {e.path}
          /\ \A q \in DOMAIN tmp \cup {e.path} :
               tmp'[q] = IF q = e.path THEN e.to ELSE tmp[q]
      BY <3>2 DEF With
    <3>4. patch \in Patches /\ MadeOf(patch)
      BY <1>3 DEF TypeOK, AllMade
    <3>5. e \in patch.body => e.path \in DOMAIN patch.new /\ e.to = patch.new[e.path]
      BY <3>4, BodyFiles
    <3> HIDE DEF patch
    <3>6. /\ todo \subseteq delta
          /\ \A e1, e2 \in delta : e1.path = e2.path => e1 = e2
      BY <1>3 DEF Applying, patch
    <3>7. /\ patch.lost \subseteq missed' /\ todo' \subseteq delta'
          /\ \A e1, e2 \in delta' : e1.path = e2.path => e1 = e2
          /\ \A e2 \in delta' : e2 \in patch.body \/ e2.path \in missed'
      BY <1>3, <3>2, <3>6 DEF Applying, patch
    <3>8. \A e2 \in patch.body :
             e2 \in todo' \/ e2.path \in DOMAIN tmp' \/ e2.path \in missed'
      BY <1>3, <3>2, <3>3 DEF Applying, patch
    <3>9. \A e2 \in todo' : e2.path \notin DOMAIN tmp'
      BY <1>3, <3>1, <3>2, <3>3, <3>6 DEF Applying, patch
    <3>10. \A p \in DOMAIN tmp' \ missed' : p \in DOMAIN patch.new /\ tmp'[p] = patch.new[p]
      BY <1>3, <3>1, <3>2, <3>3, <3>5 DEF Applying, patch
    <3>11. \A p \in DOMAIN patch.old :
             p \in DOMAIN folder' /\ folder'[p] = patch.old[p]
      BY <1>3, <3>2 DEF Applying, patch
    <3> QED
      BY <1>3, <3>7, <3>8, <3>9, <3>10, <3>11 DEF Applying, patch
  <2>3. ASSUME NEW e \in delta, RenameFails(e) PROVE Applying'
    <3>1. /\ todo' = todo \ {e} /\ missed' = missed \cup {e.path}
          /\ UNCHANGED <<folder, delta, tmp>>
      BY <2>3 DEF RenameFails
    <3> QED
      BY <1>3, <3>1 DEF Applying
  <2>4. CASE UNCHANGED vars \/ \E new \in Releases : Delta(new)
    BY <2>1, <2>4 DEF vars, client, Delta
  <2> QED
    BY <1>3, <2>2, <2>3, <2>4 DEF Next, Patcher, Completion, Kill, PatchDirSync, Extract,
       ExtractFails, XdeltaFails, NextPatch, Applied, MoveFile, MoveFails, MoveEnds,
       RemoveTarget, Download, Install, Completed, DeleteExtraFile, KeepExtraFile, CopyFile,
       CopyFails
<1> QED
  BY <1>1, <1>2, <1>3 DEF Next, vars, client, Delta, Patcher, Completion, Kill,
     PatchDirSync, ExtractFails, Rename, RenameFails, Xdelta, XdeltaFails, NextPatch, Applied,
     MoveFile, MoveFails, MoveEnds, RemoveTarget, Download, Install, Completed,
     DeleteExtraFile, KeepExtraFile, CopyFile, CopyFails

LEMMA MovedStep ==
  ASSUME TypeOK, Bounded, ModIntact, AllMade, Applying, Moved, [Next]_vars
  PROVE  Moved'
<1> DEFINE patch == Head(chain)
<1>1. CASE stage' # "move"
  BY <1>1 DEF Moved
<1>2. CASE Applied
  <2> SUFFICES ASSUME pure = TRUE,
                      NEW p \in DOMAIN patch.new \ missed
               PROVE  IF p \in todo' \cup {moving} THEN tmp[p] = patch.new[p]
                      ELSE p \in DOMAIN folder /\ folder[p] = patch.new[p]
    BY <1>2 DEF Applied, Moved
  <2>1. patch \in Patches /\ MadeOf(patch)
    BY <1>2 DEF Applied, TypeOK, AllMade
  <2>2. p # moving
    <3>1. patch.new \in Folders
      BY <2>1, FilesAssumptions DEF Patches
    <3>2. p \in Paths /\ moving = NoPath
      BY <1>2, <3>1, FolderIs DEF Applied, TypeOK
    <3> QED
      BY <3>2, FilesAssumptions
  <2>3. \/ p \in DOMAIN tmp
        \/ p \in DOMAIN patch.old /\ patch.old[p] = patch.new[p]
    BY <1>2, <2>1, BodyFiles DEF Applied, Applying
  <2> QED
    BY <1>2, <2>2, <2>3 DEF Applied, Applying
<1>3. CASE stage = "move" /\ UNCHANGED <<chain, pure>> /\ stage' = "move"
  <2> DEFINE Is(p, todos, at, new, old) ==
               IF p \in todos \cup {at} THEN new[p] = patch.new[p]
               ELSE p \in DOMAIN old /\ old[p] = patch.new[p]
  <2>0. missed' = missed \/ stage # "move"
    BY <1>3 DEF Next, vars, client, Delta, Patcher, Completion, Kill, PatchDirSync, Extract,
       ExtractFails, XdeltaFails, NextPatch, Applied, MoveFile, MoveFails, MoveEnds, Rename,
       RenameFails, Xdelta, RemoveTarget, Download, Install, Completed, DeleteExtraFile,
       KeepExtraFile, CopyFile, CopyFails
  <2>1. (\A p \in DOMAIN patch.new \ missed : Is(p, todo', moving', tmp', folder'))
          => Moved'
    BY <1>3, <2>0 DEF Moved
  <2> SUFFICES ASSUME pure = TRUE, NEW p \in DOMAIN patch.new \ missed
               PROVE  Is(p, todo', moving', tmp', folder')
    BY <1>3, <2>1 DEF Moved
  <2>2. Is(p, todo, moving, tmp, folder)
    BY <1>3 DEF Moved
  <2>3. p # NoPath
    <3>1. patch \in Patches
      BY <1>3 DEF TypeOK
    <3>2. patch.new \in Folders
      BY <3>1, FilesAssumptions DEF Patches
    <3> QED
      BY <3>2, FolderIs, FilesAssumptions
  <2>4. CASE UNCHANGED <<folder, tmp, todo, moving>>
    BY <2>2, <2>4
  <2>5. ASSUME NEW q \in Paths, RemoveTarget(q)
        PROVE  Is(p, todo', moving', tmp', folder')
    <3>1. /\ DOMAIN folder' = DOMAIN folder \ {q}
          /\ \A x \in DOMAIN folder \ {q} : folder'[x] = folder[x]
      BY <2>5 DEF RemoveTarget, Less
    <3> QED
      BY <2>2, <2>3, <2>5, <3>1 DEF RemoveTarget
  <2>6. CASE MoveFile
    <3>1. /\ DOMAIN folder' = DOMAIN folder \cup {moving}
          /\ \A x \in DOMAIN folder \cup {moving} :
               folder'[x] = IF x = moving THEN tmp[moving] ELSE folder[x]
      BY <2>6 DEF MoveFile, With
    <3>2. /\ todo \subseteq DOMAIN tmp \ {moving}
          /\ \A x \in DOMAIN tmp \ {moving} : tmp'[x] = tmp[x]
      BY <1>3, <2>6 DEF MoveFile, Less, Bounded
    <3> QED
      BY <2>2, <2>3, <2>6, <3>1, <3>2 DEF MoveFile
  <2>7. CASE UNCHANGED vars \/ \E new \in Releases : Delta(new)
    BY <2>4, <2>7 DEF vars, client, Delta
  <2> QED
    BY <1>3, <2>5, <2>6, <2>7 DEF Next, Patcher, Completion, Kill, PatchDirSync, Extract,
       ExtractFails, XdeltaFails, NextPatch, Applied, MoveFails, MoveEnds, Rename,
       RenameFails, Xdelta, Download, Install, Completed, DeleteExtraFile, KeepExtraFile, CopyFile, CopyFails
<1> QED
  BY <1>1, <1>2, <1>3 DEF Next, vars, client, Delta, Patcher, Completion, Kill,
     PatchDirSync, Extract, ExtractFails, Rename, RenameFails, Xdelta, XdeltaFails, NextPatch,
     MoveFile, MoveFails, MoveEnds, RemoveTarget, Download, Install, Completed,
     DeleteExtraFile, KeepExtraFile, CopyFile, CopyFails

-----------------------------------------------------------------------------
(* Chains *)

LEMMA MatchesIs ==
  ASSUME NEW n \in Nat, NEW v \in Nat
  PROVE  /\ Matches(n, n)
         /\ n < 10 /\ Matches(n, v) => n = v
BY DEF Matches

\* filterPatches begins with a patch for the folder and goes on with one for
\* each number, if no number is taken for another.
LEMMA FilterNumbers ==
  ASSUME NEW ps, ps \subseteq Patches, \A p \in ps : p.no \in 0..MaxNo, IsFiniteSet(ps),
         NEW f, NEW c, c = FilterPatches(f, ps), c # <<>>,
         LatestVersion(ps) < 10
           \/ \A v \in Head(c).no..LatestVersion(ps) : \E p \in ps : p.no = v
  PROVE  /\ Len(c) \in Nat \ {0} /\ Hash(c[1].old) = Hash(f)
         /\ Len(c) = LatestVersion(ps) - c[1].no + 1
         /\ \A i \in 1..Len(c) : c[i] \in ps /\ c[i].no = c[1].no + i - 1
<1> DEFINE first == {p \in ps : Hash(p.old) = Hash(f)}
           last == LatestVersion(ps)
           Of(v) == {p \in ps : Matches(p.no, v)}
           start == (CHOOSE p \in first : TRUE).no
           One(S) == CHOOSE p \in S : TRUE
           chosen == [i \in 1..last - start + 1 |->
                        IF i = 1 THEN One(first) ELSE One(Of(start + i - 1))]
           none == first = {} \/ \E v \in start + 1..last : Cardinality(Of(v)) # 1
<1>1. FilterPatches(f, ps) = IF none THEN <<>> ELSE chosen
  BY Zenon DEF FilterPatches
<1>2. ~none /\ c = chosen
  <2> HIDE DEF none, chosen
  <2> QED
    BY <1>1
<1>3. One(first) \in first /\ One(first).no = start
  BY <1>2
<1>4. last \in Nat /\ start \in Nat /\ start <= last /\ \A p \in ps : p.no \in Nat /\ p.no <= last
  BY <1>3, LatestIs, FilesAssumptions
<1>5. \A v : Of(v) \subseteq ps /\ \A p \in ps : p \in Of(v) <=> Matches(p.no, v)
  OBVIOUS
<1>6. \A S, x : S = {x} => One(S) = x
  OBVIOUS
<1>7. One(first) \in ps /\ Hash(One(first).old) = Hash(f)
  BY <1>3
<1> HIDE DEF last, start, first, Of, One
<1>8. last - start + 1 \in Nat \ {0}
  BY <1>4
<1>9. /\ DOMAIN c = 1..last - start + 1 /\ c[1] = One(first)
      /\ \A i \in 1..last - start + 1 : i # 1 => c[i] = One(Of(start + i - 1))
  BY <1>2, <1>8
<1> HIDE DEF chosen
<1>10. Len(c) = last - start + 1 /\ c \in Seq(ps)
  <2>1. c \in Seq(ps)
    BY FilterIs
  <2> QED
    BY <1>8, <1>9, <2>1
<1>11. Head(c).no = start
  <2>1. Head(c) = c[1]
    BY <1>8, <1>10
  <2> QED
    BY <1>3, <1>9, <2>1
<1>12. ASSUME NEW v \in start + 1..last
      PROVE  One(Of(v)) \in ps /\ One(Of(v)).no = v
  <2>1. Cardinality(Of(v)) = 1 /\ v \in Nat
    BY <1>2, <1>4
  <2>2. IsFiniteSet(Of(v))
    BY <1>5, FS_Subset
  <2>3. PICK x : Of(v) = {x}
    BY <2>1, <2>2, FS_Singleton
  <2>4. One(Of(v)) = x /\ x \in ps /\ Matches(x.no, v)
    BY <1>5, <1>6, <2>3
  <2>5. CASE last < 10
    BY <1>4, <2>1, <2>4, <2>5, MatchesIs
  <2>6. CASE \A w \in start..last : \E p \in ps : p.no = w
    <3>1. PICK p \in ps : p.no = v
      BY <1>4, <2>6
    <3>2. p \in Of(v)
      BY <1>4, <1>5, <3>1, MatchesIs
    <3> QED
      BY <2>3, <2>4, <3>1, <3>2
  <2>7. last < 10 \/ \A w \in start..last : \E p \in ps : p.no = w
    BY <1>11 DEF last
  <2> QED
    BY <2>4, <2>5, <2>6, <2>7
<1> HIDE DEF none
<1>13. ASSUME NEW i \in 1..Len(c)
       PROVE  c[i] \in ps /\ c[i].no = start + i - 1
  <2>1. CASE i = 1
    BY <1>3, <1>4, <1>7, <1>9, <2>1
  <2>2. CASE i # 1
    <3>1. start + i - 1 \in start + 1..last
      BY <1>4, <1>10, <2>2
    <3> QED
      BY <1>9, <1>10, <1>12, <2>2, <3>1
  <2> QED
    BY <2>1, <2>2
<1>14. Hash(c[1].old) = Hash(f) /\ c[1].no = start
  BY <1>3, <1>7, <1>8, <1>9
<1> QED
  BY <1>8, <1>10, <1>13, <1>14 DEF last

\* As long as each release got its patch, consecutive numbers lead on, the
\* last to the latest release, and none starts there.
Lined ==
  /\ IsFiniteSet(patches)
  /\ skipped = FALSE =>
       /\ \A p, q \in patches : q.no = p.no + 1 => p.new = q.old
       /\ \A p \in patches : p.no = LatestVersion(patches) => p.new = latest
       /\ \A p \in patches : Hash(p.old) # Hash(latest)

LEMMA LinedStep ==
  ASSUME TypeOK, Bounded, Lined, [Next]_vars
  PROVE  Lined'
<1>1. CASE UNCHANGED maker
  BY <1>1 DEF Lined, maker
<1>2. ASSUME NEW new \in Releases, Delta(new) PROVE Lined'
  <2>1. CASE UNCHANGED patches /\ skipped' = TRUE
    BY <2>1 DEF Lined
  <2>2. ASSUME NEW lost, NEW broken, NEW made, made = Made(new, lost, broken),
               NEW packed, packed \subseteq {made},
               patches' = RemovePatchesFromLatest(patches \cup packed, new),
               skipped' = (skipped \/ made \notin patches')
        PROVE  Lined'
    <3> DEFINE last == LatestVersion(patches)
    <3>1. /\ made.no = last + 1 /\ made.old = latest /\ made.new = new
          /\ patches' \subseteq patches \cup {made}
          /\ \A p \in patches' : Hash(p.old) # Hash(new)
      BY <2>2 DEF RemovePatchesFromLatest, Made
    <3>2. IsFiniteSet(patches')
      <4>1. IsFiniteSet(patches \cup {made})
        BY FS_AddElement DEF Lined
      <4> QED
        BY <3>1, <4>1, FS_Subset
    <3>3. latest' = new
      BY <1>2, DeltaIs
    <3>4. /\ last \in Int /\ \A p \in patches : p.no \in Nat /\ p.no <= last
          /\ last + 1 \in 0..MaxNo
      <4>1. last < MaxNo
        BY <1>2 DEF Delta
      <4>2. CASE patches = {}
        BY <4>1, <4>2, FilesAssumptions DEF LatestVersion
      <4>3. CASE patches # {}
        BY <4>1, <4>3, LatestIs, FilesAssumptions DEF Bounded
      <4> QED
        BY <4>2, <4>3
    <3> HIDE DEF last
    <3>5. ASSUME skipped' = FALSE
          PROVE  /\ \A p, q \in patches' : q.no = p.no + 1 => p.new = q.old
                 /\ \A p \in patches' : p.no = LatestVersion(patches') => p.new = latest'
                 /\ \A p \in patches' : Hash(p.old) # Hash(latest')
      <4>1. skipped = FALSE /\ made \in patches'
        BY <2>2, <3>5 DEF TypeOK
      <4>2. /\ \A p, q \in patches : q.no = p.no + 1 => p.new = q.old
            /\ \A p \in patches : p.no = last => p.new = latest
        BY <4>1 DEF Lined, last
      <4>3. \A p \in patches' : p.no = LatestVersion(patches') => p = made
        <5>1. \A p \in patches' : p.no \in 0..MaxNo
          BY <3>1, <3>4 DEF Bounded
        <5>2. made.no <= LatestVersion(patches')
          BY <4>1, <5>1, LatestIs
        <5> QED
          BY <3>1, <3>4, <5>2
      <4>4. ASSUME NEW p \in patches', NEW q \in patches', q.no = p.no + 1
            PROVE  p.new = q.old
        <5>1. p \in patches \cup {made} /\ q \in patches \cup {made}
          BY <3>1
        <5>2. CASE p \in patches /\ q \in patches
          BY <4>2, <4>4, <5>2
        <5>3. CASE p \in patches /\ q = made
          BY <3>1, <3>4, <4>2, <4>4, <5>3
        <5>4. CASE p = made
          BY <3>1, <3>4, <4>4, <5>1, <5>4
        <5> QED
          BY <5>1, <5>2, <5>3, <5>4
      <4> QED
        BY <3>1, <3>3, <4>3, <4>4
    <3> QED
      BY <3>2, <3>5 DEF Lined
  <2>3. ASSUME ~(UNCHANGED patches /\ skipped' = TRUE)
        PROVE  \E lost, broken, packed :
                 /\ packed \subseteq {Made(new, lost, broken)}
                 /\ patches' = RemovePatchesFromLatest(patches \cup packed, new)
                 /\ skipped' = (skipped \/ Made(new, lost, broken) \notin patches')
    BY <1>2, <2>3, DeltaIs
  <2> QED
    BY <2>1, <2>2, <2>3
<1> QED
  BY <1>1, <1>2 DEF Next, Patcher, Completion, vars, PatchDirSync, Extract, ExtractFails,
     XdeltaFails, Applied, MoveFile, MoveFails, MoveEnds, Rename, RenameFails, Xdelta, RemoveTarget,
     Download, Install, Completed, DeleteExtraFile, KeepExtraFile, CopyFile, CopyFails, Kill

-----------------------------------------------------------------------------
(* Theorems *)

\* The invariant: the properties with what each phase has done so far.
FilesInv ==
  TypeOK /\ Bounded /\ ModIntact /\ Completing /\ AllMade /\ Applying /\ Moved /\ Lined

LEMMA FilesInvariant == Spec => []FilesInv
<1>1. Init => FilesInv
  BY TypeInit, FS_EmptySet
     DEF Init, FilesInv, ModIntact, Completing, AllMade, Applying, Moved, Lined
<1>2. FilesInv /\ [Next]_vars => FilesInv'
  BY TypeStep, IntactStep, CompletingStep, MadeStep, ApplyingStep, MovedStep, LinedStep
     DEF FilesInv
<1> QED
  BY <1>1, <1>2, PTL DEF Spec

\* TypeOK, also of the chains filterPatches finds.
THEOREM FilesTypeCorrect == Spec => []TypeOK
<1>1. FilesInv => TypeOK
  BY DEF FilesInv
<1> QED
  BY <1>1, FilesInvariant, PTL

\* A patch that cannot be applied to all its files leaves the mod as it was;
\* while one is moved in only the file being replaced is missing, so a kill
\* takes at most one.  (A move that fails leaves a mixture.)
\* (DeltaPatcher::patchExtracted, FileUtils::move.)
THEOREM ModIntactAlways == Spec => []ModIntact
<1>1. FilesInv => ModIntact
  BY DEF FilesInv
<1> QED
  BY <1>1, FilesInvariant, PTL

\* READY means the torrent's files and no other but those whose deletion was
\* refused or left out, whatever patches, failures, kills and releases came
\* before (Mod::processCompletion, deleteExtraFiles, Installer::install).
THEOREM CompletedExactAlways == Spec => []CompletedExact
<1>1. FilesInv => CompletedExact
  <2> SUFFICES ASSUME FilesInv, stage = "done", torrent # Empty
               PROVE  CompletedExact
    BY DEF CompletedExact
  <2>1. Completing /\ folder \in Folders /\ torrent \in Folders
    BY FilesAssumptions DEF FilesInv, TypeOK
  <2>2. Over(folder, torrent) = folder
    <3>1. \A p \in DOMAIN torrent : p \in DOMAIN folder /\ folder[p] = torrent[p]
      BY <2>1 DEF Completing
    <3>2. /\ Over(folder, torrent) \in Folders
          /\ DOMAIN Over(folder, torrent) = DOMAIN folder \cup DOMAIN torrent
          /\ \A q \in DOMAIN torrent : Over(folder, torrent)[q] = torrent[q]
          /\ \A q \in DOMAIN folder \ DOMAIN torrent : Over(folder, torrent)[q] = folder[q]
      BY <2>1, OverIs
    <3>3. DOMAIN Over(folder, torrent) = DOMAIN folder
      BY <3>1, <3>2
    <3>4. \A q \in DOMAIN folder : Over(folder, torrent)[q] = folder[q]
      BY <3>1, <3>2
    <3> QED
      BY <2>1, <3>2, <3>3, <3>4, SameFolder
  <2> QED
    BY <2>1, <2>2 DEF FilesInv, TypeOK, Completing, CompletedExact
<1> QED
  BY <1>1, FilesInvariant, PTL

\* A patch met by the release it was made from makes the next one
\* (DeltaPatcher::delta against extract and patchExtracted), but for the files
\* that a failure nobody asked about has cost it.
THEOREM PatchMakesNewAlways == Spec => []PatchMakesNew
<1>1. FilesInv => PatchMakesNew
  <2> DEFINE patch == Head(chain)
  <2> SUFFICES ASSUME FilesInv, stage = "move", todo = {}, moving = NoPath, pure = TRUE,
                      NEW p \in DOMAIN patch.new \ missed
               PROVE  p \in DOMAIN folder /\ folder[p] = patch.new[p]
    BY DEF PatchMakesNew, FilesInv, TypeOK
  <2>1. patch \in Patches
    BY DEF FilesInv, TypeOK
  <2>2. patch.new \in Folders
    BY <2>1, FilesAssumptions DEF Patches
  <2>3. p \notin todo \cup {moving}
    BY <2>2, FolderIs, FilesAssumptions
  <2> QED
    BY <2>3 DEF FilesInv, Moved
<1> QED
  BY <1>1, FilesInvariant, PTL

\* The patches found for a folder lead from it to the latest release, also
\* when the publisher has gone back to an old one (DeltaPatcher::filterPatches,
\* removePatchesFromLatest), but for numbers taken for others.
THEOREM ChainsFitAlways == Spec => []ChainsFit
<1>1. FilesInv => ChainsFit
  <2> SUFFICES ASSUME FilesInv, skipped = FALSE, NEW r \in Releases, Unambiguous(r),
                      NEW c, c = FilterPatches(r, patches), c # <<>>, Numbered(Head(c).no)
               PROVE  r # latest /\ Fits(c, r)
    BY DEF FilesInv, TypeOK, ChainsFit
  <2> USE DEF FilesInv, Lined, Bounded, TypeOK
  <2>1. /\ Len(c) \in Nat \ {0} /\ Hash(c[1].old) = Hash(r)
        /\ Len(c) = LatestVersion(patches) - c[1].no + 1
        /\ \A i \in 1..Len(c) : c[i] \in patches /\ c[i].no = c[1].no + i - 1
    BY FilterNumbers DEF Numbered
  <2>2. 1 \in 1..Len(c) /\ Len(c) \in 1..Len(c)
    BY <2>1
  <2>3. c[1].old = r /\ c[1].no \in Nat /\ LatestVersion(patches) \in Int
    <3>1. c[1] \in patches
      BY <2>1, <2>2
    <3>2. c[1].old \in Releases /\ c[1].no \in Nat
      BY <3>1 DEF Patches
    <3>3. LatestVersion(patches) \in Int
      BY <3>1, LatestIs, FilesAssumptions
    <3> QED
      BY <2>1, <3>2, <3>3 DEF Unambiguous
  <2>4. r # latest
    BY <2>1, <2>2, <2>3
  <2>5. ASSUME NEW i \in 1..Len(c) - 1
        PROVE  c[i].new = c[i + 1].old
    <3>1. i \in 1..Len(c) /\ i + 1 \in 1..Len(c)
      BY <2>1
    <3>2. c[i].no = c[1].no + i - 1 /\ c[i + 1].no = c[1].no + (i + 1) - 1
      BY <2>1, <3>1
    <3>3. c[i + 1].no = c[i].no + 1
      BY <2>1, <2>3, <3>1, <3>2
    <3> QED
      BY <2>1, <3>1, <3>3
  <2>6. c[Len(c)].new = latest
    <3>1. c[Len(c)].no = c[1].no + Len(c) - 1
      BY <2>1, <2>2
    <3>2. c[Len(c)].no = LatestVersion(patches)
      BY <2>1, <2>3, <3>1
    <3> QED
      BY <2>1, <2>2, <3>2
  <2>7. Head(c) = c[1]
    <3>1. c \in Seq(patches)
      BY FilterIs
    <3> QED
      BY <3>1
  <2> QED
    BY <2>3, <2>4, <2>5, <2>6, <2>7 DEF Fits
<1> QED
  BY <1>1, FilesInvariant, PTL
=============================================================================
