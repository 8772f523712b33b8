-------------------------- MODULE DeltaSyncProofs --------------------------
(* Theorems about DeltaSync, for any mods, patch chains and URL lists.     *)
EXTENDS DeltaSync, TLAPS

-----------------------------------------------------------------------------
(* Queues without duplicates.                                              *)

\* Appending to a queue.
LEMMA AppendFacts ==
  ASSUME NEW S, NEW s \in Seq(S), NEW x \in S
  PROVE  /\ Append(s, x) \in Seq(S)
         /\ Elements(Append(s, x)) = Elements(s) \cup {x}
         /\ Distinct(s) /\ x \notin Elements(s) => Distinct(Append(s, x))
<1> DEFINE t == Append(s, x)
<1>1. /\ t \in Seq(S) /\ Len(s) \in Nat /\ Len(t) = Len(s) + 1
      /\ DOMAIN s = 1..Len(s) /\ DOMAIN t = 1..(Len(s) + 1)
      /\ \A i \in 1..Len(s) : t[i] = s[i]
      /\ t[Len(s) + 1] = x
  OBVIOUS
<1> HIDE DEF t
<1>2. Elements(t) = Elements(s) \cup {x}
  <2>1. \A i \in DOMAIN t : i \in DOMAIN s \/ i = Len(s) + 1
    BY <1>1
  <2>2. \A i \in DOMAIN s : i \in DOMAIN t /\ t[i] = s[i]
    BY <1>1
  <2>3. Len(s) + 1 \in DOMAIN t
    BY <1>1
  <2> QED
    BY <1>1, <2>1, <2>2, <2>3 DEF Elements
<1>3. ASSUME Distinct(s), x \notin Elements(s)
      PROVE  Distinct(t)
  <2> SUFFICES ASSUME NEW i \in DOMAIN t, NEW j \in DOMAIN t, t[i] = t[j]
               PROVE  i = j
    BY DEF Distinct
  <2>1. \A k \in DOMAIN s : s[k] # x
    BY <1>3 DEF Elements
  <2>2. CASE i \in DOMAIN s /\ j \in DOMAIN s
    BY <1>1, <1>3, <2>2 DEF Distinct
  <2>3. CASE ~(i \in DOMAIN s /\ j \in DOMAIN s)
    BY <1>1, <2>1, <2>3
  <2> QED
    BY <2>2, <2>3
<1> QED
  BY <1>1, <1>2, <1>3 DEF t

\* Taking the first of a queue.
LEMMA TailFacts ==
  ASSUME NEW S, NEW s \in Seq(S), s # <<>>
  PROVE  /\ Head(s) \in S /\ Tail(s) \in Seq(S)
         /\ Elements(s) = Elements(Tail(s)) \cup {Head(s)}
         /\ Distinct(s) => Distinct(Tail(s)) /\ Head(s) \notin Elements(Tail(s))
<1> DEFINE t == Tail(s)
<1>1. /\ t \in Seq(S) /\ Len(s) \in Nat \ {0} /\ Len(t) = Len(s) - 1
      /\ Head(s) = s[1] /\ s[1] \in S
      /\ DOMAIN s = 1..Len(s) /\ DOMAIN t = 1..(Len(s) - 1)
      /\ \A i \in 1..(Len(s) - 1) : t[i] = s[i + 1]
  OBVIOUS
<1> HIDE DEF t
<1>2. \A i \in DOMAIN t : i + 1 \in DOMAIN s /\ t[i] = s[i + 1] /\ i + 1 # 1
  BY <1>1
<1>3. \A i \in DOMAIN s : i = 1 \/ (i - 1 \in DOMAIN t /\ s[i] = t[i - 1])
  BY <1>1
<1>4. Elements(s) = Elements(t) \cup {Head(s)}
  <2>1. 1 \in DOMAIN s
    BY <1>1
  <2> QED
    BY <1>1, <1>2, <1>3, <2>1 DEF Elements
<1>5. ASSUME Distinct(s)
      PROVE  Distinct(t) /\ Head(s) \notin Elements(t)
  <2>1. 1 \in DOMAIN s
    BY <1>1
  <2>2. Head(s) \notin Elements(t)
    BY <1>1, <1>2, <1>5, <2>1 DEF Elements, Distinct
  <2>3. ASSUME NEW i \in DOMAIN t, NEW j \in DOMAIN t, t[i] = t[j]
        PROVE  i = j
    <3>1. i + 1 = j + 1
      BY <1>2, <1>5, <2>3 DEF Distinct
    <3> QED
      BY <1>1, <3>1
  <2> QED
    BY <2>2, <2>3 DEF Distinct
<1> QED
  BY <1>1, <1>4, <1>5 DEF t

-----------------------------------------------------------------------------
(* Types.                                                                  *)

\* TypeOK is not inductive by itself: the patcher at work has a mod.
TypeInv == TypeOK /\ InPatcher \subseteq Mods

\* filterPatches and applyPatches lead to versions.
LEMMA AppliedType ==
  ASSUME TypeOK, NEW m \in Mods
  PROVE  Applied(m) \subseteq Nat
<1>1. version[m] \in Nat /\ Len(Chain[m]) \in Nat
  BY DeltaAssumptions DEF TypeOK
<1>2. ASSUME NEW dir
      PROVE  FilterPatches(m, dir) \subseteq Nat
  BY <1>1 DEF FilterPatches
<1>3. SUFFICES ASSUME NEW v \in Applied(m)
               PROVE  v \in Nat
  OBVIOUS
<1>4. PICK patches \in {FilterPatches(m, files \cup part) : part \in Partial} :
        v \in patches \cup {version[m]}
  BY Zenon DEF Applied
<1> QED
  BY <1>1, <1>2, <1>4

\* The initial states have the right types.
LEMMA TypeInit == Init => TypeInv
<1> SUFFICES ASSUME Init
             PROVE  TypeInv
  OBVIOUS
<1>1. asked \in [Mods -> [Urls -> 0..MaxRequests]]
  BY DeltaAssumptions DEF Init, NoRequests, NoneOfUrls
<1>2. posted \in Seq(Mods) /\ signals \in Seq(Mods)
  BY DEF Init
<1>3. NoneOfUrls \in [Urls -> 0..MaxRequests]
  BY DeltaAssumptions DEF NoneOfUrls
<1> QED
  BY <1>1, <1>2, <1>3 DEF Init, TypeInv, TypeOK, InPatcher

\* Every step keeps the types.
LEMMA TypeStep == TypeInv /\ [Next]_vars => TypeInv'
<1> SUFFICES ASSUME TypeInv, [Next]_vars
             PROVE  TypeInv'
  OBVIOUS
<1> USE DEF TypeInv, manager, downloader, patcher, outside
<1>1. ASSUME NEW m \in Mods, Patch(m)
      PROVE  TypeInv'
  <2> DEFINE taken == {u \in DeltaUrls(m) : mirrored[u] > 0}
             fetch == DeltaUrls(m) \ (taken \cap urlHandle)
  <2>1. DeltaUrls(m) \subseteq Urls
    BY DeltaAssumptions DEF DeltaUrls, TypeOK
  <2>2. asked' \in [Mods -> [Urls -> 0..MaxRequests]]
    <3>1. /\ \A u \in fetch : asked[m][u] < MaxRequests
          /\ asked' = [asked EXCEPT ![m] =
                 [u \in Urls |-> IF u \in fetch THEN @[u] + 1 ELSE @[u]]]
      BY <1>1 DEF Patch
    <3> HIDE DEF fetch
    <3>2. \A u \in Urls :
            (IF u \in fetch THEN asked[m][u] + 1 ELSE asked[m][u]) \in 0..MaxRequests
      BY <3>1, DeltaAssumptions DEF TypeOK
    <3> QED
      BY <3>1, <3>2 DEF TypeOK
  <2>3. /\ handleMap' \in [Mods -> SUBSET Urls] /\ inDl' \subseteq Urls
    BY <1>1, <2>1 DEF Patch, TypeOK
  <2>4. mirrored' \in [Urls -> 0..MaxRequests]
    <3>1. mirrored' = [u \in Urls |->
                         IF u \in taken THEN mirrored[u] - 1 ELSE mirrored[u]]
      BY <1>1 DEF Patch
    <3>2. ASSUME NEW u \in Urls
          PROVE  (IF u \in taken THEN mirrored[u] - 1 ELSE mirrored[u])
                    \in 0..MaxRequests
      BY DeltaAssumptions DEF TypeOK
    <3> HIDE DEF taken
    <3> QED
      BY <3>1, <3>2
  <2> QED
    BY <1>1, <2>2, <2>3, <2>4 DEF Patch, TypeOK, InPatcher
<1>2. ASSUME NEW m \in Mods, NEW u \in Urls, Answered(m, u)
      PROVE  /\ asked' \in [Mods -> [Urls -> 0..MaxRequests]]
             /\ inDl' \subseteq Urls
  <2>1. asked[m][u] - 1 \in 0..MaxRequests
    BY <1>2, DeltaAssumptions DEF Answered, TypeOK
  <2> QED
    BY <1>2, <2>1 DEF Answered, TypeOK
<1>3. ASSUME NEW m \in Mods, NEW u \in Urls, Reply(m, u)
      PROVE  TypeInv'
  BY <1>2, <1>3 DEF Reply, Answered, TorrentAdded, TypeOK, InPatcher
<1>4. ASSUME NEW m \in Mods, NEW u \in Urls, ReplyFails(m, u)
      PROVE  TypeInv'
  BY <1>2, <1>4 DEF ReplyFails, Answered, TypeOK, InPatcher
<1>5. CASE MirrorDeltaPatches
  <2> DEFINE fetch == list \ urlHandle
  <2>1. \A u \in fetch : u \in Urls => /\ mirrored[u] + 1 \in 0..MaxRequests
                                      /\ mirrorAsked[u] + 1 \in 0..MaxRequests
    BY <1>5, DeltaAssumptions DEF MirrorDeltaPatches, TypeOK
  <2>2. /\ mirrored' = [u \in Urls |->
                          IF u \in fetch THEN mirrored[u] + 1 ELSE mirrored[u]]
        /\ mirrorAsked' = [u \in Urls |->
                             IF u \in fetch THEN mirrorAsked[u] + 1 ELSE mirrorAsked[u]]
    BY <1>5 DEF MirrorDeltaPatches
  <2> HIDE DEF fetch
  <2>3. /\ mirrored' \in [Urls -> 0..MaxRequests]
        /\ mirrorAsked' \in [Urls -> 0..MaxRequests]
    BY <2>1, <2>2 DEF TypeOK
  <2> QED
    BY <1>5, <2>3, DeltaAssumptions DEF MirrorDeltaPatches, TypeOK, InPatcher
<1>6. ASSUME NEW u \in Urls, MirrorReply(u)
      PROVE  TypeInv'
  <2>1. mirrorAsked' \in [Urls -> 0..MaxRequests]
    <3>1. mirrorAsked[u] - 1 \in 0..MaxRequests
      BY <1>6, DeltaAssumptions DEF MirrorReply, TypeOK
    <3> QED
      BY <1>6, <3>1 DEF MirrorReply, TypeOK
  <2> QED
    BY <1>6, <2>1 DEF MirrorReply, TorrentAdded, TypeOK, InPatcher
<1>7. ASSUME NEW m \in Mods, Update(m)
      PROVE  TypeInv'
  <2>1. posted' \in Seq(Mods)
    BY <1>7, AppendFacts DEF Update, TypeOK
  <2> QED
    BY <1>7, <2>1 DEF Update, TypeOK, InPatcher
<1>8. CASE HandlePatched
  <2>1. signals' \in Seq(Mods)
    BY <1>8, TailFacts DEF HandlePatched, TypeOK
  <2> QED
    BY <1>8, <2>1 DEF HandlePatched, TypeOK, InPatcher
<1>9. CASE EnableDeltaUpdates
  BY <1>9 DEF EnableDeltaUpdates, TypeOK, InPatcher
<1>10. ASSUME NEW urls \in UrlLists, SetDeltaUrls(urls)
       PROVE  TypeInv'
  BY <1>10 DEF SetDeltaUrls, TypeOK, InPatcher
<1>11. CASE DisableDeltaUpdates
  <2>1. version' \in [Mods -> Nat]
    <3>1. CASE version' = version
      BY <3>1 DEF TypeOK
    <3>2. CASE version' # version
      <4>1. PICK m \in InPatcher : \E v \in Applied(m) : version' = [version EXCEPT ![m] = v]
        BY <1>11, <3>2 DEF DisableDeltaUpdates
      <4>2. m \in Mods /\ Applied(m) \subseteq Nat
        BY <4>1, AppliedType
      <4> QED
        BY <4>1, <4>2 DEF TypeOK
    <3> QED
      BY <3>1, <3>2
  <2>2. asked' \in [Mods -> [Urls -> 0..MaxRequests]]
    BY <1>11, DeltaAssumptions DEF DisableDeltaUpdates, Fresh, NoRequests, NoneOfUrls
  <2>3. proc' \in {"up", "aborted"}
    BY <1>11 DEF DisableDeltaUpdates
  <2>4. posted' \in Seq(Mods) /\ signals' \in Seq(Mods)
    BY <1>11 DEF DisableDeltaUpdates, Fresh
  <2>5. NoneOfUrls \in [Urls -> 0..MaxRequests]
    BY DeltaAssumptions DEF NoneOfUrls
  <2> QED
    BY <1>11, <2>1, <2>2, <2>3, <2>4, <2>5 DEF DisableDeltaUpdates, Fresh, TypeOK,
       InPatcher
<1>12. CASE PatcherTakes
  <2>1. Head(posted) \in Mods /\ posted' \in Seq(Mods)
    BY <1>12, TailFacts DEF PatcherTakes, TypeOK
  <2> QED
    BY <1>12, <2>1 DEF PatcherTakes, TypeOK, InPatcher
<1>13. CASE PatcherFails
  <2>1. patchingMod \in Mods
    BY <1>13 DEF PatcherFails, InPatcher
  <2>2. signals' \in Seq(Mods)
    BY <1>13, <2>1, AppendFacts DEF PatcherFails, TypeOK
  <2> QED
    BY <1>13, <2>1, <2>2 DEF PatcherFails, TypeOK, InPatcher
<1>14. CASE PatcherApplies
  <2>1. patchingMod \in Mods
    BY <1>14 DEF PatcherApplies, InPatcher
  <2>2. signals' \in Seq(Mods)
    BY <1>14, <2>1, AppendFacts DEF PatcherApplies, TypeOK
  <2>3. version' \in [Mods -> Nat]
    BY <1>14, <2>1, AppliedType DEF PatcherApplies, TypeOK
  <2> QED
    BY <1>14, <2>1, <2>2, <2>3 DEF PatcherApplies, TypeOK, InPatcher
<1>15. CASE PatcherClears
  BY <1>15 DEF PatcherClears, TypeOK, InPatcher
<1>16. ASSUME NEW u \in Urls, TorrentFinished(u)
       PROVE  TypeInv'
  BY <1>16 DEF TorrentFinished, TypeOK, InPatcher
<1>17. CASE UNCHANGED vars
  BY <1>17 DEF vars, TypeOK, InPatcher
<1> QED
  BY <1>1, <1>3, <1>4, <1>5, <1>6, <1>7, <1>8, <1>9, <1>10, <1>11, <1>12,
     <1>13, <1>14, <1>15, <1>16, <1>17 DEF Next, Patching

\* Delta patching's state is well typed.
THEOREM DeltaTypeCorrect == Spec => []TypeOK
<1>1. TypeInv => TypeOK
  BY DEF TypeInv
<1> QED
  BY TypeInit, TypeStep, <1>1, PTL DEF Spec

-----------------------------------------------------------------------------
(* Who holds a mod.                                                        *)

\* Every step keeps each mod in one place.
LEMMA HeldStep == TypeInv /\ HeldOnce /\ [Next]_vars => HeldOnce'
<1> SUFFICES ASSUME TypeInv, HeldOnce, [Next]_vars
             PROVE  HeldOnce'
  OBVIOUS
<1> USE DEF TypeInv, manager, downloader, patcher, outside
<1>1. ASSUME UNCHANGED <<keyHash, inDownload, posted, thread, patchingMod, signals>>
      PROVE  HeldOnce'
  BY <1>1 DEF HeldOnce, InPatcher, Elements, Distinct
<1>2. ASSUME NEW m \in Mods, Patch(m)
      PROVE  HeldOnce'
  <2>1. UNCHANGED <<posted, signals, thread, patchingMod>>
    BY <1>2 DEF Patch
  <2>2. /\ Elements(posted)' = Elements(posted) /\ Elements(signals)' = Elements(signals)
        /\ InPatcher' = InPatcher
        /\ (Distinct(posted) => Distinct(posted)')
        /\ (Distinct(signals) => Distinct(signals)')
    BY <2>1 DEF Elements, Distinct, InPatcher
  <2> QED
    BY <1>2, <2>2 DEF Patch, HeldOnce
<1>3. ASSUME NEW m \in Mods, Update(m)
      PROVE  HeldOnce'
  <2>1. posted' = Append(posted, m) /\ UNCHANGED <<signals, thread, patchingMod>>
    BY <1>3 DEF Update
  <2>2. /\ Elements(posted)' = Elements(posted) \cup {m}
        /\ Distinct(posted) /\ m \notin Elements(posted) => Distinct(posted)'
    BY <2>1, AppendFacts DEF TypeOK
  <2>3. /\ Elements(signals)' = Elements(signals) /\ InPatcher' = InPatcher
        /\ (Distinct(signals) => Distinct(signals)')
    BY <2>1 DEF Elements, Distinct, InPatcher
  <2> QED
    BY <1>3, <2>2, <2>3 DEF Update, HeldOnce
<1>4. CASE HandlePatched
  <2>1. /\ signals \in Seq(Mods) /\ signals # <<>> /\ signals' = Tail(signals)
        /\ UNCHANGED <<posted, thread, patchingMod>>
    BY <1>4 DEF HandlePatched, TypeOK
  <2>2. /\ Elements(signals) = Elements(signals)' \cup {Head(signals)}
        /\ Distinct(signals) => Distinct(signals)' /\ Head(signals) \notin Elements(signals)'
    BY <2>1, TailFacts
  <2>3. /\ Elements(posted)' = Elements(posted) /\ InPatcher' = InPatcher
        /\ (Distinct(posted) => Distinct(posted)')
    BY <2>1 DEF Elements, Distinct, InPatcher
  <2> QED
    BY <1>4, <2>2, <2>3 DEF HandlePatched, HeldOnce
<1>5. CASE DisableDeltaUpdates
  <2>1. Elements(<<>>) = {} /\ Distinct(<<>>)
    BY DEF Elements, Distinct
  <2> QED
    BY <1>5, <2>1 DEF DisableDeltaUpdates, Fresh, HeldOnce, InPatcher
<1>6. CASE PatcherTakes
  <2>1. /\ posted \in Seq(Mods) /\ posted # <<>> /\ posted' = Tail(posted)
        /\ UNCHANGED <<signals, keyHash, inDownload>>
        /\ InPatcher = {} /\ InPatcher' = {Head(posted)}
    BY <1>6 DEF PatcherTakes, TypeOK, InPatcher
  <2>2. /\ Elements(posted) = Elements(posted)' \cup {Head(posted)}
        /\ Distinct(posted) => Distinct(posted)' /\ Head(posted) \notin Elements(posted)'
    BY <2>1, TailFacts
  <2>3. /\ Elements(signals)' = Elements(signals)
        /\ (Distinct(signals) => Distinct(signals)')
    BY <2>1 DEF Elements, Distinct
  <2> QED
    BY <2>1, <2>2, <2>3 DEF HeldOnce
<1>7. CASE PatcherFails \/ PatcherApplies
  <2>1. /\ patchingMod \in Mods /\ signals \in Seq(Mods)
        /\ signals' = Append(signals, patchingMod)
        /\ UNCHANGED <<posted, keyHash, inDownload>>
        /\ InPatcher = {patchingMod} /\ InPatcher' = {}
    BY <1>7 DEF PatcherFails, PatcherApplies, TypeOK, InPatcher
  <2>2. /\ Elements(signals)' = Elements(signals) \cup {patchingMod}
        /\ Distinct(signals) /\ patchingMod \notin Elements(signals) => Distinct(signals)'
    BY <2>1, AppendFacts
  <2>3. /\ Elements(posted)' = Elements(posted)
        /\ (Distinct(posted) => Distinct(posted)')
    BY <2>1 DEF Elements, Distinct
  <2> QED
    BY <2>1, <2>2, <2>3 DEF HeldOnce
<1>8. CASE PatcherClears
  <2>1. InPatcher = {} /\ InPatcher' = {} /\ UNCHANGED <<posted, signals, keyHash, inDownload>>
    BY <1>8 DEF PatcherClears, InPatcher
  <2>2. /\ Elements(posted)' = Elements(posted) /\ Elements(signals)' = Elements(signals)
        /\ (Distinct(posted) => Distinct(posted)')
        /\ (Distinct(signals) => Distinct(signals)')
    BY <2>1 DEF Elements, Distinct
  <2> QED
    BY <2>1, <2>2 DEF HeldOnce
<1>9. ASSUME NEW m \in Mods, NEW u \in Urls, Reply(m, u) \/ ReplyFails(m, u)
      PROVE  HeldOnce'
  BY <1>1, <1>9 DEF Reply, ReplyFails, Answered
<1>10. CASE MirrorDeltaPatches \/ EnableDeltaUpdates
  BY <1>1, <1>10 DEF MirrorDeltaPatches, EnableDeltaUpdates
<1>11. ASSUME NEW u \in Urls, MirrorReply(u) \/ TorrentFinished(u)
       PROVE  HeldOnce'
  BY <1>1, <1>11 DEF MirrorReply, TorrentFinished
<1>12. ASSUME NEW urls \in UrlLists, SetDeltaUrls(urls)
       PROVE  HeldOnce'
  BY <1>1, <1>12 DEF SetDeltaUrls
<1>13. CASE UNCHANGED vars
  BY <1>1, <1>13 DEF vars
<1> QED
  BY <1>2, <1>3, <1>4, <1>5, <1>6, <1>7, <1>8, <1>9, <1>10, <1>11, <1>12,
     <1>13 DEF Next, Patching

\* Initially no mod is held.
LEMMA HeldInit == Init => HeldOnce
<1>1. Elements(<<>>) = {} /\ Distinct(<<>>)
  BY DEF Elements, Distinct
<1> QED
  BY <1>1 DEF Init, HeldOnce, InPatcher

\* Each mod under the DeltaManager is in one place, whatever fails.
THEOREM HeldOnceAlways == Spec => []HeldOnce
<1>1. Init => TypeInv /\ HeldOnce
  BY TypeInit, HeldInit
<1>2. TypeInv /\ HeldOnce /\ [Next]_vars => (TypeInv /\ HeldOnce)'
  BY TypeStep, HeldStep
<1> QED
  BY <1>1, <1>2, PTL DEF Spec

-----------------------------------------------------------------------------
(* The manager's timer and inDl_.                                          *)

\* Every step keeps a waiting mod polled, and inDl_ covered by requests: only
\* mirrorDeltaPatches fills inDl_ without requests, when no mod waits.
LEMMA WaitStep ==
  TypeInv /\ HeldOnce /\ WaitIsPolled /\ [Next]_vars => WaitIsPolled'
<1> SUFFICES ASSUME TypeInv, HeldOnce, WaitIsPolled, [Next]_vars
             PROVE  WaitIsPolled'
  OBVIOUS
<1> USE DEF TypeInv, manager, downloader, patcher, outside
<1>1. ASSUME UNCHANGED <<inDownload, timer, inDl, asked>>
      PROVE  WaitIsPolled'
  BY <1>1 DEF WaitIsPolled
<1>2. ASSUME NEW m \in Mods, Patch(m)
      PROVE  WaitIsPolled'
  <2>1. ASSUME NEW u \in inDl'
        PROVE  asked'[m][u] > 0
    <3> DEFINE urls == DeltaUrls(m)
    <3>1. u \in urls /\ u \in Urls
      <4>1. u \in urls
        <5>1. inDl' = urls \ ({w \in urls : mirrored[w] > 0} \cap urlHandle)
          BY <1>2 DEF Patch
        <5> QED
          BY <2>1, <5>1
      <4>2. list \subseteq Urls
        BY DeltaAssumptions DEF TypeOK
      <4>3. urls \subseteq list
        BY DEF DeltaUrls
      <4> QED
        BY <4>1, <4>2, <4>3
    <3>2. asked'[m][u] = asked[m][u] + 1
      BY <1>2, <2>1, <3>1 DEF Patch, TypeOK
    <3>3. asked[m][u] \in Nat
      BY <3>1, DeltaAssumptions DEF TypeOK
    <3> QED
      BY <3>2, <3>3
  <2> QED
    BY <1>2, <2>1 DEF Patch, WaitIsPolled
<1>3. ASSUME NEW m \in Mods, NEW u \in Urls, Answered(m, u)
      PROVE  WaitIsPolled'
  <2>1. inDl' = inDl \ {u} /\ UNCHANGED <<inDownload, timer>>
    BY <1>3 DEF Answered
  <2>2. ASSUME NEW n \in Mods, NEW w \in Urls, w # u
        PROVE  asked'[n][w] = asked[n][w]
    BY <1>3, <2>2 DEF Answered, TypeOK
  <2>3. inDl \subseteq Urls
    BY DEF TypeOK
  <2> QED
    BY <2>1, <2>2, <2>3 DEF WaitIsPolled
<1>4. CASE MirrorDeltaPatches
  BY <1>4 DEF MirrorDeltaPatches, HeldOnce, WaitIsPolled
<1>5. ASSUME NEW m \in Mods, Update(m)
      PROVE  WaitIsPolled'
  BY <1>5 DEF Update, WaitIsPolled
<1>6. CASE HandlePatched
  <2>1. Head(signals) \in Elements(signals)
    BY <1>6, TailFacts DEF HandlePatched, TypeOK
  <2>2. inDownload \subseteq keyHash'
    BY <1>6, <2>1 DEF HandlePatched, HeldOnce
  <2> QED
    BY <1>6, <2>2 DEF HandlePatched, WaitIsPolled
<1>7. CASE DisableDeltaUpdates
  BY <1>7 DEF DisableDeltaUpdates, Fresh, WaitIsPolled
<1>8. ASSUME NEW m \in Mods, NEW u \in Urls, Reply(m, u) \/ ReplyFails(m, u)
      PROVE  WaitIsPolled'
  BY <1>3, <1>8 DEF Reply, ReplyFails
<1>9. ASSUME NEW u \in Urls, MirrorReply(u) \/ TorrentFinished(u)
      PROVE  WaitIsPolled'
  BY <1>1, <1>9 DEF MirrorReply, TorrentFinished
<1>10. ASSUME NEW urls \in UrlLists, SetDeltaUrls(urls)
       PROVE  WaitIsPolled'
  BY <1>1, <1>10 DEF SetDeltaUrls
<1>11. CASE EnableDeltaUpdates \/ PatcherTakes \/ PatcherFails \/ PatcherApplies
            \/ PatcherClears
  BY <1>1, <1>11 DEF EnableDeltaUpdates, PatcherTakes, PatcherFails,
     PatcherApplies, PatcherClears
<1>12. CASE UNCHANGED vars
  BY <1>1, <1>12 DEF vars
<1> QED
  BY <1>2, <1>4, <1>5, <1>6, <1>7, <1>8, <1>9, <1>10, <1>11, <1>12
     DEF Next, Patching

\* A mod that waits for its patches is polled, and inDl_ will become empty.
THEOREM WaitIsPolledAlways == Spec => []WaitIsPolled
<1>1. Init => TypeInv /\ HeldOnce /\ WaitIsPolled
  BY TypeInit, HeldInit DEF Init, WaitIsPolled
<1>2. TypeInv /\ HeldOnce /\ WaitIsPolled /\ [Next]_vars
        => (TypeInv /\ HeldOnce /\ WaitIsPolled)'
  BY TypeStep, HeldStep, WaitStep
<1> QED
  BY <1>1, <1>2, PTL DEF Spec

-----------------------------------------------------------------------------
(* DeltaSync implements PatchService.                                      *)

\* A first torrent comes only for a mod that still waits for it.
AskedHeld ==
  \A m \in Mods, u \in Urls :
    asked[m][u] > 0 /\ handleMap[m] = {} => m \in inDownload

RefInv == TypeInv /\ HeldOnce /\ AskedHeld

\* Every step keeps AskedHeld.
LEMMA AskedStep == RefInv /\ [Next]_vars => AskedHeld'
<1> SUFFICES ASSUME RefInv, [Next]_vars
             PROVE  AskedHeld'
  OBVIOUS
<1> USE DEF RefInv, TypeInv, manager, downloader, patcher, outside
<1>1. ASSUME UNCHANGED <<inDownload, asked, handleMap>>
      PROVE  AskedHeld'
  BY <1>1 DEF AskedHeld
<1>2. ASSUME NEW m \in Mods, Patch(m)
      PROVE  AskedHeld'
  <2>1. ASSUME NEW n \in Mods, n # m, NEW u \in Urls
        PROVE  asked'[n][u] = asked[n][u] /\ handleMap'[n] = handleMap[n]
    BY <1>2, <2>1 DEF Patch, TypeOK
  <2>2. inDownload' = inDownload \cup {m}
    BY <1>2 DEF Patch
  <2> QED
    BY <2>1, <2>2 DEF AskedHeld
<1>3. ASSUME NEW m \in Mods, NEW u \in Urls, Reply(m, u) \/ ReplyFails(m, u)
      PROVE  AskedHeld'
  <2>1. UNCHANGED inDownload
    BY <1>3 DEF Reply, ReplyFails, Answered
  <2>2. ASSUME NEW n \in Mods, NEW w \in Urls
        PROVE  /\ asked'[n][w] > 0 => asked[n][w] > 0
               /\ handleMap'[n] = {} => handleMap[n] = {}
    <3>1. asked[m][u] \in Nat
      BY DeltaAssumptions DEF TypeOK
    <3>2. asked'[n][w] > 0 => asked[n][w] > 0
      <4>1. asked[m][u] > 0 /\ asked' = [asked EXCEPT ![m][u] = @ - 1]
        BY <1>3 DEF Reply, ReplyFails, Answered
      <4>2. CASE n = m /\ w = u
        BY <4>1, <4>2
      <4>3. CASE ~(n = m /\ w = u)
        BY <4>1, <4>3 DEF TypeOK
      <4> QED
        BY <4>2, <4>3
    <3>3. handleMap'[n] = {} => handleMap[n] = {}
      BY <1>3 DEF Reply, ReplyFails, TypeOK
    <3> QED
      BY <3>2, <3>3
  <2> QED
    BY <2>1, <2>2 DEF AskedHeld
<1>4. ASSUME NEW m \in Mods, Update(m)
      PROVE  AskedHeld'
  <2>1. handleMap[m] # {}
    BY <1>4 DEF Update, PatchesDownloaded
  <2> QED
    BY <1>4, <2>1 DEF Update, AskedHeld
<1>5. CASE DisableDeltaUpdates
  BY <1>5 DEF DisableDeltaUpdates, Fresh, NoRequests, NoneOfUrls, AskedHeld
<1>6. ASSUME NEW u \in Urls, MirrorReply(u) \/ TorrentFinished(u)
      PROVE  AskedHeld'
  BY <1>1, <1>6 DEF MirrorReply, TorrentFinished
<1>7. ASSUME NEW urls \in UrlLists, SetDeltaUrls(urls)
      PROVE  AskedHeld'
  BY <1>1, <1>7 DEF SetDeltaUrls
<1>8. CASE HandlePatched \/ MirrorDeltaPatches \/ EnableDeltaUpdates \/ Patching
  BY <1>1, <1>8 DEF HandlePatched, MirrorDeltaPatches, EnableDeltaUpdates,
     Patching, PatcherTakes, PatcherFails, PatcherApplies, PatcherClears
<1>9. CASE UNCHANGED vars
  BY <1>1, <1>9 DEF vars
<1> QED
  BY <1>2, <1>3, <1>4, <1>5, <1>6, <1>7, <1>8, <1>9 DEF Next

\* What the refinement mapping makes of a place.
StageOK ==
  /\ Stage \in [Mods -> {"none", "download", "patch", "signal"}]
  /\ \A m \in Mods :
       /\ Stage[m] = "none" <=> m \notin keyHash
       /\ Stage[m] = "download" <=> m \in inDownload
       /\ Stage[m] = "patch" <=> m \in Elements(posted) \cup InPatcher
       /\ Stage[m] = "signal" <=> m \in Elements(signals)

\* The mapping gives each mod the stage of its one place.
LEMMA StageFacts == TypeInv /\ HeldOnce => StageOK
  BY DEF Stage, StageOK, HeldOnce

\* A step that moves one mod from one stage to another.
LEMMA StageMoves ==
  ASSUME StageOK, StageOK', NEW m \in Mods,
         NEW to \in {"none", "download", "patch", "signal"}, Stage'[m] = to,
         \A n \in Mods \ {m} : Stage'[n] = Stage[n]
  PROVE  Stage' = [Stage EXCEPT ![m] = to]
  BY DEF StageOK

\* Every step is a step of the service or leaves it alone.
LEMMA ServiceStep ==
  RefInv /\ RefInv' /\ [Next]_vars => [Service!Next]_(Service!vars)
<1> SUFFICES ASSUME RefInv, RefInv', [Next]_vars
             PROVE  [Service!Next]_(Service!vars)
  OBVIOUS
<1>a. StageOK /\ StageOK'
  <2>1. (TypeInv /\ HeldOnce)' => StageOK'
    BY StageFacts, PTL
  <2> QED
    BY <2>1, StageFacts DEF RefInv
<1> USE DEF RefInv, TypeInv, manager, downloader, patcher, outside
<1>1. ASSUME UNCHANGED <<inDownload, posted, thread, patchingMod, signals, handleMap>>
      PROVE  [Service!Next]_(Service!vars)
  BY <1>1 DEF Service!vars, Stage, Known, Elements, InPatcher
<1>2. ASSUME UNCHANGED <<posted, thread, patchingMod>>
      PROVE  Elements(posted)' = Elements(posted) /\ InPatcher' = InPatcher
  BY <1>2 DEF Elements, InPatcher
<1>3. ASSUME UNCHANGED signals
      PROVE  Elements(signals)' = Elements(signals)
  BY <1>3 DEF Elements
<1>4. ASSUME UNCHANGED handleMap
      PROVE  UNCHANGED Known
  BY <1>4 DEF Known
<1>5. ASSUME NEW m \in Mods, Patch(m)
      PROVE  Service!Take(m)
  <2>1. UNCHANGED <<posted, thread, patchingMod, signals>>
    BY <1>5 DEF Patch
  <2>2. /\ Elements(posted)' = Elements(posted) /\ InPatcher' = InPatcher
        /\ Elements(signals)' = Elements(signals)
    BY <1>2, <1>3, <2>1
  <2>3. /\ m \notin keyHash /\ keyHash' = keyHash \cup {m}
        /\ inDownload' = inDownload \cup {m}
    BY <1>5 DEF Patch
  <2>4. Stage[m] = "none" /\ Stage'[m] = "download"
    BY <1>a, <2>3 DEF StageOK
  <2>5. ASSUME NEW n \in Mods \ {m}
        PROVE  Stage'[n] = Stage[n]
    BY <1>a, <2>2, <2>3 DEF StageOK
  <2>6. Stage' = [Stage EXCEPT ![m] = "download"]
    BY <1>a, <2>4, <2>5, StageMoves
  <2>7. ASSUME NEW n \in Mods \ {m}
        PROVE  handleMap'[n] = handleMap[n]
    BY <1>5 DEF Patch, TypeOK
  <2>8. handleMap[m] \subseteq handleMap'[m]
    BY <1>5 DEF Patch, TypeOK
  <2>9. Known' \in {Known, Known \cup {m}}
    BY <2>7, <2>8 DEF Known
  <2> QED
    BY <2>4, <2>6, <2>9 DEF Service!Take, Service!Pass
<1>6. ASSUME NEW m \in Mods, NEW u \in Urls, Reply(m, u)
      PROVE  [Service!Next]_(Service!vars)
  <2>1. UNCHANGED <<inDownload, posted, thread, patchingMod, signals>>
    BY <1>6 DEF Reply, Answered
  <2>2. UNCHANGED Stage
    BY <2>1 DEF Stage, Elements, InPatcher
  <2>3. Known' = Known \cup {m}
    <3>1. /\ handleMap'[m] = handleMap[m] \cup {u}
          /\ \A n \in Mods \ {m} : handleMap'[n] = handleMap[n]
      BY <1>6 DEF Reply, TypeOK
    <3> QED
      BY <3>1 DEF Known
  <2>4. CASE m \in Known
    BY <2>2, <2>3, <2>4 DEF Service!vars
  <2>5. CASE m \notin Known
    <3>1. m \in inDownload
      BY <1>6, <2>5 DEF Reply, Answered, AskedHeld, Known
    <3>2. Stage[m] = "download"
      BY <1>a, <3>1 DEF StageOK
    <3>3. Service!Fetched(m)
      BY <2>2, <2>3, <2>5, <3>2 DEF Service!Fetched
    <3> QED
      BY <3>3 DEF Service!Next
  <2> QED
    BY <2>4, <2>5
<1>7. ASSUME NEW m \in Mods, Update(m)
      PROVE  Service!Start(m)
  <2>1. /\ m \in inDownload /\ inDownload' = inDownload \ {m}
        /\ posted' = Append(posted, m) /\ m \in Known
        /\ UNCHANGED <<keyHash, thread, patchingMod, signals, handleMap>>
    BY <1>7 DEF Update, PatchesDownloaded, Known
  <2>2. /\ Elements(posted)' = Elements(posted) \cup {m}
        /\ Elements(signals)' = Elements(signals) /\ InPatcher' = InPatcher
    BY <1>3, <2>1, AppendFacts DEF TypeOK, InPatcher
  <2>3. Stage[m] = "download" /\ Stage'[m] = "patch"
    BY <1>a, <2>1, <2>2 DEF StageOK
  <2>4. ASSUME NEW n \in Mods \ {m}
        PROVE  Stage'[n] = Stage[n]
    BY <1>a, <2>1, <2>2 DEF StageOK
  <2>5. Stage' = [Stage EXCEPT ![m] = "patch"]
    BY <1>a, <2>3, <2>4, StageMoves
  <2> QED
    BY <1>4, <2>1, <2>3, <2>5 DEF Service!Start, Service!Pass
<1>8. ASSUME HandlePatched
      PROVE  \E m \in Mods : Service!Return(m)
  <2> DEFINE m == Head(signals)
  <2>1. /\ signals # <<>> /\ signals' = Tail(signals)
        /\ keyHash' = keyHash \ {m}
        /\ UNCHANGED <<inDownload, posted, thread, patchingMod, handleMap>>
    BY <1>8 DEF HandlePatched
  <2>2. /\ m \in Mods /\ Elements(signals) = Elements(signals)' \cup {m}
        /\ m \notin Elements(signals)'
    BY <2>1, TailFacts DEF TypeOK, HeldOnce
  <2> HIDE DEF m
  <2>3. Elements(posted)' = Elements(posted) /\ InPatcher' = InPatcher
    BY <1>2, <2>1
  <2>4. Stage[m] = "signal" /\ Stage'[m] = "none"
    BY <1>a, <2>1, <2>2 DEF StageOK
  <2>5. ASSUME NEW n \in Mods \ {m}
        PROVE  Stage'[n] = Stage[n]
    BY <1>a, <2>1, <2>2, <2>3 DEF StageOK
  <2>6. Stage' = [Stage EXCEPT ![m] = "none"]
    BY <1>a, <2>2, <2>4, <2>5, StageMoves
  <2>7. Service!Return(m)
    BY <1>4, <2>1, <2>4, <2>6 DEF Service!Return, Service!Pass
  <2> QED
    BY <2>2, <2>7
<1>9. ASSUME DisableDeltaUpdates
      PROVE  Service!Clear
  <2>1. Stage' = [m \in Mods |-> "none"]
    BY <1>9 DEF DisableDeltaUpdates, Fresh, Stage, Elements, InPatcher
  <2>2. Known' = {}
    BY <1>9 DEF DisableDeltaUpdates, Fresh, Known
  <2> QED
    BY <2>1, <2>2 DEF Service!Clear
<1>10. ASSUME PatcherTakes
       PROVE  [Service!Next]_(Service!vars)
  <2>1. /\ posted # <<>> /\ posted' = Tail(posted)
        /\ InPatcher = {} /\ InPatcher' = {Head(posted)}
        /\ UNCHANGED <<inDownload, signals, handleMap>>
    BY <1>10 DEF PatcherTakes, InPatcher
  <2>2. Elements(posted) = Elements(posted)' \cup {Head(posted)}
    BY <2>1, TailFacts DEF TypeOK
  <2>3. Elements(posted)' \cup InPatcher' = Elements(posted) \cup InPatcher
    BY <2>1, <2>2
  <2>4. UNCHANGED Stage
    BY <1>3, <2>1, <2>3 DEF Stage
  <2> QED
    BY <1>4, <2>1, <2>4 DEF Service!vars
<1>11. ASSUME PatcherFails \/ PatcherApplies
       PROVE  \E m \in Mods : Service!End(m)
  <2> DEFINE m == patchingMod
  <2>1. /\ InPatcher = {m} /\ InPatcher' = {} /\ m \in Mods
        /\ signals' = Append(signals, m)
        /\ UNCHANGED <<keyHash, inDownload, posted, handleMap>>
    BY <1>11 DEF PatcherFails, PatcherApplies, InPatcher
  <2> HIDE DEF m
  <2>2. Elements(signals)' = Elements(signals) \cup {m}
    BY <2>1, AppendFacts DEF TypeOK
  <2>3. Elements(posted)' = Elements(posted)
    BY <2>1 DEF Elements
  <2>4. Stage[m] = "patch" /\ Stage'[m] = "signal"
    BY <1>a, <2>1, <2>2 DEF StageOK
  <2>5. ASSUME NEW n \in Mods \ {m}
        PROVE  Stage'[n] = Stage[n]
    BY <1>a, <2>1, <2>2, <2>3 DEF StageOK
  <2>6. Stage' = [Stage EXCEPT ![m] = "signal"]
    BY <1>a, <2>1, <2>4, <2>5, StageMoves
  <2>7. Service!End(m)
    BY <1>4, <2>1, <2>4, <2>6 DEF Service!End, Service!Pass
  <2> QED
    BY <2>1, <2>7
<1>12. ASSUME PatcherClears
       PROVE  [Service!Next]_(Service!vars)
  <2>1. InPatcher = {} /\ InPatcher' = {} /\ UNCHANGED <<inDownload, posted, signals, handleMap>>
    BY <1>12 DEF PatcherClears, InPatcher
  <2>2. UNCHANGED Stage
    BY <2>1 DEF Stage, Elements
  <2> QED
    BY <1>4, <2>1, <2>2 DEF Service!vars
<1>13. ASSUME NEW m \in Mods, NEW u \in Urls, ReplyFails(m, u)
       PROVE  [Service!Next]_(Service!vars)
  BY <1>1, <1>13 DEF ReplyFails, Answered
<1>14. ASSUME NEW u \in Urls, MirrorReply(u) \/ TorrentFinished(u)
       PROVE  [Service!Next]_(Service!vars)
  BY <1>1, <1>14 DEF MirrorReply, TorrentFinished
<1>15. ASSUME NEW urls \in UrlLists, SetDeltaUrls(urls)
       PROVE  [Service!Next]_(Service!vars)
  BY <1>1, <1>15 DEF SetDeltaUrls
<1>16. CASE MirrorDeltaPatches \/ EnableDeltaUpdates
  BY <1>1, <1>16 DEF MirrorDeltaPatches, EnableDeltaUpdates
<1>17. CASE UNCHANGED vars
  BY <1>1, <1>17 DEF vars
<1>18. ASSUME \/ \E m \in Mods : \/ Service!Take(m) \/ Service!Start(m)
                                \/ Service!End(m) \/ Service!Return(m)
              \/ Service!Clear
       PROVE  [Service!Next]_(Service!vars)
  BY <1>18 DEF Service!Next
<1> QED
  BY <1>5, <1>6, <1>7, <1>8, <1>9, <1>10, <1>11, <1>12, <1>13, <1>14, <1>15,
     <1>16, <1>17, <1>18 DEF Next, Patching

\* The initial states are initial states of the service.
LEMMA ServiceInit == Init => Service!Init
  BY DEF Init, Service!Init, Stage, Known, Elements, InPatcher

\* DeltaSync keeps PatchService's promises for any mods and patches: stages in
\* order, no patching without a torrent, each mod back once.
THEOREM DeltaProvidesService == Spec => ProvidesService
<1>1. Init => RefInv
  BY TypeInit, HeldInit DEF Init, RefInv, AskedHeld, NoRequests, NoneOfUrls
<1>2. RefInv /\ [Next]_vars => RefInv'
  BY TypeStep, HeldStep, AskedStep DEF RefInv
<1> QED
  BY <1>1, <1>2, ServiceInit, ServiceStep, PTL DEF Spec, ProvidesService, Service!Spec
=============================================================================
