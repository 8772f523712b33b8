---------------------------- MODULE ModRunProofs ----------------------------
(* A mod runs exactly when it should, up to the events still on their way:   *)
(* NoLostStart and NoStrayRun in every reachable state of ModSync.  Of one   *)
(* mod a handler changes everything, of the others nothing, so the proof     *)
(* follows one mod n through every action: the action is n's own, or another *)
(* mod's and changes nothing n is judged by.                                 *)
EXTENDS ModSyncProofs

\* What the two properties say of one mod.
RunOk(n) ==
  /\ Up /\ ShouldRun(n) /\ HandleValid(n) /\ n \in paused
       => Notified(n) \/ n \in checking
  /\ Up /\ ~ShouldRun(n) /\ HandleValid(n) /\ n \notin paused
       => Notified(n) \/ n \in strayed

\* Only what is there is paused, so that nothing is added paused.
PausedIsThere == \A n \in paused : HandleValid(n)

\* The loop that adds folders again runs without a DeltaManager.
ReaddHasNoManager == readd # {} => ~deltaMgr

RunInv == (\A n \in Mods : RunOk(n)) /\ PausedIsThere /\ ReaddHasNoManager

-----------------------------------------------------------------------------
(* The queue. *)

\* What is posted stays, and what is appended is posted.
LEMMA RangeOfConcat ==
  ASSUME NEW S, NEW s \in Seq(S), NEW t \in Seq(S)
  PROVE  RangeOf(s) \subseteq RangeOf(s \o t) /\ RangeOf(t) \subseteq RangeOf(s \o t)
<1>1. ASSUME NEW e \in RangeOf(s)
      PROVE  e \in RangeOf(s \o t)
  <2>1. PICK i \in 1..Len(s) : e = s[i]
    BY DEF RangeOf
  <2>2. i \in 1..Len(s \o t) /\ (s \o t)[i] = e
    BY <2>1
  <2> QED
    BY <2>2 DEF RangeOf
<1>2. ASSUME NEW e \in RangeOf(t)
      PROVE  e \in RangeOf(s \o t)
  <2>1. PICK i \in 1..Len(t) : e = t[i]
    BY DEF RangeOf
  <2>2. Len(s) + i \in 1..Len(s \o t) /\ (s \o t)[Len(s) + i] = e
    BY <2>1
  <2> QED
    BY <2>2 DEF RangeOf
<1> QED
  BY <1>1, <1>2

\* Appending one event keeps the others.
LEMMA RangeOfAppend ==
  ASSUME NEW S, NEW s \in Seq(S), NEW e \in S
  PROVE  RangeOf(s) \subseteq RangeOf(Append(s, e))
<1>1. ASSUME NEW x \in RangeOf(s)
      PROVE  x \in RangeOf(Append(s, e))
  <2>1. PICK i \in 1..Len(s) : x = s[i]
    BY DEF RangeOf
  <2>2. i \in 1..Len(Append(s, e)) /\ Append(s, e)[i] = x
    BY <2>1
  <2> QED
    BY <2>2 DEF RangeOf
<1> QED
  BY <1>1

\* Taking the head removes no event but the head.
LEMMA RangeOfTail ==
  ASSUME NEW S, NEW s \in Seq(S), s # <<>>,
         NEW e \in RangeOf(s), e # Head(s)
  PROVE  e \in RangeOf(Tail(s))
<1>1. PICK i \in 1..Len(s) : e = s[i]
  BY DEF RangeOf
<1>2. i # 1
  BY <1>1
<1>3. i - 1 \in 1..Len(Tail(s)) /\ Tail(s)[i - 1] = e
  BY <1>1, <1>2
<1>4. Tail(s) \in Seq(S) /\ DOMAIN Tail(s) = 1..Len(Tail(s))
  OBVIOUS
<1> QED
  BY <1>3, <1>4 DEF RangeOf

\* Every mod of the sequence gets its event.
LEMMA PostRange ==
  ASSUME NEW kind, NEW mods \in Seq(Mods), NEW n \in RangeOf(mods)
  PROVE  <<kind, n>> \in RangeOf(Post(kind, mods))
  BY DEF Post, RangeOf

\* A mod's posted notice survives the handling of any event but itself.
LEMMA NoticeSurvives ==
  ASSUME TypeOK, NEW n, NEW e, Takes(e), e # <<"changed", n>>,
         UNCHANGED clicking, Notified(n),
         \/ queue' = Tail(queue)
         \/ \E x \in Event : queue' = Append(Tail(queue), x)
  PROVE  Notified(n)'
<1>1. CASE clicking \in ReposOf(n)
  BY <1>1 DEF Notified, ReposOf
<1>2. CASE <<"changed", n>> \in RangeOf(queue)
  <2>1. <<"changed", n>> \in RangeOf(Tail(queue))
    BY <1>2, RangeOfTail DEF Takes, TypeOK
  <2>2. Tail(queue) \in Seq(Event)
    BY TakesType
  <2>3. RangeOf(Tail(queue)) \subseteq RangeOf(queue')
    BY <2>2, RangeOfAppend
  <2>4. <<"changed", n>> \in RangeOf(queue')
    BY <2>1, <2>3
  <2> QED
    BY <2>4 DEF Notified, RangeOf
<1> QED
  BY <1>1, <1>2 DEF Notified

-----------------------------------------------------------------------------
(* What a step must leave alone for a mod to stay as it should be.          *)

\* The ticks alone decide whether a mod should run.
LEMMA ShouldRunStays ==
  ASSUME NEW n, UNCHANGED <<repoTicked, modTicked, repoActive>>
  PROVE  ShouldRun(n)' = ShouldRun(n)
  BY DEF ShouldRun, TickedNow, ReposInactive, AdapterTicked, ReposOf

\* A mod nothing of which changes stays as it should be.
LEMMA RunFrame ==
  ASSUME NEW n \in Mods, RunOk(n),
         UNCHANGED gui,
         Notified(n) => Notified(n)',
         HandleValid(n)' => HandleValid(n),
         n \in paused' <=> n \in paused,
         n \in checking => n \in checking',
         n \in strayed => n \in strayed',
         proc' = "up" => proc = "up"
  PROVE  RunOk(n)'
<1>1. ShouldRun(n)' = ShouldRun(n)
  BY ShouldRunStays DEF gui
<1> QED
  BY <1>1 DEF RunOk, Up

\* A resumed mod is as it should be, or strayed.
LEMMA RunResumed ==
  ASSUME NEW n \in Mods, UNCHANGED gui, Resumed(n)
  PROVE  RunOk(n)'
<1>1. ShouldRun(n)' = ShouldRun(n)
  BY ShouldRunStays DEF gui
<1> QED
  BY <1>1 DEF RunOk, Resumed

\* A handle stays as it is when torrent, stage and patch torrent do.
LEMMA HandleStays ==
  ASSUME NEW n, tor'[n] = tor[n], delta'[n] = delta[n], UNCHANGED deltaMgr,
         n \in deltaKnown' <=> n \in deltaKnown
  PROVE  HandleValid(n)' <=> HandleValid(n)
  BY DEF HandleValid, DeltaContains

\* An event of mod m disturbs no other mod n.
Untouched(n) ==
  /\ tor'[n] = tor[n] /\ delta'[n] = delta[n]
  /\ n \in deltaKnown' <=> n \in deltaKnown
  /\ n \in paused' <=> n \in paused
  /\ n \in checking' <=> n \in checking
  /\ n \in strayed' <=> n \in strayed
  /\ UNCHANGED <<gui, deltaMgr>>
  /\ proc' = "up" => proc = "up"

\* So do all the mods a handler does not change.
LEMMA OthersStay ==
  ASSUME NEW n \in Mods, RunOk(n), Untouched(n), Notified(n) => Notified(n)'
  PROVE  RunOk(n)' /\ (HandleValid(n)' <=> HandleValid(n))
<1>1. HandleValid(n)' <=> HandleValid(n)
  BY HandleStays DEF Untouched
<1>2. RunOk(n)'
  BY <1>1, RunFrame DEF Untouched
<1> QED
  BY <1>1, <1>2

-----------------------------------------------------------------------------
(* Effects shared by several handlers.                                     *)

\* addFolderGenericAsync leaves its mod running, or without a handle.
LEMMA AddFolderGenericRuns ==
  ASSUME TypeOK, NEW m \in Mods, NEW over, NEW q, AddFolderGeneric(m, over, q),
         tor[m] = "none", delta'[m] = "none", UNCHANGED gui
  PROVE  /\ RunOk(m)' /\ m \notin paused'
         /\ paused' \subseteq paused
<1>1. CASE m \in params
  <2>1. Resumed(m)
    BY <1>1 DEF AddFolderGeneric, OnFolderAdded
  <2> QED
    BY <2>1, RunResumed DEF Resumed
<1>2. CASE m \notin params
  <2>1. tor' = tor /\ paused' = paused \ {m}
    BY <1>2 DEF AddFolderGeneric
  <2>2. ~HandleValid(m)'
    BY <2>1 DEF HandleValid, DeltaContains
  <2> QED
    BY <2>1, <2>2 DEF RunOk
<1> QED
  BY <1>1, <1>2

\* Of the other mods it changes nothing, and of the queue only the end.
LEMMA AddFolderGenericOthers ==
  ASSUME TypeOK, NEW m \in Mods, NEW over, NEW q, AddFolderGeneric(m, over, q)
  PROVE  /\ \A n \in Mods \ {m} : /\ tor'[n] = tor[n]
                                  /\ n \in paused' <=> n \in paused
                                  /\ n \in strayed' <=> n \in strayed
         /\ queue' = q \/ \E x \in Event : queue' = Append(q, x)
<1>1. CASE m \in params
  <2>1. <<"startUpdates", m>> \in Event
    BY DEF Event
  <2> QED
    BY <1>1, <2>1 DEF AddFolderGeneric, OnFolderAdded, Resumed, TypeOK
<1>2. CASE m \notin params
  BY <1>2 DEF AddFolderGeneric
<1> QED
  BY <1>1, <1>2

\* addFolder for a mod that is not there leaves it running or handleless,
\* provided a mod given to the DeltaManager should run.
LEMMA AddFolderRuns ==
  ASSUME TypeOK, OwnerInv, RunInv, NEW m \in Mods, NEW over, NEW q,
         AddFolder(m, over, q), Unowned(m), UNCHANGED <<gui, deltaKnown>>,
         deltaMgr' => ShouldRun(m)
  PROVE  RunOk(m)' /\ m \notin paused' /\ paused' \subseteq paused
<1>0. m \notin paused
  BY DEF RunInv, PausedIsThere, HandleValid, DeltaContains, Unowned
<1>1. CASE AddFolderGeneric(m, over, q) /\ UNCHANGED <<delta, pending>>
  BY <1>1, AddFolderGenericRuns DEF Unowned
<1>2. CASE deltaMgr' /\ UNCHANGED paused
  <2>1. ShouldRun(m)'
    BY <1>2, ShouldRunStays DEF gui
  <2> QED
    BY <1>0, <1>2, <2>1 DEF RunOk
<1>3. CASE /\ paused' = paused \ {m}
           /\ UNCHANGED <<delta, tor>>
  <2>1. ~HandleValid(m)'
    BY <1>3 DEF HandleValid, DeltaContains, Unowned
  <2> QED
    BY <1>0, <1>3, <2>1 DEF RunOk
<1> QED
  BY <1>1, <1>2, <1>3 DEF AddFolder

\* addFolder, too, changes nothing of the other mods.
LEMMA AddFolderOthers ==
  ASSUME TypeOK, NEW m \in Mods, NEW over, NEW q, AddFolder(m, over, q)
  PROVE  /\ \A n \in Mods \ {m} : /\ tor'[n] = tor[n] /\ delta'[n] = delta[n]
                                  /\ n \in paused' <=> n \in paused
                                  /\ n \in strayed' <=> n \in strayed
         /\ queue' = q \/ \E x \in Event : queue' = Append(q, x)
<1>1. CASE AddFolderGeneric(m, over, q) /\ UNCHANGED <<delta, pending>>
  BY <1>1, AddFolderGenericOthers
<1>2. CASE /\ delta' = [delta EXCEPT ![m] = "download"] /\ queue' = q
           /\ UNCHANGED <<tor, paused, strayed>>
  BY <1>2 DEF TypeOK
<1>3. CASE /\ paused' = paused \ {m} /\ queue' = q
           /\ UNCHANGED <<delta, tor, strayed>>
  BY <1>3
<1> QED
  BY <1>1, <1>2, <1>3 DEF AddFolder

\* A step of one mod m that leaves m as it should be.
LEMMA OneModStep ==
  ASSUME TypeOK', RunInv, NEW m \in Mods,
         \A n \in Mods \ {m} : Untouched(n) /\ (Notified(n) => Notified(n)'),
         RunOk(m)', m \in paused' => HandleValid(m)',
         ReaddHasNoManager'
  PROVE  RunInv'
<1>1. ASSUME NEW n \in Mods \ {m}
      PROVE  RunOk(n)' /\ (HandleValid(n)' <=> HandleValid(n))
  BY <1>1, OthersStay DEF RunInv
<1>2. \A n \in Mods : RunOk(n)'
  BY <1>1
<1>3. ASSUME NEW n \in paused'
      PROVE  HandleValid(n)'
  <2>1. CASE n = m
    BY <1>3, <2>1
  <2>2. CASE n # m
    <3>1. n \in Mods \ {m}
      BY <1>3, <2>2 DEF TypeOK
    <3> QED
      BY <1>1, <1>3, <3>1 DEF RunInv, PausedIsThere, Untouched
  <2> QED
    BY <2>1, <2>2
<1> QED
  BY <1>2, <1>3 DEF RunInv, PausedIsThere

\* Notices survive what is only appended to.
LEMMA NoticeKept ==
  ASSUME TypeOK, NEW n, UNCHANGED clicking, Notified(n),
         \/ queue' = queue
         \/ \E x \in Event : queue' = Append(queue, x)
         \/ \E t \in Seq(Event) : queue' = queue \o t
  PROVE  Notified(n)'
<1>1. CASE clicking \in ReposOf(n)
  BY <1>1 DEF Notified, ReposOf
<1>2. CASE <<"changed", n>> \in RangeOf(queue)
  <2>1. queue \in Seq(Event)
    BY DEF TypeOK
  <2>2. RangeOf(queue) \subseteq RangeOf(queue')
    BY <2>1, RangeOfAppend, RangeOfConcat
  <2> QED
    BY <1>2, <2>2 DEF Notified, RangeOf
<1> QED
  BY <1>1, <1>2 DEF Notified

-----------------------------------------------------------------------------
\* Nothing is paused and nothing has a handle at first.
LEMMA RunInit == Init => RunInv
  BY DEF Init, RunInv, RunOk, PausedIsThere, ReaddHasNoManager, HandleValid,
         DeltaContains

\* Mod::repositoryChanged ends a mod's notice and leaves it as it should be.
LEMMA RunRepositoryChanged ==
  ASSUME TypeOK, TypeOK', OwnerInv, RunInv, NEW m \in Mods, RepositoryChanged(m)
  PROVE  RunInv'
<1> USE DEF gui, disk, modv, api, dlt, hist
<1>0. /\ Takes(<<"changed", m>>) /\ readd = {}
      /\ UNCHANGED <<gui, checking, deltaMgr, deltaKnown, readd>>
  BY DEF RepositoryChanged, Start, Stop, Takes, Worker
<1>1. ShouldRun(m)' = ShouldRun(m)
  BY <1>0, ShouldRunStays
<1>2. CASE ShouldRun(m) /\ ~FolderExists(m)
  <2>1. AddFolder(m, TRUE, Tail(queue))
    BY <1>2 DEF RepositoryChanged, Start, Stop
  <2>2. Unowned(m)
    BY <1>2, NotThereUnowned
  <2>3. RunOk(m)' /\ m \notin paused'
    BY <1>0, <1>2, <2>1, <2>2, AddFolderRuns
  <2>4. ASSUME NEW n \in Mods \ {m}
        PROVE  Untouched(n) /\ (Notified(n) => Notified(n)')
    <3>1. \/ queue' = Tail(queue)
          \/ \E x \in Event : queue' = Append(Tail(queue), x)
      BY <2>1, AddFolderOthers
    <3>2. Notified(n) => Notified(n)'
      BY <1>0, <3>1, NoticeSurvives
    <3>3. Untouched(n)
      BY <1>0, <2>1, <2>4, AddFolderOthers DEF Untouched, Takes, Worker
    <3> QED
      BY <3>2, <3>3
  <2> QED
    BY <1>0, <2>3, <2>4, OneModStep DEF ReaddHasNoManager
<1>3. CASE ~(ShouldRun(m) /\ ~FolderExists(m))
  <2>1. UNCHANGED <<tor, delta>>
    BY <1>3 DEF RepositoryChanged, Start, Stop
  <2>2. HandleValid(m)' <=> HandleValid(m)
    BY <1>0, <2>1, HandleStays
  <2>3. /\ RunOk(m)' /\ (m \in paused' => HandleValid(m))
        /\ \A n \in Mods \ {m} : /\ n \in paused' <=> n \in paused
                                 /\ n \in strayed' <=> n \in strayed
    <3>1. CASE ~ShouldRun(m) /\ FolderExists(m) /\ HandleValid(m)
      BY <1>1, <3>1 DEF RepositoryChanged, Start, Stop, RunOk
    <3>2. CASE ~ShouldRun(m) /\ FolderExists(m) /\ ~HandleValid(m)
      BY <1>0, <3>2 DEF RepositoryChanged, Start, Stop, RunOk, Up, RunInv, PausedIsThere
    <3>3. CASE ~ShouldRun(m) /\ ~FolderExists(m)
      <4>1. ~HandleValid(m)
        BY <3>3 DEF HandleValid, FolderExists
      <4>2. UNCHANGED <<paused, strayed>>
        BY <3>3 DEF RepositoryChanged, Start, Stop
      <4> QED
        BY <2>2, <4>1, <4>2 DEF RunOk, RunInv, PausedIsThere
    <3>4. CASE ShouldRun(m) /\ FolderExists(m) /\ m \in paused
      <4>1. Resumed(m)
        BY <3>4 DEF RepositoryChanged, Start, Stop
      <4> QED
        BY <1>0, <4>1, RunResumed DEF Resumed
    <3>5. CASE ShouldRun(m) /\ FolderExists(m) /\ m \notin paused
      BY <1>1, <3>5 DEF RepositoryChanged, Start, Stop, RunOk
    <3> QED
      BY <1>3, <3>1, <3>2, <3>3, <3>4, <3>5
  <2>4. ASSUME NEW n \in Mods \ {m}
        PROVE  Untouched(n) /\ (Notified(n) => Notified(n)')
    <3>1. Untouched(n)
      BY <1>0, <2>1, <2>3, <2>4 DEF Untouched, Takes, Worker
    <3>2. queue' = Tail(queue) \/ queue' = queue
      BY <1>3 DEF RepositoryChanged, Start, Stop
    <3>3. Notified(n) => Notified(n)'
      BY <1>0, <3>2, NoticeSurvives, NoticeKept
    <3> QED
      BY <3>1, <3>3
  <2> QED
    BY <1>0, <2>2, <2>3, <2>4, OneModStep DEF ReaddHasNoManager
<1> QED
  BY <1>2, <1>3

\* The other posted events.
LEMMA RunWorker ==
  ASSUME TypeOK, TypeOK', OwnerInv, RunInv, WorkerEvent
  PROVE  RunInv'
<1> USE DEF gui, disk, modv, api, dlt, hist
<1>1. ASSUME NEW m \in Mods, RepositoryChanged(m)
      PROVE  RunInv'
  BY <1>1, RunRepositoryChanged
<1>2. ASSUME NEW m \in Mods, StartUpdates(m)
      PROVE  RunInv'
  <2>1. /\ Takes(<<"startUpdates", m>>) /\ queue' = Tail(queue)
        /\ UNCHANGED <<gui, api, dlt, proc, strayed>>
    BY <1>2 DEF StartUpdates
  <2>2. \A n \in Mods : Untouched(n) /\ (Notified(n) => Notified(n)')
    BY <2>1, NoticeSurvives DEF Untouched
  <2>3. RunOk(m)' /\ (HandleValid(m)' <=> HandleValid(m))
    BY <1>2, <2>2, OthersStay DEF RunInv
  <2> QED
    BY <1>2, <2>1, <2>2, <2>3, OneModStep
       DEF RunInv, PausedIsThere, ReaddHasNoManager
<1>3. ASSUME NEW m \in Mods, NEW kind \in {"check", "forceCheck"}, Check(kind, m)
      PROVE  RunInv'
  <2>1. /\ Takes(<<kind, m>>) /\ queue' = Tail(queue)
        /\ UNCHANGED <<gui, tor, dlt, proc>>
        /\ readd = {}
    BY <1>3 DEF Check, Takes, Worker
  <2>2. HandleValid(m)' <=> HandleValid(m)
    BY <2>1, HandleStays
  <2>3. Notified(m) => Notified(m)'
    BY <1>3, <2>1, NoticeSurvives
  <2>4. /\ RunOk(m)' /\ (m \in paused' => HandleValid(m))
        /\ \A n \in Mods \ {m} : /\ n \in paused' <=> n \in paused
                                 /\ n \in strayed' <=> n \in strayed
                                 /\ n \in checking' <=> n \in checking
    <3>1. CASE ~FolderChecking(m) /\ ~DeltaContains(m) /\ HandleValid(m)
      BY <1>3, <3>1 DEF Check, RunOk
    <3>2. CASE /\ FolderChecking(m) \/ DeltaContains(m) \/ ~HandleValid(m)
               /\ kind = "forceCheck" /\ HandleValid(m)
      <4>1. Resumed(m) /\ checking' = checking
        BY <1>3, <3>2 DEF Check
      <4> QED
        BY <1>3, <2>1, <4>1, RunResumed DEF Resumed
    <3>3. CASE /\ FolderChecking(m) \/ DeltaContains(m) \/ ~HandleValid(m)
               /\ ~(kind = "forceCheck" /\ HandleValid(m))
      <4>1. UNCHANGED <<paused, strayed, checking>>
        BY <1>3, <3>3 DEF Check
      <4>2. RunOk(m)'
        BY <1>3, <2>1, <2>2, <2>3, <4>1, RunFrame DEF RunInv
      <4> QED
        BY <4>1, <4>2 DEF RunInv, PausedIsThere
    <3> QED
      BY <3>1, <3>2, <3>3
  <2>5. \A n \in Mods \ {m} : Untouched(n) /\ (Notified(n) => Notified(n)')
    BY <1>3, <2>1, <2>4, NoticeSurvives DEF Untouched
  <2> QED
    BY <1>3, <2>1, <2>2, <2>4, <2>5, OneModStep DEF ReaddHasNoManager
<1>4. ASSUME NEW m \in Mods, MoveFiles(m)
      PROVE  RunInv'
  <2>1. /\ Takes(<<"move", m>>) /\ readd = {}
        /\ queue' = Tail(queue) \/ queue' = queue
        /\ UNCHANGED <<gui, paused, checking, strayed, dlt>>
        /\ \A n \in Mods \ {m} : tor'[n] = tor[n]
    BY <1>4 DEF MoveFiles, SetFolderPath, TypeOK, Takes, Worker
  <2>2. \A n \in Mods : Notified(n) => Notified(n)'
    BY <2>1, NoticeSurvives, NoticeKept
  <2>3. HandleValid(m)' <=> HandleValid(m)
    BY <1>4 DEF MoveFiles, SetFolderPath, HandleValid, DeltaContains, TypeOK
  <2>4. RunOk(m)'
    BY <1>4, <2>1, <2>2, <2>3, RunFrame DEF RunInv, Takes, Worker
  <2>5. \A n \in Mods \ {m} : Untouched(n)
    BY <2>1 DEF Untouched, Takes, Worker
  <2> QED
    BY <1>4, <2>1, <2>2, <2>3, <2>4, <2>5, OneModStep
       DEF RunInv, PausedIsThere, ReaddHasNoManager
<1>5. ASSUME NEW m \in Mods, ReAddFolder(m)
      PROVE  RunInv'
  <2>1. /\ AddFolder(m, FALSE, queue) /\ m \in readd /\ proc = "up"
        /\ UNCHANGED <<gui, checking, deltaMgr, deltaKnown>>
        /\ ~deltaMgr /\ ~deltaMgr'
    BY <1>5 DEF ReAddFolder, RunInv, ReaddHasNoManager
  <2>2. Unowned(m)
    BY <1>5, <2>1 DEF OwnerInv, Apart, Unowned
  <2>3. RunOk(m)' /\ m \notin paused'
    BY <1>5, <2>1, <2>2, AddFolderRuns
  <2>4. \/ queue' = queue
        \/ \E x \in Event : queue' = Append(queue, x)
    BY <1>5, <2>1, AddFolderOthers
  <2>5. \A n \in Mods \ {m} : Notified(n) => Notified(n)'
    BY <2>1, <2>4, NoticeKept
  <2>6. \A n \in Mods \ {m} : Untouched(n)
    BY <1>5, <2>1, AddFolderOthers DEF Untouched
  <2> QED
    BY <1>5, <2>1, <2>3, <2>5, <2>6, OneModStep DEF ReaddHasNoManager
<1>6. CASE EnableDeltaUpdates
  <2>1. /\ Takes(<<"enableDelta">>) /\ queue' = Tail(queue) /\ readd = {}
        /\ UNCHANGED <<gui, api, delta, deltaKnown, readd, proc, strayed>>
    BY <1>6 DEF EnableDeltaUpdates, Takes, Worker
  <2>2. ASSUME NEW n \in Mods
        PROVE  RunOk(n)' /\ (HandleValid(n) => HandleValid(n)')
    <3>1. HandleValid(n)' <=> HandleValid(n)
      BY <1>6, <2>1, <2>2 DEF EnableDeltaUpdates, HandleValid, DeltaContains,
                              OwnerInv, DeltaHasManager, TypeOK
    <3>2. <<"enableDelta">> # <<"changed", n>>
      OBVIOUS
    <3>3. Notified(n) => Notified(n)'
      BY <2>1, <3>2, NoticeSurvives
    <3> QED
      BY <2>1, <2>2, <3>1, <3>3, RunFrame DEF RunInv
  <2> QED
    BY <2>1, <2>2 DEF RunInv, PausedIsThere, ReaddHasNoManager, TypeOK
<1>7. CASE DisableDeltaUpdates
  <2>1. CASE Ended("aborted")
    <3>1. \A n \in Mods : HandleValid(n)' <=> HandleValid(n)
      BY <2>1, HandleStays DEF Ended
    <3> QED
      BY <2>1, <3>1 DEF Ended, RunInv, RunOk, Up, PausedIsThere,
                        ReaddHasNoManager, TypeOK
  <2>2. CASE /\ deltaMgr' = FALSE
             /\ readd' = {m \in Mods : DeltaContains(m)}
             /\ delta' = [m \in Mods |-> "none"]
             /\ paused' = paused \ readd'
             /\ queue' = Tail(queue)
             /\ UNCHANGED <<gui, tor, checking, proc, strayed>>
    <3>1. Takes(<<"disableDelta">>)
      BY <1>7 DEF DisableDeltaUpdates
    <3>2. ASSUME NEW n \in Mods
          PROVE  RunOk(n)' /\ (n \in paused' => HandleValid(n)')
      <4>1. <<"disableDelta">> # <<"changed", n>>
        OBVIOUS
      <4>2. Notified(n) => Notified(n)'
        BY <2>2, <3>1, <4>1, NoticeSurvives
      <4>3. CASE DeltaContains(n)
        <5>1. n \notin paused' /\ ~HandleValid(n)'
          BY <2>2, <3>2, <4>3 DEF DeltaContains, HandleValid, OwnerInv, Apart
        <5> QED
          BY <5>1 DEF RunOk
      <4>4. CASE ~DeltaContains(n)
        <5>1. n \in paused' <=> n \in paused
          BY <2>2, <4>4
        <5>2. HandleValid(n)' <=> HandleValid(n)
          BY <2>2, <3>2, <4>4 DEF DeltaContains, HandleValid
        <5>3. RunOk(n)'
          BY <2>2, <3>2, <4>2, <5>1, <5>2, RunFrame DEF RunInv
        <5> QED
          BY <5>1, <5>2, <5>3 DEF RunInv, PausedIsThere
      <4> QED
        BY <4>3, <4>4
    <3> QED
      BY <2>2, <3>2 DEF RunInv, PausedIsThere, ReaddHasNoManager, TypeOK
  <2> QED
    BY <1>7, <2>1, <2>2 DEF DisableDeltaUpdates
<1> QED
  BY <1>1, <1>2, <1>3, <1>4, <1>5, <1>6, <1>7 DEF WorkerEvent

\* Timers and completions: each resumes its own mod or leaves it alone.
LEMMA RunCompletion ==
  ASSUME TypeOK, TypeOK', OwnerInv, RunInv, NEW m \in Mods,
         \/ UpdateTimer(m) \/ FetchFinished(m) \/ FetchFailed(m)
         \/ CheckFinished(m) \/ HandlePatched(m) \/ StorageMoved(m)
  PROVE  RunInv'
<1> USE DEF gui, disk, modv, api, dlt, hist
<1>1. CASE UpdateTimer(m) \/ FetchFailed(m) \/ StorageMoved(m)
  <2>1. /\ UNCHANGED <<gui, tor, paused, checking, dlt, queue, strayed>>
        /\ proc = "up"
    BY <1>1 DEF UpdateTimer, FetchFailed, StorageMoved, Worker
  <2>2. \A n \in Mods : Untouched(n) /\ (Notified(n) => Notified(n)')
    BY <2>1, NoticeKept DEF Untouched
  <2>3. RunOk(m)' /\ (HandleValid(m)' <=> HandleValid(m))
    BY <2>2, OthersStay DEF RunInv
  <2> QED
    BY <2>1, <2>2, <2>3, OneModStep DEF RunInv, PausedIsThere, ReaddHasNoManager
<1>2. CASE FetchFinished(m)
  <2>1. /\ UNCHANGED <<gui, checking, dlt, proc>> /\ readd = {}
        /\ OnFolderAdded(m, dir, FALSE, queue)
    BY <1>2 DEF FetchFinished, Worker
  <2>2. /\ Resumed(m) /\ \E x \in Event : queue' = Append(queue, x)
        /\ \A n \in Mods \ {m} : tor'[n] = tor[n]
    <3>1. <<"startUpdates", m>> \in Event
      BY DEF Event
    <3> QED
      BY <2>1, <3>1 DEF OnFolderAdded, TypeOK
  <2>3. RunOk(m)' /\ m \notin paused'
    BY <2>1, <2>2, RunResumed DEF Resumed
  <2>4. \A n \in Mods \ {m} : Untouched(n) /\ (Notified(n) => Notified(n)')
    BY <2>1, <2>2, NoticeKept DEF Untouched, Resumed
  <2> QED
    BY <2>1, <2>3, <2>4, OneModStep DEF ReaddHasNoManager
<1>3. CASE CheckFinished(m)
  <2>1. /\ UNCHANGED <<gui, dlt, queue, proc>> /\ readd = {} /\ Resumed(m)
        /\ checking' = checking \ {m}
        /\ \A n \in Mods \ {m} : tor'[n] = tor[n]
    BY <1>3 DEF CheckFinished, Worker, TypeOK
  <2>2. RunOk(m)' /\ m \notin paused'
    BY <2>1, RunResumed DEF Resumed
  <2>3. \A n \in Mods \ {m} : Untouched(n) /\ (Notified(n) => Notified(n)')
    BY <2>1, NoticeKept DEF Untouched, Resumed
  <2> QED
    BY <2>1, <2>2, <2>3, OneModStep DEF ReaddHasNoManager
<1>4. CASE HandlePatched(m)
  <2>1. /\ UNCHANGED <<gui, checking, deltaMgr, deltaKnown, readd>>
        /\ readd = {} /\ proc = "up" /\ delta[m] # "none"
        /\ delta' = [delta EXCEPT ![m] = "none"]
        /\ AddFolderGeneric(m, FALSE, queue)
    BY <1>4 DEF HandlePatched, Worker
  <2>2. delta'[m] = "none" /\ \A n \in Mods \ {m} : delta'[n] = delta[n]
    BY <2>1 DEF TypeOK
  <2>3. tor[m] = "none"
    BY <2>1 DEF OwnerInv, Apart
  <2>4. RunOk(m)' /\ m \notin paused'
    BY <2>1, <2>2, <2>3, AddFolderGenericRuns
  <2>5. \A n \in Mods \ {m} : Notified(n) => Notified(n)'
    BY <2>1, AddFolderGenericOthers, NoticeKept
  <2>6. \A n \in Mods \ {m} : Untouched(n)
    BY <2>1, <2>2, AddFolderGenericOthers DEF Untouched
  <2> QED
    BY <2>1, <2>4, <2>5, <2>6, OneModStep DEF ReaddHasNoManager
<1> QED
  BY <1>1, <1>2, <1>3, <1>4

\* libtorrent and the patcher pause and resume nothing but a patch torrent
\* whose file has come.
LEMMA RunEnvironment ==
  ASSUME TypeOK, TypeOK', OwnerInv, RunInv, NEW m \in Mods,
         \/ TorrentChecked(m) \/ TorrentFinished(m)
         \/ DeltaFetched(m) \/ PatchStarts(m) \/ PatchEnds(m)
  PROVE  RunInv'
<1> USE DEF gui, disk, modv, api, dlt, hist
<1>1. CASE \/ TorrentChecked(m) \/ TorrentFinished(m)
           \/ PatchStarts(m) \/ PatchEnds(m)
  <2>1. /\ UNCHANGED <<gui, paused, checking, deltaMgr, deltaKnown, readd, queue,
                       proc, strayed>>
        /\ \A n \in Mods \ {m} : tor'[n] = tor[n] /\ delta'[n] = delta[n]
        /\ (tor'[m] = "none") = (tor[m] = "none")
        /\ (delta'[m] = "none") = (delta[m] = "none")
    BY <1>1 DEF TorrentChecked, TorrentFinished, PatchStarts, PatchEnds, TypeOK
  <2>2. HandleValid(m)' <=> HandleValid(m)
    BY <2>1 DEF HandleValid, DeltaContains
  <2>3. \A n \in Mods : Notified(n) => Notified(n)'
    BY <2>1, NoticeKept
  <2>4. RunOk(m)'
    BY <2>1, <2>2, <2>3, RunFrame DEF RunInv
  <2>5. \A n \in Mods \ {m} : Untouched(n)
    BY <2>1 DEF Untouched
  <2> QED
    BY <2>1, <2>2, <2>3, <2>4, <2>5, OneModStep
       DEF RunInv, PausedIsThere, ReaddHasNoManager
<1>2. CASE DeltaFetched(m)
  <2>1. /\ UNCHANGED <<gui, tor, checking, deltaMgr, delta, readd, queue, proc>>
        /\ readd = {} /\ Resumed(m) /\ deltaKnown' = deltaKnown \cup {m}
    BY <1>2 DEF DeltaFetched, Worker
  <2>2. RunOk(m)' /\ m \notin paused'
    BY <2>1, RunResumed DEF Resumed
  <2>3. \A n \in Mods \ {m} : Untouched(n) /\ (Notified(n) => Notified(n)')
    BY <2>1, NoticeKept DEF Untouched, Resumed
  <2> QED
    BY <2>1, <2>2, <2>3, OneModStep DEF ReaddHasNoManager
<1> QED
  BY <1>1, <1>2

\* A click changes whether its mods should run, and notifies them all.
LEMMA RunClick ==
  ASSUME TypeOK, TypeOK', RunInv, UNCHANGED <<api, dlt, proc, hist>>,
         \A n \in Mods :
           \/ Notified(n)'
           \/ ShouldRun(n)' = ShouldRun(n) /\ (Notified(n) => Notified(n)')
  PROVE  RunInv'
<1> USE DEF api, dlt, hist
<1>1. \A n \in Mods : HandleValid(n)' <=> HandleValid(n)
  BY HandleStays
<1>2. ASSUME NEW n \in Mods
      PROVE  RunOk(n)'
  <2>1. CASE Notified(n)'
    BY <2>1 DEF RunOk
  <2>2. CASE ShouldRun(n)' = ShouldRun(n) /\ (Notified(n) => Notified(n)')
    BY <1>1, <1>2, <2>2 DEF RunOk, RunInv, Up
  <2> QED
    BY <1>2, <2>1, <2>2
<1>3. PausedIsThere' /\ ReaddHasNoManager'
  BY <1>1 DEF RunInv, PausedIsThere, ReaddHasNoManager, TypeOK
<1> QED
  BY <1>2, <1>3 DEF RunInv

\* Only the ticks of a mod's own repositories and adapters count for it.
LEMMA ShouldRunIsLocal ==
  ASSUME NEW n,
         \A r \in ReposOf(n) : /\ r \in repoTicked' <=> r \in repoTicked
                               /\ r \in repoActive' <=> r \in repoActive
                               /\ <<n, r>> \in modTicked' <=> <<n, r>> \in modTicked
  PROVE  ShouldRun(n)' = ShouldRun(n)
  BY DEF ShouldRun, TickedNow, ReposInactive, AdapterTicked, ReposOf

\* The GUI thread: only clicks on repositories and mods change who should
\* run, and they notify those mods.
LEMMA RunGui ==
  ASSUME TypeOK, TypeOK', RunInv, GuiStep \/ \E r \in Repos : ClickedRepository(r)
  PROVE  RunInv'
<1> USE DEF gui, disk, modv, api, dlt, hist
<1>0. /\ queue \in Seq(Event) /\ NoRepo \notin Repos
      /\ \A r \in Repos : ModsOf[r] \in Seq(Mods)
      /\ BootOrder \in Seq(Mods)
  BY Assumptions DEF Assumptions, TypeOK
<1>1. ASSUME NEW r \in Repos, ClickRepository(r)
      PROVE  RunInv'
  <2>1. /\ clicking = NoRepo /\ clicking' = r
        /\ UNCHANGED <<modTicked, repoActive, api, dlt, proc, hist, queue>>
        /\ \A s \in Repos \ {r} : s \in repoTicked' <=> s \in repoTicked
    BY <1>1 DEF ClickRepository, UserMay
  <2>2. ASSUME NEW n \in Mods, r \in ReposOf(n)
        PROVE  Notified(n)'
    BY <2>1, <2>2 DEF Notified, ReposOf
  <2>3. ASSUME NEW n \in Mods, r \notin ReposOf(n)
        PROVE  ShouldRun(n)' = ShouldRun(n) /\ (Notified(n) => Notified(n)')
    <3>1. ShouldRun(n)' = ShouldRun(n)
      BY <2>1, <2>3, ShouldRunIsLocal DEF ReposOf
    <3>2. Notified(n) => Notified(n)'
      BY <1>0, <2>1 DEF Notified, ReposOf
    <3> QED
      BY <3>1, <3>2
  <2> QED
    BY <2>1, <2>2, <2>3, RunClick
<1>2. ASSUME NEW r \in Repos, ClickedRepository(r)
      PROVE  RunInv'
  <2>1. /\ clicking = r /\ clicking' = NoRepo
        /\ UNCHANGED <<repoTicked, modTicked, api, dlt, proc, hist>>
        /\ \A s \in Repos \ {r} : s \in repoActive' <=> s \in repoActive
    BY <1>2 DEF ClickedRepository
  <2>2. PICK t \in Seq(Event) : queue' = t \o Post("changed", ModsOf[r])
                               /\ RangeOf(queue) \subseteq RangeOf(t)
    <3>1. CASE queue' = queue \o Post("changed", ModsOf[r])
      BY <1>0, <3>1
    <3>2. CASE queue' = queue \o Post("startUpdates", ModsOf[r])
                              \o Post("changed", ModsOf[r])
      <4>1. Post("startUpdates", ModsOf[r]) \in Seq(Event)
        BY <1>0, <1>2, PostType
      <4>2. /\ queue \o Post("startUpdates", ModsOf[r]) \in Seq(Event)
            /\ RangeOf(queue)
                 \subseteq RangeOf(queue \o Post("startUpdates", ModsOf[r]))
        BY <1>0, <4>1, RangeOfConcat
      <4> QED
        BY <3>2, <4>2
    <3> QED
      BY <1>2, <3>1, <3>2 DEF ClickedRepository
  <2>3. Post("changed", ModsOf[r]) \in Seq(Event)
    BY <1>0, <1>2, PostType
  <2>4. /\ RangeOf(t) \subseteq RangeOf(queue')
        /\ RangeOf(Post("changed", ModsOf[r])) \subseteq RangeOf(queue')
    BY <2>2, <2>3, RangeOfConcat
  <2>5. ASSUME NEW n \in Mods, r \in ReposOf(n)
        PROVE  Notified(n)'
    <3>1. <<"changed", n>> \in RangeOf(Post("changed", ModsOf[r]))
      BY <1>0, <1>2, <2>5, PostRange DEF ReposOf
    <3> QED
      BY <2>4, <3>1 DEF Notified, RangeOf
  <2>6. ASSUME NEW n \in Mods, r \notin ReposOf(n)
        PROVE  ShouldRun(n)' = ShouldRun(n) /\ (Notified(n) => Notified(n)')
    <3>1. ShouldRun(n)' = ShouldRun(n)
      BY <2>1, <2>6, ShouldRunIsLocal DEF ReposOf
    <3>2. Notified(n) => Notified(n)'
      BY <2>1, <2>2, <2>4, <2>6 DEF Notified, RangeOf
    <3> QED
      BY <3>1, <3>2
  <2> QED
    BY <2>1, <2>5, <2>6, RunClick
<1>3. ASSUME NEW m \in Mods, NEW r \in Repos, ClickMod(m, r)
      PROVE  RunInv'
  <2>1. /\ queue' = queue \o Post("changed", <<m, m>>)
        /\ UNCHANGED <<repoTicked, repoActive, clicking, api, dlt, proc, hist>>
        /\ \A n \in Mods \ {m} : \A s \in Repos :
             <<n, s>> \in modTicked' <=> <<n, s>> \in modTicked
    BY <1>3 DEF ClickMod
  <2>2. <<m, m>> \in Seq(Mods) /\ m \in RangeOf(<<m, m>>)
    BY <1>3 DEF RangeOf
  <2>3. Post("changed", <<m, m>>) \in Seq(Event)
    BY <2>2, PostType
  <2>4. <<"changed", m>> \in RangeOf(queue')
    BY <1>0, <2>1, <2>2, <2>3, PostRange, RangeOfConcat
  <2>5. Notified(m)'
    BY <2>4 DEF Notified, RangeOf
  <2>6. ASSUME NEW n \in Mods \ {m}
        PROVE  ShouldRun(n)' = ShouldRun(n) /\ (Notified(n) => Notified(n)')
    <3>1. ShouldRun(n)' = ShouldRun(n)
      BY <2>1, <2>6, ShouldRunIsLocal DEF ReposOf
    <3>2. Notified(n) => Notified(n)'
      BY <2>1, <2>3, NoticeKept
    <3> QED
      BY <3>1, <3>2
  <2> QED
    BY <2>1, <2>5, <2>6, RunClick
<1>4. CASE \/ \E r \in Repos : CheckRepository(r)
           \/ \E m \in Mods : ForceCheck(m)
           \/ \E d \in Dirs : SetModDownloadPath(d)
           \/ SetDeltaPatchingEnabled
  <2>1. /\ UNCHANGED <<repoTicked, modTicked, repoActive, clicking>>
        /\ UNCHANGED <<api, dlt, proc, hist>>
    BY <1>4 DEF CheckRepository, ForceCheck, SetModDownloadPath,
                SetDeltaPatchingEnabled
  <2>2. \/ \E x \in Event : queue' = Append(queue, x)
        \/ \E t \in Seq(Event) : queue' = queue \o t
    <3>1. ASSUME NEW r \in Repos, CheckRepository(r)
          PROVE  \E t \in Seq(Event) : queue' = queue \o t
      <4>1. Post("check", ModsOf[r]) \in Seq(Event)
        BY <1>0, <3>1, PostType
      <4> QED
        BY <3>1, <4>1 DEF CheckRepository
    <3>2. ASSUME NEW m \in Mods, ForceCheck(m)
          PROVE  \E x \in Event : queue' = Append(queue, x)
      <4>1. <<"forceCheck", m>> \in Event
        BY <3>2 DEF Event
      <4> QED
        BY <3>2, <4>1 DEF ForceCheck
    <3>3. ASSUME NEW d \in Dirs, SetModDownloadPath(d)
          PROVE  \E t \in Seq(Event) : queue' = queue \o t
      <4>1. Post("move", BootOrder) \in Seq(Event)
        BY <1>0, PostType
      <4> QED
        BY <3>3, <4>1 DEF SetModDownloadPath
    <3>4. CASE SetDeltaPatchingEnabled
      <4>1. <<"enableDelta">> \in Event /\ <<"disableDelta">> \in Event
        BY DEF Event
      <4> QED
        BY <3>4, <4>1 DEF SetDeltaPatchingEnabled
    <3> QED
      BY <1>4, <3>1, <3>2, <3>3, <3>4
  <2>3. \A n \in Mods : Notified(n) => Notified(n)'
    BY <2>1, <2>2, NoticeKept
  <2>4. \A n \in Mods : ShouldRun(n)' = ShouldRun(n)
    BY <2>1, ShouldRunStays
  <2> QED
    BY <2>1, <2>3, <2>4, RunClick
<1> QED
  BY <1>1, <1>2, <1>3, <1>4 DEF GuiStep

\* A process that is not up owes nothing, and a new one has no torrents.
LEMMA RunProcess ==
  ASSUME TypeOK, TypeOK', RunInv, Shutdown \/ Kill \/ Restart
  PROVE  RunInv'
<1> USE DEF gui, disk, modv, api, dlt, hist
<1>1. CASE Shutdown \/ Kill
  <2>1. UNCHANGED <<tor, dlt, paused>> /\ proc' # "up"
    BY <1>1 DEF Shutdown, Kill, Ended
  <2>2. \A n \in Mods : HandleValid(n)' <=> HandleValid(n)
    BY <2>1, HandleStays
  <2> QED
    BY <2>1, <2>2 DEF RunInv, RunOk, Up, PausedIsThere, ReaddHasNoManager, TypeOK
<1>2. CASE Restart
  BY <1>2 DEF Restart, RunInv, RunOk, PausedIsThere, ReaddHasNoManager,
              HandleValid, DeltaContains
<1> QED
  BY <1>1, <1>2

\* Every step keeps the invariant.
LEMMA RunStep == TypeOK /\ TypeOK' /\ OwnerInv /\ RunInv /\ [Next]_vars => RunInv'
<1> SUFFICES ASSUME TypeOK, TypeOK', OwnerInv, RunInv, [Next]_vars PROVE RunInv'
  OBVIOUS
<1>1. CASE UNCHANGED vars
  <2>1. \A n \in Mods : Notified(n) => Notified(n)'
    BY <1>1, NoticeKept DEF vars, gui
  <2>2. \A n \in Mods : ShouldRun(n)' = ShouldRun(n)
    BY <1>1, ShouldRunStays DEF vars, gui
  <2> QED
    BY <1>1, <2>1, <2>2, RunClick DEF vars
<1> QED
  BY <1>1, RunWorker, RunCompletion, RunEnvironment, RunGui, RunProcess DEF Next

\* It holds in every reachable state; mods have one owner there.
LEMMA RunAlways == Spec => []RunInv
<1>1. Spec => []OwnerInv
  BY OwnerInit, OwnerStep, TypeCorrect, PTL DEF Spec
<1> QED
  BY <1>1, RunInit, RunStep, TypeCorrect, PTL DEF Spec

\* No order of clicks, checks, fetches, patches and restarts leaves a mod
\* that should run paused without anything on its way that resumes it.
THEOREM NoLostStartAlways == Spec => []NoLostStart
<1>1. RunInv => NoLostStart
  BY DEF RunInv, RunOk, NoLostStart
<1> QED
  BY <1>1, RunAlways, PTL

\* None leaves a mod that should not run running, but for one a completion
\* resumed.
THEOREM NoStrayRunAlways == Spec => []NoStrayRun
<1>1. RunInv => NoStrayRun
  BY DEF RunInv, RunOk, NoStrayRun
<1> QED
  BY <1>1, RunAlways, PTL
=============================================================================
