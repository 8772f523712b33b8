--------------------------- MODULE RepoTreeProofs ---------------------------
(* The changing list of repositories, for any repositories, mods and files. *)
EXTENDS RepoTree, TLAPS

-----------------------------------------------------------------------------
(* Lists and queues *)

LEMMA ListIs ==
  ASSUME NEW f
  PROVE  f \in Lists <=> DOMAIN f \subseteq Repos /\ f \in [DOMAIN f -> SUBSET Keys]
BY DEF Lists

LEMMA KeysOfLists ==
  ASSUME NEW f \in Lists
  PROVE  KeysOf(f) \subseteq Keys /\ PairsOf(f) \subseteq Repos \X Keys
BY ListIs DEF KeysOf, PairsOf

CallSet == Calls \X SUBSET Repos
Elements(s) == {s[i] : i \in 1..Len(s)}

LEMMA ConcatIs ==
  ASSUME NEW s \in Seq(CallSet), NEW t \in Seq(CallSet)
  PROVE  s \o t \in Seq(CallSet) /\ Elements(s \o t) = Elements(s) \cup Elements(t)
<1>1. s \o t \in Seq(CallSet) /\ Len(s \o t) = Len(s) + Len(t)
  OBVIOUS
<1>2. \A i \in 1..Len(s) : (s \o t)[i] = s[i]
  OBVIOUS
<1>3. \A i \in 1..Len(t) : (s \o t)[Len(s) + i] = t[i]
  OBVIOUS
<1>4. Elements(s) \subseteq Elements(s \o t)
  BY <1>1, <1>2 DEF Elements
<1>5. Elements(t) \subseteq Elements(s \o t)
  <2> SUFFICES ASSUME NEW i \in 1..Len(t) PROVE t[i] \in Elements(s \o t)
    BY DEF Elements
  <2>1. Len(s) + i \in 1..Len(s \o t)
    BY <1>1
  <2> QED
    BY <1>3, <2>1 DEF Elements
<1>6. Elements(s \o t) \subseteq Elements(s) \cup Elements(t)
  <2> SUFFICES ASSUME NEW i \in 1..Len(s \o t)
               PROVE  (s \o t)[i] \in Elements(s) \cup Elements(t)
    BY DEF Elements
  <2>1. CASE i <= Len(s)
    BY <1>2, <2>1 DEF Elements
  <2>2. CASE i > Len(s)
    <3>1. i - Len(s) \in 1..Len(t) /\ i = Len(s) + (i - Len(s))
      BY <1>1, <2>2
    <3>2. (s \o t)[i] = t[i - Len(s)]
      BY <1>3, <3>1
    <3> QED
      BY <3>1, <3>2 DEF Elements
  <2> QED
    BY <2>1, <2>2
<1> QED
  BY <1>1, <1>4, <1>5, <1>6

LEMMA CallIs ==
  ASSUME NEW kind \in Calls, NEW repos \in SUBSET Repos, NEW cond
  PROVE  /\ Call(kind, repos, cond) \in Seq(CallSet)
         /\ Elements(Call(kind, repos, cond)) \subseteq {<<kind, repos>>}
         /\ ~cond => Elements(Call(kind, repos, cond)) = {}
BY DEF Call, Nothing, Elements, CallSet

LEMMA TailIs ==
  ASSUME NEW s \in Seq(CallSet), s # <<>>
  PROVE  /\ Tail(s) \in Seq(CallSet) /\ Len(Tail(s)) = Len(s) - 1
         /\ \A i \in 1..Len(s) - 1 : Tail(s)[i] = s[i + 1]
         /\ Head(s) = s[1] /\ Head(s) \in CallSet
OBVIOUS

LEMMA AppendIs ==
  ASSUME NEW s \in Seq(CallSet), NEW c \in CallSet
  PROVE  /\ Append(s, c) \in Seq(CallSet) /\ Len(Append(s, c)) = Len(s) + 1
         /\ \A i \in 1..Len(s) : Append(s, c)[i] = s[i]
         /\ Append(s, c)[Len(s) + 1] = c
OBVIOUS

-----------------------------------------------------------------------------
(* What a step does to a queue *)

\* The GUI thread posts behind what is queued; removals are no part of it.
Posts(k, added) ==
  /\ queue'[k] \in Seq(CallSet)
  /\ \A c \in Elements(queue'[k]) :
       c \in Elements(queue[k]) \/ (c[1] # "remove" /\ (c[1] = "append" => c[2] = added))

QueueType == queue \in [Keys -> Seq(CallSet)]

LEMMA GetRemovablesPosts ==
  ASSUME QueueType, GetRemovables
  PROVE  QueueType' /\ \A k \in Keys : Posts(k, {})
<1>1. queue' = [k \in Keys |-> queue[k] \o
                  Call("removeFolder", {}, k \in Removables(json'))]
  BY DEF GetRemovables, Posted
<1>2. ASSUME NEW k \in Keys PROVE Posts(k, {})
  <2> DEFINE c == Call("removeFolder", {}, k \in Removables(json'))
  <2>1. c \in Seq(CallSet) /\ Elements(c) \subseteq {<<"removeFolder", {}>>}
    BY CallIs DEF Calls
  <2>2. queue'[k] = queue[k] \o c /\ queue[k] \in Seq(CallSet)
    BY <1>1 DEF QueueType
  <2> HIDE DEF c
  <2>3. queue'[k] \in Seq(CallSet) /\ Elements(queue'[k]) = Elements(queue[k]) \cup Elements(c)
    BY <2>1, <2>2, ConcatIs
  <2> QED
    BY <2>1, <2>3 DEF Posts
<1> QED
  BY <1>1, <1>2 DEF QueueType, Posts

\* The repositories that get a new adapter of mod k.
AddedTo(k) ==
  {r \in DOMAIN json' : k \in json'[r] \ (IF r \in DOMAIN tree THEN tree[r] ELSE {})}

LEMMA UpdateRepositoriesPosts ==
  ASSUME QueueType, UpdateRepositories, json' \in Lists
  PROVE  QueueType' /\ \A k \in Keys : Posts(k, AddedTo(k))
<1> DEFINE news(k) == Call("new", {}, k \in KeysOf(json') \ objs)
           stops(k) == Call("stopUpdates", {},
                            \E r \in DOMAIN tree \cap DOMAIN json' : k \in tree[r])
           appends(k) == Call("append", AddedTo(k), AddedTo(k) # {})
<1>1. queue' = [k \in Keys |-> queue[k] \o (news(k) \o stops(k) \o appends(k))]
  <2>1. \A k \in Keys : AddedTo(k) =
          {r \in DOMAIN json' : k \in (IF r \in DOMAIN json' THEN json'[r] ELSE {})
                                      \ (IF r \in DOMAIN tree THEN tree[r] ELSE {})}
    BY DEF AddedTo
  <2> QED
    BY <2>1, Zenon DEF UpdateRepositories, Posted
<1>2. ASSUME NEW k \in Keys PROVE Posts(k, AddedTo(k))
  <2>1. AddedTo(k) \in SUBSET Repos
    BY ListIs DEF AddedTo
  <2>2. /\ news(k) \in Seq(CallSet) /\ Elements(news(k)) \subseteq {<<"new", {}>>}
        /\ stops(k) \in Seq(CallSet) /\ Elements(stops(k)) \subseteq {<<"stopUpdates", {}>>}
        /\ appends(k) \in Seq(CallSet)
        /\ Elements(appends(k)) \subseteq {<<"append", AddedTo(k)>>}
    BY <2>1, CallIs DEF Calls
  <2>3. queue'[k] = queue[k] \o (news(k) \o stops(k) \o appends(k))
        /\ queue[k] \in Seq(CallSet)
    BY <1>1 DEF QueueType
  <2> HIDE DEF news, stops, appends
  <2>4. /\ news(k) \o stops(k) \in Seq(CallSet)
        /\ Elements(news(k) \o stops(k)) = Elements(news(k)) \cup Elements(stops(k))
    BY <2>2, ConcatIs
  <2>5. /\ news(k) \o stops(k) \o appends(k) \in Seq(CallSet)
        /\ Elements(news(k) \o stops(k) \o appends(k)) =
             Elements(news(k) \o stops(k)) \cup Elements(appends(k))
    BY <2>2, <2>4, ConcatIs
  <2>6. /\ queue'[k] \in Seq(CallSet)
        /\ Elements(queue'[k]) =
             Elements(queue[k]) \cup Elements(news(k) \o stops(k) \o appends(k))
    BY <2>3, <2>5, ConcatIs
  <2>7. \A c \in Elements(queue'[k]) :
          \/ c \in Elements(queue[k])
          \/ c \in {<<"new", {}>>, <<"stopUpdates", {}>>, <<"append", AddedTo(k)>>}
    BY <2>2, <2>4, <2>5, <2>6
  <2> QED
    BY <2>6, <2>7 DEF Posts
<1> QED
  BY <1>1, <1>2 DEF QueueType, Posts

LEMMA StartRepositoryPosts ==
  ASSUME QueueType, NEW r \in Repos, StartRepository(r)
  PROVE  QueueType' /\ \A k \in Keys : Posts(k, {})
<1>1. queue' = [k \in Keys |-> queue[k] \o Call("startUpdates", {}, k \in tree[r])]
  BY DEF StartRepository, Posted
<1>2. ASSUME NEW k \in Keys PROVE Posts(k, {})
  <2> DEFINE c == Call("startUpdates", {}, k \in tree[r])
  <2>1. c \in Seq(CallSet) /\ Elements(c) \subseteq {<<"startUpdates", {}>>}
    BY CallIs DEF Calls
  <2>2. queue'[k] = queue[k] \o c /\ queue[k] \in Seq(CallSet)
    BY <1>1 DEF QueueType
  <2> HIDE DEF c
  <2>3. queue'[k] \in Seq(CallSet) /\ Elements(queue'[k]) = Elements(queue[k]) \cup Elements(c)
    BY <2>1, <2>2, ConcatIs
  <2> QED
    BY <2>1, <2>3 DEF Posts
<1> QED
  BY <1>1, <1>2 DEF QueueType, Posts

LEMMA EndUpdatePosts ==
  ASSUME QueueType, EndUpdate
  PROVE  QueueType' /\ \A k \in Keys : Posts(k, {})
<1>1. queue' = [k \in Keys |-> queue[k] \o Call("delete", {}, k \in objs \ objs')]
  BY DEF EndUpdate, Posted
<1>2. ASSUME NEW k \in Keys PROVE Posts(k, {})
  <2> DEFINE c == Call("delete", {}, k \in objs \ objs')
  <2>1. c \in Seq(CallSet) /\ Elements(c) \subseteq {<<"delete", {}>>}
    BY CallIs DEF Calls
  <2>2. queue'[k] = queue[k] \o c /\ queue[k] \in Seq(CallSet)
    BY <1>1 DEF QueueType
  <2> HIDE DEF c
  <2>3. queue'[k] \in Seq(CallSet) /\ Elements(queue'[k]) = Elements(queue[k]) \cup Elements(c)
    BY <2>1, <2>2, ConcatIs
  <2> QED
    BY <2>1, <2>3 DEF Posts
<1> QED
  BY <1>1, <1>2 DEF QueueType, Posts

LEMMA ClickPosts ==
  ASSUME QueueType, NEW r \in Repos, Click(r)
  PROVE  QueueType' /\ \A k \in Keys : Posts(k, {})
<1> DEFINE changes(k) == Call("changed", {}, k \in tree[r])
<1>1. \/ queue' = [k \in Keys |-> queue[k] \o (Call("startUpdates", {}, k \in tree[r])
                                                \o changes(k))]
      \/ queue' = [k \in Keys |-> queue[k] \o changes(k)]
  BY DEF Click, Posted
<1>2. ASSUME NEW k \in Keys PROVE Posts(k, {})
  <2> DEFINE s == Call("startUpdates", {}, k \in tree[r])
             c == changes(k)
  <2>1. /\ s \in Seq(CallSet) /\ Elements(s) \subseteq {<<"startUpdates", {}>>}
        /\ c \in Seq(CallSet) /\ Elements(c) \subseteq {<<"changed", {}>>}
    BY CallIs DEF Calls
  <2>2. /\ queue[k] \in Seq(CallSet)
        /\ queue'[k] = queue[k] \o (s \o c) \/ queue'[k] = queue[k] \o c
    BY <1>1 DEF QueueType
  <2> HIDE DEF s, c
  <2>3. s \o c \in Seq(CallSet) /\ Elements(s \o c) = Elements(s) \cup Elements(c)
    BY <2>1, ConcatIs
  <2>4. /\ queue'[k] \in Seq(CallSet)
        /\ Elements(queue'[k]) \subseteq Elements(queue[k]) \cup Elements(s) \cup Elements(c)
    <3>1. CASE queue'[k] = queue[k] \o (s \o c)
      <4>1. /\ queue[k] \o (s \o c) \in Seq(CallSet)
            /\ Elements(queue[k] \o (s \o c)) = Elements(queue[k]) \cup Elements(s \o c)
        BY <2>2, <2>3, ConcatIs
      <4> QED
        BY <2>3, <3>1, <4>1
    <3>2. CASE queue'[k] = queue[k] \o c
      <4>1. /\ queue[k] \o c \in Seq(CallSet)
            /\ Elements(queue[k] \o c) = Elements(queue[k]) \cup Elements(c)
        BY <2>1, <2>2, ConcatIs
      <4> QED
        BY <3>2, <4>1
    <3> QED
      BY <2>2, <3>1, <3>2
  <2> QED
    BY <2>1, <2>4 DEF Posts
<1> QED
  BY <1>1, <1>2 DEF QueueType, Posts

-----------------------------------------------------------------------------
(* Types *)

\* A new tree is a list again.
LEMMA TreeOps ==
  ASSUME NEW f \in Lists, NEW g \in Lists
  PROVE  /\ \A r \in Repos, k \in Keys : [f EXCEPT ![r] = @ \ {k}] \in Lists
         /\ [r \in DOMAIN f \cup DOMAIN g |->
               (IF r \in DOMAIN f THEN f[r] ELSE {}) \cup
               (IF r \in DOMAIN g THEN g[r] ELSE {})] \in Lists
         /\ DOMAIN g \subseteq DOMAIN f => [r \in DOMAIN g |-> f[r]] \in Lists
<1>1. /\ DOMAIN f \subseteq Repos /\ f \in [DOMAIN f -> SUBSET Keys]
      /\ DOMAIN g \subseteq Repos /\ g \in [DOMAIN g -> SUBSET Keys]
  BY ListIs
<1>2. ASSUME NEW r \in Repos, NEW k \in Keys
      PROVE  [f EXCEPT ![r] = @ \ {k}] \in Lists
  <2>1. [f EXCEPT ![r] = @ \ {k}] \in [DOMAIN f -> SUBSET Keys]
    BY <1>1
  <2> QED
    BY <1>1, <2>1 DEF Lists
<1>3. [r \in DOMAIN f \cup DOMAIN g |->
         (IF r \in DOMAIN f THEN f[r] ELSE {}) \cup
         (IF r \in DOMAIN g THEN g[r] ELSE {})]
        \in [DOMAIN f \cup DOMAIN g -> SUBSET Keys]
  BY <1>1
<1>4. ASSUME DOMAIN g \subseteq DOMAIN f
      PROVE  [r \in DOMAIN g |-> f[r]] \in [DOMAIN g -> SUBSET Keys]
  BY <1>1, <1>4
<1> QED
  BY <1>1, <1>2, <1>3, <1>4 DEF Lists

\* While an update is applied, the tree holds the file and what is still to be
\* removed, which is not in the file.
Applying ==
  phase = "removing" =>
    /\ DOMAIN json \subseteq DOMAIN tree
    /\ \A r \in DOMAIN tree : \A k \in tree[r] :
         <<r, k>> \in drop \/ (r \in DOMAIN json /\ k \in json[r])
    /\ \A r \in DOMAIN json : \A k \in json[r] : k \in tree[r] /\ <<r, k>> \notin drop

LEMMA TypeInit == Init => TypeOK
<1> SUFFICES ASSUME Init PROVE TypeOK
  OBVIOUS
<1>1. json \in Lists /\ tree = json /\ objs = KeysOf(tree)
  BY TreeAssumptions DEF Init
<1>2. objs \subseteq Keys /\ DOMAIN json \subseteq Repos
  BY <1>1, KeysOfLists, ListIs
<1>3. queue \in [Keys -> Seq(Calls \X SUBSET Repos)]
  <2>1. \A k \in Keys :
          Call("changed", {}, k \in objs) \o Call("startUpdates", {}, k \in objs)
            \in Seq(CallSet)
    <3> SUFFICES ASSUME NEW k \in Keys
                 PROVE  Call("changed", {}, k \in objs)
                          \o Call("startUpdates", {}, k \in objs) \in Seq(CallSet)
      OBVIOUS
    <3>1. /\ Call("changed", {}, k \in objs) \in Seq(CallSet)
          /\ Call("startUpdates", {}, k \in objs) \in Seq(CallSet)
      BY CallIs DEF Calls
    <3> QED
      BY <3>1, ConcatIs
  <2> QED
    BY <2>1 DEF Init, CallSet
<1>4. adapters \in [Keys -> SUBSET Repos]
  BY <1>1, <1>2 DEF Init
<1> QED
  BY <1>1, <1>2, <1>3, <1>4
     DEF Init, TypeOK, RepoStatuses, ModStatuses

LEMMA UpdateTypes ==
  ASSUME TypeOK, Applying, PeriodicRepoUpdate \/ GetRemovables \/ UpdateRepositories \/ EndUpdate
  PROVE  TypeOK'
<1> USE DEF TypeOK, gui, update, mod
<1>1. QueueType
  BY DEF QueueType, CallSet
<1>2. CASE PeriodicRepoUpdate
  BY <1>2 DEF PeriodicRepoUpdate
<1>3. CASE GetRemovables
  <2>1. QueueType'
    BY <1>1, <1>3, GetRemovablesPosts
  <2> QED
    BY <1>3, <2>1 DEF GetRemovables, UpdateJsonMap, QueueType, CallSet
<1>4. CASE UpdateRepositories
  <2>1. json' \in FilesOnServer /\ json' \in Lists /\ json \in Lists
    BY <1>4, TreeAssumptions DEF UpdateRepositories, UpdateJsonMap
  <2>2. QueueType'
    BY <1>1, <1>4, <2>1, UpdateRepositoriesPosts
  <2>3. tree' \in Lists
    BY <1>4, <2>1, TreeOps DEF UpdateRepositories
  <2>4. /\ KeysOf(json') \subseteq Keys /\ KeysOf(json) \subseteq Keys
        /\ PairsOf(tree) \subseteq Repos \X Keys /\ DOMAIN json' \subseteq Repos
    BY <2>1, KeysOfLists, ListIs
  <2>5. /\ objs' \subseteq Keys /\ excused' \subseteq Keys /\ toStart' \subseteq Repos
        /\ drop' \subseteq Repos \X Keys
    BY <1>4, <2>4 DEF UpdateRepositories
  <2>6. rstatus' \in [Repos -> RepoStatuses] /\ grace' \subseteq Repos
    BY <1>4, <2>4 DEF UpdateRepositories, RepositoriesCreated, RepoStatuses
  <2>7. phase' = "removing" /\ UNCHANGED <<ticked, removing, mod, folder, proc>>
    BY <1>4 DEF UpdateRepositories
  <2> QED
    BY <2>1, <2>2, <2>3, <2>5, <2>6, <2>7 DEF QueueType, CallSet
<1>5. CASE EndUpdate
  <2>1. QueueType'
    BY <1>1, <1>5, EndUpdatePosts
  <2>2. json \in Lists
    BY TreeAssumptions
  <2>3. tree' \in Lists
    BY <1>5, <2>2, TreeOps DEF EndUpdate, Replaced, Applying
  <2>4. objs' \subseteq Keys
    BY <1>5, <2>3, KeysOfLists DEF EndUpdate
  <2> QED
    BY <1>5, <2>1, <2>3, <2>4 DEF EndUpdate, QueueType, CallSet
<1> QED
  BY <1>2, <1>3, <1>4, <1>5

LEMMA GuiTypes ==
  ASSUME TypeOK, NEW r \in Repos,
         \/ StartRepository(r) \/ Click(r) \/ RepositoryUpdate(r) \/ GraceEnds(r)
         \/ \E k \in Keys : Remove(r, k)
  PROVE  TypeOK'
<1> USE DEF TypeOK, gui, update, mod
<1>1. QueueType
  BY DEF QueueType, CallSet
<1>2. CASE StartRepository(r)
  <2>1. QueueType'
    BY <1>1, <1>2, StartRepositoryPosts
  <2> QED
    BY <1>2, <2>1 DEF StartRepository, QueueType, CallSet
<1>3. CASE Click(r)
  <2>1. QueueType'
    BY <1>1, <1>3, ClickPosts
  <2>2. ticked' \subseteq Repos /\ grace' \subseteq Repos /\ rstatus' \in [Repos -> RepoStatuses]
    BY <1>3 DEF Click, RepoStatuses
  <2>3. UNCHANGED <<json, tree, update, mod, folder, proc, excused>>
    BY <1>3 DEF Click
  <2> QED
    BY <2>1, <2>2, <2>3 DEF QueueType, CallSet
<1>4. CASE RepositoryUpdate(r)
  BY <1>4 DEF RepositoryUpdate, StatusFrom, RepoStatuses
<1>5. CASE GraceEnds(r)
  BY <1>5 DEF GraceEnds
<1>6. ASSUME NEW k \in Keys, Remove(r, k) PROVE TypeOK'
  <2>1. tree' \in Lists
    BY <1>6, TreeOps DEF Remove, RemoveAdapter, Without
  <2>2. <<"remove", {r}>> \in CallSet
    BY DEF CallSet, Calls
  <2>3. Append(queue[k], <<"remove", {r}>>) \in Seq(CallSet)
    BY <1>1, <2>2, AppendIs DEF QueueType
  <2>4. QueueType'
    BY <1>1, <1>6, <2>3 DEF Remove, QueueType
  <2> QED
    BY <1>6, <2>1, <2>4 DEF Remove, RemoveAdapter, QueueType, CallSet
<1> QED
  BY <1>2, <1>3, <1>4, <1>5, <1>6

LEMMA WorkerTypes ==
  ASSUME TypeOK, NEW k \in Keys, WorkerStep(k)
  PROVE  TypeOK'
<1> USE DEF TypeOK, gui, update, mod, ModStatuses
<1>1. QueueType
  BY DEF QueueType, CallSet
<1>2. QueueType'
  <2>1. CASE UNCHANGED queue
    BY <1>1, <2>1 DEF QueueType
  <2>2. CASE queue[k] # <<>> /\ Rest(k)
    BY <1>1, <2>2, TailIs DEF QueueType, Rest
  <2>3. CASE queue[k] # <<>> /\ RestAnd(k, "changed")
    <3>1. Tail(queue[k]) \in Seq(CallSet) /\ <<"changed", {}>> \in CallSet
      BY <1>1, <2>3, TailIs DEF QueueType, CallSet, Calls
    <3>2. Append(Tail(queue[k]), <<"changed", {}>>) \in Seq(CallSet)
      BY <3>1, AppendIs
    <3> QED
      BY <1>1, <2>3, <3>2 DEF QueueType, RestAnd
  <2>4. CASE FolderAdded(k)
    <3>1. <<"startUpdates", {}>> \in CallSet
      BY DEF CallSet, Calls
    <3>2. Append(queue[k], <<"startUpdates", {}>>) \in Seq(CallSet)
      BY <1>1, <3>1, AppendIs DEF QueueType
    <3> QED
      BY <1>1, <2>4, <3>2 DEF QueueType, FolderAdded
  <2> QED
    BY <2>1, <2>2, <2>3, <2>4 DEF WorkerStep, New, AppendModAdapter, Changed,
       RemoveModAdapter, SwitchTimer, Delete, RemoveFolder, ModUpdate, FetchFailed, Takes
<1>3. ASSUME NEW S, RepositoryChanged(k, S)
      PROVE  /\ folder' \in [Keys -> {"none", "fetching", "runs", "paused"}]
             /\ mstatus' \in [Keys -> ModStatuses] /\ timer' \subseteq Keys
             /\ proc' \in {"up", "stop", "removeFolder"}
             /\ excused' \subseteq Keys
  BY <1>3 DEF RepositoryChanged
<1>4. CASE New(k) \/ SwitchTimer(k) \/ Delete(k) \/ RemoveFolder(k)
  BY <1>2, <1>4 DEF New, SwitchTimer, Delete, RemoveFolder, QueueType, CallSet
<1>5. CASE AppendModAdapter(k)
  <2>1. Head(queue[k]) \in CallSet
    BY <1>1, <1>5, TailIs DEF AppendModAdapter, Takes, QueueType
  <2>2. Head(queue[k])[2] \subseteq Repos
    BY <2>1 DEF CallSet
  <2> QED
    BY <1>2, <1>5, <2>2 DEF AppendModAdapter, QueueType, CallSet
<1>6. CASE Changed(k)
  BY <1>2, <1>3, <1>6 DEF Changed, QueueType, CallSet
<1>7. CASE RemoveModAdapter(k)
  BY <1>2, <1>3, <1>7 DEF RemoveModAdapter, Left, QueueType, CallSet
<1>8. CASE ModUpdate(k)
  BY <1>8 DEF ModUpdate
<1>9. CASE FolderAdded(k) \/ FetchFailed(k)
  BY <1>2, <1>9 DEF FolderAdded, FetchFailed, QueueType, CallSet
<1> QED
  BY <1>4, <1>5, <1>6, <1>7, <1>8, <1>9 DEF WorkerStep

-----------------------------------------------------------------------------
(* The update *)

LEMMA ApplyingStep ==
  ASSUME TypeOK, Applying, [Next]_vars
  PROVE  Applying'
<1>1. CASE UNCHANGED <<phase, json, tree, drop>>
  BY <1>1 DEF Applying
<1>2. CASE phase' # "removing"
  BY <1>2 DEF Applying
<1>3. CASE UpdateRepositories
  <2>1. json' \in Lists
    BY <1>3, TreeAssumptions DEF UpdateRepositories, UpdateJsonMap
  <2>2. /\ DOMAIN tree \subseteq Repos /\ tree \in [DOMAIN tree -> SUBSET Keys]
        /\ DOMAIN json' \subseteq Repos /\ json' \in [DOMAIN json' -> SUBSET Keys]
    BY <2>1, ListIs DEF TypeOK
  <2>3. /\ DOMAIN tree' = DOMAIN tree \cup DOMAIN json'
        /\ \A r \in DOMAIN tree \cup DOMAIN json' :
             tree'[r] = (IF r \in DOMAIN tree THEN tree[r] ELSE {}) \cup
                        (IF r \in DOMAIN json' THEN json'[r] ELSE {})
    BY <1>3 DEF UpdateRepositories
  <2>4. drop' = PairsOf(tree) \ PairsOf(json')
    BY <1>3 DEF UpdateRepositories
  <2>5. ASSUME NEW r \in DOMAIN tree', NEW k \in tree'[r]
        PROVE  <<r, k>> \in drop' \/ (r \in DOMAIN json' /\ k \in json'[r])
    BY <2>2, <2>3, <2>4, <2>5 DEF PairsOf
  <2>6. ASSUME NEW r \in DOMAIN json', NEW k \in json'[r]
        PROVE  k \in tree'[r] /\ <<r, k>> \notin drop'
    BY <2>2, <2>3, <2>4, <2>6 DEF PairsOf
  <2> QED
    BY <2>3, <2>5, <2>6 DEF Applying
<1>4. ASSUME NEW r \in Repos, NEW k \in Keys, Remove(r, k) PROVE Applying'
  <2>1. tree \in [DOMAIN tree -> SUBSET Keys]
    BY ListIs DEF TypeOK
  <2>2. tree' = [tree EXCEPT ![r] = @ \ {k}] /\ drop' = drop \ {<<r, k>>}
        /\ <<r, k>> \in drop /\ phase = "removing" /\ UNCHANGED <<json, phase>>
    BY <1>4 DEF Remove, RemoveAdapter, Without
  <2>3. /\ DOMAIN tree' = DOMAIN tree
        /\ \A q \in DOMAIN tree : tree'[q] = IF q = r THEN tree[q] \ {k} ELSE tree[q]
    BY <2>1, <2>2
  <2>4. ASSUME NEW q \in DOMAIN tree', NEW l \in tree'[q]
        PROVE  <<q, l>> \in drop' \/ (q \in DOMAIN json /\ l \in json[q])
    <3>1. l \in tree[q] /\ <<q, l>> # <<r, k>>
      BY <2>3, <2>4
    <3> QED
      BY <2>2, <2>3, <3>1 DEF Applying
  <2>5. ASSUME NEW q \in DOMAIN json, NEW l \in json[q]
        PROVE  l \in tree'[q] /\ <<q, l>> \notin drop'
    <3>1. l \in tree[q] /\ <<q, l>> \notin drop /\ q \in DOMAIN tree
      BY <2>2, <2>5 DEF Applying
    <3> QED
      BY <2>2, <2>3, <3>1
  <2> QED
    BY <2>2, <2>3, <2>4, <2>5 DEF Applying
<1> QED
  BY <1>1, <1>2, <1>3, <1>4 DEF Next, GuiStep, WorkerStep, vars, gui, update,
     PeriodicRepoUpdate, GetRemovables, EndUpdate, StartRepository, Click,
     RepositoryUpdate, GraceEnds, New, AppendModAdapter, Changed, RemoveModAdapter,
     SwitchTimer, Delete, RemoveFolder, ModUpdate, FolderAdded, FetchFailed

LEMMA TreeStep ==
  ASSUME TypeOK, Applying, TreeIsFile, [Next]_vars
  PROVE  TreeIsFile'
<1>1. CASE UNCHANGED <<phase, json, tree, objs>>
  BY <1>1 DEF TreeIsFile
<1>2. CASE phase' # "idle"
  BY <1>2 DEF TreeIsFile
<1>3. CASE EndUpdate
  <2>1. json \in [DOMAIN json -> SUBSET Keys] /\ tree \in [DOMAIN tree -> SUBSET Keys]
    BY TreeAssumptions, ListIs DEF TypeOK
  <2>2. \A r \in DOMAIN json : tree[r] = json[r]
    BY <1>3, <2>1 DEF EndUpdate, Applying
  <2>3. tree' = [r \in DOMAIN json |-> tree[r]] /\ json' = json /\ objs' = KeysOf(tree')
    BY <1>3 DEF EndUpdate, Replaced
  <2>4. tree' = json
    BY <2>1, <2>2, <2>3
  <2> QED
    BY <2>3, <2>4 DEF TreeIsFile, KeysOf
<1> QED
  BY <1>1, <1>2, <1>3 DEF Next, GuiStep, WorkerStep, vars, gui, update,
     PeriodicRepoUpdate, GetRemovables, UpdateRepositories, Remove, StartRepository,
     Click, RepositoryUpdate, GraceEnds, New, AppendModAdapter, Changed,
     RemoveModAdapter, SwitchTimer, Delete, RemoveFolder, ModUpdate, FolderAdded,
     FetchFailed

-----------------------------------------------------------------------------
(* Adapters *)

\* A queued removal is the one the GUI thread waits for, and no adapter is
\* added or removed behind it.
RemovalLast ==
  \A k \in Keys : \A i \in 1..Len(queue[k]) :
    queue[k][i][1] = "remove" =>
      /\ \E r \in Repos : removing = <<r, k>> /\ queue[k][i][2] = {r}
      /\ \A j \in i + 1..Len(queue[k]) : queue[k][j][1] \notin {"append", "remove"}

LEMMA PostedAlive ==
  ASSUME QueueType, RemovalLast, AdapterAlive, removing = NoAdapter,
         NEW added, \A k \in Keys : Posts(k, added[k]),
         \A k \in Keys : Alive(k) \cup added[k] \subseteq Alive(k)',
         UNCHANGED adapters
  PROVE  RemovalLast' /\ AdapterAlive'
<1>1. ASSUME NEW k \in Keys, NEW i \in 1..Len(queue[k])
      PROVE  queue[k][i][1] # "remove"
  BY TreeAssumptions DEF RemovalLast
<1>2. ASSUME NEW k \in Keys, NEW i \in 1..Len(queue'[k])
      PROVE  /\ queue'[k][i][1] # "remove"
             /\ queue'[k][i][1] = "append" => queue'[k][i][2] \subseteq Alive(k)'
  <2> DEFINE c == queue'[k][i]
  <2>1. c \in Elements(queue'[k])
    BY DEF Elements
  <2>2. CASE c \in Elements(queue[k])
    <3>1. PICK j \in 1..Len(queue[k]) : c = queue[k][j]
      BY <2>2 DEF Elements
    <3>2. c[1] = "append" => c[2] \subseteq Alive(k)
      BY <3>1 DEF AdapterAlive
    <3> QED
      BY <1>1, <3>1, <3>2
  <2>3. CASE c[1] # "remove" /\ (c[1] = "append" => c[2] = added[k])
    BY <2>3
  <2> QED
    BY <2>1, <2>2, <2>3 DEF Posts
<1>3. \A k \in Keys : adapters'[k] \subseteq Alive(k)'
  BY DEF AdapterAlive
<1> QED
  BY <1>2, <1>3 DEF RemovalLast, AdapterAlive

\* What the worker leaves of a queue: its tail, and calls without adapters.
LEMMA RestIs ==
  ASSUME QueueType, NEW k \in Keys, queue[k] # <<>>,
         \/ Rest(k)
         \/ \E kind \in Calls : kind \notin {"append", "remove"} /\ RestAnd(k, kind)
  PROVE  /\ Len(queue'[k]) \in Nat
         /\ \A l \in Keys \ {k} : queue'[l] = queue[l]
         /\ \A i \in 1..Len(queue'[k]) :
              \/ queue'[k][i][1] \notin {"append", "remove"}
              \/ i + 1 \in 1..Len(queue[k]) /\ queue'[k][i] = queue[k][i + 1]
<1> DEFINE q == queue[k]
<1>1. /\ Tail(q) \in Seq(CallSet) /\ Len(Tail(q)) = Len(q) - 1 /\ Len(q) \in Nat
      /\ \A i \in 1..Len(q) - 1 : Tail(q)[i] = q[i + 1]
  BY TailIs DEF QueueType
<1>2. CASE Rest(k)
  <2>1. queue'[k] = Tail(q) /\ \A l \in Keys \ {k} : queue'[l] = queue[l]
    BY <1>2 DEF Rest, QueueType
  <2> QED
    BY <1>1, <2>1
<1>3. ASSUME NEW kind \in Calls, kind \notin {"append", "remove"}, RestAnd(k, kind)
      PROVE  /\ Len(queue'[k]) \in Nat
             /\ \A l \in Keys \ {k} : queue'[l] = queue[l]
             /\ \A i \in 1..Len(queue'[k]) :
                  \/ queue'[k][i][1] \notin {"append", "remove"}
                  \/ i + 1 \in 1..Len(queue[k]) /\ queue'[k][i] = queue[k][i + 1]
  <2>1. /\ queue'[k] = Append(Tail(q), <<kind, {}>>)
        /\ \A l \in Keys \ {k} : queue'[l] = queue[l]
    BY <1>3 DEF RestAnd, QueueType
  <2>2. <<kind, {}>> \in CallSet
    BY DEF CallSet
  <2> HIDE DEF q
  <2>3. /\ Len(queue'[k]) = Len(Tail(q)) + 1
        /\ \A i \in 1..Len(Tail(q)) : queue'[k][i] = Tail(q)[i]
        /\ queue'[k][Len(Tail(q)) + 1] = <<kind, {}>>
    BY <1>1, <2>1, <2>2, AppendIs
  <2>4. ASSUME NEW i \in 1..Len(queue'[k])
        PROVE  \/ queue'[k][i][1] \notin {"append", "remove"}
               \/ i + 1 \in 1..Len(q) /\ queue'[k][i] = q[i + 1]
    <3>1. CASE i = Len(Tail(q)) + 1
      BY <1>3, <2>3, <3>1
    <3>2. CASE i \in 1..Len(Tail(q))
      <4>1. i \in 1..Len(q) - 1
        BY <1>1, <3>2
      <4>2. i + 1 \in 1..Len(q)
        BY <1>1, <4>1
      <4>3. queue'[k][i] = Tail(q)[i]
        BY <2>3, <3>2
      <4>4. Tail(q)[i] = q[i + 1]
        BY <1>1, <4>1
      <4> QED
        BY <4>2, <4>3, <4>4
    <3>3. i = Len(Tail(q)) + 1 \/ i \in 1..Len(Tail(q))
      <4>1. Len(Tail(q)) \in Nat
        BY <1>1
      <4> QED
        BY <2>3, <4>1
    <3> QED
      BY <3>1, <3>2, <3>3
  <2> QED
    BY <1>1, <2>1, <2>3, <2>4 DEF q
<1> QED
  BY <1>2, <1>3

\* The queue shrinks from its head: what it is judged by stays, if no adapter
\* is given up.
LEMMA TakenAlive ==
  ASSUME QueueType, RemovalLast, AdapterAlive, NEW k \in Keys, queue[k] # <<>>,
         \/ Rest(k)
         \/ \E kind \in Calls : kind \notin {"append", "remove"} /\ RestAnd(k, kind),
         UNCHANGED <<tree, removing>>,
         \A l \in Keys : adapters'[l] \subseteq Alive(l)
  PROVE  RemovalLast' /\ AdapterAlive'
<1>1. \A l \in Keys : Alive(l)' = Alive(l)
  BY DEF Alive
<1>2. /\ Len(queue'[k]) \in Nat
      /\ \A l \in Keys \ {k} : queue'[l] = queue[l]
      /\ \A i \in 1..Len(queue'[k]) :
           \/ queue'[k][i][1] \notin {"append", "remove"}
           \/ i + 1 \in 1..Len(queue[k]) /\ queue'[k][i] = queue[k][i + 1]
  BY RestIs
<1>3. AdapterAlive'
  BY <1>1, <1>2 DEF AdapterAlive
<1>4. ASSUME NEW l \in Keys, NEW i \in 1..Len(queue'[l]), queue'[l][i][1] = "remove"
      PROVE  /\ \E r \in Repos : removing' = <<r, l>> /\ queue'[l][i][2] = {r}
             /\ \A j \in i + 1..Len(queue'[l]) :
                  queue'[l][j][1] \notin {"append", "remove"}
  <2>1. CASE l # k
    BY <1>2, <1>4, <2>1 DEF RemovalLast
  <2>2. CASE l = k
    <3>1. i + 1 \in 1..Len(queue[k]) /\ queue'[k][i] = queue[k][i + 1]
      BY <1>2, <1>4, <2>2
    <3>2. /\ \E r \in Repos : removing = <<r, k>> /\ queue[k][i + 1][2] = {r}
          /\ \A j \in i + 1 + 1..Len(queue[k]) : queue[k][j][1] \notin {"append", "remove"}
      BY <1>4, <2>2, <3>1 DEF RemovalLast
    <3>3. ASSUME NEW j \in i + 1..Len(queue'[k])
          PROVE  queue'[k][j][1] \notin {"append", "remove"}
      <4>1. j \in 1..Len(queue'[k])
        BY <1>2, <2>2
      <4>2. CASE j + 1 \in 1..Len(queue[k]) /\ queue'[k][j] = queue[k][j + 1]
        <5>1. j + 1 \in i + 1 + 1..Len(queue[k])
          BY <1>2, <2>2, <4>2
        <5> QED
          BY <3>2, <4>2, <5>1
      <4> QED
        BY <1>2, <4>1, <4>2
    <3> QED
      BY <2>2, <3>1, <3>2, <3>3
  <2> QED
    BY <2>1, <2>2
<1> QED
  BY <1>3, <1>4 DEF RemovalLast

LEMMA RemoveAlive ==
  ASSUME TypeOK, RemovalLast, AdapterAlive, NEW r \in Repos, NEW k \in Keys,
         Remove(r, k)
  PROVE  RemovalLast' /\ AdapterAlive'
<1>1. QueueType
  BY DEF TypeOK, QueueType, CallSet
<1>2. removing = NoAdapter
  BY DEF Remove, Gui, Waits
<1>3. ASSUME NEW l \in Keys, NEW i \in 1..Len(queue[l])
      PROVE  queue[l][i][1] # "remove"
  BY <1>2, TreeAssumptions DEF RemovalLast
<1>4. \A l \in Keys : Alive(l) \subseteq Alive(l)'
  <2>1. tree \in [DOMAIN tree -> SUBSET Keys]
    BY ListIs DEF TypeOK
  <2>2. tree' = [tree EXCEPT ![r] = @ \ {k}] /\ removing' = <<r, k>>
    BY DEF Remove, RemoveAdapter, Without
  <2>3. /\ DOMAIN tree' = DOMAIN tree
        /\ \A q \in DOMAIN tree : tree'[q] = IF q = r THEN tree[q] \ {k} ELSE tree[q]
    BY <2>1, <2>2
  <2>4. \A l \in Keys : \A q \in DOMAIN tree :
          l \in tree[q] => l \in tree'[q] \/ (q = r /\ l = k)
    BY <2>3
  <2>5. \A l \in Keys : \A q \in Repos : removing # <<q, l>>
    BY <1>2, TreeAssumptions
  <2> QED
    BY <2>2, <2>3, <2>4, <2>5 DEF Alive
<1>5. /\ \A l \in Keys \ {k} : queue'[l] = queue[l]
      /\ queue'[k] = Append(queue[k], <<"remove", {r}>>)
      /\ removing' = <<r, k>> /\ UNCHANGED adapters
  BY <1>1 DEF Remove, RemoveAdapter, QueueType, mod
<1>6. /\ Len(queue'[k]) = Len(queue[k]) + 1 /\ Len(queue[k]) \in Nat
      /\ \A i \in 1..Len(queue[k]) : queue'[k][i] = queue[k][i]
      /\ queue'[k][Len(queue[k]) + 1] = <<"remove", {r}>>
  <2>1. <<"remove", {r}>> \in CallSet /\ queue[k] \in Seq(CallSet)
    BY <1>1 DEF CallSet, Calls, QueueType
  <2> QED
    BY <1>5, <2>1, AppendIs
<1>7. AdapterAlive'
  <2> SUFFICES ASSUME NEW l \in Keys
               PROVE  /\ adapters'[l] \subseteq Alive(l)'
                      /\ \A i \in 1..Len(queue'[l]) : queue'[l][i][1] = "append" =>
                           queue'[l][i][2] \subseteq Alive(l)'
    BY DEF AdapterAlive
  <2>1. adapters'[l] \subseteq Alive(l)'
    BY <1>4, <1>5 DEF AdapterAlive
  <2>2. CASE l # k
    BY <1>4, <1>5, <2>1, <2>2 DEF AdapterAlive
  <2>3. CASE l = k
    <3>1. ASSUME NEW i \in 1..Len(queue'[k]), queue'[k][i][1] = "append"
          PROVE  queue'[k][i][2] \subseteq Alive(k)'
      <4>1. i \in 1..Len(queue[k]) \/ i = Len(queue[k]) + 1
        BY <1>6
      <4>2. i \in 1..Len(queue[k]) /\ queue'[k][i] = queue[k][i]
        BY <1>6, <3>1, <4>1
      <4> QED
        BY <1>4, <3>1, <4>2 DEF AdapterAlive
    <3> QED
      BY <2>1, <2>3, <3>1
  <2> QED
    BY <2>2, <2>3
<1>8. RemovalLast'
  <2> SUFFICES ASSUME NEW l \in Keys, NEW i \in 1..Len(queue'[l]),
                      queue'[l][i][1] = "remove"
               PROVE  /\ \E q \in Repos : removing' = <<q, l>> /\ queue'[l][i][2] = {q}
                      /\ \A j \in i + 1..Len(queue'[l]) :
                           queue'[l][j][1] \notin {"append", "remove"}
    BY DEF RemovalLast
  <2>1. l = k
    BY <1>3, <1>5
  <2>2. i \in 1..Len(queue[k]) \/ i = Len(queue[k]) + 1
    BY <1>6, <2>1
  <2>3. i = Len(queue[k]) + 1
    BY <1>3, <1>6, <2>1, <2>2
  <2> QED
    BY <1>5, <1>6, <2>1, <2>3
<1> QED
  BY <1>7, <1>8

LEMMA RemoveModAdapterAlive ==
  ASSUME TypeOK, RemovalLast, AdapterAlive, NEW k \in Keys, RemoveModAdapter(k)
  PROVE  RemovalLast' /\ AdapterAlive'
<1>1. QueueType
  BY DEF TypeOK, QueueType, CallSet
<1>2. /\ queue[k] # <<>> /\ Head(queue[k])[1] = "remove" /\ Rest(k)
      /\ adapters' = [adapters EXCEPT ![k] = adapters[k] \ Head(queue[k])[2]]
      /\ removing' = NoAdapter /\ UNCHANGED tree
  BY DEF RemoveModAdapter, Takes, Left, gui
<1>3. 1 \in 1..Len(queue[k]) /\ Head(queue[k]) = queue[k][1]
  BY <1>1, <1>2, TailIs DEF QueueType
<1>4. PICK r \in Repos : removing = <<r, k>> /\ Head(queue[k])[2] = {r}
  BY <1>2, <1>3 DEF RemovalLast
<1>5. \A j \in 2..Len(queue[k]) : queue[k][j][1] \notin {"append", "remove"}
  BY <1>2, <1>3 DEF RemovalLast
<1>6. \A l \in Keys \ {k} : \A i \in 1..Len(queue[l]) : queue[l][i][1] # "remove"
  BY <1>4 DEF RemovalLast
<1>7. /\ Len(queue'[k]) \in Nat
      /\ \A l \in Keys \ {k} : queue'[l] = queue[l]
      /\ \A i \in 1..Len(queue'[k]) :
           \/ queue'[k][i][1] \notin {"append", "remove"}
           \/ i + 1 \in 1..Len(queue[k]) /\ queue'[k][i] = queue[k][i + 1]
  BY <1>1, <1>2, RestIs
<1>8. ASSUME NEW i \in 1..Len(queue'[k])
      PROVE  queue'[k][i][1] \notin {"append", "remove"}
  <2>1. CASE i + 1 \in 1..Len(queue[k]) /\ queue'[k][i] = queue[k][i + 1]
    <3>1. i + 1 \in 2..Len(queue[k])
      BY <1>7, <2>1
    <3> QED
      BY <1>5, <2>1, <3>1
  <2> QED
    BY <1>7, <2>1
<1>9. \A l \in Keys \ {k} : Alive(l) \subseteq Alive(l)'
  BY <1>2, <1>4 DEF Alive
<1>10. Alive(k) \ {r} \subseteq Alive(k)'
  BY <1>2, <1>4 DEF Alive
<1>11. AdapterAlive'
  <2>1. \A l \in Keys : adapters'[l] \subseteq Alive(l)'
    BY <1>2, <1>4, <1>9, <1>10 DEF AdapterAlive, TypeOK
  <2> QED
    BY <1>7, <1>8, <1>9, <2>1 DEF AdapterAlive
<1>12. RemovalLast'
  BY <1>6, <1>7, <1>8 DEF RemovalLast
<1> QED
  BY <1>11, <1>12

LEMMA GuiAlive ==
  ASSUME TypeOK, Applying, RemovalLast, AdapterAlive, GuiStep
  PROVE  RemovalLast' /\ AdapterAlive'
<1>1. QueueType
  BY DEF TypeOK, QueueType, CallSet
<1> DEFINE none == [k \in Keys |-> {}]
<1>2. CASE PeriodicRepoUpdate \/ \E r \in Repos : RepositoryUpdate(r) \/ GraceEnds(r)
  BY <1>2 DEF PeriodicRepoUpdate, RepositoryUpdate, GraceEnds, RemovalLast, AdapterAlive,
     Alive, gui, update, mod
<1>3. CASE GetRemovables
  <2>1. removing = NoAdapter /\ UNCHANGED <<tree, removing, adapters>>
    BY <1>3 DEF GetRemovables, Gui, Waits, mod
  <2>2. \A k \in Keys : Posts(k, none[k])
    BY <1>1, <1>3, GetRemovablesPosts
  <2>3. \A k \in Keys : Alive(k) \cup none[k] \subseteq Alive(k)'
    BY <2>1 DEF Alive
  <2> HIDE DEF none
  <2> QED
    BY <1>1, <2>1, <2>2, <2>3, PostedAlive
<1>4. CASE UpdateRepositories
  <2> DEFINE added == [k \in Keys |-> AddedTo(k)]
  <2>1. removing = NoAdapter /\ UNCHANGED <<removing, adapters>>
    BY <1>4 DEF UpdateRepositories, Gui, Waits, mod
  <2>2. json' \in Lists
    BY <1>4, TreeAssumptions DEF UpdateRepositories, UpdateJsonMap
  <2>3. \A k \in Keys : Posts(k, added[k])
    BY <1>1, <1>4, <2>2, UpdateRepositoriesPosts
  <2>4. /\ DOMAIN tree' = DOMAIN tree \cup DOMAIN json'
        /\ \A r \in DOMAIN tree \cup DOMAIN json' :
             tree'[r] = (IF r \in DOMAIN tree THEN tree[r] ELSE {}) \cup
                        (IF r \in DOMAIN json' THEN json'[r] ELSE {})
    BY <1>4 DEF UpdateRepositories
  <2>5. \A k \in Keys : Alive(k) \cup added[k] \subseteq Alive(k)'
    BY <2>1, <2>4 DEF Alive, AddedTo
  <2> HIDE DEF added
  <2> QED
    BY <1>1, <2>1, <2>3, <2>5, PostedAlive
<1>5. CASE EndUpdate
  <2>1. removing = NoAdapter /\ UNCHANGED <<removing, adapters>>
    BY <1>5 DEF EndUpdate, Gui, Waits, mod
  <2>2. \A k \in Keys : Posts(k, none[k])
    BY <1>1, <1>5, EndUpdatePosts
  <2>3. /\ tree' = [r \in DOMAIN json |-> tree[r]]
        /\ \A r \in DOMAIN tree : tree[r] # {} => r \in DOMAIN json
    BY <1>5 DEF EndUpdate, Replaced, Applying
  <2>4. \A k \in Keys : Alive(k) \cup none[k] \subseteq Alive(k)'
    BY <2>1, <2>3 DEF Alive
  <2> HIDE DEF none
  <2> QED
    BY <1>1, <2>1, <2>2, <2>4, PostedAlive
<1>6. ASSUME NEW r \in Repos, StartRepository(r) \/ Click(r)
      PROVE  RemovalLast' /\ AdapterAlive'
  <2>1. removing = NoAdapter /\ UNCHANGED <<tree, removing, adapters>>
    BY <1>6 DEF StartRepository, Click, Idle, Gui, Waits, gui, update, mod
  <2>2. \A k \in Keys : Posts(k, none[k])
    BY <1>1, <1>6, StartRepositoryPosts, ClickPosts
  <2>3. \A k \in Keys : Alive(k) \cup none[k] \subseteq Alive(k)'
    BY <2>1 DEF Alive
  <2> HIDE DEF none
  <2> QED
    BY <1>1, <2>1, <2>2, <2>3, PostedAlive
<1> QED
  BY <1>2, <1>3, <1>4, <1>5, <1>6, RemoveAlive DEF GuiStep

LEMMA WorkerAlive ==
  ASSUME TypeOK, RemovalLast, AdapterAlive, NEW k \in Keys, WorkerStep(k)
  PROVE  RemovalLast' /\ AdapterAlive'
<1>1. QueueType
  BY DEF TypeOK, QueueType, CallSet
<1>2. CASE New(k) \/ Changed(k) \/ SwitchTimer(k) \/ Delete(k) \/ RemoveFolder(k)
  <2>1. queue[k] # <<>> /\ Rest(k) /\ UNCHANGED <<tree, removing>>
    BY <1>2 DEF New, Changed, SwitchTimer, Delete, RemoveFolder, Takes, gui, update
  <2>2. \A l \in Keys : adapters'[l] \subseteq adapters[l]
    BY <1>2 DEF New, Changed, SwitchTimer, Delete, RemoveFolder, mod, TypeOK
  <2>3. \A l \in Keys : adapters'[l] \subseteq Alive(l)
    BY <2>2 DEF AdapterAlive
  <2> QED
    BY <1>1, <2>1, <2>3, TakenAlive
<1>3. CASE AppendModAdapter(k)
  <2>1. /\ queue[k] # <<>> /\ Head(queue[k])[1] = "append" /\ RestAnd(k, "changed")
        /\ UNCHANGED <<tree, removing>>
        /\ adapters' = [adapters EXCEPT ![k] = @ \cup Head(queue[k])[2]]
    BY <1>3 DEF AppendModAdapter, Takes, gui, update
  <2>2. 1 \in 1..Len(queue[k]) /\ Head(queue[k]) = queue[k][1]
    BY <1>1, <2>1, TailIs DEF QueueType
  <2>3. Head(queue[k])[2] \subseteq Alive(k)
    BY <2>1, <2>2 DEF AdapterAlive
  <2>4. \A l \in Keys : adapters'[l] \subseteq Alive(l)
    BY <2>1, <2>3 DEF AdapterAlive, TypeOK
  <2>5. "changed" \in Calls
    BY DEF Calls
  <2> QED
    BY <1>1, <2>1, <2>4, <2>5, TakenAlive
<1>4. CASE ModUpdate(k) \/ FetchFailed(k)
  BY <1>4 DEF ModUpdate, FetchFailed, RemovalLast, AdapterAlive, Alive, gui, update, mod
<1>5. CASE FolderAdded(k)
  <2> DEFINE last == Len(queue[k]) + 1
  <2>1. UNCHANGED <<tree, removing, adapters>>
    BY <1>5 DEF FolderAdded, gui, update, mod
  <2>2. \A l \in Keys : Alive(l)' = Alive(l)
    BY <2>1 DEF Alive
  <2>3. CASE UNCHANGED queue
    BY <2>1, <2>2, <2>3 DEF RemovalLast, AdapterAlive
  <2>4. CASE queue' = [queue EXCEPT ![k] = Append(@, <<"startUpdates", {}>>)]
    <3>1. /\ queue'[k] = Append(queue[k], <<"startUpdates", {}>>)
          /\ \A l \in Keys \ {k} : queue'[l] = queue[l]
      BY <1>1, <2>4 DEF QueueType
    <3>2. <<"startUpdates", {}>> \in CallSet /\ queue[k] \in Seq(CallSet)
      BY <1>1 DEF CallSet, Calls, QueueType
    <3>3. /\ Len(queue'[k]) = last /\ Len(queue[k]) \in Nat
          /\ \A i \in 1..Len(queue[k]) : queue'[k][i] = queue[k][i]
          /\ queue'[k][last] = <<"startUpdates", {}>>
      BY <3>1, <3>2, AppendIs
    <3>4. ASSUME NEW i \in 1..Len(queue'[k])
          PROVE  \/ i \in 1..Len(queue[k]) /\ queue'[k][i] = queue[k][i]
                 \/ queue'[k][i][1] \notin {"append", "remove"}
      <4>1. i \in 1..Len(queue[k]) \/ i = last
        BY <3>3
      <4> QED
        BY <3>3, <4>1
    <3>5. AdapterAlive'
      BY <2>1, <2>2, <3>1, <3>4 DEF AdapterAlive
    <3>6. ASSUME NEW i \in 1..Len(queue'[k]), queue'[k][i][1] = "remove"
          PROVE  /\ \E r \in Repos : removing' = <<r, k>> /\ queue'[k][i][2] = {r}
                 /\ \A j \in i + 1..Len(queue'[k]) :
                      queue'[k][j][1] \notin {"append", "remove"}
      <4>1. i \in 1..Len(queue[k]) /\ queue'[k][i] = queue[k][i]
        BY <3>4, <3>6
      <4>2. /\ \E r \in Repos : removing = <<r, k>> /\ queue[k][i][2] = {r}
            /\ \A j \in i + 1..Len(queue[k]) : queue[k][j][1] \notin {"append", "remove"}
        BY <3>6, <4>1 DEF RemovalLast
      <4>3. \A j \in i + 1..Len(queue'[k]) : j \in i + 1..Len(queue[k]) \/ j = last
        BY <3>3, <4>1
      <4>4. \A j \in i + 1..Len(queue[k]) : queue'[k][j] = queue[k][j]
        BY <3>3, <4>1
      <4>5. \E r \in Repos : removing' = <<r, k>> /\ queue'[k][i][2] = {r}
        BY <2>1, <4>1, <4>2
      <4>6. ASSUME NEW j \in i + 1..Len(queue'[k])
            PROVE  queue'[k][j][1] \notin {"append", "remove"}
        <5>1. CASE j = last
          <6>1. queue'[k][j] = <<"startUpdates", {}>>
            BY <3>3, <5>1
          <6> QED
            BY <6>1
        <5>2. CASE j \in i + 1..Len(queue[k])
          <6>1. queue'[k][j] = queue[k][j]
            BY <4>4, <5>2
          <6> QED
            BY <4>2, <5>2, <6>1
        <5> QED
          BY <4>3, <5>1, <5>2
      <4> QED
        BY <4>5, <4>6
    <3>7. RemovalLast'
      <4> SUFFICES ASSUME NEW l \in Keys, l # k, NEW i \in 1..Len(queue'[l]),
                          queue'[l][i][1] = "remove"
                   PROVE  /\ \E r \in Repos : removing' = <<r, l>> /\ queue'[l][i][2] = {r}
                          /\ \A j \in i + 1..Len(queue'[l]) :
                               queue'[l][j][1] \notin {"append", "remove"}
        BY <3>6 DEF RemovalLast
      <4>1. queue'[l] = queue[l]
        BY <3>1
      <4> QED
        BY <2>1, <4>1 DEF RemovalLast
    <3> QED
      BY <3>5, <3>7
  <2>5. CASE k \in exists
    BY <1>5, <2>4, <2>5 DEF FolderAdded
  <2>6. CASE k \notin exists
    <3>1. queue' = [queue EXCEPT ![k] = queue[k]]
      BY <1>5, <2>6 DEF FolderAdded
    <3>2. queue' = queue
      BY <1>1, <3>1 DEF QueueType
    <3> QED
      BY <2>3, <3>2
  <2> QED
    BY <2>5, <2>6
<1> QED
  BY <1>2, <1>3, <1>4, <1>5, RemoveModAdapterAlive DEF WorkerStep

-----------------------------------------------------------------------------
(* Theorems *)

\* The invariant the properties follow from.
TreeInv == TypeOK /\ Applying /\ TreeIsFile /\ RemovalLast /\ AdapterAlive

LEMMA TreeInvariant == Spec => []TreeInv
<1>1. Init => TreeInv
  <2> SUFFICES ASSUME Init PROVE TreeInv
    OBVIOUS
  <2>1. TypeOK /\ Applying /\ TreeIsFile
    BY TypeInit DEF Init, Applying, TreeIsFile
  <2>2. ASSUME NEW k \in Keys, NEW i \in 1..Len(queue[k])
        PROVE  queue[k][i][1] \notin {"append", "remove"}
    <3> DEFINE a == Call("changed", {}, k \in objs)
               b == Call("startUpdates", {}, k \in objs)
    <3>1. /\ a \in Seq(CallSet) /\ Elements(a) \subseteq {<<"changed", {}>>}
          /\ b \in Seq(CallSet) /\ Elements(b) \subseteq {<<"startUpdates", {}>>}
      BY CallIs DEF Calls
    <3>2. queue[k] = a \o b
      BY DEF Init
    <3> HIDE DEF a, b
    <3>3. Elements(queue[k]) = Elements(a) \cup Elements(b)
      BY <3>1, <3>2, ConcatIs
    <3>4. queue[k][i] \in Elements(queue[k])
      BY DEF Elements
    <3> QED
      BY <3>1, <3>3, <3>4
  <2>3. \A k \in Keys : adapters[k] \subseteq Alive(k)
    <3>1. DOMAIN tree \subseteq Repos
      BY <2>1, ListIs DEF TypeOK
    <3> QED
      BY <3>1 DEF Init, Alive
  <2> QED
    BY <2>1, <2>2, <2>3 DEF TreeInv, RemovalLast, AdapterAlive
<1>2. TreeInv /\ [Next]_vars => TreeInv'
  <2> SUFFICES ASSUME TreeInv, [Next]_vars PROVE TreeInv'
    OBVIOUS
  <2> USE DEF TreeInv
  <2>1. Applying' /\ TreeIsFile'
    BY ApplyingStep, TreeStep
  <2>2. CASE UNCHANGED vars
    BY <2>1, <2>2 DEF vars, gui, update, mod, TypeOK, RemovalLast, AdapterAlive, Alive
  <2>3. CASE GuiStep
    <3>1. TypeOK'
      BY <2>3, UpdateTypes, GuiTypes DEF GuiStep
    <3> QED
      BY <2>1, <2>3, <3>1, GuiAlive
  <2>4. ASSUME NEW k \in Keys, WorkerStep(k) PROVE TreeInv'
    BY <2>1, <2>4, WorkerTypes, WorkerAlive
  <2> QED
    BY <2>2, <2>3, <2>4 DEF Next
<1> QED
  BY <1>1, <1>2, PTL DEF Spec

\* TypeOK, for any files on the server.
THEOREM TreeTypeCorrect == Spec => []TypeOK
<1>1. TreeInv => TypeOK
  BY DEF TreeInv
<1> QED
  BY <1>1, TreeInvariant, PTL

\* However the fetches of an update end, the tree is the last file
\* (JsonReader::updateRepositoriesOffline).
THEOREM TreeIsFileAlways == Spec => []TreeIsFile
<1>1. TreeInv => TreeIsFile
  BY DEF TreeInv
<1> QED
  BY <1>1, TreeInvariant, PTL

\* The worker holds no destroyed adapter (ModAdapter::~ModAdapter).
THEOREM AdapterAliveAlways == Spec => []AdapterAlive
<1>1. TreeInv => AdapterAlive
  BY DEF TreeInv
<1> QED
  BY <1>1, TreeInvariant, PTL

-----------------------------------------------------------------------------
(* The order of the calls.  What a queue holds decides what the worker will  *)
(* know, but the order decides too: a queue is in order if no two of its     *)
(* calls follow each other in a way the update of the list rules out.        *)

\* The second is never queued behind the first.
Never ==
  {<<"remove", c>> : c \in {"append", "remove", "new", "removeFolder",
                            "stopUpdates", "delete"}}
  \cup {<<"append", "new">>, <<"new", "new">>, <<"new", "delete">>,
        <<"stopUpdates", "removeFolder">>}

InOrder(s) == \A i, j \in 1..Len(s) : i < j => <<s[i][1], s[j][1]>> \notin Never

\* The timer is started behind every adapter of repository r that is added.
Started(s, r) ==
  \A i \in 1..Len(s) : s[i][1] = "append" /\ r \in s[i][2]
    => \E j \in i + 1..Len(s) : s[j][1] = "startUpdates"

LEMMA CallExactly ==
  ASSUME NEW kind \in Calls, NEW repos \in SUBSET Repos, NEW cond
  PROVE  /\ Call(kind, repos, cond) \in Seq(CallSet)
         /\ Elements(Call(kind, repos, cond)) = IF cond THEN {<<kind, repos>>} ELSE {}
         /\ InOrder(Call(kind, repos, cond))
         /\ kind # "append" => \A r : Started(Call(kind, repos, cond), r)
BY DEF Call, Nothing, Elements, CallSet, InOrder, Started

LEMMA ConcatInOrder ==
  ASSUME NEW s \in Seq(CallSet), NEW t \in Seq(CallSet), InOrder(s), InOrder(t),
         \A c \in Elements(s), d \in Elements(t) : <<c[1], d[1]>> \notin Never
  PROVE  InOrder(s \o t)
<1>1. s \o t \in Seq(CallSet) /\ Len(s \o t) = Len(s) + Len(t)
  OBVIOUS
<1>2. \A i \in 1..Len(s) : (s \o t)[i] = s[i]
  OBVIOUS
<1>3. \A i \in 1..Len(t) : (s \o t)[Len(s) + i] = t[i]
  OBVIOUS
<1> SUFFICES ASSUME NEW i \in 1..Len(s \o t), NEW j \in 1..Len(s \o t), i < j
             PROVE  <<(s \o t)[i][1], (s \o t)[j][1]>> \notin Never
  BY DEF InOrder
<1>4. CASE j <= Len(s)
  BY <1>1, <1>2, <1>4 DEF InOrder
<1>5. CASE i > Len(s)
  <2>1. /\ i - Len(s) \in 1..Len(t) /\ i = Len(s) + (i - Len(s))
        /\ j - Len(s) \in 1..Len(t) /\ j = Len(s) + (j - Len(s))
        /\ i - Len(s) < j - Len(s)
    BY <1>1, <1>5
  <2>2. (s \o t)[i] = t[i - Len(s)] /\ (s \o t)[j] = t[j - Len(s)]
    BY <1>3, <2>1
  <2> QED
    BY <2>1, <2>2 DEF InOrder
<1>6. CASE i <= Len(s) /\ j > Len(s)
  <2>1. i \in 1..Len(s) /\ j - Len(s) \in 1..Len(t) /\ j = Len(s) + (j - Len(s))
    BY <1>1, <1>6
  <2>2. (s \o t)[i] = s[i] /\ (s \o t)[j] = t[j - Len(s)]
    BY <1>2, <1>3, <2>1
  <2> QED
    BY <2>1, <2>2 DEF Elements
<1>7. j <= Len(s) \/ i > Len(s) \/ (i <= Len(s) /\ j > Len(s))
  BY <1>1
<1> QED
  BY <1>4, <1>5, <1>6, <1>7

LEMMA ConcatStarted ==
  ASSUME NEW s \in Seq(CallSet), NEW t \in Seq(CallSet), NEW r, Started(t, r),
         Started(s, r) \/ \E c \in Elements(t) : c[1] = "startUpdates"
  PROVE  Started(s \o t, r)
<1>1. s \o t \in Seq(CallSet) /\ Len(s \o t) = Len(s) + Len(t)
  OBVIOUS
<1>2. \A i \in 1..Len(s) : (s \o t)[i] = s[i]
  OBVIOUS
<1>3. \A i \in 1..Len(t) : (s \o t)[Len(s) + i] = t[i]
  OBVIOUS
<1> SUFFICES ASSUME NEW i \in 1..Len(s \o t),
                    (s \o t)[i][1] = "append", r \in (s \o t)[i][2]
             PROVE  \E j \in i + 1..Len(s \o t) : (s \o t)[j][1] = "startUpdates"
  BY DEF Started
<1>4. CASE i > Len(s)
  <2>1. i - Len(s) \in 1..Len(t) /\ i = Len(s) + (i - Len(s))
    BY <1>1, <1>4
  <2>2. (s \o t)[i] = t[i - Len(s)]
    BY <1>3, <2>1
  <2>3. PICK j \in (i - Len(s)) + 1..Len(t) : t[j][1] = "startUpdates"
    BY <2>1, <2>2 DEF Started
  <2>4. j \in 1..Len(t) /\ Len(s) + j \in i + 1..Len(s \o t)
    BY <1>1, <2>1
  <2> QED
    BY <1>3, <2>3, <2>4
<1>5. CASE i <= Len(s) /\ Started(s, r)
  <2>1. i \in 1..Len(s) /\ (s \o t)[i] = s[i]
    BY <1>1, <1>2, <1>5
  <2>2. PICK j \in i + 1..Len(s) : s[j][1] = "startUpdates"
    BY <1>5, <2>1 DEF Started
  <2>3. j \in 1..Len(s) /\ j \in i + 1..Len(s \o t)
    BY <1>1, <2>1
  <2> QED
    BY <1>2, <2>2, <2>3
<1>6. CASE i <= Len(s) /\ \E c \in Elements(t) : c[1] = "startUpdates"
  <2>1. PICK j \in 1..Len(t) : t[j][1] = "startUpdates"
    BY <1>6 DEF Elements
  <2>2. Len(s) + j \in i + 1..Len(s \o t)
    BY <1>1, <1>6
  <2> QED
    BY <1>3, <2>1, <2>2
<1> QED
  BY <1>1, <1>4, <1>5, <1>6

LEMMA TailParts ==
  ASSUME NEW s \in Seq(CallSet), s # <<>>
  PROVE  /\ Tail(s) \in Seq(CallSet) /\ Head(s) \in CallSet
         /\ Elements(s) = {Head(s)} \cup Elements(Tail(s))
         /\ InOrder(s) =>
              /\ InOrder(Tail(s))
              /\ \A c \in Elements(Tail(s)) : <<Head(s)[1], c[1]>> \notin Never
         /\ \A r : Started(s, r) =>
              /\ Started(Tail(s), r)
              /\ Head(s)[1] = "append" /\ r \in Head(s)[2]
                   => \E c \in Elements(Tail(s)) : c[1] = "startUpdates"
<1>1. /\ Tail(s) \in Seq(CallSet) /\ Len(Tail(s)) = Len(s) - 1 /\ Len(s) \in Nat \ {0}
      /\ \A i \in 1..Len(s) - 1 : Tail(s)[i] = s[i + 1]
      /\ Head(s) = s[1] /\ Head(s) \in CallSet
  BY TailIs
<1>2. Elements(s) = {Head(s)} \cup Elements(Tail(s))
  <2>1. \A i \in 1..Len(s) : i = 1 \/ (i - 1 \in 1..Len(Tail(s)) /\ s[i] = Tail(s)[i - 1])
    BY <1>1
  <2>2. \A i \in 1..Len(Tail(s)) : i + 1 \in 1..Len(s) /\ Tail(s)[i] = s[i + 1]
    BY <1>1
  <2>3. 1 \in 1..Len(s) /\ Head(s) = s[1]
    BY <1>1
  <2>4. Elements(s) \subseteq {Head(s)} \cup Elements(Tail(s))
    BY <2>1, <2>3 DEF Elements
  <2>5. Head(s) \in Elements(s) /\ Elements(Tail(s)) \subseteq Elements(s)
    BY <2>2, <2>3 DEF Elements
  <2> QED
    BY <2>4, <2>5
<1>3. ASSUME InOrder(s)
      PROVE  /\ InOrder(Tail(s))
             /\ \A c \in Elements(Tail(s)) : <<Head(s)[1], c[1]>> \notin Never
  <2>1. \A i \in 1..Len(Tail(s)) : i + 1 \in 1..Len(s) /\ Tail(s)[i] = s[i + 1] /\ 1 < i + 1
    BY <1>1
  <2>2. 1 \in 1..Len(s)
    BY <1>1
  <2>3. InOrder(Tail(s))
    BY <1>1, <1>3, <2>1 DEF InOrder
  <2> QED
    BY <1>1, <1>3, <2>1, <2>2, <2>3 DEF InOrder, Elements
<1>4. ASSUME NEW r, Started(s, r)
      PROVE  /\ Started(Tail(s), r)
             /\ Head(s)[1] = "append" /\ r \in Head(s)[2]
                  => \E c \in Elements(Tail(s)) : c[1] = "startUpdates"
  <2>1. \A i \in 1..Len(s) : \A j \in i + 1..Len(s) :
          j - 1 \in i..Len(Tail(s)) /\ j - 1 \in 1..Len(Tail(s)) /\ s[j] = Tail(s)[j - 1]
    BY <1>1
  <2>2. ASSUME NEW i \in 1..Len(Tail(s)), Tail(s)[i][1] = "append", r \in Tail(s)[i][2]
        PROVE  \E j \in i + 1..Len(Tail(s)) : Tail(s)[j][1] = "startUpdates"
    <3>1. i + 1 \in 1..Len(s) /\ s[i + 1] = Tail(s)[i]
      BY <1>1
    <3>2. PICK j \in i + 1 + 1..Len(s) : s[j][1] = "startUpdates"
      BY <1>4, <2>2, <3>1 DEF Started
    <3> QED
      BY <2>1, <3>1, <3>2
  <2>3. ASSUME Head(s)[1] = "append", r \in Head(s)[2]
        PROVE  \E c \in Elements(Tail(s)) : c[1] = "startUpdates"
    <3>1. 1 \in 1..Len(s)
      BY <1>1
    <3>2. PICK j \in 1 + 1..Len(s) : s[j][1] = "startUpdates"
      BY <1>1, <1>4, <2>3, <3>1 DEF Started
    <3> QED
      BY <2>1, <3>1, <3>2 DEF Elements
  <2> QED
    BY <2>2, <2>3 DEF Started
<1> QED
  BY <1>1, <1>2, <1>3, <1>4

LEMMA AppendParts ==
  ASSUME NEW s \in Seq(CallSet), NEW kind \in Calls, NEW repos \in SUBSET Repos
  PROVE  /\ Append(s, <<kind, repos>>) \in Seq(CallSet)
         /\ Elements(Append(s, <<kind, repos>>)) = Elements(s) \cup {<<kind, repos>>}
         /\ InOrder(s) /\ (\A c \in Elements(s) : <<c[1], kind>> \notin Never)
              => InOrder(Append(s, <<kind, repos>>))
         /\ \A r : Started(s, r) /\ kind # "append"
              => Started(Append(s, <<kind, repos>>), r)
         /\ kind = "startUpdates" => \A r : Started(Append(s, <<kind, repos>>), r)
<1> DEFINE t == Call(kind, repos, TRUE)
<1>1. Append(s, <<kind, repos>>) = s \o t
  BY DEF Call
<1>2. /\ t \in Seq(CallSet) /\ Elements(t) = {<<kind, repos>>} /\ InOrder(t)
      /\ kind # "append" => \A r : Started(t, r)
  BY CallExactly
<1> HIDE DEF t
<1>3. s \o t \in Seq(CallSet) /\ Elements(s \o t) = Elements(s) \cup Elements(t)
  BY <1>2, ConcatIs
<1>4. ASSUME InOrder(s), \A c \in Elements(s) : <<c[1], kind>> \notin Never
      PROVE  InOrder(s \o t)
  BY <1>2, <1>4, ConcatInOrder
<1>5. ASSUME NEW r, Started(s, r), kind # "append"
      PROVE  Started(s \o t, r)
  BY <1>2, <1>5, ConcatStarted
<1>6. ASSUME kind = "startUpdates", NEW r
      PROVE  Started(s \o t, r)
  <2>1. Started(t, r)
    BY <1>2, <1>6
  <2>2. <<kind, repos>> \in Elements(t) /\ <<kind, repos>>[1] = "startUpdates"
    BY <1>2, <1>6
  <2> QED
    BY <1>2, <2>1, <2>2, ConcatStarted
<1> QED
  BY <1>1, <1>2, <1>3, <1>4, <1>5, <1>6

-----------------------------------------------------------------------------
(* What the worker will know when its queue is empty                        *)

Has(k, kinds) == \E c \in Elements(queue[k]) : c[1] \in kinds

\* The calls that tell the mod about its adapters or its existence.
Telling(k) ==
  {c \in Elements(queue[k]) : c[1] \in {"append", "remove", "new", "delete"}}

\* The adapters that will be added, and those the mod has until then.
Appended(k) == UNION {c[2] : c \in {d \in Elements(queue[k]) : d[1] = "append"}}
Held(k) == IF Has(k, {"new"}) THEN {} ELSE adapters[k]

\* The mods of the GUI thread are those of its tree; while an update is
\* applied, also those of the file.
ObjsMatch ==
  /\ phase # "removing" => objs = KeysOf(tree) /\ removing = NoAdapter
  /\ phase = "removing" =>
       KeysOf(tree) \subseteq objs /\ KeysOf(json) \subseteq objs /\ drop \subseteq PairsOf(tree)
  /\ phase # "removing" => drop = {} /\ toStart = {}
  /\ removing \notin PairsOf(tree)
  /\ \A r \in Repos, k \in Keys : removing = <<r, k>> => k \in objs

\* A mod that the file does not list has adapters to be removed, or its last
\* call about them is handled.
Withdrawn(k) ==
  phase = "removing" /\ k \in objs /\ k \notin KeysOf(json) =>
    \/ \E r \in Repos : <<r, k>> \in drop \/ removing = <<r, k>>
    \/ ~Has(k, {"append", "remove", "new"})

Known(k) ==
  /\ InOrder(queue[k])
  /\ Has(k, {"new"}) => k \in objs
  /\ Has(k, {"delete"}) /\ ~Has(k, {"new"}) => k \notin objs
  /\ ~Has(k, {"new", "delete"}) => (k \in exists <=> k \in objs)
  /\ Held(k) \cup Appended(k) = Alive(k)
  /\ k \notin objs => ~Has(k, {"append", "remove", "new"})

KnowInv == ObjsMatch /\ \A k \in Keys : Known(k) /\ Withdrawn(k)

LEMMA HasTelling ==
  ASSUME NEW k, Telling(k)' = Telling(k)
  PROVE  /\ Has(k, {"new"})' <=> Has(k, {"new"})
         /\ Has(k, {"delete"})' <=> Has(k, {"delete"})
         /\ Has(k, {"new", "delete"})' <=> Has(k, {"new", "delete"})
         /\ Has(k, {"append", "remove", "new"})' <=> Has(k, {"append", "remove", "new"})
         /\ Appended(k)' = Appended(k)
<1>1. \A c : c \in Telling(k) <=>
        c \in Elements(queue[k]) /\ c[1] \in {"append", "remove", "new", "delete"}
  BY DEF Telling
<1>2. \A c : c \in Telling(k) <=>
        c \in Elements(queue'[k]) /\ c[1] \in {"append", "remove", "new", "delete"}
  BY DEF Telling
<1> QED
  BY <1>1, <1>2 DEF Has, Appended

LEMMA KnownFrame ==
  ASSUME NEW k, Known(k), InOrder(queue'[k]), Telling(k)' = Telling(k),
         adapters'[k] = adapters[k], k \in exists' <=> k \in exists,
         k \in objs' <=> k \in objs, Alive(k)' = Alive(k)
  PROVE  Known(k)'
BY HasTelling DEF Known, Held

LEMMA WithdrawnFrame ==
  ASSUME NEW k, Withdrawn(k), Telling(k)' = Telling(k),
         UNCHANGED <<phase, json, objs, drop, removing>>
  PROVE  Withdrawn(k)'
BY HasTelling DEF Withdrawn, KeysOf

\* The GUI thread works only when no call is waited for.
LEMMA GuiFree ==
  ASSUME TypeOK, RemovalLast, Gui
  PROVE  /\ removing = NoAdapter
         /\ \A k \in Keys : \A c \in Elements(queue[k]) :
              c[1] \notin {"remove", "stopUpdates"}
BY TreeAssumptions DEF Gui, Waits, RemovalLast, Elements

LEMMA UpdateCalls ==
  ASSUME QueueType, UpdateRepositories, json' \in Lists, NEW k \in Keys,
         InOrder(queue[k]),
         \A c \in Elements(queue[k]) : c[1] \notin {"remove", "stopUpdates"},
         k \notin objs => ~Has(k, {"append", "new"})
  PROVE  /\ InOrder(queue'[k])
         /\ Elements(queue'[k]) = Elements(queue[k])
              \cup (IF k \in KeysOf(json') \ objs THEN {<<"new", {}>>} ELSE {})
              \cup (IF \E r \in DOMAIN tree \cap DOMAIN json' : k \in tree[r]
                    THEN {<<"stopUpdates", {}>>} ELSE {})
              \cup (IF AddedTo(k) # {} THEN {<<"append", AddedTo(k)>>} ELSE {})
<1> DEFINE n == Call("new", {}, k \in KeysOf(json') \ objs)
           s == Call("stopUpdates", {},
                     \E r \in DOMAIN tree \cap DOMAIN json' : k \in tree[r])
           a == Call("append", AddedTo(k), AddedTo(k) # {})
<1>1. queue'[k] = queue[k] \o (n \o s \o a) /\ queue[k] \in Seq(CallSet)
  <2>1. \A l \in Keys : AddedTo(l) =
          {r \in DOMAIN json' : l \in (IF r \in DOMAIN json' THEN json'[r] ELSE {})
                                      \ (IF r \in DOMAIN tree THEN tree[r] ELSE {})}
    BY DEF AddedTo
  <2>2. queue' = [l \in Keys |-> queue[l] \o
                    (Call("new", {}, l \in KeysOf(json') \ objs)
                     \o Call("stopUpdates", {},
                             \E r \in DOMAIN tree \cap DOMAIN json' : l \in tree[r])
                     \o Call("append", AddedTo(l), AddedTo(l) # {}))]
    BY <2>1, Zenon DEF UpdateRepositories, Posted
  <2> QED
    BY <2>2 DEF QueueType
<1>2. AddedTo(k) \in SUBSET Repos
  BY ListIs DEF AddedTo
<1>3. /\ n \in Seq(CallSet) /\ InOrder(n)
      /\ Elements(n) = IF k \in KeysOf(json') \ objs THEN {<<"new", {}>>} ELSE {}
  BY CallExactly DEF Calls
<1>4. /\ s \in Seq(CallSet) /\ InOrder(s)
      /\ Elements(s) = IF \E r \in DOMAIN tree \cap DOMAIN json' : k \in tree[r]
                       THEN {<<"stopUpdates", {}>>} ELSE {}
  BY CallExactly DEF Calls
<1>5. /\ a \in Seq(CallSet) /\ InOrder(a)
      /\ Elements(a) = IF AddedTo(k) # {} THEN {<<"append", AddedTo(k)>>} ELSE {}
  BY <1>2, CallExactly DEF Calls
<1> HIDE DEF n, s, a
<1>6. /\ n \o s \in Seq(CallSet) /\ Elements(n \o s) = Elements(n) \cup Elements(s)
      /\ InOrder(n \o s)
  <2>1. \A c \in Elements(n), d \in Elements(s) : <<c[1], d[1]>> \notin Never
    BY <1>3, <1>4 DEF Never
  <2> QED
    BY <1>3, <1>4, <2>1, ConcatIs, ConcatInOrder
<1>7. /\ n \o s \o a \in Seq(CallSet) /\ InOrder(n \o s \o a)
      /\ Elements(n \o s \o a) = Elements(n) \cup Elements(s) \cup Elements(a)
  <2>1. \A c \in Elements(n \o s), d \in Elements(a) : <<c[1], d[1]>> \notin Never
    BY <1>3, <1>4, <1>5, <1>6 DEF Never
  <2> QED
    BY <1>5, <1>6, <2>1, ConcatIs, ConcatInOrder
<1>8. \A c \in Elements(queue[k]), d \in Elements(n \o s \o a) : <<c[1], d[1]>> \notin Never
  BY <1>3, <1>4, <1>5, <1>7 DEF Never, Has
<1>9. /\ InOrder(queue[k] \o (n \o s \o a))
      /\ Elements(queue[k] \o (n \o s \o a)) = Elements(queue[k]) \cup Elements(n \o s \o a)
  BY <1>1, <1>7, <1>8, ConcatIs, ConcatInOrder
<1> QED
  BY <1>1, <1>3, <1>4, <1>5, <1>7, <1>9

LEMMA ConcatOne ==
  ASSUME NEW s \in Seq(CallSet), NEW c \in CallSet
  PROVE  s \o <<>> = s /\ s \o <<c>> = Append(s, c)
<1>1. s \o <<>> = s
  OBVIOUS
<1>2. s \o <<c>> = Append(s, c)
  OBVIOUS
<1> QED
  BY <1>1, <1>2

LEMMA ConcatTwo ==
  ASSUME NEW s \in Seq(CallSet), NEW c \in CallSet, NEW d \in CallSet
  PROVE  s \o (<<c>> \o <<d>>) = Append(Append(s, c), d)
<1>1. <<c>> \in Seq(CallSet)
  OBVIOUS
<1>2. <<c>> \o <<d>> = Append(<<c>>, d)
  BY <1>1, ConcatOne
<1>3. s \o Append(<<c>>, d) = Append(s \o <<c>>, d)
  BY <1>1
<1> QED
  BY <1>2, <1>3, ConcatOne

\* One more call, for the mods of a set.
LEMMA PostOne ==
  ASSUME QueueType, NEW kind \in Calls, kind # "append", NEW S, NEW k \in Keys,
         k \in S => queue'[k] = queue[k] \o <<<<kind, {}>>>>,
         k \notin S => queue'[k] = queue[k] \o <<>>,
         InOrder(queue[k]),
         k \in S => \A c \in Elements(queue[k]) : <<c[1], kind>> \notin Never
  PROVE  /\ queue'[k] \in Seq(CallSet) /\ InOrder(queue'[k])
         /\ Elements(queue'[k]) = Elements(queue[k]) \cup (IF k \in S THEN {<<kind, {}>>} ELSE {})
         /\ \A r : Started(queue[k], r) => Started(queue'[k], r)
         /\ kind = "startUpdates" /\ k \in S => \A r : Started(queue'[k], r)
<1> DEFINE h == Append(queue[k], <<kind, {}>>)
<1>1. /\ queue[k] \in Seq(CallSet) /\ {} \in SUBSET Repos /\ kind \in Calls
      /\ <<kind, {}>> \in CallSet
  BY DEF QueueType, CallSet
<1>2. CASE k \in S
  <2>1. queue'[k] = h
    BY <1>1, <1>2, ConcatOne
  <2>2. /\ h \in Seq(CallSet) /\ Elements(h) = Elements(queue[k]) \cup {<<kind, {}>>}
        /\ InOrder(h) /\ \A r : Started(queue[k], r) => Started(h, r)
        /\ kind = "startUpdates" => \A r : Started(h, r)
    BY <1>1, <1>2, AppendParts
  <2> HIDE DEF h
  <2> QED
    BY <1>2, <2>1, <2>2
<1>3. CASE k \notin S
  <2>1. queue'[k] = queue[k]
    BY <1>1, <1>3, ConcatOne
  <2> QED
    BY <1>1, <1>3, <2>1
<1> QED
  BY <1>2, <1>3

\* What Click posts for a mod of the repository.
LEMMA ClickCalls ==
  ASSUME QueueType, NEW r \in Repos, Click(r), NEW k \in Keys, InOrder(queue[k])
  PROVE  /\ InOrder(queue'[k])
         /\ k \notin tree[r] => queue'[k] = queue[k]
         /\ k \in tree[r] =>
              Elements(queue'[k]) = Elements(queue[k]) \cup {<<"changed", {}>>}
                \cup (IF r \notin ticked THEN {<<"startUpdates", {}>>} ELSE {})
         /\ \A q : Started(queue[k], q) => Started(queue'[k], q)
         /\ r \notin ticked /\ k \in tree[r] => Started(queue'[k], r)
<1>1. /\ queue[k] \in Seq(CallSet) /\ {} \in SUBSET Repos
      /\ "startUpdates" \in Calls /\ "changed" \in Calls
  BY DEF QueueType, Calls
<1>2. \A c : c \notin Never \/ c[2] \notin {"startUpdates", "changed"}
  BY DEF Never
<1> DEFINE a == Call("startUpdates", {}, k \in tree[r])
           b == Call("changed", {}, k \in tree[r])
<1>6. /\ r \notin ticked => queue'[k] = queue[k] \o (a \o b)
      /\ r \in ticked => queue'[k] = queue[k] \o b
  BY Zenon DEF Click, Posted, QueueType
<1>7. /\ k \in tree[r] => a = <<<<"startUpdates", {}>>>> /\ b = <<<<"changed", {}>>>>
      /\ k \notin tree[r] => a = <<>> /\ b = <<>>
  BY DEF Call, Nothing
<1> HIDE DEF a, b
<1>8. <<"startUpdates", {}>> \in CallSet /\ <<"changed", {}>> \in CallSet
  BY <1>1 DEF CallSet
<1>3. CASE k \notin tree[r]
  <2>1. a \o b = <<>> /\ queue[k] \o <<>> = queue[k]
    BY <1>1, <1>3, <1>7
  <2>2. queue'[k] = queue[k]
    BY <1>3, <1>6, <1>7, <2>1
  <2> QED
    BY <1>3, <2>2
<1>4. CASE k \in tree[r] /\ r \in ticked
  <2> DEFINE h == Append(queue[k], <<"changed", {}>>)
  <2>1. queue'[k] = h
    BY <1>1, <1>4, <1>6, <1>7, <1>8
  <2>2. \A c \in Elements(queue[k]) : <<c[1], "changed">> \notin Never
    BY <1>2
  <2>3. /\ InOrder(h) /\ \A q : Started(queue[k], q) => Started(h, q)
        /\ Elements(h) = Elements(queue[k]) \cup {<<"changed", {}>>}
    BY <1>1, <2>2, AppendParts
  <2> HIDE DEF h
  <2> QED
    BY <1>4, <2>1, <2>3
<1>5. CASE k \in tree[r] /\ r \notin ticked
  <2> DEFINE h == Append(queue[k], <<"startUpdates", {}>>)
             g == Append(h, <<"changed", {}>>)
  <2>1. queue'[k] = g
    <3>1. /\ queue'[k] = queue[k] \o (a \o b)
          /\ a = <<<<"startUpdates", {}>>>> /\ b = <<<<"changed", {}>>>>
      BY <1>5, <1>6, <1>7
    <3> QED
      BY <1>1, <1>8, <3>1, ConcatTwo
  <2>2. \A c \in Elements(queue[k]) : <<c[1], "startUpdates">> \notin Never
    BY <1>2
  <2>3. /\ h \in Seq(CallSet) /\ InOrder(h) /\ \A q : Started(h, q)
        /\ Elements(h) = Elements(queue[k]) \cup {<<"startUpdates", {}>>}
    BY <1>1, <2>2, AppendParts
  <2> HIDE DEF h
  <2>4. \A c \in Elements(h) : <<c[1], "changed">> \notin Never
    BY <1>2
  <2>5. /\ InOrder(g) /\ \A q : Started(g, q)
        /\ Elements(g) = Elements(h) \cup {<<"changed", {}>>}
    BY <1>1, <2>3, <2>4, AppendParts
  <2> HIDE DEF g
  <2> QED
    BY <1>5, <2>1, <2>3, <2>5
<1> QED
  BY <1>3, <1>4, <1>5

LEMMA RemovablesCalls ==
  ASSUME QueueType, GetRemovables, NEW k \in Keys, InOrder(queue[k]),
         \A c \in Elements(queue[k]) : c[1] \notin {"remove", "stopUpdates"}
  PROVE  /\ InOrder(queue'[k])
         /\ Elements(queue'[k]) = Elements(queue[k]) \cup
              (IF k \in Removables(json') THEN {<<"removeFolder", {}>>} ELSE {})
         /\ \A r : Started(queue[k], r) => Started(queue'[k], r)
<1> DEFINE S == Removables(json')
<1>1. queue'[k] = queue[k] \o Call("removeFolder", {}, k \in S)
  BY Zenon DEF GetRemovables, Posted
<1>2. /\ k \in S => queue'[k] = queue[k] \o <<<<"removeFolder", {}>>>>
      /\ k \notin S => queue'[k] = queue[k] \o <<>>
  BY <1>1 DEF Call, Nothing
<1>3. \A c \in Elements(queue[k]) : <<c[1], "removeFolder">> \notin Never
  BY DEF Never
<1> HIDE DEF S
<1>4. /\ InOrder(queue'[k])
      /\ Elements(queue'[k]) = Elements(queue[k]) \cup
           (IF k \in S THEN {<<"removeFolder", {}>>} ELSE {})
      /\ \A r : Started(queue[k], r) => Started(queue'[k], r)
  BY <1>2, <1>3, PostOne DEF Calls
<1> QED
  BY <1>4 DEF S

LEMMA StartCalls ==
  ASSUME QueueType, NEW r \in Repos, StartRepository(r), NEW k \in Keys, InOrder(queue[k])
  PROVE  /\ InOrder(queue'[k])
         /\ Elements(queue'[k]) = Elements(queue[k]) \cup
              (IF k \in tree[r] THEN {<<"startUpdates", {}>>} ELSE {})
         /\ \A q : Started(queue[k], q) => Started(queue'[k], q)
         /\ k \in tree[r] => \A q : Started(queue'[k], q)
<1>1. queue'[k] = queue[k] \o Call("startUpdates", {}, k \in tree[r])
  BY Zenon DEF StartRepository, Posted
<1>2. /\ k \in tree[r] => queue'[k] = queue[k] \o <<<<"startUpdates", {}>>>>
      /\ k \notin tree[r] => queue'[k] = queue[k] \o <<>>
  BY <1>1 DEF Call, Nothing
<1>3. \A c \in Elements(queue[k]) : <<c[1], "startUpdates">> \notin Never
  BY DEF Never
<1> QED
  BY <1>2, <1>3, PostOne DEF Calls

LEMMA EndCalls ==
  ASSUME QueueType, EndUpdate, NEW k \in Keys, InOrder(queue[k]),
         k \in objs \ objs' => \A c \in Elements(queue[k]) : c[1] \notin {"remove", "new"}
  PROVE  /\ InOrder(queue'[k])
         /\ Elements(queue'[k]) = Elements(queue[k]) \cup
              (IF k \in objs \ objs' THEN {<<"delete", {}>>} ELSE {})
         /\ \A r : Started(queue[k], r) => Started(queue'[k], r)
<1> DEFINE S == objs \ objs'
<1>1. queue'[k] = queue[k] \o Call("delete", {}, k \in S)
  BY Zenon DEF EndUpdate, Posted
<1>2. /\ k \in S => queue'[k] = queue[k] \o <<<<"delete", {}>>>>
      /\ k \notin S => queue'[k] = queue[k] \o <<>>
  BY <1>1 DEF Call, Nothing
<1>3. k \in S => \A c \in Elements(queue[k]) : <<c[1], "delete">> \notin Never
  BY DEF Never
<1> HIDE DEF S
<1>4. /\ InOrder(queue'[k])
      /\ Elements(queue'[k]) = Elements(queue[k]) \cup
           (IF k \in S THEN {<<"delete", {}>>} ELSE {})
      /\ \A r : Started(queue[k], r) => Started(queue'[k], r)
  BY <1>2, <1>3, PostOne DEF Calls
<1> QED
  BY <1>4 DEF S

\* A step for one mod leaves the others alone.
LEMMA WorkerOthers ==
  ASSUME TypeOK, NEW k \in Keys, WorkerStep(k), NEW l \in Keys, l # k
  PROVE  /\ queue'[l] = queue[l] /\ adapters'[l] = adapters[l] /\ folder'[l] = folder[l]
         /\ l \in exists' <=> l \in exists
         /\ l \in timer' <=> l \in timer
         /\ l \in excused' <=> l \in excused
         /\ UNCHANGED <<json, tree, ticked, rstatus, phase, drop, toStart, objs>>
         /\ removing' = removing \/ (RemoveModAdapter(k) /\ removing' = NoAdapter)
<1> USE DEF TypeOK, gui, update, mod
<1>1. ASSUME NEW S, RepositoryChanged(k, S)
      PROVE  /\ folder'[l] = folder[l]
             /\ l \in timer' <=> l \in timer
             /\ l \in excused' <=> l \in excused
  BY <1>1 DEF RepositoryChanged
<1>2. CASE New(k) \/ SwitchTimer(k) \/ Delete(k) \/ RemoveFolder(k)
  BY <1>2 DEF New, SwitchTimer, Delete, RemoveFolder, Rest
<1>3. CASE AppendModAdapter(k)
  BY <1>3 DEF AppendModAdapter, RestAnd
<1>4. CASE Changed(k)
  BY <1>1, <1>4 DEF Changed, Rest
<1>5. CASE RemoveModAdapter(k)
  BY <1>1, <1>5 DEF RemoveModAdapter, Rest
<1>6. CASE ModUpdate(k)
  BY <1>6 DEF ModUpdate
<1>7. CASE FolderAdded(k)
  BY <1>7 DEF FolderAdded
<1>8. CASE FetchFailed(k)
  BY <1>8 DEF FetchFailed
<1> QED
  BY <1>2, <1>3, <1>4, <1>5, <1>6, <1>7, <1>8 DEF WorkerStep

LEMMA ObjsStep ==
  ASSUME TypeOK, RemovalLast, ObjsMatch, [Next]_vars
  PROVE  ObjsMatch'
<1>1. tree \in [DOMAIN tree -> SUBSET Keys] /\ DOMAIN tree \subseteq Repos
  BY ListIs DEF TypeOK
<1>2. CASE UNCHANGED <<phase, tree, objs, drop, toStart>> /\ (phase = "removing" => json' = json)
           /\ (removing' = removing \/ removing' = NoAdapter)
  BY <1>1, <1>2, TreeAssumptions DEF ObjsMatch, KeysOf, PairsOf
<1>3. CASE PeriodicRepoUpdate
  BY <1>3 DEF PeriodicRepoUpdate, Idle, ObjsMatch, KeysOf, PairsOf, gui
<1>4. CASE GetRemovables
  BY <1>4 DEF GetRemovables, ObjsMatch, KeysOf, PairsOf
<1>8. ASSUME NEW r \in Repos, StartRepository(r) PROVE ObjsMatch'
  BY <1>8 DEF StartRepository, ObjsMatch, KeysOf, PairsOf, gui
<1>5. CASE UpdateRepositories
  <2>1. removing = NoAdapter /\ removing' = removing /\ phase = "listed"
    BY <1>5, GuiFree DEF UpdateRepositories
  <2>2. /\ DOMAIN tree' = DOMAIN tree \cup DOMAIN json'
        /\ \A r \in DOMAIN tree \cup DOMAIN json' :
             tree'[r] = (IF r \in DOMAIN tree THEN tree[r] ELSE {}) \cup
                        (IF r \in DOMAIN json' THEN json'[r] ELSE {})
        /\ objs' = objs \cup KeysOf(json') /\ phase' = "removing"
        /\ drop' = PairsOf(tree) \ PairsOf(json')
    BY <1>5 DEF UpdateRepositories
  <2>3. KeysOf(tree') \subseteq objs' /\ KeysOf(json)' \subseteq objs'
    BY <2>1, <2>2 DEF ObjsMatch, KeysOf
  <2>4. drop' \subseteq PairsOf(tree')
    BY <2>2 DEF PairsOf
  <2>5. removing' \notin PairsOf(tree')
    BY <2>1, TreeAssumptions DEF PairsOf
  <2>6. \A r \in Repos, k \in Keys : removing' # <<r, k>>
    BY <2>1, TreeAssumptions
  <2>7. KeysOf(tree)' = KeysOf(tree') /\ PairsOf(tree)' = PairsOf(tree')
    BY DEF KeysOf, PairsOf
  <2> QED
    BY <2>2, <2>3, <2>4, <2>5, <2>6, <2>7 DEF ObjsMatch
<1>6. ASSUME NEW r \in Repos, NEW k \in Keys, Remove(r, k) PROVE ObjsMatch'
  <2>1. /\ tree' = [tree EXCEPT ![r] = @ \ {k}] /\ removing' = <<r, k>>
        /\ drop' = drop \ {<<r, k>>} /\ phase = "removing"
        /\ UNCHANGED <<json, objs, phase>>
    BY <1>6 DEF Remove, RemoveAdapter, Without
  <2>2. /\ DOMAIN tree' = DOMAIN tree
        /\ \A q \in DOMAIN tree : tree'[q] = IF q = r THEN tree[q] \ {k} ELSE tree[q]
    BY <1>1, <2>1
  <2>3. KeysOf(tree') \subseteq KeysOf(tree) /\ KeysOf(json)' = KeysOf(json)
    BY <2>1, <2>2 DEF KeysOf
  <2>4. PairsOf(tree') = PairsOf(tree) \ {<<r, k>>}
    BY <2>2 DEF PairsOf
  <2>5. KeysOf(tree)' = KeysOf(tree') /\ PairsOf(tree)' = PairsOf(tree')
    BY DEF KeysOf, PairsOf
  <2>6. k \in objs
    BY <1>6 DEF Remove, ObjsMatch, KeysOf, PairsOf
  <2> QED
    BY <2>1, <2>3, <2>4, <2>5, <2>6 DEF ObjsMatch
<1>7. CASE EndUpdate
  <2>1. /\ objs' = KeysOf(tree') /\ phase' = "idle" /\ removing = NoAdapter
        /\ removing' = removing
    BY <1>7, GuiFree DEF EndUpdate
  <2>2. /\ KeysOf(tree)' = KeysOf(tree') /\ removing' \notin PairsOf(tree)'
        /\ \A r \in Repos, k \in Keys : removing' # <<r, k>>
        /\ drop' = {} /\ toStart' = {}
    BY <1>7, <2>1, TreeAssumptions DEF KeysOf, PairsOf, EndUpdate
  <2> QED
    BY <2>1, <2>2 DEF ObjsMatch
<1> QED
  BY <1>2, <1>3, <1>4, <1>5, <1>6, <1>7, <1>8 DEF Next, GuiStep, WorkerStep, vars, gui, update,
     Click, RepositoryUpdate, GraceEnds, New, AppendModAdapter, Changed,
     RemoveModAdapter, SwitchTimer, Delete, RemoveFolder, ModUpdate, FolderAdded,
     FetchFailed

LEMMA WithdrawnFewer ==
  ASSUME NEW k, Withdrawn(k), Telling(k)' \subseteq Telling(k),
         UNCHANGED <<phase, json, objs>>,
         \A r \in Repos : <<r, k>> \in drop \/ removing = <<r, k>>
                           => <<r, k>> \in drop' \/ removing' = <<r, k>>
  PROVE  Withdrawn(k)'
<1>1. Has(k, {"append", "remove", "new"})' => Has(k, {"append", "remove", "new"})
  <2> SUFFICES ASSUME NEW c \in Elements(queue'[k]), c[1] \in {"append", "remove", "new"}
               PROVE  c \in Elements(queue[k])
    BY DEF Has
  <2>1. c \in Telling(k)'
    BY DEF Telling
  <2> QED
    BY <2>1 DEF Telling
<1>2. KeysOf(json)' = KeysOf(json)
  BY DEF KeysOf
<1> QED
  BY <1>1, <1>2 DEF Withdrawn

\* The GUI thread's steps that tell the mods nothing of their adapters.
LEMMA QuietGui ==
  ASSUME TreeInv, KnowInv,
         \/ PeriodicRepoUpdate \/ GetRemovables
         \/ \E r \in Repos : StartRepository(r) \/ Click(r) \/ RepositoryUpdate(r)
                             \/ GraceEnds(r),
         NEW k \in Keys
  PROVE  Known(k)' /\ Withdrawn(k)'
<1> USE DEF TreeInv, KnowInv
<1>1. QueueType /\ InOrder(queue[k])
  BY DEF TypeOK, QueueType, CallSet, Known
<1>2. /\ InOrder(queue'[k]) /\ Telling(k)' = Telling(k)
      /\ UNCHANGED <<adapters, exists, objs, tree, removing, drop>>
      /\ phase' = "removing" => UNCHANGED <<phase, json>>
  <2>1. CASE PeriodicRepoUpdate
    BY <1>1, <2>1 DEF PeriodicRepoUpdate, Telling, gui, mod
  <2>2. CASE GetRemovables
    <3>1. \A c \in Elements(queue[k]) : c[1] \notin {"remove", "stopUpdates"}
      BY <2>2, GuiFree DEF GetRemovables
    <3>2. /\ InOrder(queue'[k])
          /\ Elements(queue[k]) \subseteq Elements(queue'[k])
          /\ \A c \in Elements(queue'[k]) :
               c \in Elements(queue[k]) \/ c[1] = "removeFolder"
      BY <1>1, <2>2, <3>1, RemovablesCalls
    <3> QED
      BY <2>2, <3>2 DEF GetRemovables, Telling, mod
  <2>3. ASSUME NEW r \in Repos, StartRepository(r)
        PROVE  /\ InOrder(queue'[k]) /\ Telling(k)' = Telling(k)
               /\ UNCHANGED <<adapters, exists, objs, tree, removing, drop, phase, json>>
    <3>1. /\ InOrder(queue'[k])
          /\ Elements(queue[k]) \subseteq Elements(queue'[k])
          /\ \A c \in Elements(queue'[k]) :
               c \in Elements(queue[k]) \/ c[1] = "startUpdates"
      BY <1>1, <2>3, StartCalls
    <3> QED
      BY <2>3, <3>1 DEF StartRepository, Telling, gui, mod
  <2>4. ASSUME NEW r \in Repos, Click(r)
        PROVE  /\ InOrder(queue'[k]) /\ Telling(k)' = Telling(k)
               /\ UNCHANGED <<adapters, exists, objs, tree, removing, drop, phase, json>>
    <3>1. /\ InOrder(queue'[k])
          /\ \A c \in Elements(queue'[k]) :
               c \in Elements(queue[k]) \/ c[1] \in {"changed", "startUpdates"}
          /\ Elements(queue[k]) \subseteq Elements(queue'[k])
      BY <1>1, <2>4, ClickCalls
    <3> QED
      BY <2>4, <3>1 DEF Click, Telling, update, mod
  <2>5. ASSUME NEW r \in Repos, RepositoryUpdate(r) \/ GraceEnds(r)
        PROVE  UNCHANGED <<adapters, exists, objs, tree, removing, drop, phase, json, queue>>
    BY <2>5 DEF RepositoryUpdate, GraceEnds, update, mod
  <2> QED
    BY <1>1, <2>1, <2>2, <2>3, <2>4, <2>5 DEF Telling
<1>3. Alive(k)' = Alive(k)
  BY <1>2 DEF Alive
<1>4. Known(k)'
  BY <1>2, <1>3, KnownFrame
<1>5. CASE phase' = "removing"
  BY <1>2, <1>4, <1>5, WithdrawnFrame
<1>6. CASE phase' # "removing"
  BY <1>4, <1>6 DEF Withdrawn
<1> QED
  BY <1>5, <1>6

LEMMA KnownUpdate ==
  ASSUME TreeInv, KnowInv, UpdateRepositories, NEW k \in Keys
  PROVE  Known(k)' /\ Withdrawn(k)'
<1> USE DEF TreeInv, KnowInv
<1>1. QueueType /\ Known(k) /\ json' \in Lists
  BY TreeAssumptions DEF TypeOK, QueueType, CallSet, UpdateRepositories, UpdateJsonMap
<1>2. /\ phase = "listed" /\ phase' = "removing" /\ removing = NoAdapter
      /\ \A c \in Elements(queue[k]) : c[1] \notin {"remove", "stopUpdates"}
      /\ UNCHANGED <<removing, adapters, exists>>
  BY GuiFree DEF UpdateRepositories, mod
<1>3. /\ DOMAIN tree' = DOMAIN tree \cup DOMAIN json'
      /\ \A r \in DOMAIN tree \cup DOMAIN json' :
           tree'[r] = (IF r \in DOMAIN tree THEN tree[r] ELSE {}) \cup
                      (IF r \in DOMAIN json' THEN json'[r] ELSE {})
      /\ objs' = objs \cup KeysOf(json')
      /\ drop' = PairsOf(tree) \ PairsOf(json')
  BY DEF UpdateRepositories
<1>4. objs = KeysOf(tree)
  BY <1>2 DEF ObjsMatch
<1>5. k \notin objs => ~Has(k, {"append", "new"})
  BY <1>1 DEF Known, Has
<1> DEFINE New1 == k \in KeysOf(json') \ objs
           Add == AddedTo(k)
<1>6. /\ InOrder(queue'[k])
      /\ Elements(queue'[k]) = Elements(queue[k])
           \cup (IF New1 THEN {<<"new", {}>>} ELSE {})
           \cup (IF \E r \in DOMAIN tree \cap DOMAIN json' : k \in tree[r]
                 THEN {<<"stopUpdates", {}>>} ELSE {})
           \cup (IF Add # {} THEN {<<"append", Add>>} ELSE {})
  BY <1>1, <1>2, <1>5, UpdateCalls DEF Known
<1>7. /\ Has(k, {"new"})' <=> Has(k, {"new"}) \/ New1
      /\ Has(k, {"delete"})' <=> Has(k, {"delete"})
      /\ Has(k, {"new", "delete"})' <=> Has(k, {"new", "delete"}) \/ New1
      /\ Has(k, {"append", "remove", "new"})' =>
           Has(k, {"append", "remove", "new"}) \/ New1 \/ Add # {}
      /\ Appended(k)' = Appended(k) \cup Add
  <2>1. \A c \in Elements(queue'[k]) :
          \/ c \in Elements(queue[k])
          \/ New1 /\ c = <<"new", {}>>
          \/ c = <<"stopUpdates", {}>>
          \/ Add # {} /\ c = <<"append", Add>>
    BY <1>6
  <2>2. /\ Elements(queue[k]) \subseteq Elements(queue'[k])
        /\ New1 => <<"new", {}>> \in Elements(queue'[k])
        /\ Add # {} => <<"append", Add>> \in Elements(queue'[k])
    BY <1>6
  <2> HIDE DEF New1, Add
  <2>3. Appended(k)' = Appended(k) \cup Add
    <3>1. \A c \in Elements(queue'[k]) :
            c[1] = "append" => c \in Elements(queue[k]) \/ c[2] = Add
      BY <2>1
    <3>2. Appended(k)' \subseteq Appended(k) \cup Add
      BY <3>1 DEF Appended
    <3>3. Appended(k) \subseteq Appended(k)'
      BY <2>2 DEF Appended
    <3>4. Add \subseteq Appended(k)'
      <4> SUFFICES ASSUME Add # {} PROVE Add \subseteq Appended(k)'
        OBVIOUS
      <4>1. <<"append", Add>> \in {d \in Elements(queue'[k]) : d[1] = "append"}
        BY <2>2
      <4>2. <<"append", Add>>[2] = Add
        OBVIOUS
      <4> QED
        BY <4>1, <4>2 DEF Appended
    <3> QED
      BY <3>2, <3>3, <3>4
  <2> QED
    BY <2>1, <2>2, <2>3 DEF Has
<1>8. Alive(k)' = Alive(k) \cup Add
  BY <1>2, <1>3 DEF Alive, AddedTo
<1>9. New1 => Alive(k) = {} /\ Appended(k) = {} /\ ~Has(k, {"new"})
  <2> SUFFICES ASSUME New1 PROVE Alive(k) = {} /\ Appended(k) = {} /\ ~Has(k, {"new"})
    OBVIOUS
  <2>1. \A r \in DOMAIN tree : k \notin tree[r]
    BY <1>4 DEF KeysOf
  <2>2. \A r \in Repos : removing # <<r, k>>
    BY <1>2, TreeAssumptions
  <2> QED
    BY <1>1, <1>5, <2>1, <2>2 DEF Alive, Known
<1>10. Add # {} => k \in KeysOf(json')
  BY DEF AddedTo, KeysOf
<1>11. k \in objs' <=> k \in objs \/ New1
  BY <1>3
<1>12. Held(k)' = IF New1 THEN {} ELSE Held(k)
  BY <1>2, <1>7 DEF Held
<1>13. Known(k)'
  <2> HIDE DEF New1, Add
  <2>1. Held(k)' \cup Appended(k)' = Alive(k)'
    BY <1>1, <1>7, <1>8, <1>9, <1>12 DEF Known
  <2>2. k \notin objs' => ~Has(k, {"append", "remove", "new"})'
    BY <1>1, <1>3, <1>7, <1>10, <1>11 DEF Known
  <2>3. Has(k, {"delete"})' /\ ~Has(k, {"new"})' => k \notin objs'
    BY <1>1, <1>7, <1>11 DEF Known
  <2>4. ~Has(k, {"new", "delete"})' => (k \in exists' <=> k \in objs')
    BY <1>1, <1>2, <1>7, <1>11 DEF Known
  <2>5. Has(k, {"new"})' => k \in objs'
    BY <1>1, <1>7, <1>11 DEF Known
  <2> QED
    BY <1>6, <2>1, <2>2, <2>3, <2>4, <2>5 DEF Known
<1>14. Withdrawn(k)'
  <2> SUFFICES ASSUME k \in objs', k \notin KeysOf(json')
               PROVE  \E r \in Repos : <<r, k>> \in drop'
    BY DEF Withdrawn, KeysOf
  <2>1. PICK r \in DOMAIN tree : k \in tree[r]
    BY <1>3, <1>4 DEF KeysOf
  <2>2. r \in Repos
    BY ListIs DEF TypeOK
  <2>3. <<r, k>> \in PairsOf(tree) /\ <<r, k>> \notin PairsOf(json')
    BY <2>1, <2>2 DEF PairsOf, KeysOf
  <2> QED
    BY <1>3, <2>2, <2>3
<1> QED
  BY <1>13, <1>14

LEMMA KnownEnd ==
  ASSUME TreeInv, KnowInv, EndUpdate, NEW k \in Keys
  PROVE  Known(k)' /\ Withdrawn(k)'
<1> USE DEF TreeInv, KnowInv
<1>1. QueueType /\ Known(k) /\ Withdrawn(k)
  BY DEF TypeOK, QueueType, CallSet
<1>2. /\ removing = NoAdapter /\ phase = "removing" /\ drop = {} /\ phase' = "idle"
      /\ \A c \in Elements(queue[k]) : c[1] # "remove"
      /\ UNCHANGED <<json, removing, adapters, exists>>
  BY GuiFree DEF EndUpdate, mod
<1>3. tree' = [r \in DOMAIN json |-> tree[r]] /\ objs' = KeysOf(tree')
  BY DEF EndUpdate, Replaced
<1>4. /\ DOMAIN json \subseteq DOMAIN tree
      /\ \A r \in DOMAIN tree : \A l \in tree[r] : r \in DOMAIN json /\ l \in json[r]
      /\ \A r \in DOMAIN json : \A l \in json[r] : l \in tree[r]
  BY <1>2 DEF Applying
<1>5. Alive(k)' = Alive(k)
  BY <1>2, <1>3, <1>4 DEF Alive
<1>6. objs' \subseteq objs /\ KeysOf(json) \subseteq objs'
  BY <1>2, <1>3, <1>4 DEF ObjsMatch, KeysOf
<1>7. k \in objs \ objs' => ~Has(k, {"append", "remove", "new"})
  BY <1>1, <1>2, <1>6, TreeAssumptions DEF Withdrawn
<1>8. /\ InOrder(queue'[k])
      /\ Elements(queue'[k]) = Elements(queue[k]) \cup
           (IF k \in objs \ objs' THEN {<<"delete", {}>>} ELSE {})
  BY <1>1, <1>7, EndCalls DEF Known, Has
<1>9. CASE k \in objs \ objs'
  <2>4. \A c \in Elements(queue[k]) : c[1] \notin {"append", "remove", "new"}
    BY <1>7, <1>9 DEF Has
  <2>5. /\ \A c \in Elements(queue'[k]) : c[1] \notin {"append", "remove", "new"}
        /\ <<"delete", {}>> \in Elements(queue'[k])
    BY <1>8, <1>9, <2>4
  <2>1. /\ ~Has(k, {"append", "remove", "new"})' /\ ~Has(k, {"new"})'
        /\ Has(k, {"new", "delete"})' /\ ~Has(k, {"new"})
    BY <2>4, <2>5 DEF Has
  <2>2. Appended(k)' = {} /\ Appended(k) = {}
    BY <2>4, <2>5 DEF Appended
  <2>3. Held(k)' = Held(k)
    BY <1>2, <2>1 DEF Held
  <2> QED
    BY <1>1, <1>2, <1>5, <1>8, <1>9, <2>1, <2>2, <2>3 DEF Known, Withdrawn
<1>10. CASE k \notin objs \ objs'
  <2>1. Telling(k)' = Telling(k)
    BY <1>8, <1>10 DEF Telling
  <2>2. k \in objs' <=> k \in objs
    BY <1>6, <1>10
  <2> QED
    BY <1>1, <1>2, <1>5, <1>8, <2>1, <2>2, KnownFrame DEF Withdrawn
<1> QED
  BY <1>9, <1>10

LEMMA KnownRemove ==
  ASSUME TreeInv, KnowInv, NEW r \in Repos, NEW m \in Keys, Remove(r, m), NEW k \in Keys
  PROVE  Known(k)' /\ Withdrawn(k)'
<1> USE DEF TreeInv, KnowInv
<1>1. QueueType /\ Known(k) /\ Withdrawn(k)
  BY DEF TypeOK, QueueType, CallSet
<1>2. /\ removing = NoAdapter /\ phase = "removing" /\ <<r, m>> \in drop
      /\ \A c \in Elements(queue[k]) : c[1] # "remove"
      /\ UNCHANGED <<phase, json, objs, adapters, exists>>
      /\ tree' = [tree EXCEPT ![r] = @ \ {m}] /\ removing' = <<r, m>>
      /\ drop' = drop \ {<<r, m>>}
      /\ queue' = [queue EXCEPT ![m] = Append(@, <<"remove", {r}>>)]
  BY GuiFree DEF Remove, RemoveAdapter, Without, mod
<1>3. tree \in [DOMAIN tree -> SUBSET Keys] /\ r \in DOMAIN tree /\ m \in tree[r]
  BY <1>2, ListIs DEF TypeOK, ObjsMatch, PairsOf
<1>4. /\ DOMAIN tree' = DOMAIN tree
      /\ \A q \in DOMAIN tree : tree'[q] = IF q = r THEN tree[q] \ {m} ELSE tree[q]
  BY <1>2, <1>3
<1>5. Alive(k)' = Alive(k)
  <2>1. \A q \in Repos : removing # <<q, k>>
    BY <1>2, TreeAssumptions
  <2>2. Alive(k) = {q \in DOMAIN tree : k \in tree[q]}
    BY <2>1 DEF Alive
  <2>3. Alive(k)' = {q \in DOMAIN tree : k \in tree'[q]} \cup
                    {q \in Repos : <<r, m>> = <<q, k>>}
    BY <1>2, <1>4 DEF Alive
  <2> QED
    BY <1>3, <1>4, <2>2, <2>3
<1>6. CASE k # m
  <2>1. queue'[k] = queue[k] /\ Telling(k)' = Telling(k)
    BY <1>1, <1>2, <1>6 DEF QueueType, Telling
  <2>2. \A q \in Repos : <<q, k>> \in drop \/ removing = <<q, k>> => <<q, k>> \in drop'
    BY <1>2, <1>6, TreeAssumptions
  <2>3. Known(k)'
    BY <1>1, <1>2, <1>5, <2>1, KnownFrame DEF Known
  <2> QED
    BY <1>1, <1>2, <2>1, <2>2, <2>3, WithdrawnFewer
<1>7. CASE k = m
  <2> DEFINE h == Append(queue[k], <<"remove", {r}>>)
  <2>1. queue'[k] = h /\ queue[k] \in Seq(CallSet) /\ "remove" \in Calls
    BY <1>1, <1>2, <1>7 DEF QueueType, Calls
  <2>2. \A c \in Elements(queue[k]) : <<c[1], "remove">> \notin Never
    BY <1>2 DEF Never
  <2>3. InOrder(h) /\ Elements(h) = Elements(queue[k]) \cup {<<"remove", {r}>>}
    <3>1. {r} \in SUBSET Repos /\ InOrder(queue[k])
      BY <1>1 DEF Known
    <3> QED
      BY <2>1, <2>2, <3>1, AppendParts
  <2> HIDE DEF h
  <2>4. /\ Has(k, {"new"})' <=> Has(k, {"new"})
        /\ Has(k, {"delete"})' <=> Has(k, {"delete"})
        /\ Has(k, {"new", "delete"})' <=> Has(k, {"new", "delete"})
    BY <2>1, <2>3 DEF Has
  <2>5. Appended(k)' = Appended(k)
    <3>1. {c \in Elements(queue'[k]) : c[1] = "append"}
            = {c \in Elements(queue[k]) : c[1] = "append"}
      BY <2>1, <2>3
    <3> QED
      BY <3>1 DEF Appended
  <2>6. Held(k)' = Held(k)
    BY <1>2, <2>4 DEF Held
  <2>7. k \in objs
    BY <1>2, <1>3, <1>7 DEF ObjsMatch, KeysOf
  <2>8. Known(k)'
    BY <1>1, <1>2, <1>5, <2>1, <2>3, <2>4, <2>5, <2>6, <2>7 DEF Known
  <2>9. Withdrawn(k)'
    BY <1>2, <1>7 DEF Withdrawn
  <2> QED
    BY <2>8, <2>9
<1> QED
  BY <1>6, <1>7

\* A queued removal is the one that is waited for.
LEMMA HeadRemoval ==
  ASSUME TypeOK, RemovalLast, NEW k \in Keys, RemoveModAdapter(k)
  PROVE  \E r \in Repos : removing = <<r, k>> /\ Head(queue[k])[2] = {r}
<1>1. queue[k] \in Seq(CallSet) /\ queue[k] # <<>> /\ Head(queue[k])[1] = "remove"
  BY DEF RemoveModAdapter, Takes, TypeOK, CallSet
<1>2. 1 \in 1..Len(queue[k]) /\ Head(queue[k]) = queue[k][1]
  BY <1>1, TailIs
<1> QED
  BY <1>1, <1>2 DEF RemovalLast

LEMMA KnownOthers ==
  ASSUME TreeInv, KnowInv, NEW k \in Keys, WorkerStep(k), NEW l \in Keys, l # k
  PROVE  Known(l)' /\ Withdrawn(l)'
<1> USE DEF TreeInv, KnowInv
<1>1. /\ queue'[l] = queue[l] /\ adapters'[l] = adapters[l]
      /\ l \in exists' <=> l \in exists
      /\ UNCHANGED <<json, tree, phase, drop, objs>>
      /\ removing' = removing \/ (RemoveModAdapter(k) /\ removing' = NoAdapter)
  BY WorkerOthers
<1>2. Telling(l)' = Telling(l) /\ InOrder(queue'[l])
  BY <1>1 DEF Telling, Known
<1>3. \A r \in Repos : removing' = <<r, l>> <=> removing = <<r, l>>
  <2>1. CASE RemoveModAdapter(k) /\ removing' = NoAdapter
    <3>1. PICK r \in Repos : removing = <<r, k>>
      BY <2>1, HeadRemoval
    <3> QED
      BY <2>1, <3>1, TreeAssumptions
  <2> QED
    BY <1>1, <2>1
<1>4. Alive(l)' = Alive(l)
  BY <1>1, <1>3 DEF Alive
<1>5. Known(l)'
  BY <1>1, <1>2, <1>4, KnownFrame
<1>6. Withdrawn(l)'
  BY <1>1, <1>2, <1>3, WithdrawnFewer
<1> QED
  BY <1>5, <1>6

\* The queue without its first call, in order.
LEMMA Rested ==
  ASSUME QueueType, NEW k \in Keys, queue[k] # <<>>, Rest(k), InOrder(queue[k])
  PROVE  /\ queue'[k] = Tail(queue[k]) /\ InOrder(queue'[k])
         /\ Elements(queue[k]) = {Head(queue[k])} \cup Elements(queue'[k])
         /\ Head(queue[k]) \in CallSet /\ Elements(queue'[k]) \subseteq CallSet
         /\ \A c \in Elements(queue'[k]) : <<Head(queue[k])[1], c[1]>> \notin Never
         /\ \A r : Started(queue[k], r) => Started(queue'[k], r)
<1>1. queue'[k] = Tail(queue[k]) /\ queue[k] \in Seq(CallSet)
  BY DEF QueueType, Rest
<1>2. Elements(Tail(queue[k])) \subseteq CallSet
  BY <1>1, TailParts DEF Elements
<1> QED
  BY <1>1, <1>2, TailParts

LEMMA KnownSame ==
  ASSUME TreeInv, KnowInv, NEW k \in Keys,
         \/ Changed(k) \/ SwitchTimer(k) \/ RemoveFolder(k) \/ ModUpdate(k)
         \/ FolderAdded(k) \/ FetchFailed(k)
  PROVE  Known(k)' /\ Withdrawn(k)'
<1> USE DEF TreeInv, KnowInv
<1>1. QueueType /\ InOrder(queue[k])
  BY DEF TypeOK, QueueType, CallSet, Known
<1>2. UNCHANGED <<json, tree, phase, drop, objs, removing, exists, adapters>>
  BY DEF Changed, SwitchTimer, RemoveFolder, ModUpdate, FolderAdded, FetchFailed, gui,
     update, mod
<1>3. InOrder(queue'[k]) /\ Telling(k)' = Telling(k)
  <2>1. CASE Changed(k) \/ SwitchTimer(k) \/ RemoveFolder(k)
    <3>1. /\ queue[k] # <<>> /\ Rest(k)
          /\ Head(queue[k])[1] \in {"changed", "startUpdates", "stopUpdates", "removeFolder"}
      BY <2>1 DEF Changed, SwitchTimer, RemoveFolder, Takes
    <3>2. /\ InOrder(queue'[k])
          /\ Elements(queue[k]) = {Head(queue[k])} \cup Elements(queue'[k])
      BY <1>1, <3>1, Rested
    <3> QED
      BY <3>1, <3>2 DEF Telling
  <2>2. CASE ModUpdate(k) \/ FetchFailed(k)
    BY <1>1, <2>2 DEF ModUpdate, FetchFailed, Telling
  <2>3. CASE FolderAdded(k) /\ k \in exists
    <3> DEFINE h == Append(queue[k], <<"startUpdates", {}>>)
    <3>1. queue'[k] = h /\ queue[k] \in Seq(CallSet) /\ "startUpdates" \in Calls
      BY <1>1, <2>3 DEF FolderAdded, QueueType, Calls
    <3>2. \A c \in Elements(queue[k]) : <<c[1], "startUpdates">> \notin Never
      BY DEF Never
    <3>3. {} \in SUBSET Repos
      OBVIOUS
    <3>4. InOrder(h) /\ Elements(h) = Elements(queue[k]) \cup {<<"startUpdates", {}>>}
      BY <1>1, <3>1, <3>2, <3>3, AppendParts
    <3> HIDE DEF h
    <3> QED
      BY <3>1, <3>4 DEF Telling
  <2>4. CASE FolderAdded(k) /\ k \notin exists
    <3>1. queue'[k] = queue[k]
      BY <1>1, <2>4 DEF FolderAdded, QueueType
    <3> QED
      BY <1>1, <3>1 DEF Telling
  <2> QED
    BY <2>1, <2>2, <2>3, <2>4
<1>4. Alive(k)' = Alive(k)
  BY <1>2 DEF Alive
<1> QED
  BY <1>2, <1>3, <1>4, KnownFrame, WithdrawnFrame

LEMMA KnownNew ==
  ASSUME TreeInv, KnowInv, NEW k \in Keys, New(k)
  PROVE  Known(k)' /\ Withdrawn(k)'
<1> USE DEF TreeInv, KnowInv
<1>1. QueueType /\ Known(k) /\ Withdrawn(k)
  BY DEF TypeOK, QueueType, CallSet
<1>2. /\ queue[k] # <<>> /\ Rest(k) /\ Head(queue[k])[1] = "new"
      /\ UNCHANGED <<json, tree, phase, drop, objs, removing>>
      /\ adapters'[k] = {} /\ k \in exists'
  BY DEF New, Takes, gui, update, TypeOK
<1>3. /\ InOrder(queue'[k])
      /\ Elements(queue[k]) = {Head(queue[k])} \cup Elements(queue'[k])
      /\ \A c \in Elements(queue'[k]) : <<Head(queue[k])[1], c[1]>> \notin Never
  BY <1>1, <1>2, Rested DEF Known
<1>4. \A c \in Elements(queue'[k]) : c[1] \notin {"new", "delete"}
  BY <1>2, <1>3 DEF Never
<1>5. /\ Has(k, {"new"}) /\ ~Has(k, {"new"})' /\ ~Has(k, {"delete"})'
      /\ ~Has(k, {"new", "delete"})'
  BY <1>2, <1>3, <1>4 DEF Has
<1>6. Appended(k)' = Appended(k)
  <2>1. {c \in Elements(queue'[k]) : c[1] = "append"}
          = {c \in Elements(queue[k]) : c[1] = "append"}
    BY <1>2, <1>3
  <2> QED
    BY <2>1 DEF Appended
<1>7. Alive(k)' = Alive(k) /\ Telling(k)' \subseteq Telling(k)
  BY <1>2, <1>3 DEF Alive, Telling
<1>8. Held(k) = {} /\ Held(k)' = {}
  BY <1>2, <1>5 DEF Held
<1>9. Known(k)'
  BY <1>1, <1>2, <1>3, <1>5, <1>6, <1>7, <1>8 DEF Known
<1> QED
  BY <1>1, <1>2, <1>7, <1>9, WithdrawnFewer

LEMMA KnownAppend ==
  ASSUME TreeInv, KnowInv, NEW k \in Keys, AppendModAdapter(k)
  PROVE  Known(k)' /\ Withdrawn(k)'
<1> USE DEF TreeInv, KnowInv
<1>1. QueueType /\ Known(k) /\ Withdrawn(k)
  BY DEF TypeOK, QueueType, CallSet
<1> DEFINE h == Head(queue[k])
           t == Tail(queue[k])
           a == Append(t, <<"changed", {}>>)
<1>2. /\ queue[k] # <<>> /\ queue'[k] = a /\ h[1] = "append"
      /\ UNCHANGED <<json, tree, phase, drop, objs, removing, exists>>
      /\ adapters'[k] = adapters[k] \cup h[2]
  BY <1>1 DEF AppendModAdapter, Takes, RestAnd, QueueType, gui, update, TypeOK
<1>3. /\ t \in Seq(CallSet) /\ InOrder(t) /\ Elements(queue[k]) = {h} \cup Elements(t)
      /\ \A c \in Elements(t) : <<h[1], c[1]>> \notin Never
  BY <1>1, <1>2, TailParts DEF QueueType, Known
<1> HIDE DEF t
<1>4. /\ InOrder(a) /\ Elements(a) = Elements(t) \cup {<<"changed", {}>>}
  <2>1. \A c \in Elements(t) : <<c[1], "changed">> \notin Never
    BY DEF Never
  <2>2. {} \in SUBSET Repos /\ "changed" \in Calls
    BY DEF Calls
  <2> QED
    BY <1>3, <2>1, <2>2, AppendParts
<1> HIDE DEF a, h
<1>5. \A c \in Elements(queue[k]) : c[1] # "new"
  BY <1>2, <1>3 DEF Never
<1>6. /\ ~Has(k, {"new"}) /\ ~Has(k, {"new"})'
      /\ Has(k, {"delete"})' <=> Has(k, {"delete"})
      /\ Has(k, {"new", "delete"})' <=> Has(k, {"new", "delete"})
      /\ Has(k, {"append", "remove", "new"})
  BY <1>2, <1>3, <1>4, <1>5 DEF Has
<1>7. Appended(k) = Appended(k)' \cup h[2]
  <2>1. {c \in Elements(queue[k]) : c[1] = "append"}
          = {h} \cup {c \in Elements(queue'[k]) : c[1] = "append"}
    BY <1>2, <1>3, <1>4
  <2> QED
    BY <2>1 DEF Appended
<1>8. Alive(k)' = Alive(k) /\ Telling(k)' \subseteq Telling(k)
  BY <1>2, <1>3, <1>4 DEF Alive, Telling
<1>9. Held(k) = adapters[k] /\ Held(k)' = adapters'[k]
  BY <1>6 DEF Held
<1>10. Known(k)'
  BY <1>1, <1>2, <1>4, <1>6, <1>7, <1>8, <1>9 DEF Known
<1> QED
  BY <1>1, <1>2, <1>8, <1>10, WithdrawnFewer

LEMMA KnownRemoved ==
  ASSUME TreeInv, KnowInv, NEW k \in Keys, RemoveModAdapter(k)
  PROVE  Known(k)' /\ Withdrawn(k)'
<1> USE DEF TreeInv, KnowInv
<1>1. QueueType /\ Known(k) /\ Withdrawn(k)
  BY DEF TypeOK, QueueType, CallSet
<1>2. PICK r \in Repos : removing = <<r, k>> /\ Head(queue[k])[2] = {r}
  BY HeadRemoval
<1>3. /\ queue[k] # <<>> /\ Rest(k) /\ Head(queue[k])[1] = "remove"
      /\ UNCHANGED <<json, tree, phase, drop, objs, exists>> /\ removing' = NoAdapter
      /\ adapters'[k] = adapters[k] \ {r}
  BY <1>2 DEF RemoveModAdapter, Takes, Left, gui, TypeOK
<1>4. /\ InOrder(queue'[k])
      /\ Elements(queue[k]) = {Head(queue[k])} \cup Elements(queue'[k])
      /\ \A c \in Elements(queue'[k]) : <<Head(queue[k])[1], c[1]>> \notin Never
  BY <1>1, <1>3, Rested DEF Known
<1>5. /\ \A c \in Elements(queue'[k]) : c[1] \notin {"append", "remove", "new", "delete"}
      /\ \A c \in Elements(queue[k]) : c[1] \notin {"append", "new", "delete"}
      /\ \E c \in Elements(queue[k]) : c[1] = "remove"
  BY <1>3, <1>4 DEF Never
<1>6. /\ ~Has(k, {"new"}) /\ ~Has(k, {"new"})'
      /\ ~Has(k, {"delete"})' /\ ~Has(k, {"new", "delete"})' /\ ~Has(k, {"new", "delete"})
      /\ Has(k, {"append", "remove", "new"}) /\ ~Has(k, {"append", "remove", "new"})'
  BY <1>5 DEF Has
<1>7. Appended(k)' = {} /\ Appended(k) = {}
  BY <1>5 DEF Appended
<1>8. Held(k) = adapters[k] /\ Held(k)' = adapters'[k]
  BY <1>6 DEF Held
<1>9. Alive(k)' = Alive(k) \ {r}
  <2>1. r \notin {q \in DOMAIN tree : k \in tree[q]}
    BY <1>2, ListIs DEF ObjsMatch, PairsOf, TypeOK
  <2>2. /\ Alive(k) = {q \in DOMAIN tree : k \in tree[q]} \cup {r}
        /\ Alive(k)' = {q \in DOMAIN tree : k \in tree[q]}
    BY <1>2, <1>3, TreeAssumptions DEF Alive
  <2> QED
    BY <2>1, <2>2
<1>10. Known(k)'
  BY <1>1, <1>3, <1>4, <1>6, <1>7, <1>8, <1>9 DEF Known
<1>11. Withdrawn(k)'
  BY <1>6 DEF Withdrawn
<1> QED
  BY <1>10, <1>11

LEMMA KnownDelete ==
  ASSUME TreeInv, KnowInv, NEW k \in Keys, Delete(k)
  PROVE  Known(k)' /\ Withdrawn(k)'
<1> USE DEF TreeInv, KnowInv
<1>1. QueueType /\ Known(k) /\ Withdrawn(k)
  BY DEF TypeOK, QueueType, CallSet
<1>2. /\ queue[k] # <<>> /\ Rest(k) /\ Head(queue[k])[1] = "delete"
      /\ UNCHANGED <<json, tree, phase, drop, objs, removing, adapters>>
      /\ k \notin exists'
  BY DEF Delete, Takes, gui, update, TypeOK
<1>3. /\ InOrder(queue'[k])
      /\ Elements(queue[k]) = {Head(queue[k])} \cup Elements(queue'[k])
  BY <1>1, <1>2, Rested DEF Known
<1>4. /\ Has(k, {"new"})' <=> Has(k, {"new"})
      /\ Has(k, {"delete"}) /\ Has(k, {"new", "delete"})
      /\ Has(k, {"new", "delete"})' <=> Has(k, {"new"})' \/ Has(k, {"delete"})'
      /\ Has(k, {"append", "remove", "new"})' <=> Has(k, {"append", "remove", "new"})
  BY <1>2, <1>3 DEF Has
<1>5. Appended(k)' = Appended(k)
  <2>1. {c \in Elements(queue'[k]) : c[1] = "append"}
          = {c \in Elements(queue[k]) : c[1] = "append"}
    BY <1>2, <1>3
  <2> QED
    BY <2>1 DEF Appended
<1>6. Alive(k)' = Alive(k) /\ Telling(k)' \subseteq Telling(k)
  BY <1>2, <1>3 DEF Alive, Telling
<1>7. Held(k)' = Held(k)
  BY <1>2, <1>4 DEF Held
<1>8. Known(k)'
  BY <1>1, <1>2, <1>3, <1>4, <1>5, <1>6, <1>7 DEF Known
<1> QED
  BY <1>1, <1>2, <1>6, <1>8, WithdrawnFewer

\* A repository is INACTIVE exactly when it is not ticked.
TickedRuns == \A r \in Repos : rstatus[r] = "INACTIVE" <=> r \notin ticked

LEMMA TickedStep ==
  ASSUME TypeOK, TickedRuns, [Next]_vars
  PROVE  TickedRuns'
<1> USE DEF TypeOK, TickedRuns
<1>1. CASE UNCHANGED <<rstatus, ticked>>
  BY <1>1
<1>2. CASE UpdateRepositories
  BY <1>2 DEF UpdateRepositories, RepositoriesCreated
<1>3. ASSUME NEW r \in Repos, Click(r) PROVE TickedRuns'
  BY <1>3 DEF Click
<1>4. ASSUME NEW r \in Repos, RepositoryUpdate(r) PROVE TickedRuns'
  BY <1>4 DEF RepositoryUpdate, StatusFrom
<1> QED
  BY <1>1, <1>2, <1>3, <1>4 DEF Next, GuiStep, WorkerStep, vars, gui, update,
     PeriodicRepoUpdate, GetRemovables, EndUpdate, Remove, RemoveAdapter, StartRepository,
     GraceEnds, New, AppendModAdapter, Changed, RemoveModAdapter, SwitchTimer, Delete,
     RemoveFolder, ModUpdate, FolderAdded, FetchFailed

LEMMA InitQueue ==
  ASSUME Init, NEW k \in Keys
  PROVE  /\ queue[k] \in Seq(CallSet) /\ InOrder(queue[k])
         /\ Elements(queue[k]) =
              IF k \in objs THEN {<<"changed", {}>>, <<"startUpdates", {}>>} ELSE {}
         /\ \A r : Started(queue[k], r)
<1> DEFINE a == Call("changed", {}, k \in objs)
           b == Call("startUpdates", {}, k \in objs)
<1>1. /\ a \in Seq(CallSet) /\ InOrder(a) /\ \A r : Started(a, r)
      /\ Elements(a) = IF k \in objs THEN {<<"changed", {}>>} ELSE {}
  BY CallExactly DEF Calls
<1>2. /\ b \in Seq(CallSet) /\ InOrder(b) /\ \A r : Started(b, r)
      /\ Elements(b) = IF k \in objs THEN {<<"startUpdates", {}>>} ELSE {}
  BY CallExactly DEF Calls
<1>3. queue[k] = a \o b
  BY DEF Init
<1> HIDE DEF a, b
<1>4. \A c \in Elements(a), d \in Elements(b) : <<c[1], d[1]>> \notin Never
  BY <1>1, <1>2 DEF Never
<1>5. a \o b \in Seq(CallSet) /\ Elements(a \o b) = Elements(a) \cup Elements(b)
  BY <1>1, <1>2, ConcatIs
<1>6. InOrder(a \o b) /\ \A r : Started(a \o b, r)
  BY <1>1, <1>2, <1>4, ConcatInOrder, ConcatStarted
<1> QED
  BY <1>1, <1>2, <1>3, <1>5, <1>6

LEMMA KnowInit == Init => KnowInv /\ TickedRuns
<1> SUFFICES ASSUME Init PROVE KnowInv /\ TickedRuns
  OBVIOUS
<1>1. /\ phase = "idle" /\ removing = NoAdapter /\ objs = KeysOf(tree) /\ exists = objs
      /\ drop = {} /\ toStart = {}
      /\ adapters = [k \in Keys |-> {r \in DOMAIN tree : k \in tree[r]}]
  BY DEF Init
<1>2. ObjsMatch /\ \A k \in Keys : Withdrawn(k)
  BY <1>1, TreeAssumptions DEF ObjsMatch, Withdrawn, PairsOf
<1>3. ASSUME NEW k \in Keys PROVE Known(k)
  <2>1. InOrder(queue[k]) /\ \A c \in Elements(queue[k]) : c[1] \in {"changed", "startUpdates"}
    BY InitQueue
  <2>2. /\ ~Has(k, {"new"}) /\ ~Has(k, {"delete"}) /\ ~Has(k, {"append", "remove", "new"})
        /\ Appended(k) = {}
    BY <2>1 DEF Has, Appended
  <2>3. Held(k) = {r \in DOMAIN tree : k \in tree[r]}
    BY <1>1, <2>2 DEF Held
  <2>4. Alive(k) = {r \in DOMAIN tree : k \in tree[r]}
    BY <1>1, TreeAssumptions DEF Alive
  <2> QED
    BY <1>1, <2>1, <2>2, <2>3, <2>4 DEF Known
<1>4. TickedRuns
  BY DEF Init, TickedRuns
<1> QED
  BY <1>2, <1>3, <1>4 DEF KnowInv

LEMMA KnowStep ==
  ASSUME TreeInv, KnowInv, [Next]_vars
  PROVE  KnowInv'
<1>1. ObjsMatch'
  BY ObjsStep DEF TreeInv, KnowInv
<1>2. ASSUME NEW k \in Keys PROVE Known(k)' /\ Withdrawn(k)'
  <2>1. CASE UNCHANGED vars
    BY <2>1 DEF vars, gui, update, mod, KnowInv, Known, Withdrawn, Held, Has, Appended,
       Alive, KeysOf, InOrder, Elements
  <2>2. CASE GuiStep
    BY <2>2, QuietGui, KnownUpdate, KnownEnd, KnownRemove DEF GuiStep
  <2>3. CASE WorkerStep(k)
    BY <2>3, KnownSame, KnownNew, KnownAppend, KnownRemoved, KnownDelete DEF WorkerStep
  <2>4. ASSUME NEW l \in Keys, l # k, WorkerStep(l) PROVE Known(k)' /\ Withdrawn(k)'
    BY <2>4, KnownOthers
  <2> QED
    BY <2>1, <2>2, <2>3, <2>4 DEF Next
<1> QED
  BY <1>1, <1>2 DEF KnowInv

LEMMA KnowInvariant == Spec => [](TreeInv /\ KnowInv /\ TickedRuns)
<1>1. TreeInv /\ KnowInv /\ TickedRuns /\ [Next]_vars => (KnowInv /\ TickedRuns)'
  BY KnowStep, TickedStep DEF TreeInv
<1> QED
  BY <1>1, KnowInit, TreeInvariant, PTL DEF Spec

\* Once its calls are handled, a mod knows exactly the adapters of the tree
\* (JsonReader::updateRepositories, Mod::appendModAdapter, removeModAdapter).
THEOREM WorkerSeesTreeAlways == Spec => []WorkerSeesTree
<1>1. TreeInv /\ KnowInv /\ TickedRuns => WorkerSeesTree
  <2> SUFFICES ASSUME KnowInv, NEW k \in Keys, Settled(k)
               PROVE  /\ k \in exists <=> k \in KeysOf(tree)
                      /\ k \in exists => adapters[k] = {r \in DOMAIN tree : k \in tree[r]}
    BY DEF WorkerSeesTree
  <2>1. Elements(queue[k]) = {} /\ phase = "idle"
    BY DEF Settled, Elements
  <2>2. /\ ~Has(k, {"new"}) /\ ~Has(k, {"new", "delete"})
        /\ Appended(k) = {} /\ Held(k) = adapters[k]
    BY <2>1 DEF Has, Appended, Held
  <2>3. objs = KeysOf(tree) /\ Alive(k) = {r \in DOMAIN tree : k \in tree[r]}
    BY <2>1, TreeAssumptions DEF KnowInv, ObjsMatch, Alive
  <2> QED
    BY <2>2, <2>3 DEF KnowInv, Known
<1> QED
  BY <1>1, KnowInvariant, PTL

LEMMA PauseStep ==
  ASSUME TreeInv, KnowInv, TickedRuns, Next, NEW k \in Keys,
         folder[k] = "runs", folder'[k] = "paused", Listed(k)
  PROVE  \E i \in 1..Len(queue'[k]) : queue'[k][i][1] \in {"append", "changed"}
<1> USE DEF TreeInv, KnowInv
<1>1. QueueType /\ Known(k)
  BY DEF TypeOK, QueueType, CallSet
<1>2. PICK r \in ticked : r \in DOMAIN tree /\ k \in tree[r]
  BY DEF Listed, Wanted, Applying
<1>3. r \in Repos /\ rstatus[r] # "INACTIVE" /\ r \in Alive(k)
  BY <1>2 DEF TypeOK, TickedRuns, Alive
<1>4. Changed(k) \/ RemoveModAdapter(k)
  <2>1. ASSUME NEW l \in Keys, l # k, WorkerStep(l) PROVE FALSE
    BY <2>1, WorkerOthers
  <2>2. CASE WorkerStep(k)
    BY <2>2 DEF WorkerStep, New, AppendModAdapter, SwitchTimer, Delete, RemoveFolder,
       ModUpdate, FolderAdded, FetchFailed, TypeOK
  <2>3. CASE GuiStep
    BY <2>3 DEF GuiStep, PeriodicRepoUpdate, GetRemovables, UpdateRepositories, EndUpdate,
       Remove, StartRepository, Click, RepositoryUpdate, GraceEnds
  <2> QED
    BY <2>1, <2>2, <2>3 DEF Next
<1>5. CASE Changed(k)
  <2>1. /\ queue[k] # <<>> /\ Rest(k) /\ Head(queue[k])[1] = "changed"
        /\ ~Active(adapters[k])
    BY <1>5 DEF Changed, Takes, RepositoryChanged, TypeOK
  <2>2. r \notin Held(k)
    BY <1>3, <2>1 DEF Active, Held
  <2>3. PICK c \in Elements(queue[k]) : c[1] = "append"
    BY <1>1, <1>3, <2>2 DEF Known, Appended
  <2>4. c \in Elements(queue'[k])
    BY <1>1, <2>1, <2>3, Rested DEF Known
  <2> QED
    BY <2>3, <2>4 DEF Elements
<1>6. CASE RemoveModAdapter(k)
  <2>1. PICK q \in Repos : removing = <<q, k>> /\ Head(queue[k])[2] = {q}
    BY <1>6, HeadRemoval
  <2>2. /\ queue[k] # <<>> /\ Rest(k) /\ Head(queue[k])[1] = "remove"
        /\ ~Active(adapters[k] \ {q})
    BY <1>6, <2>1 DEF RemoveModAdapter, Takes, Left, RepositoryChanged, TypeOK
  <2>3. \A c \in Elements(queue[k]) : c[1] \notin {"append", "new"}
    BY <1>1, <2>2, Rested DEF Known, Never
  <2>4. Appended(k) = {} /\ Held(k) = adapters[k]
    BY <2>3 DEF Appended, Held, Has
  <2>5. r \in adapters[k]
    BY <1>1, <1>3, <2>4 DEF Known
  <2>6. r # q
    BY <1>2, <1>3, <2>1 DEF ObjsMatch, PairsOf
  <2> QED
    BY <1>3, <2>2, <2>5, <2>6 DEF Active
<1> QED
  BY <1>4, <1>5, <1>6

\* No torrent is paused while a ticked repository lists its mod, unless the
\* call that resumes it is queued (Mod::repositoryChanged).
THEOREM PausedUnwantedAlways == Spec => PausedUnwanted
<1>1. TreeInv /\ KnowInv /\ TickedRuns /\ [Next]_vars
        => [\A k \in Keys : folder[k] = "runs" /\ folder'[k] = "paused" =>
              \/ ~Listed(k)
              \/ \E i \in 1..Len(queue'[k]) :
                   queue'[k][i][1] \in {"append", "changed"}]_vars
  BY PauseStep
<1> QED
  BY <1>1, KnowInvariant, PTL DEF Spec, PausedUnwanted

-----------------------------------------------------------------------------
(* The folders                                                              *)

Kinds(k) == {c[1] : c \in Elements(queue[k])}

\* One of the mod's repositories is ticked; the mod has handled what it was
\* told about them.
On(k) == \E r \in adapters[k] : r \in ticked
Told(k) == "changed" \notin Kinds(k) /\ "append" \notin Kinds(k)

\* A mod is made with adapters, and no call adds none.
AppendsSome(k) ==
  /\ "new" \in Kinds(k) => "append" \in Kinds(k)
  /\ \A c \in Elements(queue[k]) : c[1] = "append" => c[2] # {}

\* The torrent runs or waits as the ticks ask for; it is missing only while
\* an update takes the mod out of the file.
Follows(k) ==
  Told(k) =>
    /\ folder[k] \in {"fetching", "runs"} => On(k)
    /\ folder[k] = "paused" => ~On(k)
    /\ folder[k] = "none" /\ On(k) /\ k \notin excused
         => phase \in {"listed", "removing"} /\ k \notin KeysOf(json)

\* No torrent without a mod, none runs without adapters, and one of a mod
\* that the file does not list any more is about to be removed.
Needed(k) ==
  /\ k \notin objs /\ k \notin excused => folder[k] = "none"
  /\ adapters[k] = {} /\ "append" \notin Kinds(k) => folder[k] \notin {"fetching", "runs"}
  /\ phase \in {"listed", "removing"} /\ k \notin KeysOf(json) /\ k \notin excused
       => folder[k] = "none" \/ "removeFolder" \in Kinds(k)

\* A removal of a folder is handled within its update, for the GUI thread
\* then waits for one of the mod's other calls.
RemovedSoon(k) ==
  "removeFolder" \in Kinds(k) =>
    /\ k \in objs /\ (k \in KeysOf(json) => k \in excused)
    /\ \/ phase = "listed"
       \/ /\ phase = "removing"
          /\ \/ "stopUpdates" \in Kinds(k) \/ "remove" \in Kinds(k)
             \/ \E r \in Repos : <<r, k>> \in drop

\* The updates of a mod's repositories are stopped before any is started.
StoppedFirst(k) ==
  "stopUpdates" \in Kinds(k) => phase = "removing" /\ toStart = DOMAIN json

\* The timer of a mod of a ticked repository runs or is about to be started.
Sampled(k) ==
  \A r \in ticked \cap DOMAIN tree :
    k \in tree[r] /\ <<r, k>> \notin drop /\ r \notin toStart =>
      /\ Started(queue[k], r)
      /\ r \in adapters[k] /\ "new" \notin Kinds(k)
           => k \in timer \/ "startUpdates" \in Kinds(k)

FolderInv(k) ==
  AppendsSome(k) /\ Follows(k) /\ Needed(k) /\ RemovedSoon(k) /\ StoppedFirst(k) /\ Sampled(k)

\* What is known of the mods, for a step to start from.
Known2 == TreeInv /\ KnowInv /\ TickedRuns

LEMMA KnownKinds ==
  ASSUME Known2, NEW k \in Keys
  PROVE  /\ "new" \in Kinds(k) => k \in objs
         /\ "delete" \in Kinds(k) /\ "new" \notin Kinds(k) => k \notin objs
         /\ k \notin objs => Kinds(k) \cap {"append", "remove", "new"} = {}
         /\ "new" \notin Kinds(k) /\ "append" \notin Kinds(k) => adapters[k] = Alive(k)
         /\ adapters[k] \subseteq Alive(k) /\ Alive(k) \subseteq Repos
         /\ k \notin objs => Alive(k) = {}
<1> USE DEF Known2, TreeInv, KnowInv
<1>1. /\ Has(k, {"new"}) <=> "new" \in Kinds(k)
      /\ Has(k, {"delete"}) <=> "delete" \in Kinds(k)
      /\ Has(k, {"append", "remove", "new"}) <=> Kinds(k) \cap {"append", "remove", "new"} # {}
  BY DEF Has, Kinds
<1>2. "append" \notin Kinds(k) => Appended(k) = {}
  BY DEF Appended, Kinds
<1>3. "new" \notin Kinds(k) => Held(k) = adapters[k]
  BY <1>1 DEF Held
<1>4. adapters[k] \subseteq Alive(k) /\ Alive(k) \subseteq Repos
  BY ListIs DEF AdapterAlive, Alive, TypeOK
<1>5. k \notin objs => Alive(k) = {}
  BY DEF Alive, ObjsMatch, KeysOf
<1>6. Known(k)
  OBVIOUS
<1> QED
  BY <1>1, <1>2, <1>3, <1>4, <1>5, <1>6 DEF Known

\* The GUI thread leaves the mods and their torrents alone.
LEMMA GuiLeaves ==
  ASSUME GuiStep
  PROVE  UNCHANGED <<folder, adapters, timer, exists, proc>>
BY DEF GuiStep, PeriodicRepoUpdate, GetRemovables, UpdateRepositories, EndUpdate, Remove,
   StartRepository, Click, RepositoryUpdate, GraceEnds, mod

\* What Mod::repositoryChanged makes of the torrent.
LEMMA Answered ==
  ASSUME TypeOK, TickedRuns, NEW k \in Keys, NEW S \in SUBSET Repos,
         RepositoryChanged(k, S), proc = "up", proc' = "up"
  PROVE  /\ (\E r \in S : r \in ticked) =>
              /\ folder'[k] \in {"fetching", "runs"} /\ timer' = timer
              /\ folder[k] = "none" /\ k \notin KeysOf(json) => k \in excused'
         /\ ~(\E r \in S : r \in ticked) =>
              /\ folder'[k] \in {"none", "paused"}
              /\ folder[k] = "none" => folder'[k] = "none"
         /\ folder[k] # "none" => folder'[k] # "none"
         /\ excused \subseteq excused'
<1>1. Active(S) <=> \E r \in S : r \in ticked
  BY DEF Active, TickedRuns
<1> QED
  BY <1>1 DEF RepositoryChanged, TypeOK

LEMMA TakenKinds ==
  ASSUME Known2, NEW k \in Keys, queue[k] # <<>>, Rest(k)
  PROVE  /\ Kinds(k) = {Head(queue[k])[1]} \cup Kinds(k)'
         /\ \A c \in Kinds(k)' : <<Head(queue[k])[1], c>> \notin Never
         /\ \A r : Started(queue[k], r) => Started(queue'[k], r)
         /\ AppendsSome(k) => \A c \in Elements(queue'[k]) : c[1] = "append" => c[2] # {}
<1>1. QueueType /\ InOrder(queue[k])
  BY DEF Known2, TreeInv, KnowInv, TypeOK, QueueType, CallSet, Known
<1>2. /\ Elements(queue[k]) = {Head(queue[k])} \cup Elements(queue'[k])
      /\ \A c \in Elements(queue'[k]) : <<Head(queue[k])[1], c[1]>> \notin Never
      /\ \A r : Started(queue[k], r) => Started(queue'[k], r)
  BY <1>1, Rested
<1> QED
  BY <1>2 DEF Kinds, AppendsSome

LEMMA MoreKinds ==
  ASSUME NEW k, NEW C, Elements(queue'[k]) = Elements(queue[k]) \cup C
  PROVE  Kinds(k)' = Kinds(k) \cup {c[1] : c \in C}
BY DEF Kinds

LEMMA OneKind ==
  ASSUME NEW k, NEW c, Elements(queue'[k]) = Elements(queue[k]) \cup {c}
  PROVE  /\ Kinds(k)' = Kinds(k) \cup {c[1]}
         /\ c[1] # "append" =>
              \A d \in Elements(queue'[k]) : d[1] = "append" => d \in Elements(queue[k])
<1>1. Kinds(k)' = Kinds(k) \cup {d[1] : d \in {c}}
  BY MoreKinds
<1>2. {d[1] : d \in {c}} = {c[1]}
  OBVIOUS
<1> QED
  BY <1>1, <1>2

-----------------------------------------------------------------------------
(* The folders, step by step: the GUI thread *)

LEMMA FoldersQuiet ==
  ASSUME NEW k \in Keys, FolderInv(k),
         UNCHANGED <<folder, adapters, timer, queue, json, tree, ticked, drop, toStart,
                     objs, excused>>,
         phase' = phase \/ (phase = "idle" /\ phase' = "found")
  PROVE  FolderInv(k)'
<1>1. /\ Kinds(k)' = Kinds(k) /\ On(k)' = On(k) /\ KeysOf(json)' = KeysOf(json)
      /\ Told(k)' = Told(k)
  BY DEF Kinds, On, KeysOf, Told, Elements
<1>2. AppendsSome(k)'
  BY <1>1 DEF FolderInv, AppendsSome, Elements
<1>3. Follows(k)' /\ Needed(k)'
  BY <1>1 DEF FolderInv, Follows, Needed
<1>4. RemovedSoon(k)' /\ StoppedFirst(k)'
  BY <1>1 DEF FolderInv, RemovedSoon, StoppedFirst
<1>5. Sampled(k)'
  BY <1>1 DEF FolderInv, Sampled, Started
<1> QED
  BY <1>2, <1>3, <1>4, <1>5 DEF FolderInv

LEMMA FoldersRemovables ==
  ASSUME Known2, NEW k \in Keys, FolderInv(k), GetRemovables
  PROVE  FolderInv(k)'
<1> USE DEF Known2, TreeInv, KnowInv
<1>1. /\ phase = "found" /\ phase' = "listed" /\ objs = KeysOf(tree)
      /\ UNCHANGED <<folder, adapters, timer, tree, ticked, drop, toStart, objs, excused>>
  BY DEF GetRemovables, ObjsMatch, mod
<1>2. /\ Elements(queue'[k]) = Elements(queue[k]) \cup
           (IF k \in Removables(json') THEN {<<"removeFolder", {}>>} ELSE {})
      /\ \A r : Started(queue[k], r) => Started(queue'[k], r)
  <2>1. QueueType /\ InOrder(queue[k])
    BY DEF TypeOK, QueueType, CallSet, Known
  <2>2. \A c \in Elements(queue[k]) : c[1] \notin {"remove", "stopUpdates"}
    BY GuiFree DEF GetRemovables
  <2> QED
    BY <2>1, <2>2, RemovablesCalls
<1>3. /\ Kinds(k)' = Kinds(k) \cup (IF k \in Removables(json') THEN {"removeFolder"} ELSE {})
      /\ \A c \in Elements(queue'[k]) : c[1] = "append" => c \in Elements(queue[k])
  <2>8. CASE k \in Removables(json')
    <3>1. Elements(queue'[k]) = Elements(queue[k]) \cup {<<"removeFolder", {}>>}
      BY <1>2, <2>8
    <3>2. <<"removeFolder", {}>>[1] = "removeFolder"
      OBVIOUS
    <3> QED
      BY <2>8, <3>1, <3>2, OneKind
  <2>9. CASE ~(k \in Removables(json'))
    BY <1>2, <2>9 DEF Kinds
  <2> QED
    BY <2>8, <2>9
<1>4. k \in Removables(json') <=> k \in objs /\ k \notin KeysOf(json)'
  BY <1>1 DEF Removables, KeysOf
<1>5. On(k)' = On(k) /\ Told(k)' = Told(k)
  BY <1>1, <1>3 DEF On, Told
<1>6. AppendsSome(k)'
  BY <1>3 DEF FolderInv, AppendsSome
<1>7. Follows(k)' /\ Needed(k)'
  BY <1>1, <1>3, <1>4, <1>5 DEF FolderInv, Follows, Needed
<1>8. RemovedSoon(k)' /\ StoppedFirst(k)'
  BY <1>1, <1>3, <1>4 DEF FolderInv, RemovedSoon, StoppedFirst
<1>9. Sampled(k)'
  BY <1>1, <1>2, <1>3 DEF FolderInv, Sampled
<1> QED
  BY <1>6, <1>7, <1>8, <1>9 DEF FolderInv

LEMMA FoldersUpdate ==
  ASSUME Known2, NEW k \in Keys, FolderInv(k), UpdateRepositories
  PROVE  FolderInv(k)'
<1> USE DEF Known2, TreeInv, KnowInv
<1>1. QueueType /\ InOrder(queue[k]) /\ json' \in Lists
  BY TreeAssumptions DEF TypeOK, QueueType, CallSet, Known, UpdateRepositories, UpdateJsonMap
<1>2. /\ phase = "listed" /\ phase' = "removing" /\ objs = KeysOf(tree)
      /\ \A c \in Elements(queue[k]) : c[1] \notin {"remove", "stopUpdates"}
      /\ UNCHANGED <<folder, adapters, timer, ticked>>
      /\ drop' = PairsOf(tree) \ PairsOf(json') /\ toStart' = DOMAIN json'
      /\ objs' = objs \cup KeysOf(json')
      /\ excused' = excused \cup ((KeysOf(json') \ KeysOf(json)) \cap objs)
                            \cup (KeysOf(json) \ KeysOf(json'))
  BY GuiFree DEF UpdateRepositories, ObjsMatch, mod
<1>3. /\ DOMAIN tree' = DOMAIN tree \cup DOMAIN json'
      /\ \A r \in DOMAIN tree \cup DOMAIN json' :
           tree'[r] = (IF r \in DOMAIN tree THEN tree[r] ELSE {}) \cup
                      (IF r \in DOMAIN json' THEN json'[r] ELSE {})
      /\ DOMAIN tree \subseteq Repos
  BY ListIs DEF UpdateRepositories, TypeOK
<1> DEFINE New1 == k \in KeysOf(json') \ objs
           Stay == \E r \in DOMAIN tree \cap DOMAIN json' : k \in tree[r]
           Add == AddedTo(k)
<1>4. Elements(queue'[k]) = Elements(queue[k])
        \cup (IF New1 THEN {<<"new", {}>>} ELSE {})
        \cup (IF Stay THEN {<<"stopUpdates", {}>>} ELSE {})
        \cup (IF Add # {} THEN {<<"append", Add>>} ELSE {})
  <2>1. k \notin objs => ~Has(k, {"append", "new"})
    BY DEF Known, Has
  <2> QED
    BY <1>1, <1>2, <2>1, UpdateCalls
<1>5. New1 => Add # {}
  BY <1>2 DEF AddedTo, KeysOf
<1>6. k \in KeysOf(tree) => Stay \/ \E r \in Repos : <<r, k>> \in drop'
  BY <1>2, <1>3 DEF KeysOf, PairsOf
<1>7. KeysOf(json)' = KeysOf(json')
  BY DEF KeysOf
<1>8. \A r \in DOMAIN tree' : k \in tree'[r] /\ r \notin DOMAIN json' => <<r, k>> \in drop'
  BY <1>2, <1>3 DEF PairsOf
<1> HIDE DEF New1, Stay, Add
<1>9. /\ Kinds(k)' = Kinds(k) \cup (IF New1 THEN {"new"} ELSE {})
           \cup (IF Stay THEN {"stopUpdates"} ELSE {})
           \cup (IF Add # {} THEN {"append"} ELSE {})
      /\ \A c \in Elements(queue'[k]) :
           c[1] = "append" => c \in Elements(queue[k]) \/ (c[2] = Add /\ Add # {})
  <2>1. \A c \in Elements(queue'[k]) :
          \/ c \in Elements(queue[k])
          \/ New1 /\ c = <<"new", {}>>
          \/ Stay /\ c = <<"stopUpdates", {}>>
          \/ Add # {} /\ c = <<"append", Add>>
    BY <1>4
  <2>2. /\ Elements(queue[k]) \subseteq Elements(queue'[k])
        /\ New1 => <<"new", {}>> \in Elements(queue'[k])
        /\ Stay => <<"stopUpdates", {}>> \in Elements(queue'[k])
        /\ Add # {} => <<"append", Add>> \in Elements(queue'[k])
    BY <1>4
  <2> QED
    BY <2>1, <2>2 DEF Kinds
<1>10. On(k)' = On(k) /\ (On(k) => k \in objs)
  <2>1. k \notin objs => adapters[k] = {}
    BY KnownKinds
  <2> QED
    BY <1>2, <2>1 DEF On
<1>11. Told(k)' => Told(k)
  BY <1>9 DEF Told
<1>12. AppendsSome(k)'
  BY <1>5, <1>9 DEF FolderInv, AppendsSome
<1>13. Follows(k)'
  BY <1>2, <1>7, <1>10, <1>11 DEF FolderInv, Follows
<1>14. Needed(k)'
  BY <1>2, <1>7, <1>9 DEF FolderInv, Needed
<1>15. RemovedSoon(k)'
  BY <1>2, <1>6, <1>7, <1>9 DEF FolderInv, RemovedSoon
<1>16. StoppedFirst(k)' /\ Sampled(k)'
  BY <1>2, <1>3, <1>8, <1>9 DEF FolderInv, StoppedFirst, Sampled
<1> QED
  BY <1>12, <1>13, <1>14, <1>15, <1>16 DEF FolderInv

LEMMA FoldersRemove ==
  ASSUME Known2, NEW k \in Keys, FolderInv(k), NEW q \in Repos, NEW m \in Keys, Remove(q, m)
  PROVE  FolderInv(k)'
<1> USE DEF Known2, TreeInv, KnowInv
<1>1. QueueType /\ InOrder(queue[k])
  BY DEF TypeOK, QueueType, CallSet, Known
<1>2. /\ UNCHANGED <<folder, adapters, timer, ticked, phase, json, objs, excused, toStart>>
      /\ tree' = [tree EXCEPT ![q] = @ \ {m}] /\ drop' = drop \ {<<q, m>>}
      /\ queue' = [queue EXCEPT ![m] = Append(@, <<"remove", {q}>>)]
  BY DEF Remove, RemoveAdapter, Without, mod
<1>3. /\ DOMAIN tree' = DOMAIN tree
      /\ \A r \in DOMAIN tree : tree'[r] = IF r = q THEN tree[r] \ {m} ELSE tree[r]
  BY <1>2, ListIs DEF TypeOK
<1>4. /\ Elements(queue'[k]) = Elements(queue[k]) \cup (IF k \in {m} THEN {<<"remove", {q}>>} ELSE {})
      /\ \A r : Started(queue[k], r) => Started(queue'[k], r)
  <2>1. CASE k # m
    <3>1. queue'[k] = queue[k]
      BY <1>1, <1>2, <2>1 DEF QueueType
    <3> QED
      BY <2>1, <3>1
  <2>2. CASE k = m
    <3> DEFINE h == Append(queue[k], <<"remove", {q}>>)
    <3>1. /\ queue'[k] = h /\ queue[k] \in Seq(CallSet) /\ "remove" \in Calls
          /\ {q} \in SUBSET Repos
      BY <1>1, <1>2, <2>2 DEF QueueType, Calls
    <3>2. /\ Elements(h) = Elements(queue[k]) \cup {<<"remove", {q}>>}
          /\ \A r : Started(queue[k], r) => Started(h, r)
      BY <3>1, AppendParts
    <3> HIDE DEF h
    <3> QED
      BY <2>2, <3>1, <3>2
  <2> QED
    BY <2>1, <2>2
<1>5. /\ Kinds(k)' = Kinds(k) \cup (IF k \in {m} THEN {"remove"} ELSE {})
      /\ \A c \in Elements(queue'[k]) : c[1] = "append" => c \in Elements(queue[k])
  <2>8. CASE k \in {m}
    <3>1. Elements(queue'[k]) = Elements(queue[k]) \cup {<<"remove", {q}>>}
      BY <1>4, <2>8
    <3>2. <<"remove", {q}>>[1] = "remove"
      OBVIOUS
    <3> QED
      BY <2>8, <3>1, <3>2, OneKind
  <2>9. CASE ~(k \in {m})
    BY <1>4, <2>9 DEF Kinds
  <2> QED
    BY <2>8, <2>9
<1>6. On(k)' = On(k) /\ Told(k)' = Told(k) /\ KeysOf(json)' = KeysOf(json)
  BY <1>2, <1>5 DEF On, Told, KeysOf
<1>7. AppendsSome(k)' /\ Follows(k)' /\ Needed(k)'
  BY <1>2, <1>5, <1>6 DEF FolderInv, AppendsSome, Follows, Needed
<1>8. RemovedSoon(k)' /\ StoppedFirst(k)'
  BY <1>2, <1>5, <1>6 DEF FolderInv, RemovedSoon, StoppedFirst
<1>9. Sampled(k)'
  <2>1. \A r \in DOMAIN tree' : k \in tree'[r] /\ <<r, k>> \notin drop'
          => k \in tree[r] /\ <<r, k>> \notin drop
    BY <1>2, <1>3
  <2> QED
    BY <1>2, <1>3, <1>4, <1>5, <2>1 DEF FolderInv, Sampled
<1> QED
  BY <1>7, <1>8, <1>9 DEF FolderInv

LEMMA FoldersStart ==
  ASSUME Known2, NEW k \in Keys, FolderInv(k), NEW q \in Repos, StartRepository(q)
  PROVE  FolderInv(k)'
<1> USE DEF Known2, TreeInv, KnowInv
<1>1. QueueType /\ InOrder(queue[k])
  BY DEF TypeOK, QueueType, CallSet, Known
<1>2. /\ UNCHANGED <<folder, adapters, timer, ticked, phase, json, tree, objs, excused, drop>>
      /\ toStart' = toStart \ {q}
      /\ \A c \in Elements(queue[k]) : c[1] \notin {"remove", "stopUpdates"}
  BY GuiFree DEF StartRepository, gui, mod
<1>3. /\ Elements(queue'[k]) = Elements(queue[k]) \cup
           (IF k \in tree[q] THEN {<<"startUpdates", {}>>} ELSE {})
      /\ \A r : Started(queue[k], r) => Started(queue'[k], r)
      /\ k \in tree[q] => \A r : Started(queue'[k], r)
  BY <1>1, StartCalls
<1>4. /\ Kinds(k)' = Kinds(k) \cup (IF k \in tree[q] THEN {"startUpdates"} ELSE {})
      /\ \A c \in Elements(queue'[k]) : c[1] = "append" => c \in Elements(queue[k])
      /\ "stopUpdates" \notin Kinds(k)
  <2>1. "stopUpdates" \notin Kinds(k)
    BY <1>2 DEF Kinds
  <2>8. CASE k \in tree[q]
    <3>1. Elements(queue'[k]) = Elements(queue[k]) \cup {<<"startUpdates", {}>>}
      BY <1>3, <2>8
    <3>2. <<"startUpdates", {}>>[1] = "startUpdates"
      OBVIOUS
    <3> QED
      BY <2>1, <2>8, <3>1, <3>2, OneKind
  <2>9. CASE ~(k \in tree[q])
    BY <2>1, <1>3, <2>9 DEF Kinds
  <2> QED
    BY <2>8, <2>9
<1>5. On(k)' = On(k) /\ Told(k)' = Told(k) /\ KeysOf(json)' = KeysOf(json)
  BY <1>2, <1>4 DEF On, Told, KeysOf
<1>6. AppendsSome(k)' /\ Follows(k)' /\ Needed(k)'
  BY <1>2, <1>4, <1>5 DEF FolderInv, AppendsSome, Follows, Needed
<1>7. RemovedSoon(k)' /\ StoppedFirst(k)'
  BY <1>2, <1>4, <1>5 DEF FolderInv, RemovedSoon, StoppedFirst
<1>8. Sampled(k)'
  BY <1>2, <1>3, <1>4 DEF FolderInv, Sampled
<1> QED
  BY <1>6, <1>7, <1>8 DEF FolderInv

LEMMA FoldersEnd ==
  ASSUME Known2, NEW k \in Keys, FolderInv(k), EndUpdate
  PROVE  FolderInv(k)'
<1> USE DEF Known2, TreeInv, KnowInv
<1>1. QueueType /\ InOrder(queue[k])
  BY DEF TypeOK, QueueType, CallSet, Known
<1>2. /\ phase = "removing" /\ phase' = "idle" /\ removing = NoAdapter
      /\ UNCHANGED <<folder, adapters, timer, ticked, json, excused, drop, toStart>>
      /\ drop = {} /\ toStart = {}
      /\ \A c \in Elements(queue[k]) : c[1] \notin {"remove", "stopUpdates"}
      /\ tree' = [r \in DOMAIN json |-> tree[r]] /\ objs' = KeysOf(tree')
  BY GuiFree DEF EndUpdate, Replaced, mod
<1>3. /\ DOMAIN json \subseteq DOMAIN tree
      /\ \A r \in DOMAIN tree : \A l \in tree[r] : r \in DOMAIN json /\ l \in json[r]
      /\ \A r \in DOMAIN json : \A l \in json[r] : l \in tree[r]
  BY <1>2 DEF Applying
<1>4. objs' = KeysOf(json) /\ KeysOf(tree) = KeysOf(json) /\ KeysOf(json) \subseteq objs
  BY <1>2, <1>3 DEF ObjsMatch, KeysOf
<1>5. k \in objs \ objs' => \A c \in Elements(queue[k]) : c[1] \notin {"remove", "new"}
  BY <1>2, <1>4, TreeAssumptions DEF Withdrawn, Has
<1>6. /\ Elements(queue'[k]) = Elements(queue[k]) \cup
           (IF k \in objs \ objs' THEN {<<"delete", {}>>} ELSE {})
      /\ \A r : Started(queue[k], r) => Started(queue'[k], r)
  BY <1>1, <1>5, EndCalls
<1>7. /\ Kinds(k)' = Kinds(k) \cup (IF k \in objs \ objs' THEN {"delete"} ELSE {})
      /\ \A c \in Elements(queue'[k]) : c[1] = "append" => c \in Elements(queue[k])
      /\ "stopUpdates" \notin Kinds(k) /\ "remove" \notin Kinds(k)
  <2>1. "stopUpdates" \notin Kinds(k) /\ "remove" \notin Kinds(k)
    BY <1>2 DEF Kinds
  <2>8. CASE k \in objs \ objs'
    <3>1. Elements(queue'[k]) = Elements(queue[k]) \cup {<<"delete", {}>>}
      BY <1>6, <2>8
    <3>2. <<"delete", {}>>[1] = "delete"
      OBVIOUS
    <3> QED
      BY <2>1, <2>8, <3>1, <3>2, OneKind
  <2>9. CASE ~(k \in objs \ objs')
    BY <2>1, <1>6, <2>9 DEF Kinds
  <2> QED
    BY <2>8, <2>9
<1>8. "removeFolder" \notin Kinds(k)
  BY <1>2, <1>7 DEF FolderInv, RemovedSoon
<1>9. On(k)' = On(k) /\ Told(k)' = Told(k) /\ KeysOf(json)' = KeysOf(json)
  BY <1>2, <1>7 DEF On, Told, KeysOf
<1>10. On(k) => k \in KeysOf(json)
  <2>1. adapters[k] \subseteq Alive(k)
    BY KnownKinds
  <2>2. Alive(k) = {r \in DOMAIN tree : k \in tree[r]}
    BY <1>2, TreeAssumptions DEF Alive
  <2> QED
    BY <1>4, <2>1, <2>2 DEF On, KeysOf
<1>11. AppendsSome(k)' /\ Follows(k)'
  BY <1>2, <1>7, <1>9, <1>10 DEF FolderInv, AppendsSome, Follows
<1>12. Needed(k)'
  BY <1>2, <1>4, <1>7, <1>8, <1>9 DEF FolderInv, Needed
<1>13. RemovedSoon(k)' /\ StoppedFirst(k)'
  BY <1>7, <1>8 DEF RemovedSoon, StoppedFirst
<1>14. Sampled(k)'
  BY <1>2, <1>3, <1>6, <1>7 DEF FolderInv, Sampled
<1> QED
  BY <1>11, <1>12, <1>13, <1>14 DEF FolderInv

LEMMA FoldersClick ==
  ASSUME Known2, NEW k \in Keys, FolderInv(k), NEW q \in Repos, Click(q)
  PROVE  FolderInv(k)'
<1> USE DEF Known2, TreeInv, KnowInv
<1>1. QueueType /\ InOrder(queue[k])
  BY DEF TypeOK, QueueType, CallSet, Known
<1>2. /\ UNCHANGED <<folder, adapters, timer, phase, json, tree, objs, excused, drop, toStart>>
      /\ removing = NoAdapter /\ q \in DOMAIN tree /\ phase = "idle"
      /\ q \notin ticked => ticked' = ticked \cup {q}
      /\ q \in ticked => ticked' = ticked \ {q}
  BY GuiFree DEF Click, Idle, update, mod
<1>3. /\ k \notin tree[q] => queue'[k] = queue[k]
      /\ k \in tree[q] => Elements(queue'[k]) = Elements(queue[k]) \cup {<<"changed", {}>>}
           \cup (IF q \notin ticked THEN {<<"startUpdates", {}>>} ELSE {})
      /\ \A r : Started(queue[k], r) => Started(queue'[k], r)
      /\ q \notin ticked /\ k \in tree[q] => Started(queue'[k], q)
  BY <1>1, ClickCalls
<1>4. /\ k \notin tree[q] => Kinds(k)' = Kinds(k)
      /\ k \in tree[q] => Kinds(k)' = Kinds(k) \cup {"changed"}
           \cup (IF q \notin ticked THEN {"startUpdates"} ELSE {})
      /\ \A c \in Elements(queue'[k]) : c[1] = "append" => c \in Elements(queue[k])
  <2>1. CASE k \notin tree[q]
    BY <1>3, <2>1 DEF Kinds
  <2>2. CASE k \in tree[q]
    <3> DEFINE C == {<<"changed", {}>>} \cup
                      (IF q \notin ticked THEN {<<"startUpdates", {}>>} ELSE {})
    <3>1. Elements(queue'[k]) = Elements(queue[k]) \cup C
      BY <1>3, <2>2
    <3>2. Kinds(k)' = Kinds(k) \cup {c[1] : c \in C}
      BY <3>1, MoreKinds
    <3>3. /\ q \notin ticked => C = {<<"changed", {}>>, <<"startUpdates", {}>>}
          /\ q \in ticked => C = {<<"changed", {}>>}
      OBVIOUS
    <3>4. /\ {c[1] : c \in {<<"changed", {}>>, <<"startUpdates", {}>>}} = {"changed", "startUpdates"}
          /\ {c[1] : c \in {<<"changed", {}>>}} = {"changed"}
      OBVIOUS
    <3>5. \A c \in C : c[1] # "append"
      OBVIOUS
    <3> HIDE DEF C
    <3> QED
      BY <2>2, <3>1, <3>2, <3>3, <3>4, <3>5
  <2> QED
    BY <2>1, <2>2
<1>5. KeysOf(json)' = KeysOf(json)
  BY <1>2 DEF KeysOf
<1>6. k \notin tree[q] => On(k)' = On(k)
  <2>1. adapters[k] \subseteq Alive(k)
    BY KnownKinds
  <2>2. Alive(k) = {r \in DOMAIN tree : k \in tree[r]}
    BY <1>2, TreeAssumptions DEF Alive
  <2> QED
    BY <1>2, <2>1, <2>2 DEF On
<1>7. Told(k)' => k \notin tree[q] /\ Told(k)
  BY <1>4 DEF Told
<1>8. AppendsSome(k)'
  BY <1>4 DEF FolderInv, AppendsSome
<1>9. Follows(k)'
  BY <1>2, <1>5, <1>6, <1>7 DEF FolderInv, Follows
<1>10. Needed(k)'
  BY <1>2, <1>4, <1>5 DEF FolderInv, Needed
<1>11. RemovedSoon(k)' /\ StoppedFirst(k)'
  BY <1>2, <1>4, <1>5 DEF FolderInv, RemovedSoon, StoppedFirst
<1>12. Sampled(k)'
  BY <1>2, <1>3, <1>4 DEF FolderInv, Sampled
<1> QED
  BY <1>8, <1>9, <1>10, <1>11, <1>12 DEF FolderInv

-----------------------------------------------------------------------------
(* The folders, step by step: the worker thread *)

LEMMA FoldersOthers ==
  ASSUME Known2, NEW k \in Keys, FolderInv(k), NEW l \in Keys, l # k, WorkerStep(l)
  PROVE  FolderInv(k)'
<1>1. /\ queue'[k] = queue[k] /\ adapters'[k] = adapters[k] /\ folder'[k] = folder[k]
      /\ k \in timer' <=> k \in timer
      /\ k \in excused' <=> k \in excused
      /\ UNCHANGED <<json, tree, ticked, phase, drop, toStart, objs>>
  BY WorkerOthers DEF Known2, TreeInv
<1>2. /\ Kinds(k)' = Kinds(k) /\ On(k)' = On(k) /\ KeysOf(json)' = KeysOf(json)
      /\ Told(k)' = Told(k)
  BY <1>1 DEF Kinds, On, KeysOf, Told, Elements
<1>3. AppendsSome(k)'
  BY <1>1, <1>2 DEF FolderInv, AppendsSome, Elements
<1>4. Follows(k)' /\ Needed(k)'
  BY <1>1, <1>2 DEF FolderInv, Follows, Needed
<1>5. RemovedSoon(k)' /\ StoppedFirst(k)'
  BY <1>1, <1>2 DEF FolderInv, RemovedSoon, StoppedFirst
<1>6. Sampled(k)'
  BY <1>1, <1>2 DEF FolderInv, Sampled, Started
<1> QED
  BY <1>3, <1>4, <1>5, <1>6 DEF FolderInv

LEMMA FoldersNew ==
  ASSUME Known2, NEW k \in Keys, FolderInv(k), New(k)
  PROVE  FolderInv(k)'
<1> USE DEF Known2, TreeInv
<1>1. /\ queue[k] # <<>> /\ Rest(k) /\ Head(queue[k])[1] = "new" /\ adapters'[k] = {}
      /\ UNCHANGED <<folder, json, tree, ticked, phase, drop, toStart, objs, excused>>
  BY DEF New, Takes, gui, update, TypeOK
<1>2. /\ Kinds(k) = {"new"} \cup Kinds(k)'
      /\ \A c \in Elements(queue'[k]) : c[1] = "append" => c[2] # {}
      /\ \A r : Started(queue[k], r) => Started(queue'[k], r)
  BY <1>1, TakenKinds DEF FolderInv
<1>3. "append" \in Kinds(k)'
  BY <1>2 DEF FolderInv, AppendsSome
<1>4. KeysOf(json)' = KeysOf(json)
  BY <1>1 DEF KeysOf
<1>5. AppendsSome(k)' /\ Follows(k)'
  BY <1>2, <1>3 DEF AppendsSome, Follows, Told
<1>6. Needed(k)'
  BY <1>1, <1>2, <1>3, <1>4 DEF FolderInv, Needed
<1>7. RemovedSoon(k)' /\ StoppedFirst(k)'
  BY <1>1, <1>2, <1>4 DEF FolderInv, RemovedSoon, StoppedFirst
<1>8. Sampled(k)'
  BY <1>1, <1>2 DEF FolderInv, Sampled
<1> QED
  BY <1>5, <1>6, <1>7, <1>8 DEF FolderInv

LEMMA FoldersAppend ==
  ASSUME Known2, NEW k \in Keys, FolderInv(k), AppendModAdapter(k)
  PROVE  FolderInv(k)'
<1> USE DEF Known2, TreeInv, KnowInv
<1> DEFINE h == Head(queue[k])
           t == Tail(queue[k])
           a == Append(t, <<"changed", {}>>)
<1>1. QueueType /\ InOrder(queue[k])
  BY DEF TypeOK, QueueType, CallSet, Known
<1>2. /\ queue[k] # <<>> /\ queue'[k] = a /\ h[1] = "append"
      /\ adapters'[k] = adapters[k] \cup h[2]
      /\ UNCHANGED <<folder, timer, json, tree, ticked, phase, drop, toStart, objs, excused>>
  BY <1>1 DEF AppendModAdapter, Takes, RestAnd, QueueType, gui, update, TypeOK
<1>3. /\ t \in Seq(CallSet) /\ Elements(queue[k]) = {h} \cup Elements(t)
      /\ \A c \in Elements(t) : <<h[1], c[1]>> \notin Never
      /\ \A r : Started(queue[k], r) => Started(t, r)
  BY <1>1, <1>2, TailParts DEF QueueType
<1>4. \A r \in h[2] : Started(queue[k], r) => "startUpdates" \in Kinds(k)
  <2>1. queue[k] \in Seq(CallSet) /\ 1 \in 1..Len(queue[k]) /\ h = queue[k][1]
    BY <1>1, <1>2, TailIs DEF QueueType
  <2> HIDE DEF h
  <2>2. ASSUME NEW r \in h[2], Started(queue[k], r)
        PROVE  "startUpdates" \in Kinds(k)
    <3>1. PICK j \in 2..Len(queue[k]) : queue[k][j][1] = "startUpdates"
      BY <1>2, <2>1, <2>2 DEF Started
    <3>2. queue[k][j] \in Elements(queue[k])
      BY <2>1, <3>1 DEF Elements
    <3> QED
      BY <3>1, <3>2 DEF Kinds
  <2> QED
    BY <2>2
<1> HIDE DEF t
<1>5. /\ Elements(a) = Elements(t) \cup {<<"changed", {}>>}
      /\ \A r : Started(t, r) => Started(a, r)
  <2>1. {} \in SUBSET Repos /\ "changed" \in Calls
    BY DEF Calls
  <2> QED
    BY <1>3, <2>1, AppendParts
<1> HIDE DEF a, h
<1>6. /\ Kinds(k) = {"append"} \cup {c[1] : c \in Elements(t)}
      /\ Kinds(k)' = {"changed"} \cup {c[1] : c \in Elements(t)}
      /\ "new" \notin Kinds(k)
  <2>1. "new" \notin {c[1] : c \in Elements(t)}
    BY <1>2, <1>3 DEF Never
  <2>2. Kinds(k) = {c[1] : c \in {h} \cup Elements(t)}
    BY <1>3 DEF Kinds
  <2>3. Kinds(k)' = {c[1] : c \in Elements(t) \cup {<<"changed", {}>>}}
    BY <1>2, <1>5 DEF Kinds
  <2>4. <<"changed", {}>>[1] = "changed"
    OBVIOUS
  <2>5. Kinds(k) = {"append"} \cup {c[1] : c \in Elements(t)}
    BY <1>2, <2>2
  <2>6. Kinds(k)' = {"changed"} \cup {c[1] : c \in Elements(t)}
    BY <2>3, <2>4
  <2> QED
    BY <2>1, <2>5, <2>6
<1>7. h[2] # {}
  BY <1>2, <1>3 DEF FolderInv, AppendsSome
<1>8. KeysOf(json)' = KeysOf(json)
  BY <1>2 DEF KeysOf
<1>9. AppendsSome(k)' /\ Follows(k)'
  BY <1>2, <1>3, <1>5, <1>6 DEF FolderInv, AppendsSome, Follows, Told
<1>10. Needed(k)'
  BY <1>2, <1>6, <1>7, <1>8 DEF FolderInv, Needed
<1>11. RemovedSoon(k)' /\ StoppedFirst(k)'
  BY <1>2, <1>6, <1>8 DEF FolderInv, RemovedSoon, StoppedFirst
<1>12. Sampled(k)'
  BY <1>2, <1>3, <1>4, <1>5, <1>6 DEF FolderInv, Sampled
<1> QED
  BY <1>9, <1>10, <1>11, <1>12 DEF FolderInv

LEMMA FoldersChanged ==
  ASSUME Known2, NEW k \in Keys, FolderInv(k), Changed(k), proc' = "up"
  PROVE  FolderInv(k)'
<1> USE DEF Known2, TreeInv
<1>1. /\ queue[k] # <<>> /\ Rest(k) /\ Head(queue[k])[1] = "changed" /\ proc = "up"
      /\ RepositoryChanged(k, adapters[k])
      /\ UNCHANGED <<adapters, json, tree, ticked, phase, drop, toStart, objs>>
  BY DEF Changed, Takes, gui, update
<1>2. /\ Kinds(k) = {"changed"} \cup Kinds(k)'
      /\ \A c \in Elements(queue'[k]) : c[1] = "append" => c[2] # {}
      /\ \A r : Started(queue[k], r) => Started(queue'[k], r)
  BY <1>1, TakenKinds DEF FolderInv
<1>3. /\ On(k) => /\ folder'[k] \in {"fetching", "runs"} /\ timer' = timer
                  /\ folder[k] = "none" /\ k \notin KeysOf(json) => k \in excused'
      /\ ~On(k) => /\ folder'[k] \in {"none", "paused"}
                   /\ folder[k] = "none" => folder'[k] = "none"
      /\ excused \subseteq excused'
  <2>1. adapters[k] \in SUBSET Repos
    BY DEF TypeOK
  <2> QED
    BY <1>1, <2>1, Answered DEF On
<1>4. On(k)' = On(k) /\ KeysOf(json)' = KeysOf(json)
  BY <1>1 DEF On, KeysOf
<1>5. AppendsSome(k)' /\ Follows(k)'
  BY <1>2, <1>3, <1>4 DEF FolderInv, AppendsSome, Follows
<1>6. Needed(k)'
  <2>1. adapters[k] = {} => ~On(k)
    BY DEF On
  <2>2. k \notin objs => adapters[k] = {}
    BY KnownKinds
  <2> QED
    BY <1>1, <1>2, <1>3, <1>4, <2>1, <2>2 DEF FolderInv, Needed
<1>7. RemovedSoon(k)' /\ StoppedFirst(k)'
  BY <1>1, <1>2, <1>3, <1>4 DEF FolderInv, RemovedSoon, StoppedFirst
<1>8. Sampled(k)'
  <2>1. \A r \in ticked : r \in adapters[k] => timer' = timer
    BY <1>3 DEF On
  <2> QED
    BY <1>1, <1>2, <2>1 DEF FolderInv, Sampled
<1> QED
  BY <1>5, <1>6, <1>7, <1>8 DEF FolderInv

LEMMA FoldersRemoved ==
  ASSUME Known2, NEW k \in Keys, FolderInv(k), RemoveModAdapter(k), proc' = "up"
  PROVE  FolderInv(k)'
<1> USE DEF Known2, TreeInv, KnowInv
<1>1. PICK q \in Repos : removing = <<q, k>> /\ Head(queue[k])[2] = {q}
  BY HeadRemoval
<1>2. /\ queue[k] # <<>> /\ Rest(k) /\ Head(queue[k])[1] = "remove" /\ proc = "up"
      /\ adapters'[k] = adapters[k] \ {q} /\ RepositoryChanged(k, adapters[k] \ {q})
      /\ UNCHANGED <<json, tree, ticked, phase, drop, toStart, objs>>
  BY <1>1 DEF RemoveModAdapter, Takes, Left, gui, TypeOK
<1>3. /\ Kinds(k) = {"remove"} \cup Kinds(k)'
      /\ Kinds(k)' \cap {"append", "remove", "new", "removeFolder", "stopUpdates"} = {}
      /\ \A r : Started(queue[k], r) => Started(queue'[k], r)
  BY <1>2, TakenKinds DEF Never
<1>4. /\ On(k)' => /\ folder'[k] \in {"fetching", "runs"} /\ timer' = timer
                   /\ folder[k] = "none" /\ k \notin KeysOf(json) => k \in excused'
      /\ ~On(k)' => /\ folder'[k] \in {"none", "paused"}
                    /\ folder[k] = "none" => folder'[k] = "none"
      /\ excused \subseteq excused'
  <2>1. adapters[k] \ {q} \in SUBSET Repos
    BY DEF TypeOK
  <2> QED
    BY <1>2, <2>1, Answered DEF On
<1>5. KeysOf(json)' = KeysOf(json) /\ k \in objs
  BY <1>1, <1>2 DEF KeysOf, ObjsMatch
<1>6. AppendsSome(k)' /\ Follows(k)'
  BY <1>3, <1>4 DEF AppendsSome, Follows, Kinds
<1>7. Needed(k)'
  <2>1. adapters'[k] = {} => ~On(k)'
    BY DEF On
  <2> QED
    BY <1>2, <1>3, <1>4, <1>5, <2>1 DEF FolderInv, Needed
<1>8. RemovedSoon(k)' /\ StoppedFirst(k)'
  BY <1>3 DEF RemovedSoon, StoppedFirst
<1>9. Sampled(k)'
  <2>1. \A r \in ticked : r \in adapters'[k] => timer' = timer
    BY <1>2, <1>4 DEF On
  <2> QED
    BY <1>2, <1>3, <2>1 DEF FolderInv, Sampled
<1> QED
  BY <1>6, <1>7, <1>8, <1>9 DEF FolderInv

LEMMA FoldersSwitch ==
  ASSUME Known2, NEW k \in Keys, FolderInv(k), SwitchTimer(k)
  PROVE  FolderInv(k)'
<1> USE DEF Known2, TreeInv
<1> DEFINE kind == Head(queue[k])[1]
<1>1. /\ queue[k] # <<>> /\ Rest(k) /\ kind \in {"startUpdates", "stopUpdates"}
      /\ kind = "startUpdates" => timer' = timer \cup {k}
      /\ UNCHANGED <<adapters, folder, json, tree, ticked, phase, drop, toStart, objs, excused>>
  BY DEF SwitchTimer, Takes, gui, update
<1>2. /\ Kinds(k) = {kind} \cup Kinds(k)'
      /\ \A c \in Kinds(k)' : <<kind, c>> \notin Never
      /\ \A c \in Elements(queue'[k]) : c[1] = "append" => c[2] # {}
      /\ \A r : Started(queue[k], r) => Started(queue'[k], r)
  BY <1>1, TakenKinds DEF FolderInv
<1>3. kind = "stopUpdates" => "removeFolder" \notin Kinds(k)'
  BY <1>2 DEF Never
<1> HIDE DEF kind
<1>4. On(k)' = On(k) /\ Told(k)' = Told(k) /\ KeysOf(json)' = KeysOf(json)
  BY <1>1, <1>2 DEF On, Told, KeysOf
<1>5. AppendsSome(k)' /\ Follows(k)' /\ Needed(k)'
  BY <1>1, <1>2, <1>4 DEF FolderInv, AppendsSome, Follows, Needed
<1>6. RemovedSoon(k)' /\ StoppedFirst(k)'
  BY <1>1, <1>2, <1>3, <1>4 DEF FolderInv, RemovedSoon, StoppedFirst
<1>7. Sampled(k)'
  <2>1. CASE kind = "startUpdates"
    BY <1>1, <1>2, <2>1 DEF FolderInv, Sampled
  <2>2. CASE kind = "stopUpdates"
    <3>1. phase = "removing" /\ toStart = DOMAIN json
      BY <1>2, <2>2 DEF FolderInv, StoppedFirst
    <3>2. \A r \in DOMAIN tree : k \in tree[r] /\ r \notin toStart => <<r, k>> \in drop
      BY <3>1 DEF Applying
    <3> QED
      BY <1>1, <3>2 DEF Sampled
  <2> QED
    BY <1>1, <2>1, <2>2
<1> QED
  BY <1>5, <1>6, <1>7 DEF FolderInv

LEMMA FoldersDelete ==
  ASSUME Known2, NEW k \in Keys, FolderInv(k), Delete(k)
  PROVE  FolderInv(k)'
<1> USE DEF Known2, TreeInv, KnowInv
<1>1. /\ queue[k] # <<>> /\ Rest(k) /\ Head(queue[k])[1] = "delete"
      /\ UNCHANGED <<adapters, folder, json, tree, ticked, phase, drop, toStart, objs, excused>>
  BY DEF Delete, Takes, gui, update
<1>2. /\ Kinds(k) = {"delete"} \cup Kinds(k)'
      /\ \A c \in Elements(queue'[k]) : c[1] = "append" => c[2] # {}
      /\ \A r : Started(queue[k], r) => Started(queue'[k], r)
  BY <1>1, TakenKinds DEF FolderInv
<1>3. On(k)' = On(k) /\ Told(k)' = Told(k) /\ KeysOf(json)' = KeysOf(json)
  BY <1>1, <1>2 DEF On, Told, KeysOf
<1>4. AppendsSome(k)' /\ Follows(k)' /\ Needed(k)'
  BY <1>1, <1>2, <1>3 DEF FolderInv, AppendsSome, Follows, Needed
<1>5. RemovedSoon(k)' /\ StoppedFirst(k)'
  BY <1>1, <1>2, <1>3 DEF FolderInv, RemovedSoon, StoppedFirst
<1>6. "new" \in Kinds(k)' \/ \A r \in DOMAIN tree : k \notin tree[r]
  <2>1. k \in objs => "new" \in Kinds(k)
    BY <1>2, KnownKinds
  <2>2. k \notin objs => \A r \in DOMAIN tree : k \notin tree[r]
    BY DEF ObjsMatch, KeysOf
  <2> QED
    BY <1>2, <2>1, <2>2
<1>7. Sampled(k)'
  BY <1>1, <1>2, <1>6 DEF FolderInv, Sampled
<1> QED
  BY <1>4, <1>5, <1>7 DEF FolderInv

LEMMA FoldersGone ==
  ASSUME Known2, NEW k \in Keys, FolderInv(k), RemoveFolder(k), proc' = "up"
  PROVE  FolderInv(k)'
<1> USE DEF Known2, TreeInv
<1>1. /\ queue[k] # <<>> /\ Rest(k) /\ Head(queue[k])[1] = "removeFolder"
      /\ folder'[k] = "none"
      /\ UNCHANGED <<adapters, timer, json, tree, ticked, phase, drop, toStart, objs, excused>>
  BY DEF RemoveFolder, Takes, gui, update, mod, TypeOK
<1>2. /\ Kinds(k) = {"removeFolder"} \cup Kinds(k)'
      /\ \A c \in Elements(queue'[k]) : c[1] = "append" => c[2] # {}
      /\ \A r : Started(queue[k], r) => Started(queue'[k], r)
  BY <1>1, TakenKinds DEF FolderInv
<1>3. KeysOf(json)' = KeysOf(json)
  BY <1>1 DEF KeysOf
<1>4. k \in KeysOf(json) => k \in excused
  BY <1>2 DEF FolderInv, RemovedSoon
<1>5. phase \in {"listed", "removing"}
  BY <1>2 DEF FolderInv, RemovedSoon
<1>6. AppendsSome(k)' /\ Follows(k)' /\ Needed(k)'
  BY <1>1, <1>2, <1>3, <1>4, <1>5 DEF FolderInv, AppendsSome, Follows, Needed
<1>7. RemovedSoon(k)' /\ StoppedFirst(k)'
  BY <1>1, <1>2, <1>3 DEF FolderInv, RemovedSoon, StoppedFirst
<1>8. Sampled(k)'
  BY <1>1, <1>2 DEF FolderInv, Sampled
<1> QED
  BY <1>6, <1>7, <1>8 DEF FolderInv

LEMMA FoldersAdded ==
  ASSUME Known2, NEW k \in Keys, FolderInv(k), FolderAdded(k)
  PROVE  FolderInv(k)'
<1> USE DEF Known2, TreeInv, KnowInv
<1>1. QueueType /\ InOrder(queue[k])
  BY DEF TypeOK, QueueType, CallSet, Known
<1>2. /\ folder[k] = "fetching" /\ folder'[k] = "runs"
      /\ excused' = IF phase = "idle" THEN excused \ {k} ELSE excused
      /\ UNCHANGED <<adapters, timer, json, tree, ticked, phase, drop, toStart, objs>>
  BY DEF FolderAdded, gui, update, mod, TypeOK
<1>3. /\ Kinds(k)' = Kinds(k) \/ Kinds(k)' = Kinds(k) \cup {"startUpdates"}
      /\ \A c \in Elements(queue'[k]) : c[1] = "append" => c \in Elements(queue[k])
      /\ \A r : Started(queue[k], r) => Started(queue'[k], r)
  <2>1. CASE k \notin exists
    <3>1. queue'[k] = queue[k]
      BY <1>1, <2>1 DEF FolderAdded, QueueType
    <3> QED
      BY <3>1 DEF Kinds
  <2>2. CASE k \in exists
    <3> DEFINE h == Append(queue[k], <<"startUpdates", {}>>)
    <3>1. /\ queue'[k] = h /\ queue[k] \in Seq(CallSet) /\ "startUpdates" \in Calls
          /\ {} \in SUBSET Repos
      BY <1>1, <2>2 DEF FolderAdded, QueueType, Calls
    <3>2. /\ Elements(h) = Elements(queue[k]) \cup {<<"startUpdates", {}>>}
          /\ \A r : Started(queue[k], r) => Started(h, r)
      BY <3>1, AppendParts
    <3> HIDE DEF h
    <3>3. Elements(queue'[k]) = Elements(queue[k]) \cup {<<"startUpdates", {}>>}
      BY <3>1, <3>2
    <3>4. <<"startUpdates", {}>>[1] = "startUpdates"
      OBVIOUS
    <3> QED
      BY <3>1, <3>2, <3>3, <3>4, OneKind
  <2> QED
    BY <2>1, <2>2
<1>4. On(k)' = On(k) /\ Told(k)' = Told(k) /\ KeysOf(json)' = KeysOf(json)
  BY <1>2, <1>3 DEF On, Told, KeysOf
<1>5. k \in objs /\ (adapters[k] = {} => "append" \in Kinds(k))
  <2>1. adapters[k] = {} => "append" \in Kinds(k)
    BY <1>2 DEF FolderInv, Needed
  <2> QED
    BY <2>1, KnownKinds
<1>6. AppendsSome(k)' /\ Follows(k)'
  BY <1>2, <1>3, <1>4 DEF FolderInv, AppendsSome, Follows
<1>7. Needed(k)'
  BY <1>2, <1>3, <1>4, <1>5 DEF FolderInv, Needed
<1>8. RemovedSoon(k)' /\ StoppedFirst(k)'
  BY <1>2, <1>3, <1>4 DEF FolderInv, RemovedSoon, StoppedFirst
<1>9. Sampled(k)'
  BY <1>2, <1>3 DEF FolderInv, Sampled
<1> QED
  BY <1>6, <1>7, <1>8, <1>9 DEF FolderInv

LEMMA FoldersFailed ==
  ASSUME Known2, NEW k \in Keys, FolderInv(k), FetchFailed(k)
  PROVE  FolderInv(k)'
<1> USE DEF Known2, TreeInv
<1>1. /\ folder'[k] = "none" /\ excused' = excused \cup {k}
      /\ UNCHANGED <<adapters, timer, queue, json, tree, ticked, phase, drop, toStart, objs>>
  BY DEF FetchFailed, gui, update, mod, TypeOK
<1>2. /\ Kinds(k)' = Kinds(k) /\ KeysOf(json)' = KeysOf(json)
  BY <1>1 DEF Kinds, KeysOf, Elements
<1>3. AppendsSome(k)' /\ Follows(k)' /\ Needed(k)'
  BY <1>1, <1>2 DEF FolderInv, AppendsSome, Follows, Needed, Elements
<1>4. RemovedSoon(k)' /\ StoppedFirst(k)'
  BY <1>1, <1>2 DEF FolderInv, RemovedSoon, StoppedFirst
<1>5. Sampled(k)'
  BY <1>1, <1>2 DEF FolderInv, Sampled, Started
<1> QED
  BY <1>3, <1>4, <1>5 DEF FolderInv

-----------------------------------------------------------------------------

\* As long as the process runs.
Folders == proc = "up" => \A k \in Keys : FolderInv(k)

LEMMA FoldersInit == Init => Folders
<1> SUFFICES ASSUME Init, NEW k \in Keys PROVE FolderInv(k)
  BY DEF Folders
<1>1. /\ folder[k] = "none" /\ objs = KeysOf(tree) /\ phase = "idle"
      /\ adapters[k] = {r \in DOMAIN tree : k \in tree[r]}
  BY DEF Init
<1>2. /\ Elements(queue[k]) =
           IF k \in objs THEN {<<"changed", {}>>, <<"startUpdates", {}>>} ELSE {}
      /\ \A r : Started(queue[k], r)
  BY InitQueue
<1>3. /\ k \in objs => Kinds(k) = {"changed", "startUpdates"}
      /\ k \notin objs => Kinds(k) = {}
  <2>1. ASSUME k \in objs
        PROVE  Kinds(k) = {c[1] : c \in {<<"changed", {}>>, <<"startUpdates", {}>>}}
    BY <1>2, <2>1 DEF Kinds
  <2>2. {c[1] : c \in {<<"changed", {}>>, <<"startUpdates", {}>>}} = {"changed", "startUpdates"}
    OBVIOUS
  <2>3. ASSUME k \notin objs PROVE Kinds(k) = {}
    BY <1>2, <2>3 DEF Kinds
  <2> QED
    BY <2>1, <2>2, <2>3
<1>4. k \notin objs => adapters[k] = {} /\ \A r \in DOMAIN tree : k \notin tree[r]
  BY <1>1 DEF KeysOf
<1>5. AppendsSome(k)
  BY <1>2, <1>3 DEF AppendsSome
<1>6. Follows(k)
  BY <1>1, <1>3, <1>4 DEF Follows, Told, On
<1>7. Needed(k)
  BY <1>1 DEF Needed
<1>8. RemovedSoon(k) /\ StoppedFirst(k)
  BY <1>3 DEF RemovedSoon, StoppedFirst
<1>9. Sampled(k)
  BY <1>2, <1>3, <1>4 DEF Sampled
<1> QED
  BY <1>5, <1>6, <1>7, <1>8, <1>9 DEF FolderInv

LEMMA FoldersStep ==
  ASSUME Known2, Folders, [Next]_vars
  PROVE  Folders'
<1> SUFFICES ASSUME proc' = "up", NEW k \in Keys PROVE FolderInv(k)'
  BY DEF Folders
<1>1. CASE UNCHANGED vars
  <2>1. FolderInv(k)
    BY <1>1 DEF Folders, vars
  <2> QED
    BY <1>1, <2>1, FoldersQuiet DEF vars, gui, update, mod
<1>2. CASE Next
  <2>1. proc = "up"
    BY <1>2 DEF Next, GuiStep, WorkerStep, PeriodicRepoUpdate, GetRemovables,
       UpdateRepositories, EndUpdate, Remove, StartRepository, Click, RepositoryUpdate,
       GraceEnds, New, AppendModAdapter, Changed, RemoveModAdapter, SwitchTimer, Delete,
       RemoveFolder, ModUpdate, FolderAdded, FetchFailed, Idle, Gui, Takes
  <2>2. FolderInv(k)
    BY <2>1 DEF Folders
  <2>3. CASE GuiStep
    <3>1. CASE PeriodicRepoUpdate
      BY <2>2, <3>1, FoldersQuiet DEF PeriodicRepoUpdate, Idle, gui, mod
    <3>2. ASSUME NEW r \in Repos, RepositoryUpdate(r) \/ GraceEnds(r)
          PROVE  FolderInv(k)'
      BY <2>2, <3>2, FoldersQuiet DEF RepositoryUpdate, GraceEnds, update, mod
    <3> QED
      BY <2>2, <2>3, <3>1, <3>2, FoldersRemovables, FoldersUpdate, FoldersRemove,
         FoldersStart, FoldersEnd, FoldersClick DEF GuiStep
  <2>4. CASE WorkerStep(k)
    <3>1. CASE ModUpdate(k)
      BY <2>2, <3>1, FoldersQuiet DEF ModUpdate, gui, update
    <3> QED
      BY <2>2, <2>4, <3>1, FoldersNew, FoldersAppend, FoldersChanged, FoldersRemoved,
         FoldersSwitch, FoldersDelete, FoldersGone, FoldersAdded, FoldersFailed
         DEF WorkerStep
  <2>5. ASSUME NEW l \in Keys, l # k, WorkerStep(l) PROVE FolderInv(k)'
    BY <2>2, <2>5, FoldersOthers
  <2> QED
    BY <1>2, <2>3, <2>4, <2>5 DEF Next
<1> QED
  BY <1>1, <1>2

\* A settled mod of an active repository has its torrent running and sampled,
\* one of none runs no torrent, and a withdrawn mod has none
\* (Mod::repositoryChanged, Repository::startUpdates, TreeModel's removal of
\* folders), but for the mods that are excused.
THEOREM FoldersMatchAlways == Spec => []FoldersMatch
<1>1. Known2 /\ Folders => FoldersMatch
  <2> SUFFICES ASSUME Known2, Folders, NEW k \in Keys, Settled(k), k \notin excused
               PROVE  /\ Wanted(k) => folder[k] \in {"fetching", "runs"} /\ k \in timer
                      /\ ~Wanted(k) => folder[k] \in {"none", "paused"}
                      /\ k \notin KeysOf(tree) => folder[k] = "none"
    BY DEF FoldersMatch
  <2> USE DEF Known2, TreeInv, KnowInv
  <2>1. FolderInv(k) /\ phase = "idle" /\ Kinds(k) = {}
    BY DEF Folders, Settled, Kinds, Elements
  <2>2. objs = KeysOf(tree) /\ drop = {} /\ toStart = {} /\ removing = NoAdapter
    BY <2>1 DEF ObjsMatch
  <2>3. adapters[k] = {r \in DOMAIN tree : k \in tree[r]}
    <3>1. adapters[k] = Alive(k)
      BY <2>1, KnownKinds
    <3>2. Alive(k) = {r \in DOMAIN tree : k \in tree[r]}
      BY <2>2, TreeAssumptions DEF Alive
    <3> QED
      BY <3>1, <3>2
  <2>4. Wanted(k) <=> On(k)
    BY <2>3 DEF Wanted, On
  <2>5. On(k) => folder[k] \in {"fetching", "runs"}
    BY <2>1 DEF FolderInv, Follows, Told, TypeOK
  <2>6. ~On(k) => folder[k] \in {"none", "paused"}
    BY <2>1 DEF FolderInv, Follows, Told, TypeOK
  <2>7. Wanted(k) => k \in timer
    BY <2>1, <2>2, <2>3 DEF FolderInv, Sampled, Wanted
  <2>8. k \notin KeysOf(tree) => folder[k] = "none"
    BY <2>1, <2>2 DEF FolderInv, Needed
  <2> QED
    BY <2>4, <2>5, <2>6, <2>7, <2>8
<1>2. Known2 /\ Folders /\ [Next]_vars => Folders'
  BY FoldersStep
<1>3. Spec => []Known2
  BY KnowInvariant DEF Known2
<1> QED
  BY <1>1, <1>2, <1>3, FoldersInit, PTL DEF Spec
=============================================================================
