------------------------ MODULE RoutePlanning_proofs ------------------------
(***************************************************************************)
(* Theorems about AnchorDirectory and RoutePlanning, for every set of       *)
(* anchors and calls, every age limit and timeout, and every balance.       *)
(*                                                                         *)
(* Of the directory: its types, and that nothing it hands over about a      *)
(* discovered anchor is older than its caches allow. Of the previews and    *)
(* quotes: that they use the directory as it is, that a decision names the  *)
(* best route that serves the request, with or without advice, that what    *)
(* the app says of it is so, and that the funding of a quote adds up.       *)
(***************************************************************************)
EXTENDS RoutePlanning, TLAPS, FiniteSetTheorems, WellFoundedInduction

\* What a snapshot says was read so long before it was stored.
SnapshotBound(s) ==
    /\ s.infoAge <= s.age + 2 * FetchTime
    /\ s.tomlAge <= s.age + TTL - 1 + 3 * FetchTime

\* The age of what a call has read of a discovered anchor, at each of its steps.
JobBound(j) ==
    /\ j.step = "idle" \/ j.goal \in {"snapshot", "price"}
    /\ j.step \notin {"again", "firm"}
    /\ j.step \in {"sep6", "sep38", "probe"} => j.goal = "snapshot"
    /\ j.step = "price" => j.goal = "price"
    /\ j.step \notin {"idle", "done"} => j.age <= FetchTime
    /\ j.step = "sep6" => j.tomlAge <= TTL - 1 + j.age
    /\ j.step = "sep38" => /\ j.tomlAge <= TTL - 1 + FetchTime + j.age
                           /\ j.infoAge <= j.age
    /\ j.step = "probe" => /\ j.tomlAge <= TTL - 1 + 2 * FetchTime + j.age
                           /\ j.infoAge <= FetchTime + j.age
    /\ HasSnapshot(j) => Recent(j.snap) /\ SnapshotBound(j.snap)

GoodJob(a, j) == j \in Job /\ (a \in Discovered => JobBound(j))

DirectoryInv ==
    /\ TypeOK
    /\ \A a \in Discovered : SnapshotBound(snaps[a])
    /\ \A c \in Calls, a \in Discovered : JobBound(jobs[c][a])

----------------------------------------------------------------------------
(* The types of the records *)

LEMMA TomlTypes ==
    /\ NoToml \in [seps : SUBSET Seps, fiat : SUBSET Fiat, issuer : BOOLEAN]
    /\ \A t \in Tomls \cup {NoToml} : t.seps \in SUBSET Seps /\ t.fiat \in SUBSET Fiat
    /\ \A F \in Fiats : F \in SUBSET Fiat
    /\ {HomeFiat} \in SUBSET Fiat
<1>1. \A F \in Fiats : F \in SUBSET Fiat
  <2>1. \A F \in Fiats : F \subseteq UNION Fiats
    OBVIOUS
  <2>2. UNION Fiats \subseteq Fiat
    BY DEF Fiat
  <2> QED BY <2>1, <2>2
<1>2. {HomeFiat} \in SUBSET Fiat
  BY DEF Fiat
<1>3. NoToml \in [seps : SUBSET Seps, fiat : SUBSET Fiat, issuer : BOOLEAN]
  BY DEF NoToml
<1>4. \A t \in Tomls : t \in [seps : SUBSET Seps, fiat : SUBSET Fiat, issuer : BOOLEAN]
  BY DirectoryAssumption
<1> QED BY <1>1, <1>2, <1>3, <1>4

LEMMA ConstantTypes == TTL \in Nat /\ TTL >= 1 /\ FailTTL \in Nat /\ FetchTime \in Nat
  BY DirectoryAssumption

LEMMA NoSnapshotType == NoSnapshot \in Snapshot /\ SnapshotBound(NoSnapshot)
  BY ConstantTypes DEF NoSnapshot, Snapshot, Statuses, SnapshotBound

LEMMA IdleGood == /\ Idle \in Job /\ JobBound(Idle)
                  /\ Idle.step = "idle" /\ Idle.goal = "none"
  BY NoSnapshotType, ConstantTypes DEF Idle, Job, Goals, Steps, JobBound, HasSnapshot

LEMMA JobFields ==
  ASSUME NEW j \in Job
  PROVE  /\ j.goal \in Goals /\ j.step \in Steps /\ j.toml \in Tomls \cup {NoToml}
         /\ j.info \in Infos \cup {NoInfo} /\ j.fiat \in SUBSET Fiat
         /\ j.age \in Nat /\ j.tomlAge \in Nat /\ j.infoAge \in Nat
         /\ j.ok \in BOOLEAN /\ j.snap \in Snapshot
         /\ j.toml.seps \in SUBSET Seps /\ j.toml.fiat \in SUBSET Fiat
  BY TomlTypes DEF Job

LEMMA SnapshotFields ==
  ASSUME NEW s \in Snapshot
  PROVE  s.age \in Nat /\ s.tomlAge \in Nat /\ s.infoAge \in Nat
  BY DEF Snapshot

LEMMA AsksType ==
  ASSUME NEW j \in Job, NEW s \in Steps
  PROVE  /\ Asks(j, s) \in Job
         /\ Asks(j, s).goal = j.goal
         /\ Asks(j, s).step = s
         /\ Asks(j, s).age = 0
         /\ Asks(j, s).tomlAge = j.tomlAge
         /\ Asks(j, s).infoAge = j.infoAge
  BY DEF Asks, Job

LEMMA DoneType ==
  ASSUME NEW j \in Job, NEW ok \in BOOLEAN, NEW info \in Infos \cup {NoInfo},
         NEW snap \in Snapshot
  PROVE  /\ Done(j, ok, info, snap) \in Job
         /\ Done(j, ok, info, snap).goal = j.goal
         /\ Done(j, ok, info, snap).step = "done"
         /\ Done(j, ok, info, snap).snap = snap
  BY NoSnapshotType, IdleGood DEF Done, Idle, Job, Steps

\* A job that is done is good when what it hands over is.
LEMMA DoneGood ==
  ASSUME NEW a \in Anchors, NEW j \in Job, NEW ok \in BOOLEAN,
         NEW info \in Infos \cup {NoInfo}, NEW snap \in Snapshot,
         a \in Discovered => /\ j.goal \in {"snapshot", "price"}
                             /\ j.goal = "snapshot" => Recent(snap) /\ SnapshotBound(snap)
  PROVE  GoodJob(a, Done(j, ok, info, snap))
  BY DoneType DEF GoodJob, JobBound, HasSnapshot

LEMMA PublishesGood ==
  ASSUME NEW a \in Anchors, NEW j \in Job, NEW status \in Statuses,
         NEW healthy \in BOOLEAN, NEW seps \in SUBSET Seps,
         a \in Discovered => /\ j.goal = "snapshot"
                             /\ j.tomlAge <= TTL - 1 + 3 * FetchTime
                             /\ j.infoAge <= 2 * FetchTime
  PROVE  GoodJob(a, Publishes(j, status, healthy, seps))
<1> DEFINE s == [status |-> status, healthy |-> healthy, seps |-> seps, info |-> j.info,
                 fiat |-> j.fiat, age |-> 0, tomlAge |-> j.tomlAge, infoAge |-> j.infoAge]
<1>1. s \in Snapshot /\ s.age = 0 /\ s.tomlAge = j.tomlAge /\ s.infoAge = j.infoAge
  BY JobFields DEF Snapshot
<1>2. a \in Discovered => Recent(s) /\ SnapshotBound(s)
  BY <1>1, JobFields, ConstantTypes DEF Recent, SnapshotBound
<1>3. GoodJob(a, Done(j, TRUE, NoInfo, s))
  <2> HIDE DEF s
  <2> QED BY <1>1, <1>2, DoneGood
<1> QED BY <1>3 DEF Publishes

LEMMA AsksGood ==
  ASSUME NEW a \in Anchors, NEW j \in Job, NEW s \in Steps,
         s # "idle" /\ s # "done",
         a \in Discovered =>
            /\ j.goal \in {"snapshot", "price"} /\ s \notin {"again", "firm"}
            /\ s \in {"sep6", "sep38", "probe"} => j.goal = "snapshot"
            /\ s = "price" => j.goal = "price"
            /\ s = "sep6" => j.tomlAge <= TTL - 1
            /\ s = "sep38" => j.tomlAge <= TTL - 1 + FetchTime /\ j.infoAge <= 0
            /\ s = "probe" => j.tomlAge <= TTL - 1 + 2 * FetchTime /\ j.infoAge <= FetchTime
  PROVE  GoodJob(a, Asks(j, s))
  BY AsksType, JobFields, ConstantTypes DEF GoodJob, JobBound, HasSnapshot

LEMMA UnreachableGood ==
  ASSUME NEW a \in Anchors, NEW j \in Job,
         a \in Discovered => j.goal = "snapshot" /\ j.tomlAge <= TTL - 1 + 3 * FetchTime
  PROVE  GoodJob(a, Unreachable(j))
<1> DEFINE k == [j EXCEPT !.info = NoInfo, !.fiat = {}, !.infoAge = 0]
<1>1. /\ k \in Job /\ k.goal = j.goal /\ k.tomlAge = j.tomlAge /\ k.infoAge = 0
  BY DEF Job
<1>2. GoodJob(a, Publishes(k, "UNAVAILABLE", FALSE, {}))
  <2> HIDE DEF k
  <2>1. "UNAVAILABLE" \in Statuses BY DEF Statuses
  <2>2. a \in Discovered => /\ k.goal = "snapshot"
                        /\ k.tomlAge <= TTL - 1 + 3 * FetchTime
                        /\ k.infoAge <= 2 * FetchTime
    BY <1>1, ConstantTypes
  <2> QED BY <1>1, <2>1, <2>2, PublishesGood
<1> QED BY <1>2 DEF Unreachable

\* The rails, and what SEP-38 says of the fiat, are known.
LEMMA AfterFiatGood ==
  ASSUME NEW a \in Anchors, NEW j \in Job,
         a \in Discovered => /\ j.goal = "snapshot"
                             /\ j.tomlAge <= TTL - 1 + 2 * FetchTime
                             /\ j.infoAge <= FetchTime
  PROVE  GoodJob(a, AfterFiat(a, j))
<1>1. "EXECUTABLE" \in Statuses /\ "DISCOVERY_ONLY" \in Statuses /\ "probe" \in Steps
  BY DEF Statuses, Steps
<1>2. j.toml.seps \in SUBSET Seps /\ j.tomlAge \in Nat /\ j.infoAge \in Nat
  BY JobFields
<1>a. a \in Discovered => /\ j.goal = "snapshot"
                        /\ j.tomlAge <= TTL - 1 + 3 * FetchTime
                        /\ j.infoAge <= 2 * FetchTime
  BY <1>2, ConstantTypes
<1>3. GoodJob(a, Publishes(j, "EXECUTABLE", TRUE, j.toml.seps))
  BY <1>1, <1>2, <1>a, PublishesGood
<1>4. GoodJob(a, Publishes(j, "DISCOVERY_ONLY", TRUE, j.toml.seps))
  BY <1>1, <1>2, <1>a, PublishesGood
<1>5. GoodJob(a, Asks(j, "probe"))
  BY <1>1, <1>2, ConstantTypes, AsksGood
<1> QED BY <1>3, <1>4, <1>5 DEF AfterFiat

\* The rails are known.
LEMMA AfterInfoGood ==
  ASSUME NEW a \in Anchors, NEW j \in Job,
         a \in Discovered => /\ j.goal = "snapshot"
                             /\ j.tomlAge <= TTL - 1 + FetchTime
                             /\ j.infoAge = 0
  PROVE  GoodJob(a, AfterInfo(a, j))
<1> DEFINE known == [j EXCEPT !.fiat = IF a \in Executables THEN {HomeFiat} ELSE j.toml.fiat]
<1>1. /\ "EXECUTABLE" \in Statuses /\ "DISCOVERY_ONLY" \in Statuses
      /\ "again" \in Steps /\ "sep38" \in Steps
  BY DEF Statuses, Steps
<1>2. j.toml.seps \in SUBSET Seps /\ j.tomlAge \in Nat /\ j.info \in Infos \cup {NoInfo}
  BY JobFields
<1>3. known \in Job /\ known.goal = j.goal /\ known.tomlAge = j.tomlAge /\ known.infoAge = j.infoAge
  BY JobFields, TomlTypes DEF Job
<1>4. a \in Discovered => a \notin Executables
  BY DirectoryAssumption
<1> HIDE DEF known
<1>a. a \in Discovered => /\ known.goal = "snapshot"
                        /\ known.tomlAge <= TTL - 1 + 3 * FetchTime
                        /\ known.infoAge <= 2 * FetchTime
  BY <1>2, <1>3, ConstantTypes
<1>5. GoodJob(a, Publishes(known, "EXECUTABLE", TRUE, j.toml.seps))
  BY <1>1, <1>2, <1>3, <1>a, PublishesGood
<1>6. GoodJob(a, Publishes(known, "DISCOVERY_ONLY", TRUE, j.toml.seps))
  BY <1>1, <1>2, <1>3, <1>a, PublishesGood
<1>7. GoodJob(a, Asks(known, "sep38"))
  BY <1>1, <1>2, <1>3, ConstantTypes, AsksGood
<1>8. a \in Executables => GoodJob(a, Asks(known, "again"))
  BY <1>1, <1>3, <1>4, AsksGood
<1>9. j.goal = "limits" => GoodJob(a, Done(j, TRUE, j.info, NoSnapshot))
  BY <1>2, DoneGood, NoSnapshotType
<1> QED BY <1>5, <1>6, <1>7, <1>8, <1>9 DEF AfterInfo, known

LEMMA ReadsInfoGood ==
  ASSUME TypeOK, NEW a \in Anchors, NEW j \in Job,
         a \in Discovered => j.goal = "snapshot" /\ j.tomlAge <= TTL - 1
  PROVE  GoodJob(a, ReadsInfo(a, j))
<1>1. ASSUME a \in Executables
      PROVE  GoodJob(a, AfterInfo(a, [j EXCEPT !.info = infos[a].value]))
  <2>1. infos[a].value \in Infos \cup {NoInfo}
    BY <1>1 DEF TypeOK
  <2>2. [j EXCEPT !.info = infos[a].value] \in Job
    BY <2>1 DEF Job
  <2>3. a \notin Discovered
    BY <1>1, DirectoryAssumption
  <2> QED BY <2>2, <2>3, AfterInfoGood
<1>2. GoodJob(a, Asks(j, "sep6"))
  <2>1. "sep6" \in Steps BY DEF Steps
  <2> QED BY <2>1, AsksGood
<1> QED BY <1>1, <1>2 DEF ReadsInfo

\* The stellar.toml is known. Nobody asks for the limits of a discovered anchor.
LEMMA AfterTomlGood ==
  ASSUME TypeOK, NEW a \in Anchors, NEW j \in Job,
         a \in Discovered => /\ j.goal \in {"snapshot", "price"}
                             /\ j.goal = "snapshot" => j.tomlAge <= TTL - 1
  PROVE  GoodJob(a, AfterToml(a, j))
<1>1. /\ "price" \in Steps /\ "firm" \in Steps /\ "sep6" \in Steps /\ "UNAVAILABLE" \in Statuses
  BY DEF Statuses, Steps
<1>2. j.toml.seps \in SUBSET Seps /\ j.tomlAge \in Nat /\ NoInfo \in Infos \cup {NoInfo}
  BY JobFields
<1>3. CASE j.goal = "price"
  <2>1. GoodJob(a, Asks(j, "price"))
    BY <1>1, <1>3, AsksGood
  <2>2. GoodJob(a, Done(j, FALSE, NoInfo, NoSnapshot))
    BY <1>2, <1>3, NoSnapshotType, DoneGood
  <2> QED BY <1>3, <2>1, <2>2 DEF AfterToml
<1>4. CASE j.goal = "firm"
  <2>1. GoodJob(a, Asks(j, "firm"))
    BY <1>1, <1>4, AsksGood
  <2> QED BY <1>4, <2>1 DEF AfterToml
<1>5. CASE j.goal = "limits"
  <2>1. GoodJob(a, Asks(j, "sep6"))
    BY <1>1, <1>5, AsksGood
  <2> QED BY <1>5, <2>1 DEF AfterToml
<1>6. CASE j.goal \notin {"price", "firm", "limits"}
  <2>1. GoodJob(a, Unreachable(j))
    BY <1>2, <1>6, ConstantTypes, UnreachableGood
  <2> DEFINE k == [j EXCEPT !.infoAge = 0]
  <2>2. k \in Job /\ k.goal = j.goal /\ k.tomlAge = j.tomlAge /\ k.infoAge = 0
    BY DEF Job
  <2>3. GoodJob(a, Publishes(k, "UNAVAILABLE", TRUE, j.toml.seps))
    <3> HIDE DEF k
    <3>1. a \in Discovered => /\ k.goal = "snapshot"
                            /\ k.tomlAge <= TTL - 1 + 3 * FetchTime
                            /\ k.infoAge <= 2 * FetchTime
      BY <1>2, <1>6, <2>2, ConstantTypes
    <3> QED BY <1>1, <1>2, <2>2, <3>1, PublishesGood
  <2>4. GoodJob(a, ReadsInfo(a, j))
    BY <1>6, ReadsInfoGood
  <2> QED BY <1>6, <2>1, <2>3, <2>4 DEF AfterToml
<1> QED BY <1>3, <1>4, <1>5, <1>6

----------------------------------------------------------------------------
(* What a job begins with *)

LEMMA BegunType ==
  ASSUME NEW goal \in Goals
  PROVE  /\ Begun(goal) \in Job /\ Begun(goal).goal = goal
         /\ Begun(goal).tomlAge = 0 /\ Begun(goal).infoAge = 0
  BY IdleGood DEF Begun, Idle, Job

LEMMA ReadsTomlGood ==
  ASSUME TypeOK, NEW a \in Anchors, NEW goal \in Goals,
         a \in Discovered => goal \in {"snapshot", "price"}
  PROVE  GoodJob(a, ReadsToml(a, Begun(goal)))
<1> DEFINE j == Begun(goal)
           n == Aged(a, j, tomls[a].age)
           k == [j EXCEPT !.toml = tomls[a].value, !.tomlAge = n]
<1>1. j \in Job /\ j.goal = goal
  BY BegunType
<1>2. tomls[a].value \in Tomls \cup {NoToml} /\ tomls[a].age \in Nat
  BY DEF TypeOK
<1>3. n \in Nat /\ (TomlFresh(a) => n <= TTL - 1)
  BY <1>2, ConstantTypes DEF Aged, TomlFresh, CacheTtl
<1>4. TomlFresh(a) => GoodJob(a, AfterToml(a, k))
  <2> HIDE DEF j, n
  <2>1. k \in Job /\ k.goal = goal /\ k.tomlAge = n
    BY <1>1, <1>2, <1>3 DEF Job
  <2> HIDE DEF k
  <2> QED BY <1>3, <2>1, AfterTomlGood
<1>5. GoodJob(a, Asks(j, "toml"))
  <2> HIDE DEF j
  <2>1. "toml" \in Steps BY DEF Steps
  <2> QED BY <1>1, <2>1, AsksGood
<1> QED BY <1>4, <1>5 DEF ReadsToml

LEMMA FreshSnapshot ==
  ASSUME NEW s \in Snapshot, SnapshotBound(s), NEW ok \in BOOLEAN, s.age < CacheTtl(ok)
  PROVE  Recent(s)
  BY SnapshotFields, ConstantTypes DEF SnapshotBound, CacheTtl, Recent

LEMMA SnapshotJobGood ==
  ASSUME DirectoryInv, NEW a \in Anchors
  PROVE  GoodJob(a, SnapshotJob(a))
<1>1. "snapshot" \in Goals /\ NoInfo \in Infos \cup {NoInfo}
  BY DEF Goals
<1>2. ASSUME SnapFresh(a)
      PROVE  GoodJob(a, Done(Begun("snapshot"), TRUE, NoInfo, snaps[a]))
  <2>1. a \in Discovered /\ snaps[a] \in Snapshot /\ SnapshotBound(snaps[a])
    BY <1>2 DEF SnapFresh, DirectoryInv, TypeOK
  <2>2. snaps[a].healthy \in BOOLEAN /\ snaps[a].age < CacheTtl(snaps[a].healthy)
    BY <1>2, <2>1 DEF SnapFresh, Snapshot
  <2>3. Recent(snaps[a])
    BY <2>1, <2>2, FreshSnapshot
  <2> QED BY <1>1, <2>1, <2>3, BegunType, DoneGood
<1>3. GoodJob(a, ReadsToml(a, Begun("snapshot")))
  BY <1>1, ReadsTomlGood DEF DirectoryInv
<1> QED BY <1>2, <1>3 DEF SnapshotJob

LEMMA LimitsJobGood ==
  ASSUME TypeOK, NEW a \in Executables
  PROVE  GoodJob(a, LimitsJob(a))
<1>1. "limits" \in Goals /\ a \in Anchors /\ a \notin Discovered
  BY DirectoryAssumption DEF Goals, Anchors
<1>2. infos[a].value \in Infos \cup {NoInfo}
  BY DEF TypeOK
<1>3. GoodJob(a, Done(Begun("limits"), TRUE, infos[a].value, NoSnapshot))
  BY <1>1, <1>2, BegunType, NoSnapshotType, DoneGood
<1>4. GoodJob(a, ReadsToml(a, Begun("limits")))
  BY <1>1, ReadsTomlGood
<1> QED BY <1>3, <1>4 DEF LimitsJob

----------------------------------------------------------------------------
(* The steps *)

\* A job that goes on keeps the invariant when it goes on as a good job.
LEMMA GoesKeeps ==
  ASSUME DirectoryInv, NEW c \in Calls, NEW a \in Anchors, NEW j,
         GoodJob(a, j), Goes(c, a, j),
         tomls' \in [Anchors -> [value : Tomls \cup {NoToml}, age : Nat]],
         infos' \in [Executables -> [value : Infos \cup {NoInfo}, age : Nat]]
  PROVE  DirectoryInv'
<1> USE DEF DirectoryInv, TypeOK
<1>1. jobs' \in [Calls -> [Anchors -> Job]]
  BY DEF Goes, GoodJob
<1>2. a \in Discovered /\ HasSnapshot(j) => j.snap \in Snapshot /\ SnapshotBound(j.snap)
  BY DEF GoodJob, JobBound, Job
<1>3. snaps' \in [Discovered -> Snapshot]
  BY <1>2 DEF Goes
<1>4. ASSUME NEW d \in Discovered PROVE SnapshotBound(snaps'[d])
  BY <1>2 DEF Goes
<1>5. ASSUME NEW b \in Calls, NEW d \in Discovered PROVE JobBound(jobs'[b][d])
  <2>1. d \in Anchors BY DEF Anchors
  <2>2. CASE b = c /\ d = a
    BY <2>1, <2>2 DEF Goes, GoodJob
  <2>3. CASE ~(b = c /\ d = a)
    <3>1. jobs'[b][d] = jobs[b][d]
      BY <2>1, <2>3 DEF Goes
    <3> QED BY <3>1
  <2> QED BY <2>2, <2>3
<1>6. (\A d \in Discovered : SnapshotBound(snaps[d]))'
  BY <1>4 DEF SnapshotBound
<1>7. (\A b \in Calls, d \in Discovered : JobBound(jobs[b][d]))'
  BY <1>5 DEF JobBound, HasSnapshot, Recent, SnapshotBound
<1> QED BY <1>1, <1>3, <1>6, <1>7

\* So does a call that begins or ends with good jobs and leaves the caches, but
\* for the snapshots it has at once.
LEMMA BeginsKeeps ==
  ASSUME DirectoryInv, NEW c \in Calls, NEW after \in [Anchors -> Job],
         \A a \in Anchors : GoodJob(a, after[a]),
         jobs' = [jobs EXCEPT ![c] = after],
         \A a \in Discovered :
            snaps'[a] = snaps[a] \/ (HasSnapshot(after[a]) /\ snaps'[a] = after[a].snap),
         snaps' = [a \in Discovered |-> snaps'[a]],
         UNCHANGED <<tomls, infos>>
  PROVE  DirectoryInv'
<1> USE DEF DirectoryInv, TypeOK
<1>1. jobs' \in [Calls -> [Anchors -> Job]]
  OBVIOUS
<1>2. ASSUME NEW a \in Discovered PROVE snaps'[a] \in Snapshot /\ SnapshotBound(snaps'[a])
  <2>1. a \in Anchors BY DEF Anchors
  <2>2. CASE snaps'[a] = snaps[a]
    BY <2>2
  <2>3. CASE HasSnapshot(after[a]) /\ snaps'[a] = after[a].snap
    BY <2>1, <2>3 DEF GoodJob, JobBound, Job
  <2> QED BY <2>2, <2>3
<1>3. snaps' \in [Discovered -> Snapshot]
  BY <1>2
<1>4. ASSUME NEW b \in Calls, NEW d \in Discovered PROVE JobBound(jobs'[b][d])
  <2>1. d \in Anchors BY DEF Anchors
  <2>2. CASE b = c
    BY <2>1, <2>2 DEF GoodJob
  <2>3. CASE b # c
    BY <2>3
  <2> QED BY <2>2, <2>3
<1>5. (\A d \in Discovered : SnapshotBound(snaps[d]))'
  BY <1>2 DEF SnapshotBound
<1>6. (\A b \in Calls, d \in Discovered : JobBound(jobs[b][d]))'
  BY <1>4 DEF JobBound, HasSnapshot, Recent, SnapshotBound
<1> QED BY <1>1, <1>3, <1>5, <1>6

LEMMA DirectoryInit == Init => DirectoryInv
<1> SUFFICES ASSUME Init PROVE DirectoryInv
  OBVIOUS
<1>1. TypeOK
  BY TomlTypes, NoSnapshotType, IdleGood, ConstantTypes DEF Init, TypeOK
<1>2. \A a \in Discovered : SnapshotBound(snaps[a])
  <2>1. snaps = [a \in Discovered |-> NoSnapshot]
    BY Zenon DEF Init
  <2>2. \A a \in Discovered : snaps[a] = NoSnapshot
    BY <2>1
  <2> QED BY <2>2, NoSnapshotType
<1>3. \A c \in Calls, a \in Discovered : JobBound(jobs[c][a])
  <2>1. jobs = [c \in Calls |-> [a \in Anchors |-> Idle]]
    BY Zenon DEF Init
  <2>2. \A c \in Calls, a \in Discovered : jobs[c][a] = Idle
    BY <2>1 DEF Anchors
  <2> QED BY <2>2, IdleGood
<1> QED BY <1>1, <1>2, <1>3 DEF DirectoryInv

LEMMA BeginsStep ==
  ASSUME DirectoryInv, NEW c \in Calls, Begins(c) \/ Collect(c)
  PROVE  DirectoryInv'
<1>0. \A a \in Anchors : GoodJob(a, Idle)
  BY IdleGood DEF GoodJob
<1>1. CASE List(c)
  <2> DEFINE after == [a \in Anchors |-> SnapshotJob(a)]
  <2>1. \A a \in Anchors : GoodJob(a, after[a])
    BY SnapshotJobGood
  <2>2. after \in [Anchors -> Job]
    BY <2>1 DEF GoodJob
  <2>3. /\ jobs' = [jobs EXCEPT ![c] = after]
        /\ snaps' = [a \in Discovered |-> IF HasSnapshot(after[a]) THEN after[a].snap ELSE snaps[a]]
        /\ UNCHANGED <<tomls, infos>>
    BY <1>1 DEF List
  <2> HIDE DEF after
  <2>4. \A a \in Discovered :
            snaps'[a] = snaps[a] \/ (HasSnapshot(after[a]) /\ snaps'[a] = after[a].snap)
    BY <2>3
  <2>5. snaps' = [a \in Discovered |-> snaps'[a]]
    BY <2>3
  <2> QED BY <2>1, <2>2, <2>3, <2>4, <2>5, BeginsKeeps
<1>2. ASSUME NEW S \in SUBSET Discovered, AskPrices(c, S) PROVE DirectoryInv'
  <2> DEFINE after == [a \in Anchors |-> IF a \in S THEN ReadsToml(a, Begun("price")) ELSE Idle]
  <2>1. \A a \in Anchors : GoodJob(a, after[a])
    <3>1. "price" \in Goals BY DEF Goals
    <3>2. \A a \in Anchors : GoodJob(a, ReadsToml(a, Begun("price")))
      BY <3>1, ReadsTomlGood DEF DirectoryInv
    <3> QED BY <1>0, <3>2
  <2>2. after \in [Anchors -> Job]
    BY <2>1 DEF GoodJob
  <2>3. jobs' = [jobs EXCEPT ![c] = after] /\ UNCHANGED <<tomls, infos, snaps>>
    BY <1>2 DEF AskPrices
  <2>4. snaps' = [a \in Discovered |-> snaps'[a]]
    BY <2>3 DEF DirectoryInv, TypeOK
  <2> HIDE DEF after
  <2> QED BY <2>1, <2>2, <2>3, <2>4, BeginsKeeps
<1>3. ASSUME NEW a \in Executables, AskFirm(c, a) PROVE DirectoryInv'
  <2>1. a \in Anchors /\ a \notin Discovered /\ "firm" \in Goals
    BY DirectoryAssumption DEF Anchors, Goals
  <2>2. GoodJob(a, ReadsToml(a, Begun("firm")))
    BY <2>1, ReadsTomlGood DEF DirectoryInv
  <2>3. Goes(c, a, ReadsToml(a, Begun("firm")))
    BY <1>3, <2>1 DEF AskFirm, Goes
  <2> QED BY <1>3, <2>1, <2>2, <2>3, GoesKeeps DEF AskFirm, DirectoryInv, TypeOK
<1>4. ASSUME NEW a \in Executables, AskLimits(c, a) PROVE DirectoryInv'
  <2>1. a \in Anchors /\ a \notin Discovered
    BY DirectoryAssumption DEF Anchors
  <2>2. GoodJob(a, LimitsJob(a))
    BY LimitsJobGood DEF DirectoryInv
  <2>3. Goes(c, a, LimitsJob(a))
    BY <1>4, <2>1 DEF AskLimits, Goes
  <2> QED BY <1>4, <2>1, <2>2, <2>3, GoesKeeps DEF AskLimits, DirectoryInv, TypeOK
<1>5. CASE Collect(c)
  <2> DEFINE after == [a \in Anchors |-> Idle]
  <2>1. after \in [Anchors -> Job] /\ \A a \in Anchors : GoodJob(a, after[a])
    BY <1>0, IdleGood
  <2>2. jobs' = [jobs EXCEPT ![c] = after] /\ UNCHANGED <<tomls, infos, snaps>>
    BY <1>5 DEF Collect
  <2>3. snaps' = [a \in Discovered |-> snaps'[a]]
    BY <2>2 DEF DirectoryInv, TypeOK
  <2> HIDE DEF after
  <2> QED BY <2>1, <2>2, <2>3, BeginsKeeps
<1> QED BY <1>1, <1>2, <1>3, <1>4, <1>5 DEF Begins

\* The answers, and the errors and timeouts in their place.
LEMMA AnswersStep ==
  ASSUME DirectoryInv, NEW c \in Calls, NEW a \in Anchors, RequestEnds(c, a) \/ Throws(c, a)
  PROVE  DirectoryInv'
<1> DEFINE j == jobs[c][a]
<1>0. /\ j \in Job /\ TypeOK
      /\ a \in Discovered => JobBound(j) /\ a \notin Executables
      /\ j.tomlAge \in Nat /\ j.infoAge \in Nat /\ j.age \in Nat
      /\ j.toml.seps \in SUBSET Seps /\ j.toml \in Tomls \cup {NoToml}
      /\ NoInfo \in Infos \cup {NoInfo} /\ 0 \in Nat
  BY JobFields, DirectoryAssumption DEF DirectoryInv, TypeOK
<1>a. /\ tomls \in [Anchors -> [value : Tomls \cup {NoToml}, age : Nat]]
      /\ infos \in [Executables -> [value : Infos \cup {NoInfo}, age : Nat]]
  BY <1>0 DEF TypeOK
<1>b. /\ "sep38" \in Steps /\ "retry" \in Steps
      /\ "UNAVAILABLE" \in Statuses /\ "QUOTE_ONLY" \in Statuses /\ "DISCOVERY_ONLY" \in Statuses
  BY DEF Steps, Statuses
<1> HIDE DEF j
<1>1. ASSUME NEW t \in Tomls, TomlArrives(c, a, t) PROVE DirectoryInv'
  <2> DEFINE k == [j EXCEPT !.toml = t, !.tomlAge = 0]
  <2>1. k \in Job /\ k.goal = j.goal /\ k.tomlAge = 0
    BY <1>0 DEF Job
  <2>a. a \in Discovered => j.goal \in {"snapshot", "price"} /\ j.step # "again"
    BY <1>0, <1>1 DEF TomlArrives, JobBound, j
  <2>b. 0 <= TTL - 1
    BY ConstantTypes
  <2>2. GoodJob(a, Asks(j, "sep38")) \/ j.step # "again"
    BY <1>0, <1>b, AsksType DEF GoodJob, JobBound
  <2>3. j.step # "again" => GoodJob(a, AfterToml(a, k))
    BY <1>0, <2>a, <2>b, <2>1, AfterTomlGood
  <2> QED
    BY <1>1, <1>a, <2>2, <2>3, GoesKeeps DEF TomlArrives, j
<1>2. CASE TomlRetried(c, a)
  <2>a. j.goal \in {"snapshot", "price"}
    BY <1>0, <1>2 DEF TomlRetried, JobBound, j
  <2>1. GoodJob(a, Asks(j, "retry"))
    BY <1>0, <1>b, <2>a, AsksGood
  <2> QED BY <1>2, <1>a, <2>1, GoesKeeps DEF TomlRetried, j
<1>3. CASE TomlMissed(c, a)
  <2> DEFINE k == [j EXCEPT !.toml = NoToml, !.tomlAge = 0]
  <2>1. k \in Job /\ k.goal = j.goal /\ k.tomlAge = 0
    BY <1>0 DEF Job
  <2>a. a \in Discovered => j.goal \in {"snapshot", "price"} /\ j.step # "again"
    BY <1>0, <1>3 DEF TomlMissed, JobBound, j
  <2>b. 0 <= TTL - 1
    BY ConstantTypes
  <2>2. GoodJob(a, AfterToml(a, k))
    BY <1>0, <2>a, <2>b, <2>1, AfterTomlGood
  <2> QED BY <1>3, <1>a, <2>2, GoesKeeps DEF TomlMissed, j
<1>4. CASE Throws(c, a)
  <2>0. a \notin Discovered
    BY <1>4, <1>0 DEF Throws
  <2> DEFINE k == [j EXCEPT !.tomlAge = 0]
  <2>1. k \in Job
    BY <1>0 DEF Job
  <2>2. GoodJob(a, Unreachable(k)) /\ GoodJob(a, Done(j, FALSE, NoInfo, NoSnapshot))
    BY <1>0, <2>0, <2>1, UnreachableGood, NoSnapshotType, DoneGood
  <2> QED BY <1>4, <1>a, <2>2, GoesKeeps DEF Throws, j
<1>5. ASSUME NEW info \in Infos, InfoArrives(c, a, info) PROVE DirectoryInv'
  <2> DEFINE k == [j EXCEPT !.info = info, !.infoAge = 0]
  <2>1. k \in Job /\ k.goal = j.goal /\ k.tomlAge = j.tomlAge /\ k.infoAge = 0
    BY <1>0 DEF Job
  <2>2. a \in Discovered => k.goal = "snapshot" /\ k.tomlAge <= TTL - 1 + FetchTime
    BY <1>0, <1>5, <2>1, ConstantTypes DEF InfoArrives, JobBound, j
  <2>3. GoodJob(a, AfterInfo(a, k))
    BY <2>1, <2>2, AfterInfoGood
  <2>4. infos' \in [Executables -> [value : Infos \cup {NoInfo}, age : Nat]]
    BY <1>5, <1>a DEF InfoArrives
  <2> QED BY <1>5, <1>a, <2>3, <2>4, GoesKeeps DEF InfoArrives, j
<1>6. CASE InfoFails(c, a)
  <2> DEFINE k == [j EXCEPT !.infoAge = 0]
  <2>1. k \in Job /\ k.goal = j.goal /\ k.tomlAge = j.tomlAge /\ k.infoAge = 0
    BY <1>0 DEF Job
  <2>2. a \in Discovered => /\ k.goal = "snapshot"
                           /\ k.tomlAge <= TTL - 1 + 3 * FetchTime
                           /\ k.infoAge <= 2 * FetchTime
    BY <1>0, <1>6, <2>1, ConstantTypes DEF InfoFails, JobBound, j
  <2>3. GoodJob(a, Publishes(k, "UNAVAILABLE", FALSE, j.toml.seps))
    BY <1>0, <1>b, <2>1, <2>2, PublishesGood
  <2> QED BY <1>6, <1>a, <2>3, GoesKeeps DEF InfoFails, j
<1>7. ASSUME NEW F \in Fiats, FiatArrives(c, a, F) PROVE DirectoryInv'
  <2> DEFINE k == [j EXCEPT !.fiat = F]
  <2>1. k \in Job /\ k.goal = j.goal /\ k.tomlAge = j.tomlAge /\ k.infoAge = j.infoAge
    BY <1>0, TomlTypes DEF Job
  <2>2. a \in Discovered => /\ j.goal = "snapshot"
                           /\ j.tomlAge <= TTL - 1 + 2 * FetchTime
                           /\ j.infoAge <= FetchTime
    BY <1>0, <1>7, ConstantTypes DEF FiatArrives, JobBound, j
  <2>3. GoodJob(a, AfterFiat(a, j)) /\ GoodJob(a, AfterFiat(a, k))
    BY <1>0, <2>1, <2>2, AfterFiatGood
  <2> QED BY <1>7, <1>a, <2>3, GoesKeeps DEF FiatArrives, j
<1>8. CASE FiatFails(c, a)
  <2>2. a \in Discovered => /\ j.goal = "snapshot"
                           /\ j.tomlAge <= TTL - 1 + 2 * FetchTime
                           /\ j.infoAge <= FetchTime
    BY <1>0, <1>8, ConstantTypes DEF FiatFails, JobBound, j
  <2>3. GoodJob(a, AfterFiat(a, j))
    BY <1>0, <2>2, AfterFiatGood
  <2> QED BY <1>8, <1>a, <2>3, GoesKeeps DEF FiatFails, j
<1>9. ASSUME NEW outcome \in Probes, ProbeEnds(c, a, outcome) PROVE DirectoryInv'
  <2>1. a \in Discovered => /\ j.goal = "snapshot"
                           /\ j.tomlAge <= TTL - 1 + 3 * FetchTime
                           /\ j.infoAge <= 2 * FetchTime
    BY <1>0, <1>9, ConstantTypes DEF ProbeEnds, JobBound, j
  <2>2. StatusOf(outcome) \in Statuses
    BY <1>b DEF StatusOf
  <2>3. GoodJob(a, Publishes(j, StatusOf(outcome), TRUE, j.toml.seps))
    BY <1>0, <2>1, <2>2, PublishesGood
  <2> QED BY <1>9, <1>a, <2>3, GoesKeeps DEF ProbeEnds, j
<1>10. ASSUME NEW ok \in BOOLEAN, PriceEnds(c, a, ok) PROVE DirectoryInv'
  <2>1. a \in Discovered => j.goal = "price"
    BY <1>0, <1>10 DEF PriceEnds, JobBound, j
  <2>2. GoodJob(a, Done(j, ok, NoInfo, NoSnapshot))
    BY <1>0, <2>1, NoSnapshotType, DoneGood
  <2> QED BY <1>10, <1>a, <2>2, GoesKeeps DEF PriceEnds, j
<1> QED BY <1>1, <1>2, <1>3, <1>4, <1>5, <1>6, <1>7, <1>8, <1>9, <1>10 DEF RequestEnds

\* As time passes a job's limits move with the age of its request, which stays
\* within its timeout.
LEMMA OlderJobBound ==
  ASSUME NEW j \in Job, JobBound(j), j.step \notin {"idle", "done"}, j.age < FetchTime
  PROVE  JobBound(OlderJob(j))
<1> DEFINE k == OlderJob(j)
<1>1. /\ k.goal = j.goal /\ k.step = j.step /\ k.snap = j.snap /\ k.age = j.age + 1
      /\ k.tomlAge = IF j.goal = "snapshot" /\ j.step \in {"sep6", "sep38", "probe"}
                     THEN j.tomlAge + 1 ELSE j.tomlAge
      /\ k.infoAge = IF j.step \in {"sep38", "probe"} THEN j.infoAge + 1 ELSE j.infoAge
  BY DEF OlderJob, Job
<1>2. j.age \in Nat /\ j.tomlAge \in Nat /\ j.infoAge \in Nat
  BY JobFields
<1> HIDE DEF k
<1>3. k.age <= FetchTime
  BY <1>1, <1>2, ConstantTypes
<1>4. CASE j.step = "sep6"
  BY <1>1, <1>2, <1>3, <1>4, ConstantTypes DEF JobBound, HasSnapshot, k
<1>5. CASE j.step = "sep38"
  BY <1>1, <1>2, <1>3, <1>5, ConstantTypes DEF JobBound, HasSnapshot, k
<1>6. CASE j.step = "probe"
  BY <1>1, <1>2, <1>3, <1>6, ConstantTypes DEF JobBound, HasSnapshot, k
<1>7. CASE j.step \notin {"sep6", "sep38", "probe"}
  BY <1>1, <1>3, <1>7 DEF JobBound, HasSnapshot, k
<1> QED BY <1>4, <1>5, <1>6, <1>7

LEMMA OlderSnapshotBound ==
  ASSUME NEW s \in Snapshot, SnapshotBound(s)
  PROVE  OlderSnapshot(s) \in Snapshot /\ SnapshotBound(OlderSnapshot(s))
<1> DEFINE k == [s EXCEPT !.age = @ + 1, !.tomlAge = @ + 1, !.infoAge = @ + 1]
           x == s.age + 1
           y == s.tomlAge + 1
           z == s.infoAge + 1
<1>0. x \in Nat /\ y \in Nat /\ z \in Nat
  BY SnapshotFields
<1>1. k \in Snapshot /\ k.age = x /\ k.tomlAge = y /\ k.infoAge = z
  <2>1. k = [s EXCEPT !.age = x, !.tomlAge = y, !.infoAge = z]
    OBVIOUS
  <2> HIDE DEF x, y, z, k
  <2> QED BY <1>0, <2>1 DEF Snapshot
<1> HIDE DEF k
<1>2. SnapshotBound(k)
  BY <1>1, SnapshotFields, ConstantTypes DEF SnapshotBound
<1> QED BY <1>1, <1>2 DEF OlderSnapshot, k

LEMMA OlderJobType ==
  ASSUME NEW j \in Job
  PROVE  OlderJob(j) \in Job
<1> DEFINE x == j.age + 1
           y == IF j.goal = "snapshot" /\ j.step \in {"sep6", "sep38", "probe"}
                THEN j.tomlAge + 1 ELSE j.tomlAge
           z == IF j.step \in {"sep38", "probe"} THEN j.infoAge + 1 ELSE j.infoAge
<1>1. x \in Nat /\ y \in Nat /\ z \in Nat
  BY JobFields
<1>2. OlderJob(j) = [j EXCEPT !.age = x, !.tomlAge = y, !.infoAge = z]
  BY DEF OlderJob
<1> HIDE DEF x, y, z
<1> QED BY <1>1, <1>2 DEF Job

LEMMA OlderType ==
  ASSUME NEW V, NEW e \in [value : V, age : Nat]
  PROVE  Older(e) \in [value : V, age : Nat]
  BY DEF Older

LEMMA TickStep ==
  ASSUME DirectoryInv, Tick
  PROVE  DirectoryInv'
<1> USE DEF DirectoryInv, TypeOK
<1>1. tomls' \in [Anchors -> [value : Tomls \cup {NoToml}, age : Nat]]
  BY OlderType DEF Tick
<1>2. infos' \in [Executables -> [value : Infos \cup {NoInfo}, age : Nat]]
  BY OlderType DEF Tick
<1>3. ASSUME NEW a \in Discovered PROVE snaps'[a] \in Snapshot /\ SnapshotBound(snaps'[a])
  BY OlderSnapshotBound DEF Tick
<1>4. snaps' \in [Discovered -> Snapshot]
  BY <1>3 DEF Tick
<1>5. jobs' \in [Calls -> [Anchors -> Job]]
  BY OlderJobType DEF Tick
<1>6. ASSUME NEW c \in Calls, NEW a \in Discovered PROVE JobBound(jobs'[c][a])
  <2>1. a \in Anchors BY DEF Anchors
  <2>2. jobs'[c][a] = IF Waiting(c, a) THEN OlderJob(jobs[c][a]) ELSE jobs[c][a]
    BY <2>1 DEF Tick
  <2>3. Waiting(c, a) => jobs[c][a].age < FetchTime
    BY DEF Tick
  <2>4. jobs[c][a] \in Job /\ JobBound(jobs[c][a])
    BY <2>1
  <2> QED BY <2>2, <2>3, <2>4, OlderJobBound DEF Waiting
<1>7. (\A d \in Discovered : SnapshotBound(snaps[d]))'
  BY <1>3 DEF SnapshotBound
<1>8. (\A c \in Calls, d \in Discovered : JobBound(jobs[c][d]))'
  BY <1>6 DEF JobBound, HasSnapshot, Recent, SnapshotBound
<1> QED BY <1>1, <1>2, <1>4, <1>5, <1>7, <1>8

LEMMA DirectoryStep == DirectoryInv /\ [Next]_vars => DirectoryInv'
<1> SUFFICES ASSUME DirectoryInv, [Next]_vars PROVE DirectoryInv'
  OBVIOUS
<1>1. ASSUME NEW c \in Calls, Begins(c) \/ Collect(c) PROVE DirectoryInv'
  BY <1>1, BeginsStep
<1>2. ASSUME NEW c \in Calls, NEW a \in Anchors, RequestEnds(c, a) \/ Throws(c, a)
      PROVE  DirectoryInv'
  BY <1>2, AnswersStep
<1>3. CASE Tick
  BY <1>3, TickStep
<1>4. CASE UNCHANGED vars
  BY <1>4 DEF vars, DirectoryInv, TypeOK, JobBound, HasSnapshot, Recent, SnapshotBound
<1> QED BY <1>1, <1>2, <1>3, <1>4 DEF Next, Anchors

\* The types and the ages of all that is cached or under way, at every moment.
THEOREM DirectoryInductive == Spec => []DirectoryInv
<1> QED BY DirectoryInit, DirectoryStep, PTL DEF Spec

\* The variables of the directory keep their types, whatever the anchors answer.
THEOREM DirectoryTypes == Spec => []TypeOK
<1>1. DirectoryInv => TypeOK
  BY DEF DirectoryInv
<1> QED BY <1>1, DirectoryInductive, PTL

\* ServedIsRecent, for any number of anchors and overlapping calls and for any age
\* limits and timeout: no snapshot handed over by SepDiscoveryAnchorAdapter says
\* what was read longer ago than its caches and requests allow.
THEOREM DirectoryIsRecent == Spec => []ServedIsRecent
<1>1. DirectoryInv => ServedIsRecent
  BY DEF DirectoryInv, ServedIsRecent, JobBound
<1> QED BY <1>1, DirectoryInductive, PTL

----------------------------------------------------------------------------
(* The executable anchor never only quotes *)

\* Of the executable anchor the directory says that money can be moved, or nothing:
\* it is never one that only quotes.
PaysOrNot(s) == s.status \in {"EXECUTABLE", "UNAVAILABLE"}

ExecutableJob(j) == j.step # "probe" /\ PaysOrNot(j.snap)

ExecutableInv == \A c \in Calls, a \in Executables : ExecutableJob(jobs[c][a])

LEMMA NoSnapshotPays == PaysOrNot(NoSnapshot)
  BY DEF PaysOrNot, NoSnapshot

LEMMA IdlePays == ExecutableJob(Idle)
<1>1. Idle.step = "idle" /\ Idle.snap = NoSnapshot
  BY DEF Idle
<1> QED BY <1>1, NoSnapshotPays DEF ExecutableJob

LEMMA AsksPays ==
  ASSUME NEW j \in Job, PaysOrNot(j.snap), NEW s \in Steps \ {"probe"}
  PROVE  ExecutableJob(Asks(j, s))
<1>1. Asks(j, s).step = s /\ Asks(j, s).snap = j.snap
  BY DEF Asks, Job
<1> QED BY <1>1 DEF ExecutableJob

LEMMA DonePays ==
  ASSUME NEW j, NEW ok, NEW info, NEW snap, PaysOrNot(snap)
  PROVE  ExecutableJob(Done(j, ok, info, snap))
<1>1. Done(j, ok, info, snap).step = "done" /\ Done(j, ok, info, snap).snap = snap
  BY DEF Done, Idle
<1> QED BY <1>1 DEF ExecutableJob

LEMMA PublishesPays ==
  ASSUME NEW j, NEW status \in {"EXECUTABLE", "UNAVAILABLE"}, NEW healthy, NEW seps
  PROVE  ExecutableJob(Publishes(j, status, healthy, seps))
<1> DEFINE s == [status |-> status, healthy |-> healthy, seps |-> seps, info |-> j.info,
                 fiat |-> j.fiat, age |-> 0, tomlAge |-> j.tomlAge, infoAge |-> j.infoAge]
<1>1. PaysOrNot(s)
  BY DEF PaysOrNot
<1>2. Publishes(j, status, healthy, seps) = Done(j, TRUE, NoInfo, s)
  BY DEF Publishes
<1> HIDE DEF s
<1> QED BY <1>1, <1>2, DonePays

LEMMA UnreachablePays == \A j : ExecutableJob(Unreachable(j))
  BY PublishesPays DEF Unreachable

LEMMA AfterFiatPays ==
  ASSUME NEW a \in Executables, NEW j
  PROVE  ExecutableJob(AfterFiat(a, j))
  BY PublishesPays DEF AfterFiat

LEMMA AfterInfoPays ==
  ASSUME NEW a \in Executables, NEW j \in Job, PaysOrNot(j.snap)
  PROVE  ExecutableJob(AfterInfo(a, j))
<1> DEFINE known == [j EXCEPT !.fiat = IF a \in Executables THEN {HomeFiat} ELSE j.toml.fiat]
           next == IF a \in Executables /\ ~TomlFresh(a) THEN "again" ELSE "sep38"
<1>1. known \in Job /\ known.snap = j.snap
  BY TomlTypes DEF Job
<1>2. next \in Steps \ {"probe"}
  BY DEF Steps
<1>3. /\ ExecutableJob(Asks(known, next))
      /\ ExecutableJob(Publishes(known, "EXECUTABLE", TRUE, j.toml.seps))
      /\ ExecutableJob(Done(j, TRUE, j.info, NoSnapshot))
  <2> HIDE DEF known, next
  <2> QED BY <1>1, <1>2, AsksPays, PublishesPays, DonePays, NoSnapshotPays
<1> QED BY <1>3 DEF AfterInfo

LEMMA ReadsInfoPays ==
  ASSUME TypeOK, NEW a \in Executables, NEW j \in Job, PaysOrNot(j.snap)
  PROVE  ExecutableJob(ReadsInfo(a, j))
<1> DEFINE k == [j EXCEPT !.info = infos[a].value]
<1>1. infos[a].value \in Infos \cup {NoInfo}
  BY DEF TypeOK
<1>2. k \in Job /\ k.snap = j.snap
  BY <1>1 DEF Job
<1>3. ExecutableJob(AfterInfo(a, k))
  <2> HIDE DEF k
  <2> QED BY <1>2, AfterInfoPays
<1>4. ExecutableJob(Asks(j, "sep6"))
  BY AsksPays DEF Steps
<1> QED BY <1>3, <1>4 DEF ReadsInfo

LEMMA AfterTomlPays ==
  ASSUME TypeOK, NEW a \in Executables, NEW j \in Job, PaysOrNot(j.snap)
  PROVE  ExecutableJob(AfterToml(a, j))
<1>1. a \notin Discovered
  BY DirectoryAssumption
<1>2. /\ ExecutableJob(Asks(j, "price")) /\ ExecutableJob(Asks(j, "firm"))
      /\ ExecutableJob(Asks(j, "sep6")) /\ ExecutableJob(Done(j, FALSE, NoInfo, NoSnapshot))
  BY AsksPays, DonePays, NoSnapshotPays DEF Steps
<1>3. ExecutableJob(Unreachable(j)) /\ ExecutableJob(ReadsInfo(a, j))
  BY UnreachablePays, ReadsInfoPays
<1> QED BY <1>1, <1>2, <1>3 DEF AfterToml

LEMMA ReadsTomlPays ==
  ASSUME TypeOK, NEW a \in Executables, NEW goal \in Goals
  PROVE  ExecutableJob(ReadsToml(a, Begun(goal)))
<1> DEFINE j == Begun(goal)
           n == Aged(a, j, tomls[a].age)
           k == [j EXCEPT !.toml = tomls[a].value, !.tomlAge = n]
<1>1. j \in Job /\ j.snap = NoSnapshot
  BY BegunType DEF Begun, Idle
<1>2. tomls[a].value \in Tomls \cup {NoToml} /\ tomls[a].age \in Nat
  BY DEF TypeOK, Anchors
<1>3. n \in Nat
  BY <1>2 DEF Aged
<1>4. k \in Job /\ k.snap = NoSnapshot
  <2> HIDE DEF j, n
  <2> QED BY <1>1, <1>2, <1>3 DEF Job
<1>5. ExecutableJob(AfterToml(a, k)) /\ ExecutableJob(Asks(j, "toml"))
  <2> HIDE DEF j, k
  <2> QED BY <1>1, <1>4, AfterTomlPays, AsksPays, NoSnapshotPays DEF Steps
<1> QED BY <1>5 DEF ReadsToml

LEMMA SnapshotJobPays ==
  ASSUME TypeOK, NEW a \in Executables
  PROVE  ExecutableJob(SnapshotJob(a))
  BY ReadsTomlPays, DirectoryAssumption DEF SnapshotJob, SnapFresh, Goals

LEMMA LimitsJobPays ==
  ASSUME TypeOK, NEW a \in Executables
  PROVE  ExecutableJob(LimitsJob(a))
  BY ReadsTomlPays, DonePays, NoSnapshotPays DEF LimitsJob, Goals

LEMMA ExecutableBegins ==
  ASSUME TypeOK, ExecutableInv, NEW c \in Calls, Begins(c) \/ Collect(c)
  PROVE  ExecutableInv'
<1>0. jobs \in [Calls -> [Anchors -> Job]] /\ Executables \subseteq Anchors
  BY DEF TypeOK, Anchors
<1>1. ASSUME NEW after, \A a \in Executables : ExecutableJob(after[a]),
             jobs' = [jobs EXCEPT ![c] = after]
      PROVE  ExecutableInv'
  BY <1>0, <1>1 DEF ExecutableInv
<1>2. CASE List(c)
  <2> DEFINE after == [a \in Anchors |-> SnapshotJob(a)]
  <2>1. \A a \in Executables : ExecutableJob(after[a])
    BY <1>0, SnapshotJobPays
  <2>2. jobs' = [jobs EXCEPT ![c] = after]
    BY <1>2 DEF List
  <2> HIDE DEF after
  <2> QED BY <1>1, <2>1, <2>2
<1>3. ASSUME NEW S \in SUBSET Discovered, AskPrices(c, S)
      PROVE  ExecutableInv'
  <2> DEFINE after == [a \in Anchors |-> IF a \in S THEN ReadsToml(a, Begun("price")) ELSE Idle]
  <2>1. \A a \in Executables : after[a] = Idle
    BY <1>0, DirectoryAssumption
  <2>2. jobs' = [jobs EXCEPT ![c] = after]
    BY <1>3 DEF AskPrices
  <2> HIDE DEF after
  <2> QED BY <1>1, <2>1, <2>2, IdlePays
<1>4. ASSUME NEW a \in Executables, AskFirm(c, a) \/ AskLimits(c, a)
      PROVE  ExecutableInv'
  <2>1. PICK j : jobs' = [jobs EXCEPT ![c][a] = j] /\ ExecutableJob(j)
    BY <1>4, ReadsTomlPays, LimitsJobPays DEF AskFirm, AskLimits, Goals
  <2> QED BY <1>0, <2>1 DEF ExecutableInv
<1>5. CASE Collect(c)
  <2> DEFINE after == [a \in Anchors |-> Idle]
  <2>1. \A a \in Executables : ExecutableJob(after[a])
    BY <1>0, IdlePays
  <2>2. jobs' = [jobs EXCEPT ![c] = after]
    BY <1>5 DEF Collect
  <2> HIDE DEF after
  <2> QED BY <1>1, <2>1, <2>2
<1> QED BY <1>2, <1>3, <1>4, <1>5 DEF Begins

LEMMA ExecutableAnswers ==
  ASSUME TypeOK, ExecutableInv, NEW c \in Calls, NEW a \in Anchors,
         RequestEnds(c, a) \/ Throws(c, a)
  PROVE  ExecutableInv'
<1> DEFINE j == jobs[c][a]
<1>0. jobs \in [Calls -> [Anchors -> Job]] /\ Executables \subseteq Anchors /\ j \in Job
  BY DEF TypeOK, Anchors
<1>1. ASSUME NEW k, Goes(c, a, k), a \in Executables => ExecutableJob(k)
      PROVE  ExecutableInv'
  <2>1. jobs' = [jobs EXCEPT ![c][a] = k]
    BY <1>1 DEF Goes
  <2> QED BY <1>0, <1>1, <2>1 DEF ExecutableInv
<1>2. a \in Executables => /\ a \notin Discovered
                          /\ j.step # "probe" /\ PaysOrNot(j.snap)
  BY DirectoryAssumption DEF ExecutableInv, ExecutableJob
<1>3. \A t \in Tomls \cup {NoToml} : /\ [j EXCEPT !.toml = t, !.tomlAge = 0] \in Job
                                     /\ [j EXCEPT !.toml = t, !.tomlAge = 0].snap = j.snap
  BY <1>0 DEF Job
<1>4. \A info \in Infos : /\ [j EXCEPT !.info = info, !.infoAge = 0] \in Job
                          /\ [j EXCEPT !.info = info, !.infoAge = 0].snap = j.snap
  BY <1>0 DEF Job
<1> HIDE DEF j
<1>5. ASSUME NEW t \in Tomls, TomlArrives(c, a, t)
      PROVE  ExecutableInv'
  <2> DEFINE k == [j EXCEPT !.toml = t, !.tomlAge = 0]
             n == IF j.step = "again" THEN Asks(j, "sep38") ELSE AfterToml(a, k)
  <2>1. Goes(c, a, n)
    BY <1>5 DEF TomlArrives, j
  <2>2. k \in Job /\ k.snap = j.snap
    BY <1>3
  <2> HIDE DEF k
  <2>3. a \in Executables => ExecutableJob(Asks(j, "sep38")) /\ ExecutableJob(AfterToml(a, k))
    BY <1>0, <1>2, <2>2, AsksPays, AfterTomlPays DEF Steps
  <2>4. a \in Executables => ExecutableJob(n)
    BY <2>3
  <2> HIDE DEF n
  <2> QED BY <1>1, <2>1, <2>4
<1>6. CASE TomlRetried(c, a) \/ TomlMissed(c, a) \/ InfoFails(c, a)
  <2>1. a \notin Executables
    BY <1>2, <1>6 DEF TomlRetried, TomlMissed, InfoFails
  <2>2. \E k : Goes(c, a, k)
    BY <1>6 DEF TomlRetried, TomlMissed, InfoFails
  <2> QED BY <1>1, <2>1, <2>2
<1>7. ASSUME NEW info \in Infos, InfoArrives(c, a, info)
      PROVE  ExecutableInv'
  <2> DEFINE k == [j EXCEPT !.info = info, !.infoAge = 0]
  <2>1. Goes(c, a, AfterInfo(a, k))
    BY <1>7 DEF InfoArrives, j
  <2>2. k \in Job /\ k.snap = j.snap
    BY <1>4
  <2> HIDE DEF k
  <2> QED BY <1>1, <1>2, <2>1, <2>2, AfterInfoPays
<1>8. ASSUME NEW F \in Fiats, FiatArrives(c, a, F)
      PROVE  ExecutableInv'
  <2>1. \E k : Goes(c, a, AfterFiat(a, k))
    BY <1>8, Zenon DEF FiatArrives
  <2> QED BY <1>1, <2>1, AfterFiatPays
<1>9. CASE FiatFails(c, a)
  <2>1. Goes(c, a, AfterFiat(a, j))
    BY <1>9 DEF FiatFails, j
  <2> QED BY <1>1, <2>1, AfterFiatPays
<1>10. ASSUME NEW outcome \in Probes, ProbeEnds(c, a, outcome)
       PROVE  ExecutableInv'
  <2>1. a \notin Executables
    BY <1>2, <1>10 DEF ProbeEnds, j
  <2>2. \E k : Goes(c, a, k)
    BY <1>10 DEF ProbeEnds
  <2> QED BY <1>1, <2>1, <2>2
<1>11. ASSUME NEW ok \in BOOLEAN, PriceEnds(c, a, ok)
       PROVE  ExecutableInv'
  <2>1. Goes(c, a, Done(j, ok, NoInfo, NoSnapshot))
    BY <1>11 DEF PriceEnds, j
  <2> QED BY <1>1, <2>1, DonePays, NoSnapshotPays
<1>12. CASE Throws(c, a)
  <2>1. \E k : Goes(c, a, Unreachable(k)) \/ Goes(c, a, Done(j, FALSE, NoInfo, NoSnapshot))
    BY <1>12 DEF Throws, j
  <2> QED BY <1>1, <2>1, UnreachablePays, DonePays, NoSnapshotPays
<1> QED BY <1>5, <1>6, <1>7, <1>8, <1>9, <1>10, <1>11, <1>12 DEF RequestEnds

LEMMA ExecutableTick ==
  ASSUME TypeOK, ExecutableInv, Tick
  PROVE  ExecutableInv'
<1>1. \A c \in Calls, a \in Executables : jobs'[c][a] = jobs[c][a]
  BY DirectoryAssumption DEF Tick, Anchors
<1> QED BY <1>1 DEF ExecutableInv

----------------------------------------------------------------------------
(* The scores *)

\* Among finitely many, one is below no other: the set of those above it is empty,
\* or its smallest such set would not be.
LEMMA TopOf ==
  ASSUME NEW D, IsFiniteSet(D), D # {}, NEW R,
         \A a, b, d \in D : <<a, b>> \in R /\ <<b, d>> \in R => <<a, d>> \in R,
         \A a \in D : <<a, a>> \notin R
  PROVE  \E a \in D : \A b \in D : <<b, a>> \notin R
<1> DEFINE Above(a) == {b \in D : <<b, a>> \in R}
           T == {Above(a) : a \in D}
           Lt == StrictSubsetOrdering(D)
<1>1. IsWellFoundedOn(Lt, SUBSET D)
  BY FS_StrictSubsetOrderingWellFounded, FS_FiniteSubsetsOfFinite
<1>2. T \subseteq SUBSET D /\ T # {}
  <2>1. T \subseteq SUBSET D
    OBVIOUS
  <2>2. PICK a \in D : TRUE
    OBVIOUS
  <2>3. Above(a) \in T
    OBVIOUS
  <2> QED BY <2>1, <2>3
<1>3. PICK U \in T : \A V \in T : <<V, U>> \notin Lt
  <2> HIDE DEF T, Lt
  <2> QED BY <1>1, <1>2, WFMin
<1>4. PICK a \in D : U = Above(a)
  BY <1>3
<1>5. ASSUME NEW b \in D, <<b, a>> \in R
      PROVE  FALSE
  <2>1. Above(b) \subseteq Above(a)
    BY <1>5
  <2>2. b \in Above(a) /\ b \notin Above(b)
    BY <1>5
  <2>3. <<Above(b), U>> \in Lt
    BY <1>4, <2>1, <2>2 DEF StrictSubsetOrdering
  <2> QED BY <1>3, <2>3
<1> QED BY <1>5

LEMMA ClampType ==
  ASSUME NEW n \in Int
  PROVE  Clamp(n) \in Int
  BY DEF Clamp

LEMMA RailType ==
  ASSUME NEW s \in Snapshot, NEW r \in RouteRequest
  PROVE  /\ s.info[r.direction] \in Rails \cup {NoRail}
         /\ r.amount \in Nat /\ s.healthy \in BOOLEAN
         /\ r.direction \in Directions
<1>1. s.info \in Infos \cup {NoInfo} /\ r.direction \in Directions /\ r.amount \in Nat
      /\ s.healthy \in BOOLEAN
  BY DEF Snapshot, RouteRequest
<1>2. CASE s.info \in Infos
  BY <1>1, <1>2, DirectoryAssumption
<1>3. CASE s.info = NoInfo
  BY <1>1, <1>3 DEF NoInfo
<1> QED BY <1>1, <1>2, <1>3

LEMMA RailFields ==
  ASSUME NEW rail \in Rails
  PROVE  /\ rail.enabled \in BOOLEAN
         /\ rail.min \in Nat \/ rail.min = NoLimit
         /\ rail.max \in Nat \/ rail.max = NoLimit
         /\ rail.feePercent \in Nat \/ rail.feePercent = NoLimit
         /\ rail.feeFixed \in Nat \/ rail.feeFixed = NoLimit
  BY RouteAssumption DEF Limit

LEMMA NetCostType ==
  ASSUME NEW rail \in Rails, NEW amount \in Nat, NEW priced \in BOOLEAN
  PROVE  NetCost(rail, amount, priced) \in Int
<1> DEFINE p == Published(rail.feePercent)
           f == Published(rail.feeFixed) + IF priced THEN Spread ELSE 0
           fixed == IF amount = 0 THEN 0 ELSE (2000 * f) \div amount
<1>1. p \in Nat /\ f \in Nat
  BY RailFields, RouteAssumption DEF Published
<1>2. fixed \in Int
  <2> HIDE DEF f
  <2>1. amount = 0 \/ amount > 0
    OBVIOUS
  <2> QED BY <1>1, <2>1
<1>3. 100 - 20 * p - fixed \in Int
  <2> HIDE DEF p, fixed
  <2> QED BY <1>1, <1>2
<1>4. Clamp(100 - 20 * p - fixed) \in Int
  BY <1>3, ClampType
<1>5. NetCost(rail, amount, priced) = 50 \/ NetCost(rail, amount, priced) = Clamp(100 - 20 * p - fixed)
  BY DEF NetCost
<1> QED BY <1>4, <1>5

LEMMA LiquidityType ==
  ASSUME NEW rail \in Rails, NEW amount \in Nat
  PROVE  Liquidity(rail, amount) \in Int
<1>1. CASE rail.max = NoLimit \/ rail.max = 0
  BY <1>1 DEF Liquidity
<1>2. CASE ~(rail.max = NoLimit \/ rail.max = 0)
  <2>1. rail.max \in Nat /\ rail.max > 0
    BY <1>2, RailFields
  <2>2. ((rail.max - amount) * 100) \div rail.max \in Int
    BY <2>1
  <2> QED BY <1>2, <2>2, ClampType DEF Liquidity
<1> QED BY <1>1, <1>2

LEMMA ScoreType ==
  ASSUME NEW f, \A k \in Factors : f[k] \in Int
  PROVE  Score(Weights, f) \in Int
<1>1. /\ f.netCost \in Int /\ f.speed \in Int /\ f.reliability \in Int
      /\ f.liquidity \in Int /\ f.horizonFit \in Int /\ f.riskFit \in Int
      /\ f.yieldImpact \in Int
  BY DEF Factors, JudgmentFactors
<1> QED BY <1>1 DEF Score, Weights

LEMMA OwnFactors ==
  ASSUME NEW s \in Snapshot, NEW r \in RouteRequest, NEW priced \in BOOLEAN,
         s.info[r.direction] \in Rails
  PROVE  \A k \in Factors : Deterministic(s, r, priced)[k] \in Int
<1> DEFINE rail == s.info[r.direction]
           d == Deterministic(s, r, priced)
<1>1. r.amount \in Nat
  BY RailType
<1>2. NetCost(rail, r.amount, priced) \in Int /\ Liquidity(rail, r.amount) \in Int
  BY <1>1, NetCostType, LiquidityType
<1>3. Speed(s, r) \in Int /\ Reliability(s) \in Int
  BY ClampType DEF Speed, Reliability, Minutes
<1>4. /\ d.netCost \in Int /\ d.speed \in Int /\ d.reliability \in Int /\ d.liquidity \in Int
      /\ d.horizonFit \in Int /\ d.riskFit \in Int /\ d.yieldImpact \in Int
  BY <1>2, <1>3 DEF Deterministic
<1> QED BY <1>4 DEF Factors, JudgmentFactors

LEMMA MergedFactors ==
  ASSUME NEW f, \A k \in Factors : f[k] \in Int, NEW answer \in Answers, Usable(answer)
  PROVE  \A k \in Factors : Merged(f, answer)[k] \in Int
<1>1. answer \in [JudgmentFactors -> Grade \cup {NoGrade}]
  BY RouteAssumption
<1>2. \A k \in JudgmentFactors : answer[k] # NoGrade
  BY DEF Usable, Advises
<1>3. \A k \in JudgmentFactors : answer[k].score \in Int /\ answer[k].scale \in Nat \ {0}
  BY <1>1, <1>2 DEF Grade
<1>4. ASSUME NEW k \in JudgmentFactors
      PROVE  Normalized(answer[k]) \in Int
  <2>1. /\ 200 * answer[k].score + answer[k].scale \in Int
        /\ 2 * answer[k].scale \in Nat \ {0}
    BY <1>3
  <2>2. \A x \in Int, y \in Nat \ {0} : x \div y \in Int
    OBVIOUS
  <2> QED BY <2>1, <2>2, ClampType DEF Normalized
<1>5. Judged(answer) \subseteq JudgmentFactors
  BY DEF Judged
<1> QED BY <1>4, <1>5 DEF Merged

\* The weights the app shows are the ones that were used.
LEMMA ScoredType ==
  ASSUME NEW s \in Snapshot, NEW r \in RouteRequest, NEW priced \in BOOLEAN,
         s.info[r.direction] \in Rails, NEW advised \in BOOLEAN, NEW answer,
         advised => answer \in Answers /\ Usable(answer)
  PROVE  /\ Scored(s, r, priced, advised, answer).score \in Int
         /\ Scored(s, r, priced, advised, answer).status = s.status
         /\ Scored(s, r, priced, advised, answer).score
              = Score(ShownWeights, Scored(s, r, priced, advised, answer).factors)
<1> DEFINE own == Deterministic(s, r, priced)
           f == IF advised THEN Merged(own, answer) ELSE own
<1>1. \A k \in Factors : own[k] \in Int
  BY OwnFactors
<1>2. \A k \in Factors : f[k] \in Int
  <2> HIDE DEF own
  <2> QED BY <1>1, MergedFactors
<1>3. Scored(s, r, priced, advised, answer)
        = [status |-> s.status, factors |-> f, advised |-> advised, score |-> Score(Weights, f)]
  BY DEF Scored
<1> HIDE DEF f
<1>4. Score(Weights, f) \in Int
  BY <1>2, ScoreType
<1>5. ShownWeights = Weights
  BY DEF ShownWeights, Weights
<1> QED BY <1>3, <1>4, <1>5

\* What is eligible ranks: the sort of the routes has a first.
LEMMA FirstIsBest ==
  ASSUME NEW eligible, DOMAIN eligible \subseteq Anchors, DOMAIN eligible # {},
         \A a \in DOMAIN eligible : eligible[a].score \in Int
  PROVE  /\ First(eligible) \in DOMAIN eligible
         /\ \A b \in DOMAIN eligible : eligible[b].score <= eligible[First(eligible)].score
<1> DEFINE D == DOMAIN eligible
           R == {p \in D \X D : Outranks(eligible, p[1], p[2])}
<1>1. IsFiniteSet(D)
  BY RouteAssumption, FS_Subset
<1>2. \A a \in D : Order[a] \in Nat
  BY RouteAssumption
<1>3. \A a, b, d \in D : Outranks(eligible, a, b) /\ Outranks(eligible, b, d)
                           => Outranks(eligible, a, d)
  BY <1>2 DEF Outranks
<1>4. \A a \in D : ~Outranks(eligible, a, a)
  BY <1>2 DEF Outranks
<1>5. \A a, b \in D : a # b => Outranks(eligible, a, b) \/ Outranks(eligible, b, a)
  BY <1>2, RouteAssumption DEF Outranks
<1>6. PICK a \in D : \A b \in D : <<b, a>> \notin R
  <2>1. \A x, y \in D : <<x, y>> \in R <=> Outranks(eligible, x, y)
    OBVIOUS
  <2> HIDE DEF R, D
  <2>2. /\ \A x, y, z \in D : <<x, y>> \in R /\ <<y, z>> \in R => <<x, z>> \in R
        /\ \A x \in D : <<x, x>> \notin R
    BY <2>1, <1>3, <1>4
  <2>3. D # {}
    BY DEF D
  <2> QED BY <1>1, <2>2, <2>3, TopOf
<1>7. \A b \in D \ {a} : Outranks(eligible, a, b)
  BY <1>5, <1>6
<1>8. /\ First(eligible) \in D
      /\ \A b \in D \ {First(eligible)} : Outranks(eligible, First(eligible), b)
  BY <1>7 DEF First
<1>9. \A b \in D \ {First(eligible)} : eligible[b].score <= eligible[First(eligible)].score
  BY <1>8 DEF Outranks
<1> QED BY <1>8, <1>9

----------------------------------------------------------------------------
(* The decision *)

\* An anchor with no reason against it serves the request.
LEMMA CandidateServes ==
  ASSUME NEW s \in Snapshot, NEW r \in RouteRequest, Reasons(s, r) = {}
  PROVE  LET rail == s.info[r.direction]
         IN  /\ s.status # "UNAVAILABLE"
             /\ {"sep6", "sep10"} \subseteq s.seps
             /\ rail \in Rails /\ rail # NoRail /\ rail.enabled /\ r.fiat \in s.fiat
             /\ rail.min # NoLimit => r.amount >= rail.min
             /\ rail.max # NoLimit => r.amount <= rail.max
             /\ r.requireExecutable => s.status = "EXECUTABLE"
             /\ s.status = "EXECUTABLE" => r.kyc \notin {"NEEDS_INFO", "REJECTED"}
<1> DEFINE rail == s.info[r.direction]
<1>1. /\ s.status # "UNAVAILABLE"
      /\ {"sep6", "sep10"} \subseteq s.seps
      /\ Served(s, r)
      /\ r.fiat \in s.fiat
      /\ ~BelowMin(rail, r.amount)
      /\ ~AboveMax(rail, r.amount)
      /\ r.requireExecutable => s.status = "EXECUTABLE"
      /\ s.status = "EXECUTABLE" => r.kyc \notin {"NEEDS_INFO", "REJECTED"}
  BY DEF Reasons, RejectReasons
<1>2. rail # NoRail /\ rail \in Rails /\ rail.enabled
  BY <1>1, RailType DEF Served
<1>3. r.amount \in Nat
  BY RailType
<1>4. rail.min # NoLimit => r.amount >= rail.min
  BY <1>1, <1>2, <1>3, RailFields DEF BelowMin
<1>5. rail.max # NoLimit => r.amount <= rail.max
  BY <1>1, <1>2, <1>3, RailFields DEF AboveMax
<1> QED BY <1>1, <1>2, <1>4, <1>5

Advised(outcome, answers, a) == outcome = "came" /\ Usable(answers[a])

Eligible(S, r, priced, outcome, answers) ==
    [a \in Candidates(S, r) |->
        Scored(S[a], r, a \in priced, Advised(outcome, answers, a), answers[a])]

Outcomes == {"unasked", "late", "failed", "came"}

\* What is eligible carries its own status and the score of its factors.
LEMMA EligibleType ==
  ASSUME NEW S \in [Anchors -> Snapshot], NEW r \in RouteRequest, NEW priced,
         NEW outcome, NEW answers,
         outcome = "came" => answers \in [Candidates(S, r) -> Answers]
  PROVE  LET e == Eligible(S, r, priced, outcome, answers)
         IN  /\ DOMAIN e = Candidates(S, r)
             /\ DOMAIN e \subseteq Anchors
             /\ \A a \in DOMAIN e : /\ e[a].score \in Int
                                    /\ e[a].status = S[a].status
                                    /\ e[a].score = Score(ShownWeights, e[a].factors)
<1> DEFINE e == Eligible(S, r, priced, outcome, answers)
<1>1. DOMAIN e = Candidates(S, r) /\ Candidates(S, r) \subseteq Anchors
  BY DEF Eligible, Candidates
<1>2. ASSUME NEW a \in Candidates(S, r)
      PROVE  /\ e[a].score \in Int
             /\ e[a].status = S[a].status
             /\ e[a].score = Score(ShownWeights, e[a].factors)
  <2> DEFINE p == a \in priced
             v == Advised(outcome, answers, a)
             w == answers[a]
  <2>1. S[a] \in Snapshot /\ Reasons(S[a], r) = {}
    BY DEF Candidates
  <2>2. S[a].info[r.direction] \in Rails
    BY <2>1, CandidateServes
  <2>3. v => w \in Answers /\ Usable(w)
    BY DEF Advised
  <2>4. p \in BOOLEAN /\ v \in BOOLEAN
    BY DEF Advised
  <2>5. e[a] = Scored(S[a], r, p, v, w)
    BY DEF Eligible
  <2> HIDE DEF p, v, w, e
  <2> QED BY <2>1, <2>2, <2>3, <2>4, <2>5, ScoredType
<1> QED BY <1>1, <1>2

\* A decision that fell back is the one without advice.
LEMMA FallsBackToItself ==
  ASSUME NEW S, NEW r, NEW priced, NEW outcome \in Outcomes, NEW answers,
         Fallback(Candidates(S, r), outcome, answers) # "none"
  PROVE  Eligible(S, r, priced, outcome, answers) = Eligible(S, r, priced, "failed", << >>)
<1>1. \A a \in Candidates(S, r) : ~Advised(outcome, answers, a)
  BY DEF Fallback, Outcomes, Advised, Usable
<1>2. \A a \in Candidates(S, r) : ~Advised("failed", << >>, a)
  BY DEF Advised
<1>3. ASSUME NEW a \in Candidates(S, r)
      PROVE  Scored(S[a], r, a \in priced, Advised(outcome, answers, a), answers[a])
               = Scored(S[a], r, a \in priced, Advised("failed", << >>, a), << >>[a])
  <2>1. Advised(outcome, answers, a) = FALSE /\ Advised("failed", << >>, a) = FALSE
    BY <1>1, <1>2 DEF Advised
  <2>2. \A x, y : Scored(S[a], r, a \in priced, FALSE, x) = Scored(S[a], r, a \in priced, FALSE, y)
    BY DEF Scored
  <2> QED BY <2>1, <2>2
<1> QED BY <1>3 DEF Eligible

\* DecisionIsSound, of the operator.
LEMMA DecisionServes ==
  ASSUME NEW S \in [Anchors -> Snapshot], NEW r \in RouteRequest, NEW priced,
         NEW outcome \in Outcomes, NEW answers,
         outcome = "came" => answers \in [Candidates(S, r) -> Answers]
  PROVE  LET d == Decision(S, r, priced, outcome, answers)
             s == S[d.chosen]
             rail == s.info[r.direction]
         IN  /\ d.chosen # NoAnchor =>
                 /\ s.status # "UNAVAILABLE"
                 /\ {"sep6", "sep10"} \subseteq s.seps
                 /\ rail # NoRail /\ rail.enabled /\ r.fiat \in s.fiat
                 /\ rail.min # NoLimit => r.amount >= rail.min
                 /\ rail.max # NoLimit => r.amount <= rail.max
                 /\ r.requireExecutable => s.status = "EXECUTABLE"
                 /\ s.status = "EXECUTABLE" => r.kyc \notin {"NEEDS_INFO", "REJECTED"}
                 /\ \A a \in DOMAIN d.eligible : d.eligible[a].score <= d.eligible[d.chosen].score
             /\ d.fallback # "none" =>
                 d.chosen = Decision(S, r, priced, "failed", << >>).chosen
<1> DEFINE d == Decision(S, r, priced, outcome, answers)
           e == Eligible(S, r, priced, outcome, answers)
           own == Decision(S, r, priced, "failed", << >>)
<1>1. /\ d.eligible = e /\ d.chosen = First(e)
      /\ d.fallback = Fallback(Candidates(S, r), outcome, answers)
  BY DEF Decision, Eligible, Advised
<1>0. own.chosen = First(Eligible(S, r, priced, "failed", << >>))
  BY DEF Decision, Eligible, Advised
<1>2. /\ DOMAIN e = Candidates(S, r) /\ DOMAIN e \subseteq Anchors
      /\ \A a \in DOMAIN e : e[a].score \in Int
  BY EligibleType
<1>3. ASSUME d.chosen # NoAnchor
      PROVE  /\ d.chosen \in Candidates(S, r)
             /\ \A a \in DOMAIN e : e[a].score <= e[d.chosen].score
  <2>1. DOMAIN e # {}
    BY <1>1, <1>3 DEF First
  <2> HIDE DEF e, d
  <2> QED BY <1>1, <1>2, <2>1, FirstIsBest
<1>4. ASSUME d.chosen # NoAnchor
      PROVE  S[d.chosen] \in Snapshot /\ Reasons(S[d.chosen], r) = {}
  <2> HIDE DEF d
  <2> QED BY <1>3, <1>4 DEF Candidates
<1>5. ASSUME d.fallback # "none"
      PROVE  d.chosen = own.chosen
  <2> HIDE DEF d, own
  <2>1. Fallback(Candidates(S, r), outcome, answers) # "none"
    BY <1>1, <1>5
  <2>2. e = Eligible(S, r, priced, "failed", << >>)
    BY <2>1, FallsBackToItself
  <2> HIDE DEF e
  <2> QED BY <1>0, <1>1, <2>2
<1> HIDE DEF d, e, own
<1>6. d.chosen # NoAnchor =>
        LET s == S[d.chosen]
            rail == s.info[r.direction]
        IN  /\ s.status # "UNAVAILABLE"
            /\ {"sep6", "sep10"} \subseteq s.seps
            /\ rail # NoRail /\ rail.enabled /\ r.fiat \in s.fiat
            /\ rail.min # NoLimit => r.amount >= rail.min
            /\ rail.max # NoLimit => r.amount <= rail.max
            /\ r.requireExecutable => s.status = "EXECUTABLE"
            /\ s.status = "EXECUTABLE" => r.kyc \notin {"NEEDS_INFO", "REJECTED"}
  BY <1>4, CandidateServes
<1> QED BY <1>1, <1>3, <1>5, <1>6 DEF d, own

\* ClaimsHold, of the operator.
LEMMA DecisionShown ==
  ASSUME NEW S \in [Anchors -> Snapshot], NEW r \in RouteRequest, NEW priced,
         NEW outcome \in Outcomes, NEW answers,
         outcome = "came" => answers \in [Candidates(S, r) -> Answers],
         \A a \in Executables : S[a].status \in {"EXECUTABLE", "UNAVAILABLE"}
  PROVE  LET d == Decision(S, r, priced, outcome, answers)
             note == ReviewNote(d)
         IN  /\ note.pick \in note.pays => d.executable /\ note.pick \in MovesMoney(d)
                                          /\ SheetNote(d) # "none"
             /\ note.names => d.fallback = "none"
             /\ \A a \in DOMAIN d.eligible :
                  d.eligible[a].score = Score(ShownWeights, d.eligible[a].factors)
<1> DEFINE d == Decision(S, r, priced, outcome, answers)
           e == Eligible(S, r, priced, outcome, answers)
           C == Candidates(S, r)
<1>1. /\ d.eligible = e /\ DOMAIN d.rejected = Anchors \ C /\ d.chosen = First(e)
      /\ d.executable = (First(e) # NoAnchor /\ e[First(e)].status = "EXECUTABLE")
      /\ d.used = (\E a \in C : Advised(outcome, answers, a))
      /\ d.fallback = Fallback(C, outcome, answers)
  BY DEF Decision, Eligible, Advised
<1>2. /\ DOMAIN e = C /\ C \subseteq Anchors
      /\ \A a \in C : /\ e[a].score \in Int /\ e[a].status = S[a].status
                      /\ e[a].score = Score(ShownWeights, e[a].factors)
  BY EligibleType
<1>3. ASSUME ReviewNote(d).pick \in ReviewNote(d).pays
      PROVE  d.executable /\ ReviewNote(d).pick \in MovesMoney(d) /\ SheetNote(d) # "none"
  <2> HIDE DEF d, e, C
  <2>0. ReviewNote(d).pick = d.chosen
    BY DEF ReviewNote
  <2>1. d.chosen # NoAnchor /\ d.chosen \in Executables
    BY <1>3, RouteAssumption DEF ReviewNote, Anchors
  <2>2. C # {}
    BY <1>1, <1>2, <2>1 DEF First
  <2>3. First(e) \in C
    BY <1>2, <2>2, FirstIsBest
  <2>4. Reasons(S[First(e)], r) = {}
    BY <2>3 DEF C, Candidates
  <2>5. S[First(e)].status # "UNAVAILABLE"
    BY <1>2, <2>3, <2>4, CandidateServes
  <2>6. e[First(e)].status = "EXECUTABLE"
    BY <1>1, <1>2, <2>1, <2>3, <2>5
  <2>7. d.chosen \in MovesMoney(d)
    BY <1>1, <1>2, <2>3, <2>6 DEF MovesMoney
  <2> QED BY <1>1, <2>0, <2>1, <2>6, <2>7 DEF SheetNote
<1>4. ASSUME ReviewNote(d).names
      PROVE  d.fallback = "none"
  <2> HIDE DEF d, e, C
  <2>1. PICK a \in C : Advised(outcome, answers, a)
    BY <1>1, <1>4 DEF ReviewNote
  <2>2. outcome = "came" /\ Usable(answers[a]) /\ Advises(answers[a])
    BY <2>1 DEF Advised, Usable
  <2> QED BY <1>1, <2>2 DEF Fallback
<1> HIDE DEF d, e, C
<1> QED BY <1>1, <1>2, <1>3, <1>4 DEF d

----------------------------------------------------------------------------
(* What holds of a preview or a quote at each of its steps *)

\* What a call has read: a request, and of every anchor a snapshot.
ReadsWell(k) ==
    /\ k.request \in RouteRequest
    /\ k.snapshots \in [Anchors -> Snapshot]
    /\ \A a \in Executables : PaysOrNot(k.snapshots[a])

\* What is decided is decided from what the call has read, once the list is there.
DecidesWell(k) ==
    /\ k.at \in {"firm", "limits", "swap", "listing", "pricing", "advising"}
         => k.decision = NoDecision
    /\ \/ k.decision = NoDecision
       \/ \E outcome \in Outcomes \ {"came"} :
            k.decision = Decision(k.snapshots, k.request, k.priced, outcome, << >>)
       \/ \E answers \in [Candidates(k.snapshots, k.request) -> Answers] :
            k.decision = Decision(k.snapshots, k.request, k.priced, "came", answers)

\* Of the quotes, only one for TRY asks the anchors.
QuotesWell(k) ==
    k.kind = "quote" =>
        /\ k.request.direction = "withdraw"
        /\ \/ k.at \in {"firm", "limits", "listing", "pricing", "advising"}
           \/ k.decision # NoDecision
           => k.to = "TRY"

FundsWell(k) ==
    (k.kind = "quote" /\ k.at = "answered") =>
        LET f == k.funding
            s == f.split
        IN  /\ s.available + s.earn = k.request.amount
            /\ s.available <= f.of[1]
            /\ s.earn <= f.of[2]
            /\ s.unwind = (s.earn > 0)
            /\ f.source = "available" => s.earn = 0
            /\ f.source = "any" => s.earn = 0 \/ s.available = f.of[1]
            /\ f.source = "earn" => s.available = 0 \/ s.earn = f.of[2]

\* A call has the fields of a call.
IsCall(k) ==
    k = [kind |-> k.kind, to |-> k.to, at |-> k.at, request |-> k.request,
         snapshots |-> k.snapshots, priced |-> k.priced, decision |-> k.decision,
         funding |-> k.funding]

CallOK(k) == IsCall(k) /\ ReadsWell(k) /\ DecidesWell(k) /\ QuotesWell(k) /\ FundsWell(k)

CallsInv == DOMAIN calls = Calls /\ \A c \in Calls : CallOK(calls[c])

RouteInv == DirectoryInv /\ ExecutableInv /\ CallsInv

----------------------------------------------------------------------------

LEMMA CashOutType ==
  ASSUME NEW n \in Nat
  PROVE  /\ CashOut(n) \in RouteRequest /\ CashOut(n).direction = "withdraw"
         /\ CashOut(n).amount = n
<1>1. HomeFiat \in Fiat
  BY DEF Fiat
<1> QED BY <1>1 DEF CashOut, RouteRequest, Directions, KycStatuses

LEMMA NoCallFields ==
  /\ IsCall(NoCall) /\ ReadsWell(NoCall)
  /\ NoCall.kind = "none" /\ NoCall.at = "idle" /\ NoCall.decision = NoDecision
  /\ NoCall.request.direction = "withdraw"
<1>1. NoRequest \in RouteRequest /\ NoRequest.direction = "withdraw"
  BY CashOutType DEF NoRequest
<1>2. NoSnapshots \in [Anchors -> Snapshot] /\ \A a \in Executables : PaysOrNot(NoSnapshots[a])
  BY NoSnapshotType, NoSnapshotPays DEF NoSnapshots, Anchors
<1>3. /\ NoCall.request = NoRequest /\ NoCall.snapshots = NoSnapshots
      /\ NoCall.kind = "none" /\ NoCall.at = "idle" /\ NoCall.decision = NoDecision
  BY DEF NoCall
<1>4. IsCall(NoCall)
  BY DEF IsCall, NoCall
<1> QED BY <1>1, <1>2, <1>3, <1>4 DEF ReadsWell

LEMMA NoCallOK == CallOK(NoCall)
  BY NoCallFields DEF CallOK, DecidesWell, QuotesWell, FundsWell

\* What the update of one field of a call leaves alone.
LEMMA SetKind ==
  ASSUME NEW k, IsCall(k), NEW v
  PROVE  LET n == [k EXCEPT !.kind = v]
         IN  /\ IsCall(n) /\ n.kind = v
             /\ n.to = k.to /\ n.at = k.at /\ n.request = k.request /\ n.snapshots = k.snapshots
             /\ n.priced = k.priced /\ n.decision = k.decision /\ n.funding = k.funding
<1> DEFINE n == [k EXCEPT !.kind = v]
<1>1. n = [kind |-> v, to |-> k.to, at |-> k.at, request |-> k.request,
           snapshots |-> k.snapshots, priced |-> k.priced, decision |-> k.decision, funding |-> k.funding]
  BY DEF IsCall
<1> HIDE DEF n
<1> QED BY <1>1 DEF IsCall, n

LEMMA SetTo ==
  ASSUME NEW k, IsCall(k), NEW v
  PROVE  LET n == [k EXCEPT !.to = v]
         IN  /\ IsCall(n) /\ n.to = v
             /\ n.kind = k.kind /\ n.at = k.at /\ n.request = k.request /\ n.snapshots = k.snapshots
             /\ n.priced = k.priced /\ n.decision = k.decision /\ n.funding = k.funding
<1> DEFINE n == [k EXCEPT !.to = v]
<1>1. n = [kind |-> k.kind, to |-> v, at |-> k.at, request |-> k.request,
           snapshots |-> k.snapshots, priced |-> k.priced, decision |-> k.decision, funding |-> k.funding]
  BY DEF IsCall
<1> HIDE DEF n
<1> QED BY <1>1 DEF IsCall, n

LEMMA SetAt ==
  ASSUME NEW k, IsCall(k), NEW v
  PROVE  LET n == [k EXCEPT !.at = v]
         IN  /\ IsCall(n) /\ n.at = v
             /\ n.kind = k.kind /\ n.to = k.to /\ n.request = k.request /\ n.snapshots = k.snapshots
             /\ n.priced = k.priced /\ n.decision = k.decision /\ n.funding = k.funding
<1> DEFINE n == [k EXCEPT !.at = v]
<1>1. n = [kind |-> k.kind, to |-> k.to, at |-> v, request |-> k.request,
           snapshots |-> k.snapshots, priced |-> k.priced, decision |-> k.decision, funding |-> k.funding]
  BY DEF IsCall
<1> HIDE DEF n
<1> QED BY <1>1 DEF IsCall, n

LEMMA SetRequest ==
  ASSUME NEW k, IsCall(k), NEW v
  PROVE  LET n == [k EXCEPT !.request = v]
         IN  /\ IsCall(n) /\ n.request = v
             /\ n.kind = k.kind /\ n.to = k.to /\ n.at = k.at /\ n.snapshots = k.snapshots
             /\ n.priced = k.priced /\ n.decision = k.decision /\ n.funding = k.funding
<1> DEFINE n == [k EXCEPT !.request = v]
<1>1. n = [kind |-> k.kind, to |-> k.to, at |-> k.at, request |-> v,
           snapshots |-> k.snapshots, priced |-> k.priced, decision |-> k.decision, funding |-> k.funding]
  BY DEF IsCall
<1> HIDE DEF n
<1> QED BY <1>1 DEF IsCall, n

LEMMA SetSnapshots ==
  ASSUME NEW k, IsCall(k), NEW v
  PROVE  LET n == [k EXCEPT !.snapshots = v]
         IN  /\ IsCall(n) /\ n.snapshots = v
             /\ n.kind = k.kind /\ n.to = k.to /\ n.at = k.at /\ n.request = k.request
             /\ n.priced = k.priced /\ n.decision = k.decision /\ n.funding = k.funding
<1> DEFINE n == [k EXCEPT !.snapshots = v]
<1>1. n = [kind |-> k.kind, to |-> k.to, at |-> k.at, request |-> k.request,
           snapshots |-> v, priced |-> k.priced, decision |-> k.decision, funding |-> k.funding]
  BY DEF IsCall
<1> HIDE DEF n
<1> QED BY <1>1 DEF IsCall, n

LEMMA SetPriced ==
  ASSUME NEW k, IsCall(k), NEW v
  PROVE  LET n == [k EXCEPT !.priced = v]
         IN  /\ IsCall(n) /\ n.priced = v
             /\ n.kind = k.kind /\ n.to = k.to /\ n.at = k.at /\ n.request = k.request
             /\ n.snapshots = k.snapshots /\ n.decision = k.decision /\ n.funding = k.funding
<1> DEFINE n == [k EXCEPT !.priced = v]
<1>1. n = [kind |-> k.kind, to |-> k.to, at |-> k.at, request |-> k.request,
           snapshots |-> k.snapshots, priced |-> v, decision |-> k.decision, funding |-> k.funding]
  BY DEF IsCall
<1> HIDE DEF n
<1> QED BY <1>1 DEF IsCall, n

LEMMA SetDecision ==
  ASSUME NEW k, IsCall(k), NEW v
  PROVE  LET n == [k EXCEPT !.decision = v]
         IN  /\ IsCall(n) /\ n.decision = v
             /\ n.kind = k.kind /\ n.to = k.to /\ n.at = k.at /\ n.request = k.request
             /\ n.snapshots = k.snapshots /\ n.priced = k.priced /\ n.funding = k.funding
<1> DEFINE n == [k EXCEPT !.decision = v]
<1>1. n = [kind |-> k.kind, to |-> k.to, at |-> k.at, request |-> k.request,
           snapshots |-> k.snapshots, priced |-> k.priced, decision |-> v, funding |-> k.funding]
  BY DEF IsCall
<1> HIDE DEF n
<1> QED BY <1>1 DEF IsCall, n

LEMMA SetFunding ==
  ASSUME NEW k, IsCall(k), NEW v
  PROVE  LET n == [k EXCEPT !.funding = v]
         IN  /\ IsCall(n) /\ n.funding = v
             /\ n.kind = k.kind /\ n.to = k.to /\ n.at = k.at /\ n.request = k.request
             /\ n.snapshots = k.snapshots /\ n.priced = k.priced /\ n.decision = k.decision
<1> DEFINE n == [k EXCEPT !.funding = v]
<1>1. n = [kind |-> k.kind, to |-> k.to, at |-> k.at, request |-> k.request,
           snapshots |-> k.snapshots, priced |-> k.priced, decision |-> k.decision, funding |-> v]
  BY DEF IsCall
<1> HIDE DEF n
<1> QED BY <1>1 DEF IsCall, n

\* computeFunding: the parts add up, and come from where the source allows.
LEMMA FundingAddsUp ==
  ASSUME NEW available \in Nat, NEW earning \in Nat, NEW debit \in Nat, NEW source,
         Funding(available, earning, debit, source).ok
  PROVE  LET s == Funding(available, earning, debit, source)
         IN  /\ s.available + s.earn = debit
             /\ s.available <= available
             /\ s.earn <= earning
             /\ s.unwind = (s.earn > 0)
             /\ source = "available" => s.earn = 0
             /\ source = "any" => s.earn = 0 \/ s.available = available
             /\ source = "earn" => s.available = 0 \/ s.earn = earning
<1>1. CASE source = "available"
  BY <1>1 DEF Funding, Split
<1>2. CASE source = "earn"
  BY <1>2 DEF Funding, Split, Least
<1>3. CASE source # "available" /\ source # "earn"
  BY <1>3 DEF Funding, Split, Least
<1> QED BY <1>1, <1>2, <1>3

Asking == {"firm", "limits", "listing", "pricing", "advising"}

\* What may change of a call as long as nothing is decided.
LEMMA AtOK ==
  ASSUME NEW k, CallOK(k), k.decision = NoDecision, NEW at, at # "answered",
         k.kind = "quote" /\ at \in Asking => k.to = "TRY"
  PROVE  CallOK([k EXCEPT !.at = at])
<1> DEFINE n == [k EXCEPT !.at = at]
<1>1. /\ IsCall(n) /\ n.request = k.request /\ n.snapshots = k.snapshots
      /\ n.decision = NoDecision /\ n.at = at /\ n.kind = k.kind /\ n.to = k.to
  BY SetAt DEF CallOK
<1> HIDE DEF n
<1>2. ReadsWell(n)
  BY <1>1 DEF ReadsWell, CallOK
<1>3. DecidesWell(n) /\ FundsWell(n)
  BY <1>1 DEF DecidesWell, FundsWell
<1>4. QuotesWell(n)
  BY <1>1 DEF QuotesWell, CallOK, Asking
<1> QED BY <1>1, <1>2, <1>3, <1>4 DEF CallOK, n

LEMMA RequestOK ==
  ASSUME NEW k, CallOK(k), k.decision = NoDecision, k.at # "answered",
         NEW r \in RouteRequest, k.kind = "quote" => r.direction = "withdraw"
  PROVE  CallOK([k EXCEPT !.request = r])
<1> DEFINE n == [k EXCEPT !.request = r]
<1>1. /\ IsCall(n) /\ n.request = r /\ n.snapshots = k.snapshots
      /\ n.decision = NoDecision /\ n.at = k.at /\ n.kind = k.kind /\ n.to = k.to
  BY SetRequest DEF CallOK
<1> HIDE DEF n
<1>2. ReadsWell(n)
  BY <1>1 DEF ReadsWell, CallOK
<1>3. DecidesWell(n) /\ FundsWell(n)
  BY <1>1 DEF DecidesWell, FundsWell
<1>4. QuotesWell(n)
  BY <1>1 DEF QuotesWell, CallOK
<1> QED BY <1>1, <1>2, <1>3, <1>4 DEF CallOK, n

LEMMA SnapshotsOK ==
  ASSUME NEW k, CallOK(k), k.decision = NoDecision, k.at # "answered",
         NEW S \in [Anchors -> Snapshot], \A a \in Executables : PaysOrNot(S[a])
  PROVE  CallOK([k EXCEPT !.snapshots = S])
<1> DEFINE n == [k EXCEPT !.snapshots = S]
<1>1. /\ IsCall(n) /\ n.request = k.request /\ n.snapshots = S
      /\ n.decision = NoDecision /\ n.at = k.at /\ n.kind = k.kind /\ n.to = k.to
  BY SetSnapshots DEF CallOK
<1> HIDE DEF n
<1>2. ReadsWell(n)
  BY <1>1 DEF ReadsWell, CallOK
<1>3. DecidesWell(n) /\ FundsWell(n)
  BY <1>1 DEF DecidesWell, FundsWell
<1>4. QuotesWell(n)
  BY <1>1 DEF QuotesWell, CallOK
<1> QED BY <1>1, <1>2, <1>3, <1>4 DEF CallOK, n

LEMMA PricedOK ==
  ASSUME NEW k, CallOK(k), k.decision = NoDecision, k.at # "answered", NEW P
  PROVE  CallOK([k EXCEPT !.priced = P])
<1> DEFINE n == [k EXCEPT !.priced = P]
<1>1. /\ IsCall(n) /\ n.request = k.request /\ n.snapshots = k.snapshots
      /\ n.decision = NoDecision /\ n.at = k.at /\ n.kind = k.kind /\ n.to = k.to
  BY SetPriced DEF CallOK
<1> HIDE DEF n
<1>2. ReadsWell(n)
  BY <1>1 DEF ReadsWell, CallOK
<1>3. DecidesWell(n) /\ FundsWell(n)
  BY <1>1 DEF DecidesWell, FundsWell
<1>4. QuotesWell(n)
  BY <1>1 DEF QuotesWell, CallOK
<1> QED BY <1>1, <1>2, <1>3, <1>4 DEF CallOK, n

\* A call that has just begun.
LEMMA BeginsOK ==
  ASSUME NEW kind, NEW to, NEW at, at # "answered",
         kind = "quote" /\ at \in Asking => to = "TRY"
  PROVE  LET n == [NoCall EXCEPT !.kind = kind, !.to = to, !.at = at]
         IN  CallOK(n) /\ n.decision = NoDecision /\ n.at = at /\ n.kind = kind
<1> DEFINE k1 == [NoCall EXCEPT !.kind = kind]
           k2 == [k1 EXCEPT !.to = to]
           n == [k2 EXCEPT !.at = at]
<1>1. IsCall(k1) /\ k1.kind = kind /\ k1.request = NoCall.request
      /\ k1.snapshots = NoCall.snapshots /\ k1.decision = NoDecision
  BY SetKind, NoCallFields
<1> HIDE DEF k1
<1>2. IsCall(k2) /\ k2.kind = kind /\ k2.to = to /\ k2.request = NoCall.request
      /\ k2.snapshots = NoCall.snapshots /\ k2.decision = NoDecision
  BY <1>1, SetTo
<1> HIDE DEF k2
<1>3. IsCall(n) /\ n.kind = kind /\ n.to = to /\ n.at = at /\ n.request = NoCall.request
      /\ n.snapshots = NoCall.snapshots /\ n.decision = NoDecision
  BY <1>2, SetAt
<1> HIDE DEF n
<1>4. ReadsWell(n)
  BY <1>3, NoCallFields DEF ReadsWell
<1>5. DecidesWell(n) /\ FundsWell(n)
  BY <1>3 DEF DecidesWell, FundsWell
<1>6. QuotesWell(n)
  BY <1>3, NoCallFields DEF QuotesWell, Asking
<1>7. n = [NoCall EXCEPT !.kind = kind, !.to = to, !.at = at]
  BY DEF n, k2, k1
<1> QED BY <1>3, <1>4, <1>5, <1>6, <1>7 DEF CallOK

\* A quote that is refused.
LEMMA RefusedOK == CallOK(Refused)
<1> DEFINE k == [NoCall EXCEPT !.kind = "quote"]
           n == [k EXCEPT !.at = "refused"]
<1>1. IsCall(k) /\ k.request = NoCall.request /\ k.kind = "quote"
      /\ k.snapshots = NoCall.snapshots /\ k.decision = NoDecision
  BY SetKind, NoCallFields
<1> HIDE DEF k
<1>2. IsCall(n) /\ n.request = NoCall.request /\ n.at = "refused"
      /\ n.snapshots = NoCall.snapshots /\ n.decision = NoDecision
  BY <1>1, SetAt
<1> HIDE DEF n
<1>3. ReadsWell(n)
  BY <1>2, NoCallFields DEF ReadsWell
<1>4. CallOK(n)
  BY <1>2, <1>3, NoCallFields DEF CallOK, DecidesWell, QuotesWell, FundsWell
<1>5. Refused = n
  BY DEF Refused, n, k
<1> QED BY <1>4, <1>5

\* A decision is made from what the call has read.
LEMMA DecidedOK ==
  ASSUME NEW k, CallOK(k), k.at = "advising", NEW outcome \in Outcomes, NEW answers,
         outcome = "came" => answers \in [Candidates(k.snapshots, k.request) -> Answers],
         outcome # "came" => answers = << >>,
         NEW at \in {"balances", "answered"}, k.kind = "quote" => at = "balances",
         NEW d, d = Decision(k.snapshots, k.request, k.priced, outcome, answers)
  PROVE  CallOK([k EXCEPT !.at = at, !.decision = d])
<1> DEFINE m == [k EXCEPT !.at = at]
           n == [m EXCEPT !.decision = d]
<1>1. IsCall(m) /\ m.at = at /\ m.request = k.request /\ m.snapshots = k.snapshots
      /\ m.priced = k.priced /\ m.kind = k.kind /\ m.to = k.to
  BY SetAt DEF CallOK
<1> HIDE DEF m
<1>2. IsCall(n) /\ n.at = at /\ n.request = k.request /\ n.snapshots = k.snapshots
      /\ n.priced = k.priced /\ n.kind = k.kind /\ n.to = k.to /\ n.decision = d
  BY <1>1, SetDecision
<1>3. n = [k EXCEPT !.at = at, !.decision = d]
  BY DEF n, m
<1> HIDE DEF n
<1>4. ReadsWell(n)
  BY <1>2 DEF ReadsWell, CallOK
<1>5. DecidesWell(n)
  <2>1. n.at \in {"balances", "answered"}
    BY <1>2
  <2>2. n.decision = Decision(n.snapshots, n.request, n.priced, outcome, answers)
    BY <1>2
  <2>3. outcome = "came" => answers \in [Candidates(n.snapshots, n.request) -> Answers]
    BY <1>2
  <2> QED BY <2>1, <2>2, <2>3 DEF DecidesWell
<1>6. QuotesWell(n) /\ FundsWell(n)
  BY <1>2 DEF QuotesWell, FundsWell, CallOK
<1> QED BY <1>2, <1>3, <1>4, <1>5, <1>6 DEF CallOK

\* A quote is answered with the split of its debit.
LEMMA FundedOK ==
  ASSUME NEW k, CallOK(k), k.at = "balances",
         NEW available \in Nat, NEW earning \in Nat, NEW source,
         Funding(available, earning, k.request.amount, source).ok
  PROVE  CallOK([k EXCEPT !.at = "answered",
                          !.funding = [source |-> source,
                                       split |-> Funding(available, earning, k.request.amount, source),
                                       of |-> <<available, earning>>]])
<1> DEFINE s == Funding(available, earning, k.request.amount, source)
           f == [source |-> source, split |-> s, of |-> <<available, earning>>]
           m == [k EXCEPT !.at = "answered"]
           n == [m EXCEPT !.funding = f]
<1>0. k.request.amount \in Nat
  BY DEF CallOK, ReadsWell, RouteRequest
<1>1. IsCall(m) /\ m.at = "answered" /\ m.request = k.request /\ m.snapshots = k.snapshots
      /\ m.priced = k.priced /\ m.kind = k.kind /\ m.to = k.to /\ m.decision = k.decision
  BY SetAt DEF CallOK
<1> HIDE DEF m
<1>2. IsCall(n) /\ n.at = "answered" /\ n.request = k.request /\ n.snapshots = k.snapshots
      /\ n.priced = k.priced /\ n.kind = k.kind /\ n.to = k.to /\ n.decision = k.decision
      /\ n.funding = f
  <2> HIDE DEF f
  <2> QED BY <1>1, SetFunding
<1> HIDE DEF n
<1>3. ReadsWell(n)
  BY <1>2 DEF ReadsWell, CallOK
<1>4. DecidesWell(n)
  BY <1>2 DEF DecidesWell, CallOK
<1>5. QuotesWell(n)
  BY <1>2 DEF QuotesWell, CallOK
<1>6. FundsWell(n)
  <2>1. n.funding.split = s /\ n.funding.source = source
        /\ n.funding.of[1] = available /\ n.funding.of[2] = earning
    BY <1>2
  <2>2. /\ s.available + s.earn = k.request.amount
        /\ s.available <= available
        /\ s.earn <= earning
        /\ s.unwind = (s.earn > 0)
        /\ source = "available" => s.earn = 0
        /\ source = "any" => s.earn = 0 \/ s.available = available
        /\ source = "earn" => s.available = 0 \/ s.earn = earning
    BY <1>0, FundingAddsUp
  <2> HIDE DEF s, f
  <2> QED BY <1>2, <2>1, <2>2 DEF FundsWell
<1>7. n = [k EXCEPT !.at = "answered", !.funding = f]
  BY DEF n, m
<1> HIDE DEF f, s
<1>8. CallOK([k EXCEPT !.at = "answered", !.funding = f])
  BY <1>2, <1>3, <1>4, <1>5, <1>6, <1>7 DEF CallOK
<1> QED BY <1>8 DEF f, s

----------------------------------------------------------------------------
(* The steps of the previews and quotes *)

\* Every step of a preview or a quote is one of the directory, or leaves it alone.
LEMMA RouteStepIsOfDirectory == [RouteNext]_routeVars => [Next]_vars
<1> SUFFICES ASSUME RouteNext PROVE [Next]_vars
  BY DEF routeVars
<1>1. ASSUME NEW c \in Calls, Starts(c) PROVE [Next]_vars
  <2>1. CASE \E r \in Requests : Preview(c, r)
    BY <2>1 DEF Preview, Next, Begins
  <2>2. CASE Quote(c)
    BY <2>2 DEF Quote, Next, Begins
  <2>3. CASE QuoteWithoutSession(c) \/ QuoteTransfer(c) \/ QuoteSwap(c)
    BY <2>3 DEF QuoteWithoutSession, QuoteTransfer, QuoteSwap
  <2> QED BY <1>1, <2>1, <2>2, <2>3 DEF Starts
<1>2. ASSUME NEW c \in Calls, Proceeds(c) PROVE [Next]_vars
  <2>1. CASE FirmEnds(c)
    BY <2>1 DEF FirmEnds, Next, Begins
  <2>2. CASE LimitsEnd(c)
    BY <2>2 DEF LimitsEnd, Next, Begins
  <2>3. CASE Listed(c)
    <3>1. Collect(c) \/ \E S : AskPrices(c, S)
      BY <2>3 DEF Listed
    <3>2. \A S : AskPrices(c, S) => S \in SUBSET Discovered
      BY DEF AskPrices
    <3> QED BY <3>1, <3>2 DEF Next, Begins
  <2>4. CASE Priced(c) \/ Answered(c)
    BY <2>4 DEF Priced, Answered, Next
  <2>5. CASE PricingTimesOut(c) \/ Unadvised(c) \/ AdviceIsLate(c)
    BY <2>5 DEF PricingTimesOut, Unadvised, AdviceIsLate, Decides
  <2> QED BY <1>2, <2>1, <2>2, <2>3, <2>4, <2>5 DEF Proceeds
<1>3. ASSUME NEW c \in Calls, BalancesEnd(c) \/ AdviceComes(c) \/ AdviceFails(c)
      PROVE  [Next]_vars
  BY <1>3 DEF BalancesEnd, BalancesFail, BalancesRead, SwapEnds, AdviceComes, AdviceFails, Decides
<1>4. ASSUME NEW c \in Calls, NEW a \in Anchors, AnchorAnswers(c, a) PROVE [Next]_vars
  <2>1. Throws(c, a) => a \in Executables
    BY DEF Throws
  <2> QED BY <1>4, <2>1 DEF AnchorAnswers, Next
<1>5. CASE Tick
  BY <1>5 DEF Next
<1> QED BY <1>1, <1>2, <1>3, <1>4, <1>5 DEF RouteNext

LEMMA ExecutableStep ==
  ASSUME DirectoryInv, ExecutableInv, [Next]_vars
  PROVE  ExecutableInv'
<1>0. TypeOK
  BY DEF DirectoryInv
<1>1. CASE UNCHANGED vars
  BY <1>1 DEF vars, ExecutableInv
<1>2. CASE \E c \in Calls : Begins(c) \/ Collect(c)
  BY <1>0, <1>2, ExecutableBegins
<1>3. CASE \E c \in Calls, a \in Anchors : RequestEnds(c, a)
  BY <1>0, <1>3, ExecutableAnswers
<1>4. CASE \E c \in Calls, a \in Executables : Throws(c, a)
  BY <1>0, <1>4, ExecutableAnswers DEF Anchors
<1>5. CASE Tick
  BY <1>0, <1>5, ExecutableTick
<1> QED BY <1>1, <1>2, <1>3, <1>4, <1>5 DEF Next

LEMMA SetsKeeps ==
  ASSUME CallsInv, NEW c \in Calls, NEW k, Sets(c, k), CallOK(k)
  PROVE  CallsInv'
  BY DEF CallsInv, Sets

LEMMA StartsKeeps ==
  ASSUME CallsInv, NEW c \in Calls, Starts(c)
  PROVE  CallsInv'
<1>1. ASSUME NEW r \in Requests, Preview(c, r) PROVE CallsInv'
  <2> DEFINE m == [NoCall EXCEPT !.kind = "preview", !.to = "none", !.at = "listing"]
             n == [m EXCEPT !.request = r]
  <2>0. CallOK(m)
    BY BeginsOK
  <2>1. m.decision = NoDecision /\ m.at = "listing" /\ m.kind = "preview"
    BY DEF NoCall
  <2>2. r \in RouteRequest
    BY RouteAssumption
  <2>3. NoCall.to = "none"
    BY DEF NoCall
  <2>4. n = [NoCall EXCEPT !.kind = "preview", !.at = "listing", !.request = r]
    BY <2>3 DEF NoCall
  <2> HIDE DEF m
  <2>5. CallOK(n)
    BY <2>0, <2>1, <2>2, RequestOK
  <2> HIDE DEF n
  <2> QED BY <1>1, <2>4, <2>5, SetsKeeps DEF Preview
<1>2. CASE Quote(c)
  <2>1. CallOK([NoCall EXCEPT !.kind = "quote", !.to = "TRY", !.at = "firm"])
    BY BeginsOK
  <2> QED BY <1>2, <2>1, SetsKeeps DEF Quote
<1>3. CASE QuoteWithoutSession(c)
  BY <1>3, RefusedOK, SetsKeeps DEF QuoteWithoutSession
<1>4. CASE QuoteTransfer(c)
  <2>1. PICK debit \in Amounts :
          Sets(c, [NoCall EXCEPT !.kind = "quote", !.to = "USDC", !.at = "balances",
                                 !.request = CashOut(debit)])
    BY <1>4 DEF QuoteTransfer
  <2> DEFINE m == [NoCall EXCEPT !.kind = "quote", !.to = "USDC", !.at = "balances"]
             n == [m EXCEPT !.request = CashOut(debit)]
  <2>0. CallOK(m)
    BY BeginsOK DEF Asking
  <2>2. m.decision = NoDecision /\ m.at = "balances" /\ m.kind = "quote"
    BY DEF NoCall
  <2>3. CashOut(debit) \in RouteRequest /\ CashOut(debit).direction = "withdraw"
    BY CashOutType, RouteAssumption
  <2>4. n = [NoCall EXCEPT !.kind = "quote", !.to = "USDC", !.at = "balances",
                           !.request = CashOut(debit)]
    OBVIOUS
  <2> HIDE DEF m
  <2>5. CallOK(n)
    BY <2>0, <2>2, <2>3, RequestOK
  <2> HIDE DEF n
  <2> QED BY <2>1, <2>4, <2>5, SetsKeeps
<1>5. CASE QuoteSwap(c)
  <2>1. CallOK([NoCall EXCEPT !.kind = "quote", !.to = "XLM", !.at = "swap"])
    BY BeginsOK DEF Asking
  <2> QED BY <1>5, <2>1, SetsKeeps DEF QuoteSwap
<1> QED BY <1>1, <1>2, <1>3, <1>4, <1>5 DEF Starts

LEMMA CollectsSnapshots ==
  ASSUME DirectoryInv, ExecutableInv, NEW c \in Calls
  PROVE  LET S == [a \in Anchors |-> jobs[c][a].snap]
         IN  S \in [Anchors -> Snapshot] /\ \A a \in Executables : PaysOrNot(S[a])
<1>1. \A a \in Anchors : jobs[c][a] \in Job
  BY DEF DirectoryInv, TypeOK
<1>2. \A a \in Anchors : jobs[c][a].snap \in Snapshot
  BY <1>1 DEF Job
<1> QED BY <1>2 DEF ExecutableInv, ExecutableJob, Anchors

LEMMA NextIsOK ==
  ASSUME NEW k, CallOK(k), k.decision = NoDecision, k.at # "answered", NEW at, at # "answered",
         NEW r \in RouteRequest, r.direction = "withdraw",
         k.kind = "quote" /\ at \in Asking => k.to = "TRY"
  PROVE  CallOK([k EXCEPT !.at = at, !.request = r])
<1> DEFINE m == [k EXCEPT !.at = at]
           n == [m EXCEPT !.request = r]
<1>1. CallOK(m)
  BY AtOK
<1>2. m.at = at /\ m.decision = NoDecision
  BY SetAt DEF CallOK
<1> HIDE DEF m
<1>3. CallOK(n)
  BY <1>1, <1>2, RequestOK
<1> QED BY <1>3 DEF m

LEMMA DecidesKeeps ==
  ASSUME CallsInv, NEW c \in Calls, NEW outcome \in Outcomes, NEW answers,
         outcome = "came" => answers \in [Chosen(c) -> Answers],
         outcome # "came" => answers = << >>,
         Decides(c, outcome, answers)
  PROVE  CallsInv'
<1> DEFINE k == calls[c]
           at == IF k.kind = "quote" THEN "balances" ELSE "answered"
           d == Decision(k.snapshots, k.request, k.priced, outcome, answers)
<1>1. CallOK(k) /\ k.at = "advising"
  BY DEF CallsInv, Decides
<1>2. outcome = "came" => answers \in [Candidates(k.snapshots, k.request) -> Answers]
  BY DEF Chosen
<1>3. Sets(c, [k EXCEPT !.at = at, !.decision = d])
  BY DEF Decides
<1>4. at \in {"balances", "answered"} /\ (k.kind = "quote" => at = "balances")
  OBVIOUS
<1>5. d = Decision(k.snapshots, k.request, k.priced, outcome, answers)
  OBVIOUS
<1> HIDE DEF k, at, d
<1>6. CallOK([k EXCEPT !.at = at, !.decision = d])
  BY <1>1, <1>2, <1>4, <1>5, DecidedOK
<1> QED BY <1>3, <1>6, SetsKeeps

LEMMA ProceedsKeeps ==
  ASSUME RouteInv, NEW c \in Calls, Proceeds(c)
  PROVE  CallsInv'
<1> DEFINE k == calls[c]
<1>0. CallsInv /\ CallOK(k) /\ DirectoryInv /\ ExecutableInv
  BY DEF RouteInv, CallsInv
<1>a. k.at \in Asking => k.decision = NoDecision /\ (k.kind = "quote" => k.to = "TRY")
  BY <1>0 DEF CallOK, DecidesWell, QuotesWell, Asking
<1> HIDE DEF k
<1>1. CASE FirmEnds(c)
  <2>1. k.at = "firm"
    BY <1>1 DEF FirmEnds, k
  <2>2. \/ Sets(c, Refused)
        \/ \E debit \in Amounts : Sets(c, [k EXCEPT !.at = "limits", !.request = CashOut(debit)])
    BY <1>1 DEF FirmEnds, k
  <2>3. ASSUME NEW debit \in Amounts
        PROVE  CallOK([k EXCEPT !.at = "limits", !.request = CashOut(debit)])
    BY <1>0, <1>a, <2>1, CashOutType, RouteAssumption, NextIsOK DEF Asking
  <2> QED BY <1>0, <2>2, <2>3, RefusedOK, SetsKeeps
<1>2. CASE LimitsEnd(c)
  <2>1. k.at = "limits"
    BY <1>2 DEF LimitsEnd, k
  <2>2. Sets(c, Refused) \/ Sets(c, [k EXCEPT !.at = "listing"])
    BY <1>2 DEF LimitsEnd, k
  <2>3. CallOK([k EXCEPT !.at = "listing"])
    BY <1>0, <1>a, <2>1, AtOK DEF Asking
  <2> QED BY <1>0, <2>2, <2>3, RefusedOK, SetsKeeps
<1>3. CASE Listed(c)
  <2> DEFINE S == [a \in Anchors |-> jobs[c][a].snap]
             m == [k EXCEPT !.snapshots = S]
  <2>1. k.at = "listing"
    BY <1>3 DEF Listed, k
  <2>2. Sets(c, [m EXCEPT !.at = "pricing"]) \/ Sets(c, [m EXCEPT !.at = "advising"])
    BY <1>3 DEF Listed, k
  <2>3. S \in [Anchors -> Snapshot] /\ \A a \in Executables : PaysOrNot(S[a])
    BY <1>0, CollectsSnapshots
  <2> HIDE DEF S
  <2>4. CallOK(m)
    BY <1>0, <1>a, <2>1, <2>3, SnapshotsOK DEF Asking
  <2>5. m.decision = k.decision /\ m.kind = k.kind /\ m.to = k.to
    BY <1>0, SetSnapshots DEF CallOK
  <2> HIDE DEF m
  <2>6. CallOK([m EXCEPT !.at = "pricing"]) /\ CallOK([m EXCEPT !.at = "advising"])
    BY <1>a, <2>1, <2>4, <2>5, AtOK DEF Asking
  <2> QED BY <1>0, <2>2, <2>6, SetsKeeps
<1>4. CASE Priced(c) \/ PricingTimesOut(c)
  <2> DEFINE m == [k EXCEPT !.at = "advising"]
             P == Prices(c)
             n == [m EXCEPT !.priced = P]
  <2>1. k.at = "pricing"
    BY <1>4 DEF Priced, PricingTimesOut, k
  <2>2. Sets(c, n)
    BY <1>4 DEF Priced, PricingTimesOut, k
  <2>3. CallOK(m)
    BY <1>0, <1>a, <2>1, AtOK DEF Asking
  <2>4. m.decision = k.decision /\ m.at = "advising"
    BY <1>0, SetAt DEF CallOK
  <2> HIDE DEF m, P
  <2>5. CallOK(n)
    BY <1>a, <2>1, <2>3, <2>4, PricedOK DEF Asking
  <2> HIDE DEF n
  <2> QED BY <1>0, <2>2, <2>5, SetsKeeps
<1>5. CASE Unadvised(c) \/ AdviceIsLate(c)
  <2>1. PICK outcome \in {"unasked", "late"} : Decides(c, outcome, << >>)
    BY <1>5 DEF Unadvised, AdviceIsLate
  <2> QED BY <1>0, <2>1, DecidesKeeps DEF k, Outcomes
<1>6. CASE Answered(c)
  BY <1>0, <1>6, NoCallOK, SetsKeeps DEF Answered
<1> QED BY <1>1, <1>2, <1>3, <1>4, <1>5, <1>6 DEF Proceeds

LEMMA BalancesKeeps ==
  ASSUME CallsInv, NEW c \in Calls, BalancesEnd(c)
  PROVE  CallsInv'
<1> DEFINE k == calls[c]
<1>0. CallOK(k) /\ k.request.amount \in Nat
  BY DEF CallsInv, CallOK, ReadsWell, RouteRequest
<1> HIDE DEF k
<1>1. CASE BalancesFail(c)
  BY <1>1, RefusedOK, SetsKeeps DEF BalancesFail
<1>2. CASE BalancesRead(c)
  <2>1. PICK available \in Amounts, earning \in Amounts, source \in Sources :
          LET split == Funding(available, earning, k.request.amount, source)
          IN  Sets(c, IF ~split.ok THEN Refused
                      ELSE [k EXCEPT !.at = "answered",
                                     !.funding = [source |-> source, split |-> split,
                                                  of |-> <<available, earning>>]])
    BY <1>2 DEF BalancesRead, k
  <2> DEFINE split == Funding(available, earning, k.request.amount, source)
             f == [source |-> source, split |-> split, of |-> <<available, earning>>]
  <2>2. CASE ~split.ok
    BY <2>1, <2>2, RefusedOK, SetsKeeps
  <2>3. CASE split.ok
    <3>1. Sets(c, [k EXCEPT !.at = "answered", !.funding = f])
      BY <2>1, <2>3
    <3>2. k.at = "balances"
      BY <1>2 DEF BalancesRead, k
    <3>3. CallOK([k EXCEPT !.at = "answered", !.funding = f])
      BY <1>0, <2>3, <3>2, RouteAssumption, FundedOK
    <3> HIDE DEF f
    <3> QED BY <3>1, <3>3, SetsKeeps
  <2> QED BY <2>2, <2>3
<1>3. CASE SwapEnds(c)
  <2>1. k.at = "swap"
    BY <1>3 DEF SwapEnds, k
  <2>2. \/ Sets(c, Refused)
        \/ \E debit \in Amounts : Sets(c, [k EXCEPT !.at = "balances", !.request = CashOut(debit)])
    BY <1>3 DEF SwapEnds, k
  <2>3. k.decision = NoDecision
    BY <1>0, <2>1 DEF CallOK, DecidesWell
  <2>4. ASSUME NEW debit \in Amounts
        PROVE  CallOK([k EXCEPT !.at = "balances", !.request = CashOut(debit)])
    BY <1>0, <2>1, <2>3, CashOutType, RouteAssumption, NextIsOK DEF Asking
  <2> QED BY <2>2, <2>4, RefusedOK, SetsKeeps
<1> QED BY <1>1, <1>2, <1>3 DEF BalancesEnd

LEMMA RouteStep == RouteInv /\ [RouteNext]_routeVars => RouteInv'
<1> SUFFICES ASSUME RouteInv, [RouteNext]_routeVars PROVE RouteInv'
  OBVIOUS
<1>1. DirectoryInv' /\ ExecutableInv'
  BY RouteStepIsOfDirectory, DirectoryStep, ExecutableStep DEF RouteInv
<1>2. CallsInv
  BY DEF RouteInv
<1>3. ASSUME calls' = calls
      PROVE  CallsInv'
  BY <1>2, <1>3, Zenon DEF CallsInv
<1>4. ASSUME NEW c \in Calls, Starts(c) \/ Proceeds(c) \/ BalancesEnd(c)
      PROVE  CallsInv'
  BY <1>2, <1>4, StartsKeeps, ProceedsKeeps, BalancesKeeps
<1>5. ASSUME NEW c \in Calls, AdviceComes(c)
      PROVE  CallsInv'
  <2>1. PICK answers \in [Chosen(c) -> Answers] : Decides(c, "came", answers)
    BY <1>5 DEF AdviceComes
  <2> QED BY <1>2, <2>1, DecidesKeeps DEF Outcomes
<1>6. ASSUME NEW c \in Calls, AdviceFails(c)
      PROVE  CallsInv'
  BY <1>2, <1>6, DecidesKeeps DEF Outcomes, AdviceFails
<1>7. CallsInv'
  <2>1. CASE RouteNext
    <3>1. \/ calls' = calls
          \/ \E c \in Calls : Starts(c) \/ Proceeds(c) \/ BalancesEnd(c)
          \/ \E c \in Calls : AdviceComes(c) \/ AdviceFails(c)
      BY <2>1, Zenon DEF RouteNext, AnchorAnswers
    <3> QED BY <1>3, <1>4, <1>5, <1>6, <3>1
  <2>2. CASE UNCHANGED routeVars
    BY <1>3, <2>2 DEF routeVars
  <2> QED BY <2>1, <2>2
<1> QED BY <1>1, <1>7 DEF RouteInv

LEMMA RouteInitOK == RouteInit => RouteInv
<1> SUFFICES ASSUME RouteInit PROVE RouteInv
  OBVIOUS
<1>1. DirectoryInv
  BY DirectoryInit DEF RouteInit
<1>2. ExecutableInv
  <2>1. jobs = [c \in Calls |-> [a \in Anchors |-> Idle]]
    BY DEF RouteInit, Init
  <2> QED BY <2>1, IdlePays DEF ExecutableInv, Anchors
<1>3. CallsInv
  BY NoCallOK DEF RouteInit, CallsInv
<1> QED BY <1>1, <1>2, <1>3 DEF RouteInv

\* What holds at every moment of the directory, of the executable anchor and of each call.
THEOREM RouteInductive == RouteSpec => []RouteInv
<1> QED BY RouteInitOK, RouteStep, PTL DEF RouteSpec

\* Previews and quotes do to the caches and the requests only what AnchorDirectory does
\* (RoutePlannerService and PaymentRouterService go through the registry).
THEOREM RoutesUseTheDirectory == RouteSpec => Spec
<1>1. RouteInit => Init
  BY DEF RouteInit
<1> QED BY <1>1, RouteStepIsOfDirectory, PTL DEF RouteSpec, Spec

\* ServedIsRecent, for the directory as previews and quotes use it.
THEOREM RoutesAreRecent == RouteSpec => []ServedIsRecent
<1> QED BY RoutesUseTheDirectory, DirectoryIsRecent, PTL

LEMMA DecisionOf ==
  ASSUME NEW k, CallOK(k), k.decision # NoDecision
  PROVE  \E outcome \in Outcomes : \E answers :
            /\ outcome = "came" => answers \in [Candidates(k.snapshots, k.request) -> Answers]
            /\ k.decision = Decision(k.snapshots, k.request, k.priced, outcome, answers)
  BY DEF CallOK, DecidesWell, Outcomes

\* DecisionIsSound, for any number of anchors and any answers of theirs and of the
\* advisor: the route that decideRoute names serves the request, none scores more, and
\* advice that is late, broken or unsure changes nothing.
THEOREM DecisionsAreSound == RouteSpec => []DecisionIsSound
<1>1. RouteInv => DecisionIsSound
  <2> SUFFICES ASSUME RouteInv, NEW c \in Calls, Decided(c)
               PROVE  LET d == calls[c].decision
                          r == calls[c].request
                          s == calls[c].snapshots[d.chosen]
                          rail == s.info[r.direction]
                      IN  /\ d.chosen # NoAnchor =>
                               /\ s.status # "UNAVAILABLE"
                               /\ {"sep6", "sep10"} \subseteq s.seps
                               /\ rail # NoRail /\ rail.enabled /\ r.fiat \in s.fiat
                               /\ rail.min # NoLimit => r.amount >= rail.min
                               /\ rail.max # NoLimit => r.amount <= rail.max
                               /\ r.requireExecutable => s.status = "EXECUTABLE"
                               /\ s.status = "EXECUTABLE" => r.kyc \notin {"NEEDS_INFO", "REJECTED"}
                               /\ \A a \in DOMAIN d.eligible :
                                    d.eligible[a].score <= d.eligible[d.chosen].score
                          /\ d.fallback # "none" =>
                               d.chosen = Decision(calls[c].snapshots, r, calls[c].priced,
                                                   "failed", << >>).chosen
    BY DEF DecisionIsSound
  <2> DEFINE k == calls[c]
  <2>1. CallOK(k) /\ k.decision # NoDecision
    BY DEF RouteInv, CallsInv, Decided
  <2>a. PICK outcome \in Outcomes : \E answers :
            /\ outcome = "came" => answers \in [Candidates(k.snapshots, k.request) -> Answers]
            /\ k.decision = Decision(k.snapshots, k.request, k.priced, outcome, answers)
    <3> HIDE DEF k
    <3> QED BY <2>1, DecisionOf
  <2>2. PICK answers :
            /\ outcome = "came" => answers \in [Candidates(k.snapshots, k.request) -> Answers]
            /\ k.decision = Decision(k.snapshots, k.request, k.priced, outcome, answers)
    BY <2>a
  <2>3. k.snapshots \in [Anchors -> Snapshot] /\ k.request \in RouteRequest
    BY <2>1 DEF CallOK, ReadsWell
  <2> DEFINE S == k.snapshots
             r == k.request
             p == k.priced
             d == Decision(S, r, p, outcome, answers)
  <2>4. k.decision = d /\ (outcome = "came" => answers \in [Candidates(S, r) -> Answers])
    BY <2>2
  <2> HIDE DEF S, r, p
  <2>5. /\ d.chosen # NoAnchor =>
             LET s == S[d.chosen]
                 rail == s.info[r.direction]
             IN  /\ s.status # "UNAVAILABLE"
                 /\ {"sep6", "sep10"} \subseteq s.seps
                 /\ rail # NoRail /\ rail.enabled /\ r.fiat \in s.fiat
                 /\ rail.min # NoLimit => r.amount >= rail.min
                 /\ rail.max # NoLimit => r.amount <= rail.max
                 /\ r.requireExecutable => s.status = "EXECUTABLE"
                 /\ s.status = "EXECUTABLE" => r.kyc \notin {"NEEDS_INFO", "REJECTED"}
                 /\ \A a \in DOMAIN d.eligible : d.eligible[a].score <= d.eligible[d.chosen].score
        /\ d.fallback # "none" => d.chosen = Decision(S, r, p, "failed", << >>).chosen
    <3>1. S \in [Anchors -> Snapshot] /\ r \in RouteRequest
      BY <2>3 DEF S, r
    <3> QED BY <2>4, <3>1, DecisionServes
  <2> HIDE DEF d
  <2> QED BY <2>4, <2>5 DEF S, r, p
<1> QED BY <1>1, RouteInductive, PTL

\* FundingIsExact, for every debit and every pair of balances: what computeFunding takes
\* of each adds up to the debit and is there.
THEOREM FundingAlwaysAddsUp == RouteSpec => []FundingIsExact
<1>1. RouteInv => FundingIsExact
  BY DEF RouteInv, CallsInv, CallOK, FundsWell, FundingIsExact
<1> QED BY <1>1, RouteInductive, PTL

LEMMA RouteToTry == Options[RouteTo("TRY")].to = "TRY" /\ Options[RouteTo("TRY")].minutes = 30
<1>1. /\ Options["fiat_payout"].to = "TRY" /\ Options["fiat_payout"].minutes = 30
      /\ "fiat_payout" \in DOMAIN Options
      /\ \A u \in DOMAIN Options : Options[u].to = "TRY" => u = "fiat_payout"
  BY DEF Options
<1>2. RouteScore(Options["fiat_payout"]) <= RouteScore(Options["fiat_payout"])
  BY DEF RouteScore, Options, Clamp
<1>3. RouteTo("TRY") = "fiat_payout"
  BY <1>1, <1>2 DEF RouteTo
<1> QED BY <1>1, <1>3

\* ClaimsHold, for any number of anchors and any answers: a picked anchor that is said to
\* pay out can be executed, a named advisor counted, the shown weights give the score, and
\* a quote with a decision pays out in TRY in its minutes (routeDecisionSubtitle,
\* executableNote, ROUTE_FACTORS). It says nothing of a payer that was not picked.
THEOREM ClaimsAreTrue == RouteSpec => []ClaimsHold
<1>1. RouteInv => ClaimsHold
  <2> SUFFICES ASSUME RouteInv, NEW c \in Calls, Decided(c)
               PROVE  LET d == calls[c].decision
                          note == ReviewNote(d)
                      IN  /\ note.pick \in note.pays =>
                               d.executable /\ note.pick \in MovesMoney(d)
                                /\ SheetNote(d) # "none"
                          /\ note.names => d.fallback = "none"
                          /\ \A a \in DOMAIN d.eligible :
                               d.eligible[a].score = Score(ShownWeights, d.eligible[a].factors)
                          /\ calls[c].kind = "quote" =>
                               LET route == Options[RouteTo(calls[c].to)]
                               IN  /\ route.to = "TRY"
                                   /\ route.minutes = Minutes(calls[c].request.direction)
    BY DEF ClaimsHold
  <2> DEFINE k == calls[c]
  <2>1. CallOK(k) /\ k.decision # NoDecision
    BY DEF RouteInv, CallsInv, Decided
  <2>a. PICK outcome \in Outcomes : \E answers :
            /\ outcome = "came" => answers \in [Candidates(k.snapshots, k.request) -> Answers]
            /\ k.decision = Decision(k.snapshots, k.request, k.priced, outcome, answers)
    <3> HIDE DEF k
    <3> QED BY <2>1, DecisionOf
  <2>2. PICK answers :
            /\ outcome = "came" => answers \in [Candidates(k.snapshots, k.request) -> Answers]
            /\ k.decision = Decision(k.snapshots, k.request, k.priced, outcome, answers)
    BY <2>a
  <2> DEFINE S == k.snapshots
             r == k.request
             p == k.priced
             d == Decision(S, r, p, outcome, answers)
  <2>3. /\ S \in [Anchors -> Snapshot] /\ r \in RouteRequest
        /\ \A a \in Executables : S[a].status \in {"EXECUTABLE", "UNAVAILABLE"}
    BY <2>1 DEF CallOK, ReadsWell, PaysOrNot
  <2>4. k.decision = d /\ (outcome = "came" => answers \in [Candidates(S, r) -> Answers])
    BY <2>2
  <2>5. k.kind = "quote" => k.to = "TRY" /\ r.direction = "withdraw"
    BY <2>1 DEF CallOK, QuotesWell
  <2>6. k.kind = "quote" =>
           LET route == Options[RouteTo(k.to)]
           IN  route.to = "TRY" /\ route.minutes = Minutes(r.direction)
    <3> HIDE DEF k, r
    <3> QED BY <2>5, RouteToTry DEF Minutes
  <2> HIDE DEF S, r, p
  <2>7. /\ ReviewNote(d).pick \in ReviewNote(d).pays =>
             d.executable /\ ReviewNote(d).pick \in MovesMoney(d) /\ SheetNote(d) # "none"
        /\ ReviewNote(d).names => d.fallback = "none"
        /\ \A a \in DOMAIN d.eligible :
             d.eligible[a].score = Score(ShownWeights, d.eligible[a].factors)
    BY <2>3, <2>4, DecisionShown
  <2> HIDE DEF d
  <2> QED BY <2>4, <2>6, <2>7 DEF r
<1> QED BY <1>1, RouteInductive, PTL
=============================================================================
