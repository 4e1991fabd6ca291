--------------------------- MODULE AnchorDirectory ---------------------------
(***************************************************************************)
(* The anchors Trinqa knows: the executable one (tr-mock-anchor.adapter.ts) *)
(* and those it only discovers (sep-discovery-anchor.adapter.ts), behind    *)
(* the registry (anchor-registry.service.ts). What an anchor publishes is   *)
(* read in up to five requests, one after the other, and kept: its          *)
(* stellar.toml, the executable anchor's /info and the discovered anchors'  *)
(* whole snapshots each have a cache with an age limit.                     *)
(*                                                                         *)
(* Nothing keeps two calls from reading the same anchor at once: each call  *)
(* looks at the caches, sends its own requests, and writes the caches when  *)
(* the answers are there. Time shows in the ages of what was read, which    *)
(* Tick advances; FetchTime is the timeout of a request to a discovered     *)
(* anchor, requests to the executable one have none. An anchor may publish  *)
(* something else, or be out of reach, at every request.                    *)
(***************************************************************************)
EXTENDS Integers

CONSTANTS
    Executables, \* the anchor money moves through (a set: the program has one)
    Discovered, \* the others
    Calls,      \* calls into the directory that may be under way at once
    Tomls,      \* what a stellar.toml may say: its SEPs, the fiat and the issuer of USDC
    Rails,      \* what /info may say of USDC in one direction
    NoRail,     \* it says nothing
    Infos,      \* what /info may say as a whole
    Fiats,      \* what SEP-38 /info may list
    HomeFiat,   \* the fiat the executable anchor is known for (TRY)
    TTL,        \* the age limit of a cached answer
    FailTTL,    \* the same when the anchor was out of reach
    FetchTime   \* the timeout of a request

Anchors == Discovered \cup Executables

Directions == {"deposit", "withdraw"}

Seps == {"sep1", "sep6", "sep10", "sep24", "sep38"}

Fiat == (UNION Fiats) \cup (UNION {t.fiat : t \in Tomls}) \cup {HomeFiat}

ASSUME DirectoryAssumption ==
    /\ Executables \cap Discovered = {}
    /\ Tomls \subseteq [seps : SUBSET Seps, fiat : SUBSET Fiat, issuer : BOOLEAN]
    /\ \A t \in Tomls : "sep1" \in t.seps
    /\ NoRail \notin Rails
    /\ Infos \subseteq [Directions -> Rails \cup {NoRail}]
    /\ TTL \in Nat \ {0}
    /\ FailTTL \in Nat
    /\ FetchTime \in Nat

VARIABLES
    tomls, \* the cached stellar.toml of each anchor
    infos, \* the cached /info of the executable anchor
    snaps, \* the cached snapshot of each discovered anchor
    jobs   \* what each call is doing at each anchor

vars == <<tomls, infos, snaps, jobs>>

\* A stellar.toml that could not be read.
NoToml == [seps |-> {}, fiat |-> {}, issuer |-> FALSE]

NoInfo == [d \in Directions |-> NoRail]

Statuses == {"EXECUTABLE", "QUOTE_ONLY", "DISCOVERY_ONLY", "UNAVAILABLE"}

\* The ages are those of the snapshot and of what it says; in the hands of a call
\* they no longer advance.
Snapshot ==
    [status : Statuses, healthy : BOOLEAN, seps : SUBSET Seps,
     info : Infos \cup {NoInfo}, fiat : SUBSET Fiat,
     age : Nat, tomlAge : Nat, infoAge : Nat]

Goals == {"none", "snapshot", "price", "firm", "limits"}

Steps == {"idle", "toml", "retry", "sep6", "again", "sep38", "probe", "price", "firm", "done"}

\* age: since the request under way was sent.
Job ==
    [goal : Goals, step : Steps, toml : Tomls \cup {NoToml},
     info : Infos \cup {NoInfo}, fiat : SUBSET Fiat,
     age : Nat, tomlAge : Nat, infoAge : Nat, ok : BOOLEAN, snap : Snapshot]

NoSnapshot ==
    [status |-> "UNAVAILABLE", healthy |-> FALSE, seps |-> {}, info |-> NoInfo, fiat |-> {},
     age |-> TTL, tomlAge |-> TTL, infoAge |-> TTL]

Idle ==
    [goal |-> "none", step |-> "idle", toml |-> NoToml, info |-> NoInfo, fiat |-> {},
     age |-> 0, tomlAge |-> 0, infoAge |-> 0, ok |-> FALSE, snap |-> NoSnapshot]

\* What was never read has expired.
Init ==
    /\ tomls = [a \in Anchors |-> [value |-> NoToml, age |-> TTL]]
    /\ infos = [a \in Executables |-> [value |-> NoInfo, age |-> TTL]]
    /\ snaps = [a \in Discovered |-> NoSnapshot]
    /\ jobs = [c \in Calls |-> [a \in Anchors |-> Idle]]

----------------------------------------------------------------------------
(* The caches *)

\* cacheTtl: an anchor that was out of reach is asked again sooner.
CacheTtl(ok) == IF ok \/ TTL < FailTTL THEN TTL ELSE FailTTL

\* The executable anchor keeps only what it could read.
TomlFresh(a) == tomls[a].age < CacheTtl(tomls[a].value # NoToml)

InfoFresh(a) == infos[a].age < TTL

\* Mutant: the age limit is included.
SnapFreshOnTheDot(a) == a \in Discovered /\ snaps[a].age <= CacheTtl(snaps[a].healthy)

SnapFresh(a) == a \in Discovered /\ snaps[a].age < CacheTtl(snaps[a].healthy)

----------------------------------------------------------------------------
(* What a job does when it has an answer: it asks on, or it is done *)

Asks(j, s) == [j EXCEPT !.step = s, !.age = 0]

Done(j, ok, info, snap) ==
    [Idle EXCEPT !.goal = j.goal, !.step = "done", !.ok = ok, !.info = info, !.snap = snap]

\* The end of buildSnapshot.
Publishes(j, status, healthy, seps) ==
    Done(j, TRUE, NoInfo,
         [status |-> status, healthy |-> healthy, seps |-> seps, info |-> j.info,
          fiat |-> j.fiat, age |-> 0, tomlAge |-> j.tomlAge, infoAge |-> j.infoAge])

Unreachable(j) ==
    Publishes([j EXCEPT !.info = NoInfo, !.fiat = {}, !.infoAge = 0], "UNAVAILABLE", FALSE, {})

HasRail(j) == \E d \in Directions : j.info[d] # NoRail

AfterFiat(a, j) ==
    IF a \in Executables THEN Publishes(j, "EXECUTABLE", TRUE, j.toml.seps)
    ELSE IF HasRail(j) /\ j.fiat # {} /\ j.toml.issuer THEN Asks(j, "probe")
    ELSE Publishes(j, "DISCOVERY_ONLY", TRUE, j.toml.seps)

\* Until SEP-38 says more, the fiat is that of the currencies of the stellar.toml.
\* The executable anchor looks at its stellar.toml again, which may have expired.
AfterInfo(a, j) ==
    IF j.goal = "limits" THEN Done(j, TRUE, j.info, NoSnapshot)
    ELSE LET known == [j EXCEPT !.fiat = IF a \in Executables THEN {HomeFiat} ELSE j.toml.fiat]
         IN  IF "sep38" \in j.toml.seps
             THEN Asks(known, IF a \in Executables /\ ~TomlFresh(a) THEN "again" ELSE "sep38")
             ELSE IF a \in Executables THEN Publishes(known, "EXECUTABLE", TRUE, j.toml.seps)
             ELSE Publishes(known, "DISCOVERY_ONLY", TRUE, j.toml.seps)

\* sep6Info of the executable anchor.
ReadsInfo(a, j) ==
    IF a \in Executables /\ InfoFresh(a)
    THEN AfterInfo(a, [j EXCEPT !.info = infos[a].value])
    ELSE Asks(j, "sep6")

AfterToml(a, j) ==
    CASE j.goal = "price" ->
           IF "sep38" \in j.toml.seps THEN Asks(j, "price")
           ELSE Done(j, FALSE, NoInfo, NoSnapshot)
      [] j.goal = "firm" -> Asks(j, "firm")
      [] j.goal = "limits" -> Asks(j, "sep6")
      [] OTHER ->
           IF j.toml = NoToml THEN Unreachable(j)
           ELSE IF a \in Discovered /\ "sep6" \notin j.toml.seps
           THEN Publishes([j EXCEPT !.infoAge = 0], "UNAVAILABLE", TRUE, j.toml.seps)
           ELSE ReadsInfo(a, j)

\* Only the snapshots of the discovered anchors are cached: other ages are not followed.
Aged(a, j, n) == IF a \in Discovered /\ j.goal = "snapshot" THEN n ELSE 0

\* getToml and discover.
ReadsToml(a, j) ==
    IF TomlFresh(a)
    THEN AfterToml(a, [j EXCEPT !.toml = tomls[a].value, !.tomlAge = Aged(a, j, tomls[a].age)])
    ELSE Asks(j, "toml")

----------------------------------------------------------------------------
(* What a job begins with *)

Begun(goal) == [Idle EXCEPT !.goal = goal]

\* snapshot(): the cached one, or the one it builds.
SnapshotJob(a) ==
    IF SnapFresh(a) THEN Done(Begun("snapshot"), TRUE, NoInfo, snaps[a])
    ELSE ReadsToml(a, Begun("snapshot"))

\* withdrawLimits(): sep6Info looks at its own cache before the stellar.toml.
LimitsJob(a) ==
    IF InfoFresh(a) THEN Done(Begun("limits"), TRUE, infos[a].value, NoSnapshot)
    ELSE ReadsToml(a, Begun("limits"))

\* The snapshot that a job ends with is the one that is cached.
HasSnapshot(j) == j.step = "done" /\ j.goal = "snapshot"

\* Nothing of the call is under way.
AllDone(c) == \A a \in Anchors : jobs[c][a].step \in {"idle", "done"}

\* list() starts the snapshots of all anchors at once.
List(c) ==
    LET after == [a \in Anchors |-> SnapshotJob(a)]
    IN  /\ AllDone(c)
        /\ jobs' = [jobs EXCEPT ![c] = after]
        /\ snaps' = [a \in Discovered |->
                      IF HasSnapshot(after[a]) THEN after[a].snap ELSE snaps[a]]
        /\ UNCHANGED <<tomls, infos>>

\* indicativePrice of the anchors of S.
AskPrices(c, S) ==
    /\ S # {}
    /\ S \subseteq Discovered
    /\ AllDone(c)
    /\ jobs' = [jobs EXCEPT ![c] = [a \in Anchors |->
                   IF a \in S THEN ReadsToml(a, Begun("price")) ELSE Idle]]
    /\ UNCHANGED <<tomls, infos, snaps>>

\* sep38Quote.
AskFirm(c, a) ==
    /\ AllDone(c)
    /\ jobs' = [jobs EXCEPT ![c][a] = ReadsToml(a, Begun("firm"))]
    /\ UNCHANGED <<tomls, infos, snaps>>

AskLimits(c, a) ==
    /\ AllDone(c)
    /\ jobs' = [jobs EXCEPT ![c][a] = LimitsJob(a)]
    /\ UNCHANGED <<tomls, infos, snaps>>

\* The call has what it asked for (allSettled, Promise.all).
Collect(c) ==
    /\ AllDone(c)
    /\ jobs' = [jobs EXCEPT ![c] = [a \in Anchors |-> Idle]]
    /\ UNCHANGED <<tomls, infos, snaps>>

----------------------------------------------------------------------------
(* The answers *)

Goes(c, a, j) ==
    /\ jobs' = [jobs EXCEPT ![c][a] = j]
    /\ snaps' = IF a \in Discovered /\ HasSnapshot(j) THEN [snaps EXCEPT ![a] = j.snap] ELSE snaps

TomlArrives(c, a, t) ==
    LET j == jobs[c][a]
    IN  /\ j.step \in {"toml", "retry", "again"}
        /\ tomls' = [tomls EXCEPT ![a] = [value |-> t, age |-> 0]]
        /\ Goes(c, a, IF j.step = "again" THEN Asks(j, "sep38")
                      ELSE AfterToml(a, [j EXCEPT !.toml = t, !.tomlAge = 0]))
        /\ UNCHANGED infos

\* A discovered anchor is asked a second time, and then taken to have none.
TomlRetried(c, a) ==
    /\ a \in Discovered
    /\ jobs[c][a].step = "toml"
    /\ Goes(c, a, Asks(jobs[c][a], "retry"))
    /\ UNCHANGED <<tomls, infos>>

TomlMissed(c, a) ==
    LET j == jobs[c][a]
    IN  /\ a \in Discovered
        /\ j.step = "retry"
        /\ tomls' = [tomls EXCEPT ![a] = [value |-> NoToml, age |-> 0]]
        /\ Goes(c, a, AfterToml(a, [j EXCEPT !.toml = NoToml, !.tomlAge = 0]))
        /\ UNCHANGED infos

\* Every failure of the executable anchor throws: its snapshot is unavailable,
\* and a quote or its limits are refused.
Throws(c, a) ==
    LET j == jobs[c][a]
    IN  /\ a \in Executables
        /\ j.step \in {"toml", "sep6", "firm"}
        /\ Goes(c, a, IF j.goal = "snapshot" THEN Unreachable([j EXCEPT !.tomlAge = 0])
                      ELSE Done(j, FALSE, NoInfo, NoSnapshot))
        /\ UNCHANGED <<tomls, infos>>

InfoArrives(c, a, info) ==
    LET j == jobs[c][a]
    IN  /\ j.step = "sep6"
        /\ infos' = IF a \in Executables THEN [infos EXCEPT ![a] = [value |-> info, age |-> 0]] ELSE infos
        /\ Goes(c, a, AfterInfo(a, [j EXCEPT !.info = info, !.infoAge = 0]))
        /\ UNCHANGED tomls

InfoFails(c, a) ==
    LET j == jobs[c][a]
    IN  /\ a \in Discovered
        /\ j.step = "sep6"
        /\ Goes(c, a, Publishes([j EXCEPT !.infoAge = 0], "UNAVAILABLE", FALSE, j.toml.seps))
        /\ UNCHANGED <<tomls, infos>>

\* The executable anchor keeps its own fiat when SEP-38 lists none.
FiatArrives(c, a, F) ==
    LET j == jobs[c][a]
    IN  /\ j.step = "sep38"
        /\ Goes(c, a, AfterFiat(a, IF a \in Executables /\ F = {} THEN j ELSE [j EXCEPT !.fiat = F]))
        /\ UNCHANGED <<tomls, infos>>

FiatFails(c, a) ==
    LET j == jobs[c][a]
    IN  /\ j.step \in {"again", "sep38"}
        /\ Goes(c, a, AfterFiat(a, j))
        /\ UNCHANGED <<tomls, infos>>

\* /price as a probe: an anchor that prices is QUOTE_ONLY, and every one is healthy,
\* one that refuses (401, 404) and one that cannot be reached alike.
Probes == {"priced", "unpriced"}

StatusOf(outcome) == IF outcome = "priced" THEN "QUOTE_ONLY" ELSE "DISCOVERY_ONLY"

ProbeEnds(c, a, outcome) ==
    LET j == jobs[c][a]
    IN  /\ j.step = "probe"
        /\ Goes(c, a, Publishes(j, StatusOf(outcome), TRUE, j.toml.seps))
        /\ UNCHANGED <<tomls, infos>>

\* The price for a candidate, and the executable anchor's firm quote.
PriceEnds(c, a, ok) ==
    LET j == jobs[c][a]
    IN  /\ j.step \in {"price", "firm"}
        /\ j.step = "firm" => ok
        /\ Goes(c, a, Done(j, ok, NoInfo, NoSnapshot))
        /\ UNCHANGED <<tomls, infos>>

\* AbortSignal.timeout: no request to a discovered anchor outlives FetchTime.
Waiting(c, a) == jobs[c][a].step \notin {"idle", "done"}

\* An entry that has expired is as good as an older one.
Older(entry) == IF entry.age < TTL THEN [entry EXCEPT !.age = @ + 1] ELSE entry

OlderSnapshot(s) ==
    IF s.age < TTL
    THEN [s EXCEPT !.age = @ + 1, !.tomlAge = @ + 1, !.infoAge = @ + 1] ELSE s

\* Of a job, the request under way and what was read before it.
OlderJob(j) ==
    [j EXCEPT !.age = @ + 1,
              !.tomlAge = IF j.goal = "snapshot" /\ j.step \in {"sep6", "sep38", "probe"}
                          THEN @ + 1 ELSE @,
              !.infoAge = IF j.step \in {"sep38", "probe"} THEN @ + 1 ELSE @]

Tick ==
    /\ \A c \in Calls, a \in Discovered : Waiting(c, a) => jobs[c][a].age < FetchTime
    /\ tomls' = [a \in Anchors |-> Older(tomls[a])]
    /\ infos' = [a \in Executables |-> Older(infos[a])]
    /\ snaps' = [a \in Discovered |-> OlderSnapshot(snaps[a])]
    /\ jobs' = [c \in Calls |-> [a \in Anchors |->
                   IF a \in Discovered /\ Waiting(c, a) THEN OlderJob(jobs[c][a])
                   ELSE jobs[c][a]]]

\* Every request ends: by its answer, by its timeout, or, at the executable
\* anchor, by what Throws stands for.
RequestEnds(c, a) ==
    \/ \E t \in Tomls : TomlArrives(c, a, t)
    \/ TomlRetried(c, a)
    \/ TomlMissed(c, a)
    \/ \E info \in Infos : InfoArrives(c, a, info)
    \/ InfoFails(c, a)
    \/ \E F \in Fiats : FiatArrives(c, a, F)
    \/ FiatFails(c, a)
    \/ \E outcome \in Probes : ProbeEnds(c, a, outcome)
    \/ \E ok \in BOOLEAN : PriceEnds(c, a, ok)

Begins(c) ==
    \/ List(c)
    \/ \E S \in SUBSET Discovered : AskPrices(c, S)
    \/ \E a \in Executables : AskFirm(c, a) \/ AskLimits(c, a)

Next ==
    \/ \E c \in Calls : Begins(c) \/ Collect(c)
    \/ \E c \in Calls, a \in Anchors : RequestEnds(c, a)
    \/ \E c \in Calls, a \in Executables : Throws(c, a)
    \/ Tick

Spec == Init /\ [][Next]_vars

----------------------------------------------------------------------------
(* Properties *)

\* Every variable has its type.
TypeOK ==
    /\ tomls \in [Anchors -> [value : Tomls \cup {NoToml}, age : Nat]]
    /\ infos \in [Executables -> [value : Infos \cup {NoInfo}, age : Nat]]
    /\ snaps \in [Discovered -> Snapshot]
    /\ jobs \in [Calls -> [Anchors -> Job]]

\* However calls overlap, what the directory says of a discovered anchor is
\* never older than its caches allow when it is handed over: its rails were
\* read within one age limit and the two requests that follow them, its
\* stellar.toml within two age limits (its own and the snapshot's) and the
\* three requests that follow it (snapshot and getToml of the adapter).
Recent(s) ==
    /\ s.infoAge < TTL + 2 * FetchTime
    /\ s.tomlAge < 2 * TTL - 1 + 3 * FetchTime

ServedIsRecent ==
    \A c \in Calls, a \in Discovered : HasSnapshot(jobs[c][a]) => Recent(jobs[c][a].snap)
=============================================================================
