-------------------------------- MODULE Apps --------------------------------
(***************************************************************************)
(* One app: its record, its container, upgrades that overlap, the build    *)
(* that runs behind the answer, and the hydration after a restart.         *)
(*                                                                         *)
(* Code: sigiledd/src/apps.rs. Docker is external: images and the one      *)
(* container of the app's name.                                            *)
(***************************************************************************)
EXTENDS Naturals

CONSTANTS
  Upgrades,   \* upgrade requests; each is made once
  LastSha,    \* bound on the commits master moves through
  NoUpgrade   \* the mirror is free

ASSUME AppsAssumption ==
  /\ NoUpgrade \notin Upgrades
  /\ LastSha \in Nat \ {0}

VARIABLES
  master,     \* the project's master, as a number
  images,     \* external: the image tags that exist, by sha
  container,  \* external: the app's container
  app,        \* AppsState: the record
  appDisk,    \* the record of the last snapshot
  upgrade,    \* the upgrade handlers and the builds they spawned
  mirror      \* who owns the project lock

appVars == <<master, images, container, app, appDisk, upgrade, mirror>>

-----------------------------------------------------------------------------
NoSha == 0
Shas  == 0..LastSha

AppRecord == [sha: Shas, building: BOOLEAN, build: [sha: Shas, ok: BOOLEAN]]
Container == [sha: Shas, up: BOOLEAN]
Absent    == [sha |-> NoSha, up |-> FALSE]

UpgradePcs == {"idle", "resolving", "locked", "building", "built", "over"}
Upgrade    == [pc: UpgradePcs, sha: Shas, ok: BOOLEAN]

\* AppState::persist
AppPersisted == appDisk' \in {app', appDisk}

\* AppsState::hydrate: no build survives the process that ran it.
AppHydrated(rec) ==
  IF rec.building THEN [rec EXCEPT !.building = FALSE,
                                   !.build = [sha |-> rec.sha, ok |-> FALSE]]
                  ELSE rec

Goes(u, pc) == upgrade' = [upgrade EXCEPT ![u].pc = pc]

AppsInit ==
  /\ master = 1
  /\ images = {}
  /\ container = Absent
  /\ app = [sha |-> NoSha, building |-> FALSE, build |-> [sha |-> NoSha, ok |-> FALSE]]
  /\ appDisk = app
  /\ upgrade = [u \in Upgrades |-> [pc |-> "idle", sha |-> NoSha, ok |-> FALSE]]
  /\ mirror = NoUpgrade

-----------------------------------------------------------------------------
\* action: start, stop and restart are one docker call, refused without a container.
Verb ==
  /\ container # Absent
  /\ container' \in {[container EXCEPT !.up = up] : up \in BOOLEAN}
  /\ UNCHANGED <<master, images, app, appDisk, upgrade, mirror>>

\* upgrade looks at the latch, and goes on to resolve the declaring project.
UpgradeBegin(u) ==
  /\ upgrade[u].pc = "idle"
  /\ Goes(u, IF app.building THEN "over" ELSE "resolving")
  /\ UNCHANGED <<master, images, container, app, appDisk, mirror>>

\* resolve: no project declares the app.
UpgradeUnresolved(u) ==
  /\ upgrade[u].pc = "resolving"
  /\ Goes(u, "over")
  /\ UNCHANGED <<master, images, container, app, appDisk, mirror>>

\* The project lock, the mirror, the sha of master; an unusable mirror ends it.
UpgradeLocks(u) ==
  /\ upgrade[u].pc = "resolving"
  /\ mirror = NoUpgrade
  /\ \/ /\ mirror' = u
        /\ upgrade' = [upgrade EXCEPT ![u].pc = "locked", ![u].sha = master]
     \/ Goes(u, "over") /\ UNCHANGED mirror
  /\ UNCHANGED <<master, images, container, app, appDisk>>

\* recreate: rm -f, create, start; each may be the last that worked.
Recreated(sha, ok) ==
  IF ok THEN container' = [sha |-> sha, up |-> TRUE]
        ELSE container' \in {Absent, [sha |-> sha, up |-> FALSE]}

\* The image exists: recreate within the request. A failure leaves the record alone.
UpgradeRecreates(u) ==
  /\ upgrade[u].pc = "locked"
  /\ upgrade[u].sha \in images
  /\ \/ /\ Recreated(upgrade[u].sha, TRUE)
        /\ app' = [app EXCEPT !.sha = upgrade[u].sha, !.building = FALSE]
        /\ AppPersisted
     \/ /\ Recreated(upgrade[u].sha, FALSE)
        /\ UNCHANGED <<app, appDisk>>
  /\ mirror' = NoUpgrade
  /\ Goes(u, "over")
  /\ UNCHANGED <<master, images>>

\* A new sha: set the latch, persist, answer 202; the build takes the lock along.
UpgradeBuilds(u) ==
  /\ upgrade[u].pc = "locked"
  /\ upgrade[u].sha \notin images
  /\ app' = [app EXCEPT !.sha = upgrade[u].sha, !.building = TRUE]
  /\ AppPersisted
  /\ Goes(u, "building")
  /\ UNCHANGED <<master, images, container, mirror>>

\* The blocking closure: build, then recreate; its end frees the project lock.
BuildEnds(u) ==
  /\ upgrade[u].pc = "building"
  /\ mirror' = NoUpgrade
  /\ \E ok \in BOOLEAN : upgrade' = [upgrade EXCEPT ![u].pc = "built", ![u].ok = ok]
  /\ \/ ~upgrade'[u].ok /\ UNCHANGED <<images, container>>
     \/ /\ images' = images \cup {upgrade[u].sha}
        /\ Recreated(upgrade[u].sha, upgrade'[u].ok)
  /\ UNCHANGED <<master, app, appDisk>>

\* Mutant: a failed build leaves the latch.
BuildSettlesOk(u) ==
  /\ upgrade[u].pc = "built"
  /\ app' = [sha |-> upgrade[u].sha, building |-> ~upgrade[u].ok,
             build |-> [sha |-> upgrade[u].sha, ok |-> upgrade[u].ok]]
  /\ AppPersisted
  /\ Goes(u, "over")
  /\ UNCHANGED <<master, images, container, mirror>>

\* The task that awaited the closure writes the whole record.
BuildSettles(u) ==
  /\ upgrade[u].pc = "built"
  /\ app' = [sha |-> upgrade[u].sha, building |-> FALSE,
             build |-> [sha |-> upgrade[u].sha, ok |-> upgrade[u].ok]]
  /\ AppPersisted
  /\ Goes(u, "over")
  /\ UNCHANGED <<master, images, container, mirror>>

MasterMoves ==
  /\ master < LastSha
  /\ master' = master + 1
  /\ UNCHANGED <<images, container, app, appDisk, upgrade, mirror>>

AppByOthers ==
  /\ appDisk' = app
  /\ UNCHANGED <<master, images, container, app, upgrade, mirror>>

\* A restart: handlers, tasks and the lock go; a build may have left its image.
AppsRestart ==
  /\ app' = AppHydrated(appDisk)
  /\ images' \in {images, images \cup {upgrade[u].sha : u \in
                                         {v \in Upgrades : upgrade[v].pc = "building"}}}
  /\ upgrade' = [u \in Upgrades |-> IF upgrade[u].pc = "idle" THEN upgrade[u]
                                    ELSE [upgrade[u] EXCEPT !.pc = "over"]]
  /\ mirror' = NoUpgrade
  /\ UNCHANGED <<master, container, appDisk>>

UpgradeRuns(u) ==
  \/ UpgradeUnresolved(u) \/ UpgradeLocks(u) \/ UpgradeRecreates(u)
  \/ UpgradeBuilds(u) \/ BuildEnds(u) \/ BuildSettles(u)

AppsNext ==
  \/ \E u \in Upgrades : UpgradeBegin(u) \/ UpgradeRuns(u)
  \/ Verb
  \/ MasterMoves
  \/ AppByOthers
  \/ AppsRestart

AppsSpec == AppsInit /\ [][AppsNext]_appVars

-----------------------------------------------------------------------------
(* Properties *)

AppsTypeOK ==
  /\ master \in Shas \ {NoSha}
  /\ images \subseteq Shas \ {NoSha}
  /\ container \in Container
  /\ app \in AppRecord
  /\ appDisk \in AppRecord
  /\ upgrade \in [Upgrades -> Upgrade]
  /\ mirror \in Upgrades \cup {NoUpgrade}

\* Whoever reads "building" is told to poll, and is refused an upgrade meanwhile: a
\* task of this process is behind the flag that will clear it, whatever upgrades
\* passed the latch together, builds failed or restarts came between.
LatchIsServed ==
  app.building => \E u \in Upgrades : upgrade[u].pc \in {"building", "built"}

=============================================================================
