-------------------------- MODULE ProjectCreation --------------------------
(***************************************************************************)
(* Creating a project from a template, and finishing a registration begun  *)
(* before templates: the durable intent, the repository it owns at the     *)
(* provider, the pinned commit published there, the deploy key, and the    *)
(* registry, over retries, lost answers and restarts. One project name.    *)
(*                                                                         *)
(* Code: sigiledd/src/templates.rs, template_snapshot.rs, github.rs and    *)
(* the creation half of project.rs. The provider is external; other people *)
(* may own, fill or replace the repository of that name.                   *)
(***************************************************************************)
EXTENDS Naturals

CONSTANTS
  Attempts,    \* requests; each is made once
  Actors,      \* who makes them
  Admins,      \* those of them that are administrators
  Selections,  \* templates and refs an actor may ask for
  MaxCommit,   \* bound on the commits a template's ref moves through
  MaxRepos,    \* bound on the repositories that ever had the name
  Legacy,      \* may the registry hold a registration without an intent? values of that
  Nobody       \* the project lock is free

ASSUME CreationAssumption ==
  /\ Nobody \notin Attempts
  /\ Actors # {} /\ Selections # {}
  /\ Admins \subseteq Actors
  /\ MaxCommit \in Nat \ {0}
  /\ MaxRepos \in Nat
  /\ Legacy \subseteq BOOLEAN

VARIABLES
  template,  \* external: the commit a selection resolves to, and its eligibility
  repo,      \* external: the repository of that name at the provider
  keyed,     \* external: the repositories the deploy key was installed in
  key,       \* has the deploy key been generated? it is never replaced
  registry,  \* the creation intent, the registry entry, ProjectCreated events
  saved,     \* the registry of the last snapshot
  attempt,   \* the requests
  working,   \* who owns the project lock
  published, \* history: the pushes that took effect, and the master they went over
  ops        \* operations begun

creationVars ==
  <<template, repo, keyed, key, registry, saved, attempt, working, published, ops>>

-----------------------------------------------------------------------------
Commits == 1..MaxCommit

\* Intent: "op" is the operation, 0 for no intent; snapshot is a function of the
\* operation and the commit, so one flag says whether it was prepared.
Intent == [op: Nat, actor: Actors, sel: Selections, commit: Nat,
           prepared: BOOLEAN, destination: Nat, complete: BOOLEAN]
NoIntent == [op |-> 0, actor |-> CHOOSE a \in Actors : TRUE,
             sel |-> CHOOSE s \in Selections : TRUE, commit |-> 0,
             prepared |-> FALSE, destination |-> 0, complete |-> FALSE]

Registry == [intent: Intent, registered: BOOLEAN, pending: BOOLEAN, created: 0..1]

\* The repository of the name: marker is the operation in its description, 0 for
\* another's; master is absent, that operation's snapshot, or somebody's work; beside
\* says whether there are other branches or tags. A replaced repository keeps its id
\* in the count.
Repo   == [id: Nat, there: BOOLEAN, marker: Nat,
           master: {"none", "snapshot", "theirs"}, beside: BOOLEAN]
NoRepo == [id |-> 0, there |-> FALSE, marker |-> 0, master |-> "none", beside |-> FALSE]

AttemptPcs == {"idle", "prepare", "probe", "post", "bind", "publish", "push", "pushed",
               "verify", "key", "checkout", "register", "legacy", "legacykey", "told", "over"}
Attempt    == [pc: AttemptPcs, intent: Intent]

Steps(r, pc)     == attempt' = [attempt EXCEPT ![r].pc = pc]
StepsWith(r, pc, i) == attempt' = [attempt EXCEPT ![r] = [pc |-> pc, intent |-> i]]

\* A request ends, and its guard with it.
Fails(r) == Steps(r, "over") /\ working' = Nobody

\* save: memory first, then the snapshot, which may be refused.
Saves(r, i, pc) ==
  /\ registry' = [registry EXCEPT !.intent = i]
  /\ \/ saved' = registry' /\ StepsWith(r, pc, i) /\ UNCHANGED working
     \/ UNCHANGED saved /\ Fails(r)

CreationInit ==
  /\ template = [s \in Selections |-> [commit |-> 1, eligible |-> TRUE]]
  /\ repo = NoRepo
  /\ keyed = {}
  /\ key = FALSE
  /\ \E legacy \in Legacy :
       registry = [intent |-> NoIntent, registered |-> legacy, pending |-> legacy,
                   created |-> IF legacy THEN 1 ELSE 0]
  /\ saved = registry
  /\ attempt = [r \in Attempts |-> [pc |-> "idle", intent |-> NoIntent]]
  /\ working = Nobody
  /\ published = {}
  /\ ops = 0

-----------------------------------------------------------------------------
\* create: a registration without an intent goes the old way, any other asks for a
\* selection. create_inner, under the project lock, up to the durable intent: an
\* existing one is resumed by its actor or an administrator, with its selection.
CreateBegin(r, a, s) ==
  /\ attempt[r].pc = "idle"
  /\ working = Nobody
  /\ ~(registry.registered /\ registry.intent.op = 0)
  /\ registry.intent.op # 0 => registry.intent.actor = a \/ a \in Admins
  /\ registry.intent.op # 0 => registry.intent.sel = s
  /\ IF registry.intent.complete
       THEN Steps(r, "told") /\ UNCHANGED <<working, ops>>
       ELSE IF registry.intent.op # 0
       THEN StepsWith(r, "prepare", registry.intent) /\ working' = r /\ UNCHANGED ops
       ELSE /\ template[s].eligible
            /\ ops' = ops + 1
            /\ StepsWith(r, "prepare",
                 [NoIntent EXCEPT !.op = ops + 1, !.actor = a, !.sel = s,
                                  !.commit = template[s].commit])
            /\ working' = r
  /\ UNCHANGED <<template, repo, keyed, key, registry, saved, published>>

\* The source is checked again, its commit fetched into fresh staging and prepared;
\* the same operation and commit give the same snapshot. Then the intent is saved.
Prepare(r) ==
  LET i == attempt[r].intent
  IN  /\ attempt[r].pc = "prepare"
      /\ template[i.sel].eligible
      /\ Saves(r, [i EXCEPT !.prepared = TRUE], "probe")
      /\ UNCHANGED <<template, repo, keyed, key, published, ops>>

\* The operation's marker, and the id if one was bound before.
Owns(i) ==
  /\ repo.there
  /\ repo.marker = i.op
  /\ i.destination \in {0, repo.id}

\* Only a confirmed absence, of a destination never bound, permits creation.
Probe(r) ==
  LET i == attempt[r].intent
  IN  /\ attempt[r].pc = "probe"
      /\ \/ ~repo.there /\ i.destination = 0 /\ Steps(r, "post")
         \/ Owns(i) /\ StepsWith(r, "bind", [i EXCEPT !.destination = repo.id])
      /\ UNCHANGED <<template, repo, keyed, key, registry, saved, working, published, ops>>

\* POST of the repository: refused if somebody was faster; its answer may be lost.
Post(r) ==
  LET i == attempt[r].intent
  IN  /\ attempt[r].pc = "post"
      /\ ~repo.there
      /\ repo.id < MaxRepos
      /\ repo' = [NoRepo EXCEPT !.id = repo.id + 1, !.there = TRUE, !.marker = i.op]
      /\ \/ /\ StepsWith(r, "bind", [i EXCEPT !.destination = repo.id + 1])
            /\ UNCHANGED working
         \/ Fails(r)
      /\ UNCHANGED <<template, keyed, key, registry, saved, published, ops>>

\* The id is saved before anything is written to it.
Bind(r) ==
  /\ attempt[r].pc = "bind"
  /\ Saves(r, attempt[r].intent, "publish")
  /\ UNCHANGED <<template, repo, keyed, key, published, ops>>

\* The snapshot of an intent's operation and commit is in the repository.
PublishedFor(i, id) ==
  \E p \in published : p.id = id /\ p.op = i.op /\ p.commit = i.commit

\* ls-remote of heads and tags shows exactly the snapshot.
ExactlySnapshot(i) ==
  repo.there /\ repo.master = "snapshot" /\ ~repo.beside /\ PublishedFor(i, repo.id)

\* publish looks first: nothing to do if exactly the snapshot is there, a push if
\* nothing is.
Publish(r) ==
  /\ attempt[r].pc = "publish"
  /\ \/ ExactlySnapshot(attempt[r].intent) /\ Steps(r, "verify")
     \/ repo.there /\ repo.master = "none" /\ ~repo.beside /\ Steps(r, "push")
  /\ UNCHANGED <<template, repo, keyed, key, registry, saved, working, published, ops>>

\* The snapshot becomes master; a record of it, and of what it went over.
Pushes(r) ==
  LET i == attempt[r].intent
  IN  /\ repo' = [repo EXCEPT !.master = "snapshot"]
      /\ published' = published \cup
           {[id |-> repo.id, op |-> i.op, commit |-> i.commit, over |-> repo.master]}
      /\ \/ Steps(r, "pushed") /\ UNCHANGED working
         \/ Fails(r)
      /\ UNCHANGED <<template, keyed, key, registry, saved, ops>>

\* Mutant: a push that relies on what the look showed.
PushForced(r) ==
  /\ attempt[r].pc = "push"
  /\ repo.there
  /\ Pushes(r)

\* The push, some time after the look, to whatever repository has the name by then. The
\* lease is of master alone: other refs that appeared since do not stop it. Its result
\* may be lost.
Push(r) ==
  /\ attempt[r].pc = "push"
  /\ repo.there
  /\ repo.master = "none"
  /\ Pushes(r)

\* publish looks again: what else appeared meanwhile ends the request.
Pushed(r) ==
  /\ attempt[r].pc = "pushed"
  /\ ExactlySnapshot(attempt[r].intent)
  /\ Steps(r, "verify")
  /\ UNCHANGED <<template, repo, keyed, key, registry, saved, working, published, ops>>

\* The name still stands for the repository bound; its default branch becomes master.
Verify(r) ==
  /\ attempt[r].pc = "verify"
  /\ repo.there
  /\ repo.id = attempt[r].intent.destination
  /\ Steps(r, "key")
  /\ UNCHANGED <<template, repo, keyed, key, registry, saved, working, published, ops>>

\* generate_deploy_key never replaces a key; add_deploy_key takes an installed one
\* for its own only if it is the same key. Its answer may be lost.
InstallKey(r, from, to) ==
  /\ attempt[r].pc = from
  /\ key' = TRUE
  /\ \/ /\ repo.there
        /\ keyed' = keyed \cup {repo.id}
        /\ Steps(r, to) \/ Steps(r, "over")
     \/ UNCHANGED keyed /\ Steps(r, "over")
  /\ working' = IF attempt'[r].pc = "over" THEN Nobody ELSE working
  /\ UNCHANGED <<template, repo, registry, saved, published, ops>>

\* ensure_mirror, the head compared with the snapshot, the session image built.
Checkout(r) ==
  /\ attempt[r].pc = "checkout"
  /\ repo.there
  /\ repo.master = "snapshot"
  /\ PublishedFor(attempt[r].intent, repo.id)
  /\ Steps(r, "register")
  /\ UNCHANGED <<template, repo, keyed, key, registry, saved, working, published, ops>>

\* The registry entry, the event if it is new, and the completed intent; an
\* unwritten snapshot takes the completion back.
Register(r) ==
  LET i    == attempt[r].intent
      done == [registry EXCEPT !.intent = [i EXCEPT !.complete = TRUE],
                               !.registered = TRUE, !.created = 1]
  IN  /\ attempt[r].pc = "register"
      /\ \/ registry' = done /\ saved' = done /\ Steps(r, "told")
         \/ /\ registry' = [done EXCEPT !.intent.complete = FALSE]
            /\ UNCHANGED saved
            /\ Steps(r, "over")
      /\ working' = Nobody
      /\ UNCHANGED <<template, repo, keyed, key, published, ops>>

\* create_or_adopt: generate from the template, or adopt what has the name as it is.
CreateOrAdopt ==
  \/ repo.there /\ UNCHANGED repo
  \/ /\ ~repo.there
     /\ repo.id < MaxRepos
     /\ repo' = [NoRepo EXCEPT !.id = repo.id + 1, !.there = TRUE, !.master = "theirs"]

\* create_legacy: the registration is pending until its key is installed.
LegacyBegin(r) ==
  /\ attempt[r].pc = "idle"
  /\ working = Nobody
  /\ registry.registered /\ registry.intent.op = 0
  /\ registry.pending
  /\ CreateOrAdopt
  /\ registry' = [registry EXCEPT !.pending = TRUE]
  /\ \/ saved' = registry' /\ Steps(r, "legacykey") /\ working' = r
     \/ UNCHANGED saved /\ Steps(r, "over") /\ UNCHANGED working
  /\ UNCHANGED <<template, keyed, key, published, ops>>

LegacyEnds(r) ==
  /\ attempt[r].pc = "legacy"
  /\ \/ /\ registry' = [registry EXCEPT !.pending = FALSE]
        /\ saved' = registry'
        /\ Steps(r, "told")
     \/ UNCHANGED <<registry, saved>> /\ Steps(r, "over")
  /\ working' = Nobody
  /\ UNCHANGED <<template, repo, keyed, key, published, ops>>

\* A call refused, a check failed or a worker interrupted, anywhere: the request ends
\* and what it did stays.
AttemptFails(r) ==
  /\ attempt[r].pc \notin {"idle", "told", "over"}
  /\ Fails(r)
  /\ UNCHANGED <<template, repo, keyed, key, registry, saved, published, ops>>

\* designate, and the template's branch moving on.
TemplateChanges(s) ==
  /\ \/ template' = [template EXCEPT ![s].eligible = ~@]
     \/ template[s].commit < MaxCommit /\ template' = [template EXCEPT ![s].commit = @ + 1]
  /\ UNCHANGED <<repo, keyed, key, registry, saved, attempt, working, published, ops>>

\* External: others create the repository, change its refs, or delete it.
OthersCreate ==
  /\ ~repo.there
  /\ repo.id < MaxRepos
  /\ \E master \in {"none", "theirs"}, beside \in BOOLEAN :
       repo' = [id |-> repo.id + 1, there |-> TRUE, marker |-> 0,
                master |-> master, beside |-> beside]
  /\ UNCHANGED <<template, keyed, key, registry, saved, attempt, working, published, ops>>

OthersPush ==
  /\ repo.there
  /\ \/ \E master \in {"none", "theirs"} : repo' = [repo EXCEPT !.master = master]
     \/ \E beside \in BOOLEAN : repo' = [repo EXCEPT !.beside = beside]
  /\ UNCHANGED <<template, keyed, key, registry, saved, attempt, working, published, ops>>

OthersDelete ==
  /\ repo.there
  /\ repo' = [NoRepo EXCEPT !.id = repo.id]
  /\ UNCHANGED <<template, keyed, key, registry, saved, attempt, working, published, ops>>

CreationByOthers ==
  /\ saved' = registry
  /\ UNCHANGED <<template, repo, keyed, key, registry, attempt, working, published, ops>>

CreationRestart ==
  /\ registry' = saved
  /\ attempt' = [r \in Attempts |->
       IF attempt[r].pc \in {"idle", "told"} THEN attempt[r] ELSE [attempt[r] EXCEPT !.pc = "over"]]
  /\ working' = Nobody
  /\ UNCHANGED <<template, repo, keyed, key, saved, published, ops>>

AttemptRuns(r) ==
  \/ Prepare(r) \/ Probe(r) \/ Post(r) \/ Bind(r) \/ Publish(r)
  \/ Push(r) \/ Pushed(r) \/ Verify(r)
  \/ InstallKey(r, "key", "checkout") \/ Checkout(r) \/ Register(r)
  \/ InstallKey(r, "legacykey", "legacy") \/ LegacyEnds(r) \/ AttemptFails(r)

CreationNext ==
  \/ \E r \in Attempts :
       \/ \E a \in Actors, s \in Selections : CreateBegin(r, a, s)
       \/ LegacyBegin(r)
       \/ AttemptRuns(r)
  \/ \E s \in Selections : TemplateChanges(s)
  \/ OthersCreate \/ OthersPush \/ OthersDelete
  \/ CreationByOthers
  \/ CreationRestart

CreationSpec == CreationInit /\ [][CreationNext]_creationVars

-----------------------------------------------------------------------------
(* Properties *)

CreationTypeOK ==
  /\ template \in [Selections -> [commit: Commits, eligible: BOOLEAN]]
  /\ repo \in Repo
  /\ keyed \subseteq Nat
  /\ key \in BOOLEAN
  /\ registry \in Registry /\ saved \in Registry
  /\ attempt \in [Attempts -> Attempt]
  /\ working \in Attempts \cup {Nobody}
  /\ published \subseteq [id: Nat, op: Nat, commit: Nat,
                      over: {"none", "snapshot", "theirs"}]
  /\ ops \in Nat

\* "incumbent repository preserved", "no files overwritten": whatever repository is
\* created, replaced or filled by others while a request runs, between the look and the
\* push or between retries, the program only ever pushed where there was no master.
\* Other refs stay as they are, but the lease lets the push go on beside them.
NothingOverwritten == \A p \in published : p.over = "none"

\* A repository that carries an operation's marker can be resumed: its intent is on
\* disk, with the snapshot to publish, so no crash or lost answer orphans it and no
\* retry makes a second one.
OwnRepoResumable ==
  repo.there /\ repo.marker # 0 =>
    saved.intent.op = repo.marker /\ saved.intent.prepared

\* One operation publishes one commit, whatever its template's ref does meanwhile.
OneCommitPerOperation ==
  \A p, q \in published : p.op = q.op => p.commit = q.commit

\* A creation reported complete is whole, on disk as in memory: registered, announced
\* once, its commit pushed and its key installed in the repository it names.
CompleteIsWhole ==
  \A state \in {registry, saved} :
    state.intent.complete =>
      /\ state.registered /\ state.created = 1
      /\ PublishedFor(state.intent, state.intent.destination)
      /\ state.intent.destination \in keyed

\* What retries, crashes and lost answers leave of a creation can be relied upon.
CreationSound ==
  NothingOverwritten /\ OwnRepoResumable /\ OneCommitPerOperation /\ CompleteIsWhole

=============================================================================
