------------------------------ MODULE IdeAgent ------------------------------
(***************************************************************************)
(* The agent of one generation of a workspace: it owns the editor's        *)
(* process group, publishes its preferences, and checkpoints the work onto *)
(* the session branch, while the editor and other programs write, stage,   *)
(* commit and push in the same checkout, and the agent itself may be       *)
(* restarted at any step.                                                  *)
(*                                                                         *)
(* Code: ide-agent/src/main.rs, durable.rs, process.rs and profile.rs.     *)
(* Whether a user's command runs is Activity's; here any call may find so. *)
(***************************************************************************)
EXTENDS Naturals, Sequences

CONSTANTS
  MaxContent,  \* bound on the versions of the files
  MaxCommits,  \* bound on the commits of the branch
  MaxProfile   \* bound on the versions of the preferences

ASSUME AgentAssumption ==
  MaxContent \in Nat /\ MaxCommits \in Nat \ {0} /\ MaxProfile \in Nat

VARIABLES
  editor,   \* the process the agent owns, .editor-running, what really runs
  profile,  \* the preferences, .snapshot-pending, the snapshot published last
  duty,     \* the task that holds the process lock
  work,     \* files, index, session branch, remote branch
  saving,   \* the task that holds the sync lock
  answers   \* history: is the last stop still true? the answers of finish

agentVars == <<editor, profile, duty, work, saving, answers>>

-----------------------------------------------------------------------------
\* owned: Agent.process; leader: the editor's first process; groups: process groups of
\* an editor with anything in them.
Editor  == [owned: BOOLEAN, marker: BOOLEAN, leader: BOOLEAN, groups: 0..2]
Profile == [live: 0..MaxProfile, pending: BOOLEAN, snapshot: 0..MaxProfile]

\* The session branch is the sequence of its commits' trees; a commit is its place.
Work == [content: 0..MaxContent, index: 0..MaxContent,
         commits: Seq(0..MaxContent), remote: 0..MaxCommits]

DutyPcs == {"idle", "reap", "prepare", "mark", "spawn", "health", "quit", "absent",
            "prefs", "finish"}
Duty    == [pc: DutyPcs, finish: BOOLEAN]
Rest0   == [pc |-> "idle", finish |-> FALSE]

SavePcs == {"idle", "status", "add", "tree", "ref", "head", "push", "pushed", "clean",
            "last", "end"}
Saving  == [pc: SavePcs, head: 0..MaxCommits, tree: 0..MaxContent, commit: BOOLEAN,
            clean: BOOLEAN]
NoSave  == [pc |-> "idle", head |-> 0, tree |-> 0, commit |-> FALSE, clean |-> FALSE]

Tip      == Len(work.commits)
TreeOf(c) == work.commits[c]
Clean    == work.content = work.index /\ work.index = TreeOf(Tip)

AgentInit ==
  /\ editor = [owned |-> FALSE, marker |-> FALSE, leader |-> FALSE, groups |-> 0]
  /\ profile = [live |-> 0, pending |-> FALSE, snapshot |-> 0]
  /\ duty = Rest0
  /\ work = [content |-> 0, index |-> 0, commits |-> <<0>>, remote |-> 1]
  /\ saving = NoSave
  /\ answers = [stopped |-> FALSE, finished |-> {}]

-----------------------------------------------------------------------------
(* start_inner *)

Goes(pc) == duty' = [duty EXCEPT !.pc = pc]
DutyEnds == duty' = Rest0
NothingSaved == UNCHANGED <<work, saving>>

\* An editor of an earlier agent is not adopted; a running one will do; what is left of
\* a dead one is stopped first.
StartBegins ==
  /\ duty.pc = "idle"
  /\ ~(~editor.owned /\ editor.marker)
  /\ ~(editor.owned /\ editor.leader)
  /\ Goes(IF editor.owned THEN "reap" ELSE "prepare")
  /\ UNCHANGED <<editor, profile, answers>> /\ NothingSaved

\* Process::stop: the whole group is killed, and found empty before its leader is
\* reaped; only then does the marker go.
Stopped == [owned |-> FALSE, marker |-> FALSE, leader |-> FALSE,
            groups |-> editor.groups - 1]

StartReaps ==
  /\ duty.pc = "reap"
  /\ \/ editor' = Stopped /\ Goes("prepare")
     \/ UNCHANGED editor /\ DutyEnds
  /\ UNCHANGED <<profile, answers>> /\ NothingSaved

\* The port refuses connections; seed; mark_pending.
StartPrepares ==
  /\ duty.pc = "prepare"
  /\ ~editor.leader
  /\ profile' = [profile EXCEPT !.pending = TRUE]
  /\ Goes("mark")
  /\ UNCHANGED <<editor, answers>> /\ NothingSaved

StartMarks ==
  /\ duty.pc = "mark"
  /\ editor' = [editor EXCEPT !.marker = TRUE]
  /\ Goes("spawn")
  /\ UNCHANGED <<profile, answers>> /\ NothingSaved

StartSpawns ==
  /\ duty.pc = "spawn"
  /\ \/ /\ editor' = [editor EXCEPT !.leader = TRUE, !.groups = @ + 1]
        /\ answers' = [answers EXCEPT !.stopped = FALSE]
        /\ Goes("health")
     \/ /\ editor' \in {[editor EXCEPT !.marker = FALSE], editor}
        /\ DutyEnds
        /\ UNCHANGED answers
  /\ UNCHANGED profile /\ NothingSaved

\* It answers within fifteen seconds, or is stopped; a stop that is not confirmed
\* leaves it owned.
StartAnswers ==
  /\ duty.pc = "health"
  /\ \/ editor.leader /\ editor' = [editor EXCEPT !.owned = TRUE]
     \/ editor' = Stopped
     \/ editor' = [editor EXCEPT !.owned = TRUE]
  /\ DutyEnds
  /\ UNCHANGED <<profile, answers>> /\ NothingSaved

-----------------------------------------------------------------------------
(* stop_locked, for stop_inner and finish_action *)

\* No command of the user runs. Its preferences are due from now on; without a process,
\* a marker says that somebody else's editor may run.
StopBegins(finish) ==
  /\ duty.pc = "idle"
  /\ ~(~editor.owned /\ editor.marker)
  /\ profile' = [profile EXCEPT !.pending = @ \/ editor.owned]
  /\ duty' = [pc |-> "quit", finish |-> finish]
  /\ UNCHANGED <<editor, answers>> /\ NothingSaved

StopKills ==
  /\ duty.pc = "quit"
  /\ IF editor.owned
       THEN \/ editor' = Stopped /\ Goes("absent")
            \/ UNCHANGED editor /\ DutyEnds
       ELSE UNCHANGED editor /\ Goes("absent")
  /\ UNCHANGED <<profile, answers>> /\ NothingSaved

\* Only a refused connection confirms that no editor listens.
StopConfirms ==
  /\ duty.pc = "absent"
  /\ \/ ~editor.leader /\ Goes("prefs")
     \/ DutyEnds
  /\ UNCHANGED <<editor, profile, answers>> /\ NothingSaved

\* save_pending: the snapshot, its pointer, then the mark; the last may fail alone.
StopSaves ==
  /\ duty.pc = "prefs"
  /\ \/ /\ profile' = [profile EXCEPT !.pending = FALSE,
                         !.snapshot = IF profile.pending THEN profile.live ELSE @]
        /\ IF duty.finish THEN Goes("finish") ELSE DutyEnds
        /\ answers' = [answers EXCEPT !.stopped = TRUE]
     \/ /\ profile.pending
        /\ profile' \in {profile, [profile EXCEPT !.snapshot = profile.live]}
        /\ DutyEnds
        /\ UNCHANGED answers
  /\ UNCHANGED editor /\ NothingSaved

-----------------------------------------------------------------------------
(* checkpoint_mode *)

SaveStep(pc, next) == saving.pc = pc /\ saving' = [saving EXCEPT !.pc = next]
SaveOnly           == UNCHANGED <<editor, profile, duty, answers>>
SaveKeeps          == UNCHANGED <<work, editor, profile, duty, answers>>

\* validate: nobody holds a Git lock, branch and remote are the session's; HEAD.
Validated(head) == Tip = head

\* /checkpoint, when no command runs; the background push, which commits nothing, asked
\* for while an editor was owned; or finish, which must find the work clean.
SaveBegins(commit, clean) ==
  /\ saving.pc = "idle"
  /\ clean => duty.pc = "finish" /\ commit
  /\ saving' = [pc |-> IF commit THEN "status" ELSE "head", head |-> Tip, tree |-> 0,
                commit |-> commit, clean |-> clean]
  /\ SaveKeeps

SaveStatus ==
  /\ SaveStep("status", IF Clean THEN "head" ELSE "add")
  /\ SaveKeeps

SaveAdds ==
  /\ SaveStep("add", "tree")
  /\ work' = [work EXCEPT !.index = work.content]
  /\ SaveOnly

\* write-tree and commit-tree, between two looks at HEAD.
SaveTrees ==
  /\ saving.pc = "tree"
  /\ Validated(saving.head)
  /\ saving' = [saving EXCEPT !.pc = "ref", !.tree = work.index]
  /\ SaveKeeps

\* update-ref: compare-and-swap.
SaveMoves ==
  /\ Validated(saving.head)
  /\ Tip < MaxCommits
  /\ SaveStep("ref", "head")
  /\ work' = [work EXCEPT !.commits = Append(@, saving.tree)]
  /\ SaveOnly

SaveLooks ==
  /\ saving.pc = "head"
  /\ saving' = [saving EXCEPT !.pc = "push", !.head = Tip]
  /\ SaveKeeps

\* That commit, to that branch, never by force.
SavePushes ==
  /\ work.remote <= saving.head
  /\ SaveStep("push", "pushed")
  /\ work' = [work EXCEPT !.remote = saving.head]
  /\ SaveOnly

SaveChecks ==
  /\ Validated(saving.head)
  /\ SaveStep("pushed", IF saving.clean THEN "clean" ELSE "end")
  /\ SaveKeeps

\* require_clean: this is what finish answers for, if HEAD is still the same after it.
SaveFindsClean ==
  /\ Clean
  /\ saving.pc = "clean"
  /\ saving' = [saving EXCEPT !.pc = "last", !.tree = work.content]
  /\ SaveKeeps

\* Mutant: HEAD is not looked at again.
SaveLastUnasked ==
  /\ SaveStep("last", "end")
  /\ SaveKeeps

SaveLast ==
  /\ Validated(saving.head)
  /\ SaveStep("last", "end")
  /\ SaveKeeps

\* dirty once more; what finish says.
SaveEnds ==
  /\ saving.pc = "end"
  /\ saving' = NoSave
  /\ answers' = [answers EXCEPT !.finished = @ \cup
       IF saving.clean /\ Clean
         THEN {[sha |-> saving.head, tree |-> saving.tree, quiet |-> editor.groups = 0]}
         ELSE {}]
  /\ IF saving.clean THEN DutyEnds ELSE UNCHANGED duty
  /\ UNCHANGED <<editor, profile, work>>

\* HEAD moved, a Git lock is held, Git or the push fails: what was done stays.
SaveFails ==
  /\ saving.pc \notin {"idle", "end"}
  /\ saving' = NoSave
  /\ IF saving.clean THEN DutyEnds ELSE UNCHANGED duty
  /\ UNCHANGED <<editor, profile, work, answers>>

-----------------------------------------------------------------------------
\* What the rest of a start or stop fails at, before it reaches a process.
DutyFails ==
  /\ duty.pc \in {"prepare", "mark", "spawn", "absent"}
  /\ DutyEnds
  /\ UNCHANGED <<editor, profile, answers>> /\ NothingSaved

\* The agent restarts: it owns nothing and knows of no save; processes and files stay.
AgentRestart ==
  /\ editor' = [editor EXCEPT !.owned = FALSE]
  /\ duty' = Rest0
  /\ saving' = NoSave
  /\ UNCHANGED <<profile, work, answers>>

EditorDies ==
  /\ editor.leader
  /\ editor' = [editor EXCEPT !.leader = FALSE]
  /\ UNCHANGED <<profile, duty, answers>> /\ NothingSaved

ProfileChanges ==
  /\ editor.groups > 0
  /\ profile.live < MaxProfile
  /\ profile' = [profile EXCEPT !.live = @ + 1]
  /\ UNCHANGED <<editor, duty, answers>> /\ NothingSaved

\* The editor, its terminals, or the driver's programs.
Writes ==
  /\ \/ /\ work.content < MaxContent
        /\ work' = [work EXCEPT !.content = @ + 1]
     \/ work' = [work EXCEPT !.index = work.content]
     \/ /\ Tip < MaxCommits
        /\ work' = [work EXCEPT !.commits = Append(@, work.index)]
     \/ work' = [work EXCEPT !.remote = Tip]
  /\ UNCHANGED <<editor, profile, duty, saving, answers>>

DutyRuns ==
  \/ StartBegins \/ StartReaps \/ StartPrepares \/ StartMarks \/ StartSpawns \/ StartAnswers
  \/ StopKills \/ StopConfirms \/ StopSaves \/ DutyFails

SaveRuns ==
  \/ SaveStatus \/ SaveAdds \/ SaveTrees \/ SaveMoves \/ SaveLooks \/ SavePushes
  \/ SaveChecks \/ SaveFindsClean \/ SaveLast \/ SaveEnds \/ SaveFails

AgentNext ==
  \/ DutyRuns \/ \E finish \in BOOLEAN : StopBegins(finish)
  \/ SaveRuns \/ \E commit, clean \in BOOLEAN : SaveBegins(commit, clean)
  \/ AgentRestart \/ EditorDies \/ ProfileChanges \/ Writes

AgentSpec == AgentInit /\ [][AgentNext]_agentVars

-----------------------------------------------------------------------------
(* Properties *)

AgentTypeOK ==
  /\ editor \in Editor
  /\ profile \in Profile
  /\ duty \in Duty
  /\ work \in Work
  /\ saving \in Saving
  /\ answers \in [stopped: BOOLEAN, finished: SUBSET
                    [sha: 0..MaxCommits, tree: 0..MaxContent, quiet: BOOLEAN]]

\* "A live listener after owned cleanup (or a companion restart) is not ours to adopt":
\* whatever is left of an editor is marked as such on disk, and is the only one.
OneEditor ==
  /\ editor.groups <= 1
  /\ editor.groups > 0 => editor.marker

\* "Publication failure must never become successful merely because no process
\* remains": an editor reported stopped is gone, its preferences published.
StoppedIsSaved ==
  answers.stopped => editor.groups = 0 /\ profile.snapshot = profile.live

\* Work reported finished is the work there was, on the remote branch, with no editor
\* left to change it, whoever wrote and committed during the checkpoint.
FinishedIsPushed ==
  \A f \in answers.finished : f.quiet /\ TreeOf(f.sha) = f.tree /\ f.sha <= work.remote

AgentSound == OneEditor /\ StoppedIsSaved /\ FinishedIsPushed

=============================================================================
