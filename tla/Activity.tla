------------------------------ MODULE Activity ------------------------------
(***************************************************************************)
(* How the agent in a workspace knows whether a user's command runs: the   *)
(* editor's extension sends numbered snapshots of its terminals, which are *)
(* lost, repeated and reordered, within limits on terminals and commands,  *)
(* over reloads of the extension and restarts of the editor; the agent     *)
(* keeps the newest evidence and calls everything else busy. Only an agent *)
(* that is not busy stops the editor, commits, or applies a handoff.       *)
(*                                                                         *)
(* Code: ide-agent/activity/extension.js and ide-agent/src/activity.rs.    *)
(* The terminals are external: a shell runs one command at a time, tells   *)
(* of it only once integrated, and is integrated at a prompt.              *)
(***************************************************************************)
EXTENDS Naturals, FiniteSets

CONSTANTS
  Terminals,       \* terminals that may be opened
  TerminalLimit,   \* how many the extension follows (256)
  ExecutionLimit,  \* how many commands at a time (4096)
  LastInstance,    \* bound on the lives of the extension
  LastPacket,      \* bound on the snapshots of one life
  MaxDelay         \* bound on the snapshots under way

ASSUME ActivityAssumption ==
  /\ TerminalLimit \in Nat /\ ExecutionLimit \in Nat
  /\ LastInstance \in Nat \ {0} /\ LastPacket \in Nat \ {0}
  /\ MaxDelay \in Nat \ {0}

VARIABLES
  shell,     \* external: the terminals
  extension, \* the extension's instance and what it follows
  sent,      \* the snapshots sent, any of which may arrive at any time, or never
  observed,  \* Activity
  heard      \* history: what arrived since the editor started

activityVars == <<shell, extension, sent, observed, heard>>

-----------------------------------------------------------------------------
Shell == [open: SUBSET Terminals, integrated: SUBSET Terminals, running: SUBSET Terminals]
NoShell == [open |-> {}, integrated |-> {}, running |-> {}]

\* A command is named for its terminal. active and unobserved are the extension's;
\* over the terminals with a command beyond the limit, lost: too many of those.
Extension == [instance: 0..LastInstance, sequence: 0..LastPacket, active: SUBSET Terminals,
              unobserved: SUBSET Terminals, overflow: BOOLEAN, over: SUBSET Terminals,
              lost: BOOLEAN]

\* truth is no part of what is sent: the commands that ran when it was.
Packet   == [instance: 1..LastInstance, sequence: 1..LastPacket, overflow: BOOLEAN,
             integrated: BOOLEAN, executions: SUBSET Terminals, truth: SUBSET Terminals]
Older(p, q) == \/ p.instance < q.instance
               \/ p.instance = q.instance /\ p.sequence < q.sequence

\* One more snapshot under way; the oldest has arrived or is lost by then.
Sending(p) == {q \in sent : Cardinality({r \in sent : Older(q, r)}) + 1 < MaxDelay} \cup {p}

Observed == [required: BOOLEAN, observer: 0..LastInstance, sequence: 0..LastPacket,
             age: {"missing", "fresh", "stale"}, unsupported: BOOLEAN, conflict: BOOLEAN,
             incomplete: BOOLEAN, commands: SUBSET Terminals]

\* observation, busy
Ready == /\ ~observed.conflict /\ ~observed.incomplete /\ ~observed.unsupported
         /\ observed.age = "fresh"
Busy  == observed.commands # {} \/ (observed.required /\ ~Ready)

\* observe: a snapshot of the terminals s, by the extension x.
Observe(x, s) ==
  LET full == Cardinality(s.open) > TerminalLimit
      y == [x EXCEPT !.sequence = @ + 1,
                     !.overflow = full,
                     !.unobserved = IF x.overflow /\ ~full THEN @ \cup s.open ELSE @]
      beyond == full \/ y.over # {} \/ y.lost
  IN  /\ x.sequence < LastPacket
      /\ extension' = y
      /\ shell' = s
      /\ sent' = Sending(
           [instance |-> y.instance, sequence |-> y.sequence, overflow |-> beyond,
            integrated |-> s.open \subseteq s.integrated \ y.unobserved,
            executions |-> IF beyond THEN {} ELSE y.active, truth |-> s.running])

\* activate: terminals it finds may be running anything.
Activated(n, s) ==
  LET full == Cardinality(s.open) > TerminalLimit
  IN  [instance |-> n, sequence |-> 0, active |-> {}, overflow |-> full, over |-> {},
       lost |-> FALSE, unobserved |-> IF full THEN {} ELSE s.open]

ActivityInit ==
  /\ shell = NoShell
  /\ extension = [Activated(0, NoShell) EXCEPT !.sequence = LastPacket]
  /\ sent = {}
  /\ observed = [required |-> FALSE, observer |-> 0, sequence |-> 0, age |-> "missing",
                 unsupported |-> FALSE, conflict |-> FALSE, incomplete |-> FALSE,
                 commands |-> {}]
  /\ heard = [instances |-> {}, sequence |-> 0, truth |-> {}]

-----------------------------------------------------------------------------
(* The extension *)

ExtensionReloads ==
  /\ extension.instance \in 1..(LastInstance - 1)
  /\ Observe(Activated(extension.instance + 1, shell), shell)
  /\ UNCHANGED <<observed, heard>>

TimerFires ==
  /\ extension.instance # 0
  /\ Observe(extension, shell)
  /\ UNCHANGED <<observed, heard>>

TerminalOpens(t) ==
  /\ t \notin shell.open
  /\ \E at \in {{}, {t}} :
       Observe(extension, [shell EXCEPT !.open = @ \cup {t}, !.integrated = @ \cup at])
  /\ UNCHANGED <<observed, heard>>

TerminalCloses(t) ==
  /\ t \in shell.open
  /\ Observe([extension EXCEPT !.active = @ \ {t}, !.unobserved = @ \ {t}, !.over = @ \ {t}],
             [open |-> shell.open \ {t}, integrated |-> shell.integrated \ {t},
              running |-> shell.running \ {t}])
  /\ UNCHANGED <<observed, heard>>

ShellIntegrates(t) ==
  /\ t \in shell.open \ (shell.integrated \cup shell.running)
  /\ Observe(extension, [shell EXCEPT !.integrated = @ \cup {t}])
  /\ UNCHANGED <<observed, heard>>

\* A command of a shell that is not integrated: nobody tells.
RunsUnseen(t) ==
  /\ t \in shell.open \ (shell.integrated \cup shell.running)
  /\ shell' = [shell EXCEPT !.running = @ \cup {t}]
  /\ UNCHANGED <<extension, sent, observed, heard>>

ExecutionStarts(t) ==
  LET full == Cardinality(shell.open) > TerminalLimit
  IN  /\ t \in shell.integrated \ shell.running
      /\ Observe(IF full THEN extension
                 ELSE IF Cardinality(extension.active) < ExecutionLimit
                   THEN [extension EXCEPT !.unobserved = @ \ {t}, !.active = @ \cup {t}]
                 ELSE IF t \in extension.over \/ Cardinality(extension.over) < TerminalLimit
                   THEN [extension EXCEPT !.over = @ \cup {t}]
                 ELSE [extension EXCEPT !.lost = TRUE],
                 [shell EXCEPT !.running = @ \cup {t}])
      /\ UNCHANGED <<observed, heard>>

ExecutionEnds(t) ==
  /\ t \in shell.running
  /\ IF t \in shell.integrated
       THEN Observe([extension EXCEPT !.active = @ \ {t}, !.unobserved = @ \ {t}],
                    [shell EXCEPT !.running = @ \ {t}])
       ELSE /\ shell' = [shell EXCEPT !.running = @ \ {t}]
            /\ UNCHANGED <<extension, sent>>
  /\ UNCHANGED <<observed, heard>>

-----------------------------------------------------------------------------
(* The agent *)

Hears(p) ==
  heard' = [instances |-> heard.instances \cup {p.instance},
            sequence  |-> IF p.sequence > heard.sequence THEN p.sequence ELSE heard.sequence,
            truth     |-> IF p.sequence > heard.sequence THEN p.truth ELSE heard.truth]

\* A second observer is a conflict for good.
ObserveConflict(p) ==
  /\ p \in sent
  /\ observed.observer \notin {0, p.instance}
  /\ observed' = [observed EXCEPT !.conflict = TRUE]
  /\ Hears(p)
  /\ UNCHANGED <<shell, extension, sent>>

\* The watermark, which evidence found incomplete raises as well.
Takes(p) == ~observed.conflict /\ p.sequence > observed.sequence

ObserveTaken(p) ==
  /\ p \in sent
  /\ observed.observer \in {0, p.instance}
  /\ Takes(p)
  /\ LET seen == [observed EXCEPT !.observer = p.instance, !.sequence = p.sequence]
     IN  observed' = IF p.overflow
                       THEN [seen EXCEPT !.incomplete = TRUE]
                       ELSE [seen EXCEPT !.incomplete = FALSE, !.age = "fresh",
                                         !.unsupported = ~p.integrated,
                                         !.commands = p.executions]
  /\ Hears(p)
  /\ UNCHANGED <<shell, extension, sent>>

\* Ten seconds without a snapshot.
ObservationAges ==
  /\ observed.age = "fresh"
  /\ observed' = [observed EXCEPT !.age = "stale"]
  /\ UNCHANGED <<shell, extension, sent, heard>>

\* start, the first or after the editor died: require_observation. Snapshots of an
\* earlier editor may still be under way; this one may restore its last terminals.
EditorActivates ==
  /\ extension.instance < LastInstance
  /\ observed' = [observed EXCEPT !.required = TRUE, !.observer = 0, !.age = "missing",
                    !.sequence = 0, !.conflict = FALSE, !.incomplete = FALSE]
  /\ \E open \in SUBSET Terminals :
       LET s == [open |-> open, integrated |-> open, running |-> {}]
       IN  Observe(Activated(extension.instance + 1, s), s)
  /\ heard' = [instances |-> {}, sequence |-> 0, truth |-> {}]

\* stop, finish, handoff: refused while busy; stopped.
EditorStops ==
  /\ observed.required
  /\ ~Busy
  /\ observed' = [observed EXCEPT !.required = FALSE, !.commands = {}]
  /\ shell' = NoShell
  /\ extension' = [extension EXCEPT !.sequence = LastPacket]
  /\ UNCHANGED <<sent, heard>>

ActivityNext ==
  \/ ExtensionReloads \/ TimerFires
  \/ \E t \in Terminals : \/ TerminalOpens(t) \/ TerminalCloses(t) \/ ShellIntegrates(t)
                          \/ RunsUnseen(t) \/ ExecutionStarts(t) \/ ExecutionEnds(t)
  \/ \E p \in sent : ObserveConflict(p) \/ ObserveTaken(p)
  \/ ObservationAges \/ EditorActivates \/ EditorStops

ActivitySpec == ActivityInit /\ [][ActivityNext]_activityVars

-----------------------------------------------------------------------------
(* Properties *)

ActivityTypeOK ==
  /\ shell \in Shell
  /\ extension \in Extension
  /\ sent \subseteq Packet
  /\ observed \in Observed
  /\ heard \in [instances: SUBSET (1..LastInstance), sequence: 0..LastPacket,
                truth: SUBSET Terminals]

\* "Do not discard known commands", "a delayed complete packet cannot undo the newly
\* observed uncertainty", "another observer cannot discharge it": an editor is called
\* idle only by the newest snapshot that arrived of the only observer there is, and no
\* command ran in any terminal when that one was taken.
IdleWasObserved ==
  observed.required /\ ~Busy =>
    /\ Cardinality(heard.instances) = 1
    /\ heard.truth = {}

=============================================================================
