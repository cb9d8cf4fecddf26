------------------------------ MODULE Firewall ------------------------------
(***************************************************************************)
(* The firewall safety net of one managed host: the firewall-* verbs of    *)
(* internal/hostboot/installer.sh and the panel handlers that run them     *)
(* (internal/api/api_firewall.go).                                         *)
(*                                                                         *)
(* A verb is a shell script run over SSH: it has no lock, no `set -e', and *)
(* its session can be cut between any two commands.  Each command that     *)
(* reads or writes shared state (a file under /run or /etc, the timer, the *)
(* kernel's rules) is one action, and pc[p] names the command process p is *)
(* about to run.  The rollback service that the armed timer starts is one  *)
(* more process.  Early returns that change nothing (a window out of       *)
(* range, ufw or firewalld active, no iptables) are stuttering steps.      *)
(* Writes to /run, a tmpfs, succeed; the write to /etc may fail.           *)
(***************************************************************************)
EXTENDS Naturals

CONSTANTS
  Sessions,  \* SSH sessions of the panel, each running at most one verb
  Svc,       \* the protean-fw-rollback service
  Rulesets,  \* rulesets the panel renders and sends to firewall-apply
  Invalid,   \* the ones `iptables-restore --test' refuses
  Factory,   \* the INPUT rules in force on a fresh boot of the host
  Cidrs,     \* tunnel networks that cmd_forward opens in the FORWARD chain
  NoFile     \* content of a file that does not exist

Rules == Rulesets \cup {Factory}

\* What iptables-save prints: the INPUT rules, whether the guard rules are
\* inserted above them, and the networks accepted in FORWARD.
Table == [inp : Rules, guard : BOOLEAN, fwd : SUBSET Cidrs]

Procs == Sessions \cup {Svc}

ASSUME FirewallAssumption ==
  /\ Svc \notin Sessions
  /\ Invalid \subseteq Rulesets
  /\ Factory \notin Rulesets
  /\ NoFile \notin Rules
  /\ NoFile \notin Table

VARIABLES
  live,      \* the rules in the kernel
  snapshot,  \* /run/protean-fw/snapshot.rules
  pending,   \* /run/protean-fw/pending.rules
  committed, \* whether /run/protean-fw/committed exists
  timer,     \* protean-fw-rollback.timer: "none", "armed" or "elapsed"
  current,   \* /etc/protean-fw/current.rules
  bootUnit,  \* whether protean-firewall.service is enabled
  pc,        \* the next command of each process
  arg,       \* the ruleset a session sends to firewall-apply
  lastApplied, \* firewall_policy.last_applied_ruleset in the panel's database
  trusted    \* history: INPUT rules in force at boot or when confirmed

runFiles == <<snapshot, pending, committed>>
etcFiles == <<current, bootUnit>>
history  == <<trusted>>
vars == <<live, snapshot, pending, committed, timer, current, bootUnit,
          pc, arg, lastApplied, trusted>>

Commands ==
  {"idle",
   "apCheck", "apSnapshot", "apPending", "apUncommit", "apTest", "apArm",
   "apSwap", "apGuard", "apReply",
   "cfCheck", "cfLoaded", "cfTouch", "cfStop", "cfSave", "cfUnit", "cfReply",
   "rbCheck", "rbRestore", "rbRemove"}

FactoryTable == [inp |-> Factory, guard |-> FALSE, fwd |-> {}]

Goto(p, l) == pc' = [pc EXCEPT ![p] = l]

Init ==
  /\ live = FactoryTable
  /\ snapshot = NoFile
  /\ pending = NoFile
  /\ committed = FALSE
  /\ timer = "none"
  /\ current = NoFile
  /\ bootUnit = FALSE
  /\ pc = [p \in Procs |-> "idle"]
  /\ arg = [s \in Sessions |-> NoFile]
  /\ lastApplied = NoFile
  /\ trusted = {Factory}

-----------------------------------------------------------------------------
(* firewall-apply *)

\* The timer unit stays loaded from arming until the service it starts ends.
Loaded == timer # "none"

FwPending == pending # NoFile /\ ~committed /\ Loaded

\* apiFirewallApply renders the saved policy and runs the verb.
ApplyStart(s, r) ==
  /\ pc[s] = "idle"
  /\ Goto(s, "apCheck")
  /\ arg' = [arg EXCEPT ![s] = r]
  /\ UNCHANGED <<live, timer, lastApplied>>
  /\ UNCHANGED runFiles /\ UNCHANGED etcFiles /\ UNCHANGED history
\* Mutant: the pending change is not looked for.
ApplyCheckBlind(s) ==
  /\ pc[s] = "apCheck"
  /\ Goto(s, "apSnapshot")
  /\ UNCHANGED <<live, timer, arg, lastApplied>>
  /\ UNCHANGED runFiles /\ UNCHANGED etcFiles /\ UNCHANGED history

ApplyCheck(s) ==
  /\ pc[s] = "apCheck"
  /\ Goto(s, IF FwPending THEN "idle" ELSE "apSnapshot")
  /\ UNCHANGED <<live, timer, arg, lastApplied>>
  /\ UNCHANGED runFiles /\ UNCHANGED etcFiles /\ UNCHANGED history

ApplySnapshot(s) ==
  /\ pc[s] = "apSnapshot"
  /\ snapshot' = live
  /\ Goto(s, "apPending")
  /\ UNCHANGED <<live, pending, committed, timer, arg, lastApplied>>
  /\ UNCHANGED etcFiles /\ UNCHANGED history

ApplyPending(s) ==
  /\ pc[s] = "apPending"
  /\ pending' = arg[s]
  /\ Goto(s, "apUncommit")
  /\ UNCHANGED <<live, snapshot, committed, timer, arg, lastApplied>>
  /\ UNCHANGED etcFiles /\ UNCHANGED history

ApplyUncommit(s) ==
  /\ pc[s] = "apUncommit"
  /\ committed' = FALSE
  /\ Goto(s, "apTest")
  /\ UNCHANGED <<live, snapshot, pending, timer, arg, lastApplied>>
  /\ UNCHANGED etcFiles /\ UNCHANGED history

\* A file iptables-restore can load: it exists and parses.
Loadable(file) == file # NoFile /\ file \notin Invalid

ApplyTest(s) ==
  /\ pc[s] = "apTest"
  /\ Goto(s, IF Loadable(pending) THEN "apArm" ELSE "idle")
  /\ UNCHANGED <<live, timer, arg, lastApplied>>
  /\ UNCHANGED runFiles /\ UNCHANGED etcFiles /\ UNCHANGED history
\* Mutant: the swap goes ahead although the timer was not armed.
ApplyArmIgnored(s) ==
  /\ pc[s] = "apArm"
  /\ Goto(s, "apSwap")
  /\ UNCHANGED <<live, timer, arg, lastApplied>>
  /\ UNCHANGED runFiles /\ UNCHANGED etcFiles /\ UNCHANGED history

\* systemd-run refuses a unit name that is still loaded.
ApplyArm(s) ==
  /\ pc[s] = "apArm"
  /\ IF Loaded
     THEN Goto(s, "idle") /\ UNCHANGED timer
     ELSE Goto(s, "apSwap") /\ timer' = "armed"
  /\ UNCHANGED <<live, arg, lastApplied>>
  /\ UNCHANGED runFiles /\ UNCHANGED etcFiles /\ UNCHANGED history

\* iptables-restore replaces the whole filter table by the rendered one, which
\* declares an empty FORWARD chain; on an error the script just goes on.
ApplySwap(s) ==
  /\ pc[s] = "apSwap"
  /\ live' = IF Loadable(pending)
             THEN [inp |-> pending, guard |-> FALSE, fwd |-> {}]
             ELSE live
  /\ Goto(s, "apGuard")
  /\ UNCHANGED <<timer, arg, lastApplied>>
  /\ UNCHANGED runFiles /\ UNCHANGED etcFiles /\ UNCHANGED history

ApplyGuard(s) ==
  /\ pc[s] = "apGuard"
  /\ live' = [live EXCEPT !.guard = TRUE]
  /\ Goto(s, "apReply")
  /\ UNCHANGED <<timer, arg, lastApplied>>
  /\ UNCHANGED runFiles /\ UNCHANGED etcFiles /\ UNCHANGED history

\* The panel reads {"applied":true} and records the ruleset it sent; a failure
\* to record it is only logged.
ApplyReply(s) ==
  /\ pc[s] = "apReply"
  /\ lastApplied' \in {arg[s], lastApplied}
  /\ arg' = [arg EXCEPT ![s] = NoFile]
  /\ Goto(s, "idle")
  /\ UNCHANGED <<live, timer>>
  /\ UNCHANGED runFiles /\ UNCHANGED etcFiles /\ UNCHANGED history

-----------------------------------------------------------------------------
(* firewall-confirm *)

ConfirmStart(s) ==
  /\ pc[s] = "idle"
  /\ Goto(s, "cfCheck")
  /\ UNCHANGED <<live, timer, arg, lastApplied>>
  /\ UNCHANGED runFiles /\ UNCHANGED etcFiles /\ UNCHANGED history

ConfirmCheck(s) ==
  /\ pc[s] = "cfCheck"
  /\ \/ committed /\ Goto(s, "cfReply")
     \/ ~committed /\ pending = NoFile /\ Goto(s, "idle")
     \/ ~committed /\ pending # NoFile /\ Goto(s, "cfLoaded")
  /\ UNCHANGED <<live, timer, arg, lastApplied>>
  /\ UNCHANGED runFiles /\ UNCHANGED etcFiles /\ UNCHANGED history
\* Mutant: the rules are saved before the change is marked committed.
ConfirmSavedEarly(s) ==
  /\ pc[s] = "cfLoaded"
  /\ Goto(s, IF Loaded THEN "cfTouch" ELSE "idle")
  /\ current' = IF Loaded THEN live ELSE current
  /\ UNCHANGED <<live, timer, bootUnit, arg, lastApplied>>
  /\ UNCHANGED runFiles /\ UNCHANGED history

ConfirmLoaded(s) ==
  /\ pc[s] = "cfLoaded"
  /\ Goto(s, IF Loaded THEN "cfTouch" ELSE "idle")
  /\ UNCHANGED <<live, timer, arg, lastApplied>>
  /\ UNCHANGED runFiles /\ UNCHANGED etcFiles /\ UNCHANGED history

ConfirmTouch(s) ==
  /\ pc[s] = "cfTouch"
  /\ committed' = TRUE
  /\ trusted' = trusted \cup {live.inp}
  /\ Goto(s, "cfStop")
  /\ UNCHANGED <<live, snapshot, pending, timer, arg, lastApplied>>
  /\ UNCHANGED etcFiles

\* systemctl stop of the timer and of the service, which may be running.
ConfirmStop(s) ==
  /\ pc[s] = "cfStop"
  /\ timer' = "none"
  /\ pc' = [pc EXCEPT ![s] = "cfSave", ![Svc] = "idle"]
  /\ UNCHANGED <<live, arg, lastApplied>>
  /\ UNCHANGED runFiles /\ UNCHANGED etcFiles /\ UNCHANGED history

\* A failed write to /etc goes unnoticed: the script goes on.
ConfirmSave(s) ==
  /\ pc[s] = "cfSave"
  /\ current' \in {live, current}
  /\ Goto(s, "cfUnit")
  /\ UNCHANGED <<live, timer, bootUnit, arg, lastApplied>>
  /\ UNCHANGED runFiles /\ UNCHANGED history

ConfirmUnit(s) ==
  /\ pc[s] = "cfUnit"
  /\ bootUnit' = TRUE
  /\ Goto(s, "cfReply")
  /\ UNCHANGED <<live, timer, current, arg, lastApplied>>
  /\ UNCHANGED runFiles /\ UNCHANGED history

\* The panel reads {"confirmed":true}, stamps last_confirmed_at and reports
\* success.
ConfirmReply(s) ==
  /\ pc[s] = "cfReply"
  /\ Goto(s, "idle")
  /\ UNCHANGED <<live, timer, arg, lastApplied>>
  /\ UNCHANGED runFiles /\ UNCHANGED etcFiles /\ UNCHANGED history

-----------------------------------------------------------------------------
(* firewall-rollback: the panic button of a session, or the timer's service *)

RollbackStart(s) ==
  /\ pc[s] = "idle"
  /\ Goto(s, "rbCheck")
  /\ UNCHANGED <<live, timer, arg, lastApplied>>
  /\ UNCHANGED runFiles /\ UNCHANGED etcFiles /\ UNCHANGED history

\* Timing: the window is at least 30 s, and arming and swapping are two
\* consecutive commands of one script.
WindowOutlastsSwap == \A s \in Sessions : pc[s] # "apSwap"

TimerFires ==
  /\ timer = "armed"
  /\ WindowOutlastsSwap
  /\ timer' = "elapsed"
  /\ Goto(Svc, "rbCheck")
  /\ UNCHANGED <<live, arg, lastApplied>>
  /\ UNCHANGED runFiles /\ UNCHANGED etcFiles /\ UNCHANGED history

\* The end of the verb; the units are collected when the service exits.
RollbackExit(p) ==
  /\ Goto(p, "idle")
  /\ timer' = IF p = Svc THEN "none" ELSE timer
\* Mutant: the snapshot is restored without looking whether there is one.
RollbackUnchecked(p) ==
  /\ pc[p] = "rbCheck"
  /\ IF committed
     THEN RollbackExit(p)
     ELSE Goto(p, "rbRestore") /\ UNCHANGED timer
  /\ UNCHANGED <<live, arg, lastApplied>>
  /\ UNCHANGED runFiles /\ UNCHANGED etcFiles /\ UNCHANGED history

RollbackCheck(p) ==
  /\ pc[p] = "rbCheck"
  /\ IF committed \/ snapshot = NoFile
     THEN RollbackExit(p)
     ELSE Goto(p, "rbRestore") /\ UNCHANGED timer
  /\ UNCHANGED <<live, arg, lastApplied>>
  /\ UNCHANGED runFiles /\ UNCHANGED etcFiles /\ UNCHANGED history

RollbackRestore(p) ==
  /\ pc[p] = "rbRestore"
  /\ live' = snapshot
  /\ Goto(p, "rbRemove")
  /\ UNCHANGED <<timer, arg, lastApplied>>
  /\ UNCHANGED runFiles /\ UNCHANGED etcFiles /\ UNCHANGED history

RollbackRemove(p) ==
  /\ pc[p] = "rbRemove"
  /\ pending' = NoFile
  /\ RollbackExit(p)
  /\ UNCHANGED <<live, snapshot, committed, arg, lastApplied>>
  /\ UNCHANGED etcFiles /\ UNCHANGED history

-----------------------------------------------------------------------------
(* The rest of the host *)

\* cmd_forward add/del, run when a provider joins or leaves the mesh.
Forward(c) ==
  /\ \/ live' = [live EXCEPT !.fwd = @ \cup {c}]
     \/ live' = [live EXCEPT !.fwd = @ \ {c}]
  /\ UNCHANGED <<timer, pc, arg, lastApplied>>
  /\ UNCHANGED runFiles /\ UNCHANGED etcFiles /\ UNCHANGED history

\* The verb is killed with its session, or only its answer is lost.  (A verb that
\* outlives its session overlaps the next one: that is Spec with two sessions.)
SessionLost(s) ==
  /\ pc[s] # "idle"
  /\ Goto(s, "idle")
  /\ arg' = [arg EXCEPT ![s] = NoFile]
  /\ UNCHANGED <<live, timer, lastApplied>>
  /\ UNCHANGED runFiles /\ UNCHANGED etcFiles /\ UNCHANGED history

\* cmd_firewall_boot_restore
BootRules == IF bootUnit /\ current # NoFile THEN current ELSE FactoryTable

\* /run, the transient timer and the kernel's rules are lost; the boot unit
\* runs before the network, hence before any session, is up.
Reboot ==
  /\ live' = BootRules
  /\ snapshot' = NoFile
  /\ pending' = NoFile
  /\ committed' = FALSE
  /\ timer' = "none"
  /\ pc' = [p \in Procs |-> "idle"]
  /\ arg' = [s \in Sessions |-> NoFile]
  /\ UNCHANGED <<lastApplied>> /\ UNCHANGED etcFiles /\ UNCHANGED history

-----------------------------------------------------------------------------
StartVerb(s) ==
  \/ \E r \in Rulesets : ApplyStart(s, r)
  \/ ConfirmStart(s)
  \/ RollbackStart(s)

ApplyStep(s) ==
  \/ ApplyCheck(s) \/ ApplySnapshot(s) \/ ApplyPending(s) \/ ApplyUncommit(s)
  \/ ApplyTest(s) \/ ApplyArm(s) \/ ApplySwap(s) \/ ApplyGuard(s)
  \/ ApplyReply(s)

ConfirmStep(s) ==
  \/ ConfirmCheck(s) \/ ConfirmLoaded(s) \/ ConfirmTouch(s) \/ ConfirmStop(s)
  \/ ConfirmSave(s) \/ ConfirmUnit(s) \/ ConfirmReply(s)

RollbackStep(p) ==
  RollbackCheck(p) \/ RollbackRestore(p) \/ RollbackRemove(p)

VerbStep(s) == ApplyStep(s) \/ ConfirmStep(s) \/ RollbackStep(s)

HostStep ==
  \/ TimerFires
  \/ RollbackStep(Svc)
  \/ \E c \in Cidrs : Forward(c)
  \/ Reboot

\* Nothing in the panel or on the host serializes verbs.
Next ==
  \/ \E s \in Sessions : StartVerb(s) \/ VerbStep(s) \/ SessionLost(s)
  \/ HostStep

Spec == Init /\ [][Next]_vars

AllIdle == \A s \in Sessions : pc[s] = "idle"

\* An operator who waits for each answer before the next request.
SerialNext ==
  \/ AllIdle /\ \E s \in Sessions : StartVerb(s)
  \/ \E s \in Sessions : VerbStep(s) \/ SessionLost(s)
  \/ HostStep

SerialSpec == Init /\ [][SerialNext]_vars

\* systemd fires an armed timer and runs the service it starts.
RollbackFairness == WF_vars(TimerFires) /\ WF_vars(RollbackStep(Svc))

-----------------------------------------------------------------------------
(* Properties *)

TypeOK ==
  /\ live \in Table
  /\ snapshot \in Table \cup {NoFile}
  /\ pending \in Rulesets \cup {NoFile}
  /\ committed \in BOOLEAN
  /\ timer \in {"none", "armed", "elapsed"}
  /\ current \in Table \cup {NoFile}
  /\ bootUnit \in BOOLEAN
  /\ pc \in [Procs -> Commands]
  /\ arg \in [Sessions -> Rulesets \cup {NoFile}]
  /\ lastApplied \in Rulesets \cup {NoFile}
  /\ trusted \in SUBSET Rules

\* The rules the host would fall back to when the armed rollback runs.
RollbackOwed ==
  /\ Loaded
  /\ ~committed
  /\ snapshot # NoFile
  /\ snapshot.inp \in trusted

\* CHANGELOG.md: "a change that isn't confirmed within a timeout reverts
\* itself, so a bad rule can't lock an admin out".  Whatever INPUT rules are in
\* force, either they were confirmed (or are the boot rules), or the rollback
\* timer is loaded and the snapshot it restores holds rules that were.
DeadMan == live.inp \in trusted \/ RollbackOwed

\* firewall-boot-restore never brings up rules nobody confirmed, wherever the
\* host is cut off inside firewall-confirm or firewall-apply.
BootTrusted == BootRules.inp \in trusted

\* An unconfirmed ruleset does not stay: the timer reverts it (cmd_firewall_apply
\* arms it before the swap) or firewall-confirm accepts it.
UnconfirmedReverts == live.inp \notin trusted ~> live.inp \in trusted

\* cmd_firewall_confirm: "Race-safe against a timer that already fired: if it's
\* gone and nothing was committed yet, refuse rather than resurrect a ruleset
\* that was already reverted".  The commit marker is never created once the
\* rollback has removed the pending change.
ConfirmRaceSafe ==
  [][\A s \in Sessions : ConfirmTouch(s) => pending # NoFile]_vars

=============================================================================
