--------------------------- MODULE FirewallProofs ---------------------------
(***************************************************************************)
(* Proofs about Firewall: with one verb at a time (SerialSpec), for every  *)
(* set of sessions, rulesets and networks, the rules in force are confirmed *)
(* ones or a rollback to confirmed ones is owed, and a reboot brings up     *)
(* confirmed ones.                                                          *)
(***************************************************************************)
EXTENDS Firewall, TLAPS

\* The service runs exactly while its timer has elapsed.
SvcTimer == pc[Svc] # "idle" <=> timer = "elapsed"

\* SerialNext starts a verb only when every session is idle.
OneVerb ==
  \A s, t \in Sessions : pc[s] # "idle" /\ pc[t] # "idle" => s = t

\* What the host can fall back to was confirmed: the snapshot because apply
\* refuses to run over a pending change, current.rules because confirm commits
\* before it saves.
FilesTrusted ==
  /\ Factory \in trusted
  /\ snapshot # NoFile => snapshot.inp \in trusted
  /\ current # NoFile => current.inp \in trusted

\* Unconfirmed rules are in force only while fw_pending holds.
NetKept == live.inp \notin trusted => FwPending /\ snapshot # NoFile

\* What a verb knows at each of its commands.
PcFacts ==
  /\ pc[Svc] \in {"idle", "rbCheck", "rbRestore", "rbRemove"}
  /\ \A p \in Procs :
       /\ pc[p] \in {"apSnapshot", "apPending", "apUncommit", "apTest", "apArm",
                     "cfStop", "cfSave", "rbRemove"} => live.inp \in trusted
       /\ pc[p] \in {"apPending", "apUncommit", "apTest", "apArm", "apSwap",
                     "rbRestore"} => snapshot # NoFile
       /\ pc[p] \in {"apTest", "apArm", "apSwap"} => ~committed
       /\ pc[p] = "apSwap" => timer = "armed"

IInv ==
  TypeOK /\ SvcTimer /\ OneVerb /\ FilesTrusted /\ NetKept /\ PcFacts

-----------------------------------------------------------------------------
\* The fresh host satisfies the invariant.
LEMMA InitInv == Init => IInv
<1> SUFFICES ASSUME Init PROVE IInv
  OBVIOUS
<1>1. TypeOK
  <2>1. live \in Table
    BY DEF Init, FactoryTable, Table, Rules
  <2>3. pc \in [Procs -> Commands]
    BY DEF Init, Commands
  <2> QED
    BY <2>1, <2>3 DEF Init, TypeOK, Rules
<1>2. \A p \in Procs : pc[p] = "idle"
  BY DEF Init
<1>3. Svc \in Procs /\ Sessions \subseteq Procs
  BY DEF Procs
<1>4. SvcTimer /\ OneVerb /\ PcFacts
  BY <1>2, <1>3 DEF Init, SvcTimer, OneVerb, PcFacts
<1>5. FilesTrusted /\ NetKept
  BY DEF Init, FilesTrusted, NetKept, FactoryTable
<1> QED
  BY <1>1, <1>4, <1>5 DEF IInv

\* A verb starts: no other one is running.
LEMMA StartVerbInv ==
  ASSUME IInv, AllIdle, NEW s \in Sessions, StartVerb(s)
  PROVE  IInv'
<1> USE FirewallAssumption
    DEF IInv, TypeOK, SvcTimer, OneVerb, FilesTrusted, NetKept, PcFacts, Table,
        Rules, Procs, Commands, FwPending, Loaded, Goto, runFiles, etcFiles,
        history
<1>1. CASE \E r \in Rulesets : ApplyStart(s, r)
  BY <1>1 DEF AllIdle, ApplyStart
<1>2. CASE ConfirmStart(s)
  BY <1>2 DEF AllIdle, ConfirmStart
<1>3. CASE RollbackStart(s)
  BY <1>3 DEF AllIdle, RollbackStart
<1> QED
  BY <1>1, <1>2, <1>3 DEF StartVerb

\* Every command of firewall-apply.
LEMMA ApplyInv ==
  ASSUME IInv, NEW s \in Sessions, ApplyStep(s)
  PROVE  IInv'
<1> USE FirewallAssumption
    DEF IInv, TypeOK, SvcTimer, OneVerb, FilesTrusted, NetKept, PcFacts, Table,
        Rules, Procs, Commands, FwPending, Loaded, Goto, runFiles, etcFiles,
        history
<1>1. CASE ApplyCheck(s)
  BY <1>1 DEF ApplyCheck
<1>2. CASE ApplySnapshot(s)
  BY <1>2 DEF ApplySnapshot
<1>3. CASE ApplyPending(s)
  BY <1>3 DEF ApplyPending
<1>4. CASE ApplyUncommit(s)
  <2>1. TypeOK'
    BY <1>4 DEF ApplyUncommit
  <2>2. SvcTimer' /\ OneVerb' /\ FilesTrusted'
    BY <1>4 DEF ApplyUncommit
  <2>3. live.inp \in trusted
    BY <1>4 DEF ApplyUncommit
  <2>4. NetKept' /\ PcFacts'
    BY <1>4, <2>3 DEF ApplyUncommit
  <2> QED
    BY <2>1, <2>2, <2>4
<1>5. CASE ApplyTest(s)
  BY <1>5 DEF ApplyTest, Loadable
<1>6. CASE ApplyArm(s)
  BY <1>6 DEF ApplyArm
<1>7. CASE ApplySwap(s)
  BY <1>7 DEF ApplySwap, Loadable
<1>8. CASE ApplyGuard(s)
  <2>1. live' \in Table /\ live'.inp = live.inp
    BY <1>8 DEF ApplyGuard
  <2>2. TypeOK'
    BY <1>8, <2>1 DEF ApplyGuard
  <2>3. SvcTimer' /\ OneVerb' /\ FilesTrusted' /\ NetKept' /\ PcFacts'
    BY <1>8, <2>1 DEF ApplyGuard
  <2> QED
    BY <2>2, <2>3
<1>9. CASE ApplyReply(s)
  BY <1>9 DEF ApplyReply
<1> QED
  BY <1>1, <1>2, <1>3, <1>4, <1>5, <1>6, <1>7, <1>8, <1>9 DEF ApplyStep

\* Every command of firewall-confirm.
LEMMA ConfirmInv ==
  ASSUME IInv, NEW s \in Sessions, ConfirmStep(s)
  PROVE  IInv'
<1> USE FirewallAssumption
    DEF IInv, TypeOK, SvcTimer, OneVerb, FilesTrusted, NetKept, PcFacts, Table,
        Rules, Procs, Commands, FwPending, Loaded, Goto, runFiles, etcFiles,
        history
<1>1. CASE ConfirmCheck(s)
  BY <1>1 DEF ConfirmCheck
<1>2. CASE ConfirmLoaded(s)
  BY <1>2 DEF ConfirmLoaded
<1>3. CASE ConfirmTouch(s)
  BY <1>3 DEF ConfirmTouch
<1>4. CASE ConfirmStop(s)
  BY <1>4 DEF ConfirmStop
<1>5. CASE ConfirmSave(s)
  BY <1>5 DEF ConfirmSave
<1>6. CASE ConfirmUnit(s)
  BY <1>6 DEF ConfirmUnit
<1>7. CASE ConfirmReply(s)
  BY <1>7 DEF ConfirmReply
<1> QED
  BY <1>1, <1>2, <1>3, <1>4, <1>5, <1>6, <1>7 DEF ConfirmStep

\* Every command of firewall-rollback, run by a session or by the service.
LEMMA RollbackInv ==
  ASSUME IInv, NEW p \in Procs, RollbackStep(p)
  PROVE  IInv'
<1> USE FirewallAssumption
    DEF IInv, TypeOK, SvcTimer, OneVerb, FilesTrusted, NetKept, PcFacts, Table,
        Rules, Procs, Commands, FwPending, Loaded, Goto, runFiles, etcFiles,
        history
<1>1. CASE RollbackCheck(p)
  BY <1>1 DEF RollbackCheck, RollbackExit
<1>2. CASE RollbackRestore(p)
  BY <1>2 DEF RollbackRestore
<1>3. CASE RollbackRemove(p)
  BY <1>3 DEF RollbackRemove, RollbackExit
<1> QED
  BY <1>1, <1>2, <1>3 DEF RollbackStep

\* The timer, a reboot and cmd_forward, outside the verbs.
LEMMA HostInv ==
  ASSUME IInv, TimerFires \/ Reboot \/ \E c \in Cidrs : Forward(c)
  PROVE  IInv'
<1> USE FirewallAssumption
    DEF IInv, TypeOK, SvcTimer, OneVerb, FilesTrusted, NetKept, PcFacts, Table,
        Rules, Procs, Commands, FwPending, Loaded, Goto, runFiles, etcFiles,
        history
<1>1. CASE TimerFires
  BY <1>1 DEF TimerFires, WindowOutlastsSwap
<1>2. CASE Reboot
  BY <1>2 DEF Reboot, BootRules, FactoryTable
<1>3. CASE \E c \in Cidrs : Forward(c)
  BY <1>3 DEF Forward
<1> QED
  BY <1>1, <1>2, <1>3

\* A session is cut wherever its verb is.
LEMMA SessionLostInv ==
  ASSUME IInv, NEW s \in Sessions, SessionLost(s)
  PROVE  IInv'
  BY FirewallAssumption
  DEF SessionLost, IInv, TypeOK, SvcTimer, OneVerb, FilesTrusted, NetKept,
      PcFacts, Table, Rules, Procs, Commands, FwPending, Loaded, Goto,
      runFiles, etcFiles, history

\* The invariant is inductive for an operator who runs one verb at a time.
LEMMA SerialInv == IInv /\ [SerialNext]_vars => IInv'
<1> SUFFICES ASSUME IInv, [SerialNext]_vars PROVE IInv'
  OBVIOUS
<1>1. CASE AllIdle /\ \E s \in Sessions : StartVerb(s)
  BY <1>1, StartVerbInv
<1>2. CASE \E s \in Sessions : VerbStep(s)
  <2>1. PICK s \in Sessions : ApplyStep(s) \/ ConfirmStep(s) \/ RollbackStep(s)
    BY <1>2 DEF VerbStep
  <2>2. s \in Procs
    BY DEF Procs
  <2> QED
    BY <2>1, <2>2, ApplyInv, ConfirmInv, RollbackInv
<1>3. CASE \E s \in Sessions : SessionLost(s)
  BY <1>3, SessionLostInv
<1>4. CASE HostStep
  <2>1. Svc \in Procs
    BY DEF Procs
  <2> QED
    BY <1>4, <2>1, RollbackInv, HostInv DEF HostStep
<1>5. CASE UNCHANGED vars
  BY <1>5
  DEF vars, IInv, TypeOK, SvcTimer, OneVerb, FilesTrusted, NetKept, PcFacts,
      FwPending, Loaded
<1> QED
  BY <1>1, <1>2, <1>3, <1>4, <1>5 DEF SerialNext

\* For every set of sessions, rulesets and networks: with one verb at a time,
\* wherever sessions are cut and reboots happen, every file, timer and marker of
\* the firewall-* verbs keeps its type.
THEOREM SerialTypeOK == SerialSpec => []TypeOK
<1>1. IInv => TypeOK
  BY DEF IInv
<1> QED
  BY InitInv, SerialInv, <1>1, PTL DEF SerialSpec

\* The safety net of cmd_firewall_apply: whatever INPUT rules are in force were
\* confirmed, or the rollback timer is loaded and restores confirmed ones.
THEOREM SerialDeadMan == SerialSpec => []DeadMan
<1>1. IInv => DeadMan
  BY DEF IInv, DeadMan, RollbackOwed, NetKept, FwPending, FilesTrusted
<1> QED
  BY InitInv, SerialInv, <1>1, PTL DEF SerialSpec

\* cmd_firewall_boot_restore brings up confirmed rules only, whichever command of
\* firewall-confirm the host went down at.
THEOREM SerialBootTrusted == SerialSpec => []BootTrusted
<1>1. IInv => BootTrusted
  BY DEF IInv, BootTrusted, BootRules, FactoryTable, FilesTrusted
<1> QED
  BY InitInv, SerialInv, <1>1, PTL DEF SerialSpec
=============================================================================
