-------------------------- MODULE WgProviderProofs --------------------------
(***************************************************************************)
(* Proofs about WgProvider with a single Provider object (MaxInst = 1),    *)
(* for every set of keys, addresses and callers and however often SSH      *)
(* commands fail: types and mutual exclusion on the config file (IInv);    *)
(* that no write or rollback loses another operation's peer; that the      *)
(* kernel has what a reload of the file would give whenever the mutex is   *)
(* free, unless a step that doubt names intervened (WgInv, from what `wg   *)
(* set' and a reload do to the kernel's routing table); and that a call    *)
(* without an error left its peers the same in both.                       *)
(***************************************************************************)
EXTENDS WgProvider, TLAPS

\* Past the lock a caller holds it and has an operation.
Holding ==
  \A c \in Callers :
    /\ pc[c] \notin {"idle", "lock"} => lock[inst[c]] = c
    /\ pc[c] # "idle" => op[c] \in Ops
    /\ pc[c] \in {"save", "write", "live", "live2"} => seen[c] \in Confs
    /\ pc[c] # "idle" /\ op[c].kind = "restore" => seen[c] \in Confs
    /\ pc[c] \in {"idle", "lock", "read", "save"} => prev[c] = NoConf

\* What a caller read is still what the config holds until it writes, and
\* differs from it afterwards only in the peers its operation is about.
SeenIsConf ==
  \A c \in Callers :
    /\ pc[c] \in {"save", "write"} /\ op[c].kind # "restore" => seen[c] = conf
    /\ pc[c] = "write" /\ prev[c] # NoConf => prev[c] = conf
    /\ pc[c] \in {"live", "live2", "undo"} /\ prev[c] # NoConf =>
         \A k \in Keys \ Touched(op[c]) : prev[c][k] = conf[k]

IInv == TypeOK /\ Holding /\ SeenIsConf

-----------------------------------------------------------------------------
\* An edit yields a config, and changes only the peers the operation is about.
LEMMA EditedLocal ==
  ASSUME NEW o \in Ops, NEW t \in Confs
  PROVE  /\ Edited(o, t) \in Confs
         /\ \A k \in Keys \ Touched(o) : Edited(o, t)[k] = t[k]
<1>1. CASE o.kind \in {"add", "update"}
  BY <1>1 DEF Edited, Touched, Ops, Confs
<1>2. CASE o.kind = "remove"
  BY <1>2 DEF Edited, Touched, Ops, Confs
<1>3. CASE o.kind = "rotate"
  BY <1>3 DEF Edited, Touched, Ops, Confs
<1>4. CASE o.kind \in {"server", "restore", "ensure"}
  BY <1>4 DEF Edited, Touched, Ops, Confs, NoPeers
<1> QED
  BY <1>1, <1>2, <1>3, <1>4 DEF Ops, Kinds

\* A write that is cut off leaves a config with some of the peers it was to hold.
LEMMA CutsIs ==
  ASSUME NEW t \in Confs, NEW u \in Cuts(t)
  PROVE  u \in Confs /\ \A k \in Keys : u[k] \in {t[k], Absent}
  BY DEF Cuts, Confs

\* The kernel's operations on its peers.
LEMMA KernelTypes ==
  ASSUME NEW L \in Lives, NEW k \in Keys, NEW ips \in Specs \cup {Absent}
  PROVE  Assign(L, k, ips) \in Lives /\ Unassign(L, k) \in Lives
  BY WgAssumption DEF Assign, Unassign, Lives

LEMMA LoadsTypes == ASSUME NEW t PROVE Loads(t) \subseteq Lives
  BY DEF Loads

\* The panel has just started on a host without peers.
LEMMA InitInv == Init => IInv
<1> SUFFICES ASSUME Init PROVE IInv
  OBVIOUS
<1>1. NoPeers \in Confs /\ NoPeers \in Lives
  BY DEF NoPeers, Confs, Lives
<1>2. 1 \in Insts
  BY WgAssumption DEF Insts
<1>3. TypeOK
  BY <1>1, <1>2 DEF Init, TypeOK, Commands
<1>4. Holding /\ SeenIsConf
  BY DEF Init, Holding, SeenIsConf
<1> QED
  BY <1>3, <1>4 DEF IInv

\* With one Provider object, two callers past its lock are one caller.
LEMMA OneHolder ==
  ASSUME MaxInst = 1, IInv, NEW c \in Callers, pc[c] \notin {"idle", "lock"}
  PROVE  \A d \in Callers \ {c} : pc[d] \in {"idle", "lock"}
<1>1. \A d \in Callers : inst[d] = 1
  BY DEF IInv, TypeOK, Insts
<1> QED
  BY <1>1 DEF IInv, Holding

\* A call is made.
LEMMA CallInv ==
  ASSUME MaxInst = 1, IInv, NEW c \in Callers, NEW o \in Requests, Call(c, o)
  PROVE  IInv'
<1> USE WgAssumption
    DEF IInv, TypeOK, Holding, Goto, Return, Continue, host, Commands
<1>1. TypeOK'
  BY DEF Call, Requests
<1>2. Holding'
  BY DEF Call, Requests
<1>3. SeenIsConf'
  BY DEF Call, Requests, SeenIsConf
<1> QED
  BY <1>1, <1>2, <1>3

\* The mutex is taken.
LEMMA LockInv ==
  ASSUME MaxInst = 1, IInv, NEW c \in Callers, Lock(c)
  PROVE  IInv'
<1> USE WgAssumption
    DEF IInv, TypeOK, Holding, Goto, Return, Continue, host, Commands
<1>1. TypeOK'
  BY DEF Lock
<1>2. Holding'
  BY DEF Lock
<1>3. SeenIsConf'
  BY DEF Lock, SeenIsConf
<1> QED
  BY <1>1, <1>2, <1>3

\* readConf and FindPeer.
LEMMA ReadInv ==
  ASSUME MaxInst = 1, IInv, NEW c \in Callers, Read(c)
  PROVE  IInv'
<1> USE WgAssumption
    DEF IInv, TypeOK, Holding, Goto, Return, Continue, host, Commands
<1>1. TypeOK'
  BY DEF Read
<1>2. Holding'
  BY DEF Read
<1>3. SeenIsConf'
  <2> SUFFICES ASSUME NEW d \in Callers
               PROVE  /\ pc'[d] \in {"save", "write"} /\ op'[d].kind # "restore"
                           => seen'[d] = conf'
                      /\ pc'[d] = "write" /\ prev'[d] # NoConf => prev'[d] = conf'
                      /\ pc'[d] \in {"live", "live2", "undo"} /\ prev'[d] # NoConf
                           => \A k \in Keys \ Touched(op'[d]) :
                                prev'[d][k] = conf'[k]
    BY DEF SeenIsConf
  <2>1. pc[c] \notin {"idle", "lock"}
    BY DEF Read
  <2>2. \A e \in Callers \ {c} : pc[e] \in {"idle", "lock"}
    BY <2>1, OneHolder
  <2>3. CASE d # c
    BY <2>2, <2>3 DEF Read
  <2>4. CASE d = c
    BY <2>4 DEF Read, SeenIsConf
  <2> QED
    BY <2>3, <2>4
<1> QED
  BY <1>1, <1>2, <1>3

\* The read that keeps prev.
LEMMA SaveInv ==
  ASSUME MaxInst = 1, IInv, NEW c \in Callers, Save(c)
  PROVE  IInv'
<1> USE WgAssumption
    DEF IInv, TypeOK, Holding, Goto, Return, Continue, host, Commands
<1>1. TypeOK'
  BY DEF Save
<1>2. Holding'
  BY DEF Save
<1>3. SeenIsConf'
  <2> SUFFICES ASSUME NEW d \in Callers
               PROVE  /\ pc'[d] \in {"save", "write"} /\ op'[d].kind # "restore"
                           => seen'[d] = conf'
                      /\ pc'[d] = "write" /\ prev'[d] # NoConf => prev'[d] = conf'
                      /\ pc'[d] \in {"live", "live2", "undo"} /\ prev'[d] # NoConf
                           => \A k \in Keys \ Touched(op'[d]) :
                                prev'[d][k] = conf'[k]
    BY DEF SeenIsConf
  <2>1. pc[c] \notin {"idle", "lock"}
    BY DEF Save
  <2>2. \A e \in Callers \ {c} : pc[e] \in {"idle", "lock"}
    BY <2>1, OneHolder
  <2>3. CASE d # c
    BY <2>2, <2>3 DEF Save
  <2>4. CASE d = c
    BY <2>4 DEF Save, SeenIsConf
  <2> QED
    BY <2>3, <2>4
<1> QED
  BY <1>1, <1>2, <1>3

\* The config is overwritten, or not.
LEMMA WriteInv ==
  ASSUME MaxInst = 1, IInv, NEW c \in Callers, Write(c)
  PROVE  IInv'
<1> USE WgAssumption
    DEF IInv, TypeOK, Holding, Goto, Return, Continue, host, Commands
<1>1. TypeOK'
  <2>1. conf' \in Confs
    BY EditedLocal, CutsIs DEF Write, AfterWrite
  <2>2. live' \in Lives
    BY DEF Write, AfterWrite
  <2>3. doubt' \in BOOLEAN
    BY DEF Write, AfterWrite
  <2> QED
    BY <2>1, <2>2, <2>3 DEF Write, AfterWrite
<1>2. Holding'
  BY DEF Write, AfterWrite
<1>3. SeenIsConf'
  <2> SUFFICES ASSUME NEW d \in Callers
               PROVE  /\ pc'[d] \in {"save", "write"} /\ op'[d].kind # "restore"
                           => seen'[d] = conf'
                      /\ pc'[d] = "write" /\ prev'[d] # NoConf => prev'[d] = conf'
                      /\ pc'[d] \in {"live", "live2", "undo"} /\ prev'[d] # NoConf
                           => \A k \in Keys \ Touched(op'[d]) :
                                prev'[d][k] = conf'[k]
    BY DEF SeenIsConf
  <2>1. pc[c] \notin {"idle", "lock"}
    BY DEF Write
  <2>2. \A e \in Callers \ {c} : pc[e] \in {"idle", "lock"}
    BY <2>1, OneHolder
  <2>3. CASE d # c
    BY <2>2, <2>3 DEF Write
  <2>4. CASE d = c
    <3>1. op[c] \in Ops /\ seen[c] \in Confs
      BY <2>4 DEF Write
    <3>2. op[c].kind = "restore" => Keys \ Touched(op[c]) = {}
      BY DEF Touched
    <3>3. op[c].kind # "restore" => seen[c] = conf
      BY DEF Write, SeenIsConf
    <3>4. pc'[c] # "idle" => \A k \in Keys \ Touched(op[c]) : conf'[k] = conf[k]
      BY <3>1, <3>2, <3>3, EditedLocal DEF Write
    <3>5. prev[c] # NoConf => prev[c] = conf
      BY DEF Write, SeenIsConf
    <3> QED
      BY <2>4, <3>4, <3>5 DEF Write, AfterWrite
  <2> QED
    BY <2>3, <2>4
<1> QED
  BY <1>1, <1>2, <1>3

\* The first wg set.
LEMMA LiveInv ==
  ASSUME MaxInst = 1, IInv, NEW c \in Callers, Live(c)
  PROVE  IInv'
<1> USE WgAssumption
    DEF IInv, TypeOK, Holding, Goto, Return, Continue, host, Commands
<1>1. TypeOK'
  <2>1. conf' \in Confs
    BY DEF Live, LiveEffect
  <2>2. live' \in Lives
    BY KernelTypes DEF Ops, Live, LiveEffect
  <2>3. doubt' \in BOOLEAN
    BY DEF Live, LiveEffect
  <2> QED
    BY <2>1, <2>2, <2>3 DEF Live, LiveEffect
<1>2. Holding'
  BY DEF Live
<1>3. SeenIsConf'
  <2> SUFFICES ASSUME NEW d \in Callers
               PROVE  /\ pc'[d] \in {"save", "write"} /\ op'[d].kind # "restore"
                           => seen'[d] = conf'
                      /\ pc'[d] = "write" /\ prev'[d] # NoConf => prev'[d] = conf'
                      /\ pc'[d] \in {"live", "live2", "undo"} /\ prev'[d] # NoConf
                           => \A k \in Keys \ Touched(op'[d]) :
                                prev'[d][k] = conf'[k]
    BY DEF SeenIsConf
  <2>1. pc[c] \notin {"idle", "lock"}
    BY DEF Live
  <2>2. \A e \in Callers \ {c} : pc[e] \in {"idle", "lock"}
    BY <2>1, OneHolder
  <2>3. CASE d # c
    BY <2>2, <2>3 DEF Live
  <2>4. CASE d = c
    BY <2>4 DEF Live, SeenIsConf
  <2> QED
    BY <2>3, <2>4
<1> QED
  BY <1>1, <1>2, <1>3

\* The second wg set of a rotation.
LEMMA Live2Inv ==
  ASSUME MaxInst = 1, IInv, NEW c \in Callers, Live2(c)
  PROVE  IInv'
<1> USE WgAssumption
    DEF IInv, TypeOK, Holding, Goto, Return, Continue, host, Commands
<1>1. TypeOK'
  <2>1. conf' \in Confs
    BY DEF Live2
  <2>2. live' \in Lives
    BY KernelTypes DEF Ops, Confs, Live2
  <2>3. doubt' \in BOOLEAN
    BY DEF Live2
  <2> QED
    BY <2>1, <2>2, <2>3 DEF Live2
<1>2. Holding'
  BY DEF Live2
<1>3. SeenIsConf'
  <2> SUFFICES ASSUME NEW d \in Callers
               PROVE  /\ pc'[d] \in {"save", "write"} /\ op'[d].kind # "restore"
                           => seen'[d] = conf'
                      /\ pc'[d] = "write" /\ prev'[d] # NoConf => prev'[d] = conf'
                      /\ pc'[d] \in {"live", "live2", "undo"} /\ prev'[d] # NoConf
                           => \A k \in Keys \ Touched(op'[d]) :
                                prev'[d][k] = conf'[k]
    BY DEF SeenIsConf
  <2>1. pc[c] \notin {"idle", "lock"}
    BY DEF Live2
  <2>2. \A e \in Callers \ {c} : pc[e] \in {"idle", "lock"}
    BY <2>1, OneHolder
  <2>3. CASE d # c
    BY <2>2, <2>3 DEF Live2
  <2>4. CASE d = c
    BY <2>4 DEF Live2, SeenIsConf
  <2> QED
    BY <2>3, <2>4
<1> QED
  BY <1>1, <1>2, <1>3

\* The rollback.
LEMMA UndoInv ==
  ASSUME MaxInst = 1, IInv, NEW c \in Callers, Undo(c)
  PROVE  IInv'
<1> USE WgAssumption
    DEF IInv, TypeOK, Holding, Goto, Return, Continue, host, Commands
<1>1. TypeOK'
  <2>1. conf' \in Confs
    BY CutsIs DEF Undo
  <2>2. live' \in Lives
    BY DEF Undo
  <2>3. doubt' \in BOOLEAN
    BY DEF Undo
  <2> QED
    BY <2>1, <2>2, <2>3 DEF Undo
<1>2. Holding'
  BY DEF Undo
<1>3. SeenIsConf'
  <2> SUFFICES ASSUME NEW d \in Callers
               PROVE  /\ pc'[d] \in {"save", "write"} /\ op'[d].kind # "restore"
                           => seen'[d] = conf'
                      /\ pc'[d] = "write" /\ prev'[d] # NoConf => prev'[d] = conf'
                      /\ pc'[d] \in {"live", "live2", "undo"} /\ prev'[d] # NoConf
                           => \A k \in Keys \ Touched(op'[d]) :
                                prev'[d][k] = conf'[k]
    BY DEF SeenIsConf
  <2>1. pc[c] \notin {"idle", "lock"}
    BY DEF Undo
  <2>2. \A e \in Callers \ {c} : pc[e] \in {"idle", "lock"}
    BY <2>1, OneHolder
  <2>3. CASE d # c
    BY <2>2, <2>3 DEF Undo
  <2>4. CASE d = c
    BY <2>4 DEF Undo, SeenIsConf
  <2> QED
    BY <2>3, <2>4
<1> QED
  BY <1>1, <1>2, <1>3

\* The restart.
LEMMA ReloadInv ==
  ASSUME MaxInst = 1, IInv, NEW c \in Callers, Reload(c)
  PROVE  IInv'
<1> USE WgAssumption
    DEF IInv, TypeOK, Holding, Goto, Return, Continue, host, Commands
<1>1. TypeOK'
  <2>1. conf' \in Confs
    BY DEF Reload
  <2>2. live' \in Lives
    BY LoadsTypes DEF Reload
  <2>3. doubt' \in BOOLEAN
    BY DEF Reload
  <2> QED
    BY <2>1, <2>2, <2>3 DEF Reload
<1>2. Holding'
  BY DEF Reload
<1>3. SeenIsConf'
  <2> SUFFICES ASSUME NEW d \in Callers
               PROVE  /\ pc'[d] \in {"save", "write"} /\ op'[d].kind # "restore"
                           => seen'[d] = conf'
                      /\ pc'[d] = "write" /\ prev'[d] # NoConf => prev'[d] = conf'
                      /\ pc'[d] \in {"live", "live2", "undo"} /\ prev'[d] # NoConf
                           => \A k \in Keys \ Touched(op'[d]) :
                                prev'[d][k] = conf'[k]
    BY DEF SeenIsConf
  <2>1. pc[c] \notin {"idle", "lock"}
    BY DEF Reload
  <2>2. \A e \in Callers \ {c} : pc[e] \in {"idle", "lock"}
    BY <2>1, OneHolder
  <2>3. CASE d # c
    BY <2>2, <2>3 DEF Reload
  <2>4. CASE d = c
    BY <2>4 DEF Reload, SeenIsConf
  <2> QED
    BY <2>3, <2>4
<1> QED
  BY <1>1, <1>2, <1>3

\* What happens outside the operations.
LEMMA OutsideInv ==
  ASSUME MaxInst = 1, IInv, Rebuild \/ HostReload \/ PanelCrash
  PROVE  IInv'
<1> USE WgAssumption DEF IInv, TypeOK, Holding, SeenIsConf, host
<1>1. CASE Rebuild
  BY <1>1 DEF Rebuild, Insts
<1>2. CASE HostReload
  BY <1>2, LoadsTypes DEF HostReload
<1>3. CASE PanelCrash
  <2>1. 1 \in Insts
    BY DEF Insts
  <2> QED
    BY <1>3, <2>1 DEF PanelCrash, Commands
<1> QED
  BY <1>1, <1>2, <1>3

\* The invariant is inductive while one Provider object manages the interface.
LEMMA NextInv ==
  ASSUME MaxInst = 1
  PROVE  IInv /\ [Next]_vars => IInv'
<1> SUFFICES ASSUME IInv, [Next]_vars PROVE IInv'
  OBVIOUS
<1>1. CASE \E c \in Callers : \E o \in Requests : Call(c, o)
  BY <1>1, CallInv
<1>2. CASE \E c \in Callers : Lock(c)
  BY <1>2, LockInv
<1>3. CASE \E c \in Callers : Step(c)
  <2>1. PICK c \in Callers : Step(c)
    BY <1>3
  <2> QED
    BY <2>1, ReadInv, SaveInv, WriteInv, LiveInv, Live2Inv, UndoInv, ReloadInv
    DEF Step
<1>4. CASE Rebuild \/ HostReload \/ PanelCrash
  BY <1>4, OutsideInv
<1>5. CASE UNCHANGED vars
  BY <1>5 DEF vars, IInv, TypeOK, Holding, SeenIsConf
<1> QED
  BY <1>1, <1>2, <1>3, <1>4, <1>5 DEF Next, OneObjectNext

\* The invariant holds throughout, for every MaxInst = 1 instance.
LEMMA Invariant == ASSUME MaxInst = 1 PROVE Spec => []IInv
  BY InitInv, NextInv, PTL DEF Spec

\* However SSH commands fail and callers interleave, the config file stays a
\* config, and callers, mutex and results keep their types.
THEOREM WgTypeOK == ASSUME MaxInst = 1 PROVE Spec => []TypeOK
<1>1. IInv => TypeOK
  BY DEF IInv
<1> QED
  BY Invariant, <1>1, PTL

\* Provider.mu is enough while there is one Provider object: a write or rollback
\* of the config never loses or revives a peer of another operation; one that is
\* cut off may lose some, and revives none.
THEOREM WgNoLostPeer == ASSUME MaxInst = 1 PROVE Spec => NoLostPeer
<1> DEFINE Keeps == \A c \in Callers :
             (Write(c) \/ Undo(c)) =>
               \A k \in Keys \ Touched(op[c]) :
                  conf'[k] = conf[k] \/ (conf'[k] = Absent /\ conf' # Wanted(c))
<1>1. IInv /\ [Next]_vars => [Keeps]_vars
  <2> SUFFICES ASSUME IInv, NEW c \in Callers, Write(c) \/ Undo(c),
                      NEW k \in Keys \ Touched(op[c])
               PROVE  conf'[k] = conf[k] \/ (conf'[k] = Absent /\ conf' # Wanted(c))
    OBVIOUS
  <2>1. CASE Write(c)
    <3>1. op[c] \in Ops /\ seen[c] \in Confs
      BY <2>1 DEF Write, IInv, Holding
    <3>2. op[c].kind # "restore"
      BY DEF Touched
    <3>3. seen[c] = conf
      BY <2>1, <3>2 DEF Write, IInv, SeenIsConf
    <3>4. Edited(op[c], seen[c]) \in Confs /\ Edited(op[c], seen[c])[k] = conf[k]
      BY <3>1, <3>3, EditedLocal
    <3>5. conf' \in {conf, Edited(op[c], seen[c])} \/ conf' \in Cuts(Edited(op[c], seen[c]))
      BY <2>1 DEF Write
    <3>6. Wanted(c) = Edited(op[c], seen[c])
      BY <2>1 DEF Write, Wanted
    <3> QED
      BY <3>4, <3>5, <3>6, CutsIs
  <2>2. CASE Undo(c)
    <3>1. pc[c] = "undo" /\ Wanted(c) = prev[c]
      BY <2>2 DEF Undo, Wanted
    <3>2. CASE conf' = conf
      BY <3>2
    <3>3. CASE prev[c] # NoConf /\ conf' \in Cuts(prev[c]) \cup {prev[c]}
      <4>1. prev[c] \in Confs /\ prev[c][k] = conf[k]
        BY <3>1, <3>3 DEF IInv, TypeOK, SeenIsConf
      <4> QED
        BY <3>1, <3>3, <4>1, CutsIs
    <3> QED
      BY <2>2, <3>2, <3>3 DEF Undo
  <2> QED
    BY <2>1, <2>2
<1> QED
  BY Invariant, <1>1, PTL DEF Spec, NoLostPeer
-----------------------------------------------------------------------------
(* File and kernel *)

\* A peer gets its addresses: the others lose them, and nothing else.
LEMMA AssignIs ==
  ASSUME NEW L \in Lives, NEW k \in Keys, NEW ips \in SUBSET Addrs
  PROVE  /\ Assign(L, k, ips) \in Lives /\ Assign(L, k, ips)[k] = ips
         /\ \A q \in Keys \ {k} : /\ (Assign(L, k, ips)[q] = Absent) = (L[q] = Absent)
                                  /\ L[q] # Absent => Assign(L, k, ips)[q] = L[q] \ ips
<1> DEFINE M == Assign(L, k, ips)
<1>1. \A q \in Keys : L[q] = Absent \/ L[q] \in SUBSET Addrs
  BY DEF Lives
<1>2. M[k] = ips
  BY DEF Assign
<1>3. ASSUME NEW q \in Keys \ {k}
      PROVE  /\ (M[q] = Absent) = (L[q] = Absent) /\ (L[q] # Absent => M[q] = L[q] \ ips)
             /\ M[q] \in (SUBSET Addrs) \cup {Absent}
  <2>1. L[q] # Absent => M[q] = L[q] \ ips /\ L[q] \ ips \in SUBSET Addrs
    BY <1>1 DEF Assign
  <2>2. L[q] = Absent => M[q] = Absent
    BY DEF Assign
  <2> QED
    BY <2>1, <2>2, WgAssumption
<1>4. M \in Lives
  <2>1. M = [q \in Keys |-> M[q]]
    BY DEF Assign
  <2>2. \A q \in Keys : M[q] \in (SUBSET Addrs) \cup {Absent}
    BY <1>2, <1>3
  <2> QED
    BY <2>1, <2>2 DEF Lives
<1> QED
  BY <1>2, <1>3, <1>4

\* Whom an address belongs to after it was given to a peer.
LEMMA AssignHolders ==
  ASSUME NEW L \in Lives, NEW k \in Keys, NEW ips \in SUBSET Addrs, NEW a
  PROVE  /\ a \in ips => Holders(Assign(L, k, ips), a) = {k}
         /\ a \notin ips => Holders(Assign(L, k, ips), a) = Holders(L, a) \ {k}
<1>1. /\ Assign(L, k, ips)[k] = ips /\ ips # Absent
      /\ \A q \in Keys \ {k} : /\ (Assign(L, k, ips)[q] = Absent) = (L[q] = Absent)
                               /\ L[q] # Absent => Assign(L, k, ips)[q] = L[q] \ ips
  BY AssignIs, WgAssumption
<1> QED
  BY <1>1 DEF Holders

\* The peers of a config whose kernel state is a reload's.
LEMMA LoadsIs ==
  ASSUME NEW t, NEW L \in Lives
  PROVE  L \in Loads(t) <=>
           /\ \A k \in Keys : (L[k] = Absent) = (t[k] = Absent)
           /\ \A k \in Keys : L[k] # Absent => L[k] \subseteq t[k]
           /\ \A a \in Addrs : Holders(t, a) # {} => \E k \in Keys : Holders(L, a) = {k}
  BY DEF Loads

\* Adding or changing a peer in file and kernel keeps them in step, unless it gave
\* up an address that another peer lists.
LEMMA AssignLoads ==
  ASSUME NEW t \in Confs, NEW L \in Loads(t), NEW k \in Keys, NEW ips \in Specs, ~Shares(t, k),
         NEW u, u = [t EXCEPT ![k] = ips]
  PROVE  Assign(L, k, ips) \in Loads(u)
<1> DEFINE M == Assign(L, k, ips)
<1>1. L \in Lives /\ ips \in SUBSET Addrs /\ ips # Absent
  BY WgAssumption DEF Loads
<1>2. /\ M \in Lives /\ M[k] = ips
      /\ \A q \in Keys \ {k} : (M[q] = Absent) = (L[q] = Absent) /\ (L[q] # Absent => M[q] = L[q] \ ips)
  BY <1>1, AssignIs
<1>3. u[k] = ips /\ \A q \in Keys \ {k} : u[q] = t[q]
  BY DEF Confs
<1>4. /\ \A q \in Keys : (L[q] = Absent) = (t[q] = Absent)
      /\ \A q \in Keys : L[q] # Absent => L[q] \subseteq t[q]
      /\ \A a \in Addrs : Holders(t, a) # {} => \E q \in Keys : Holders(L, a) = {q}
  BY <1>1, LoadsIs
<1>5. \A q \in Keys : (M[q] = Absent) = (u[q] = Absent)
  BY <1>1, <1>2, <1>3, <1>4
<1>6. \A q \in Keys : M[q] # Absent => M[q] \subseteq u[q]
  BY <1>1, <1>2, <1>3, <1>4
<1>7. ASSUME NEW a \in Addrs, Holders(u, a) # {} PROVE \E q \in Keys : Holders(M, a) = {q}
  <2>1. CASE a \in ips
    BY <1>1, <2>1, AssignHolders
  <2>2. CASE a \notin ips
    <3>1. Holders(M, a) = Holders(L, a) \ {k}
      BY <1>1, <2>2, AssignHolders
    <3>2. PICK p \in Keys \ {k} : p \in Holders(t, a)
      BY <1>3, <1>7, <2>2 DEF Holders
    <3>3. k \notin Holders(t, a)
      BY <3>2 DEF Shares, Holders
    <3>4. k \notin Holders(L, a)
      BY <1>4, <3>3 DEF Holders
    <3> QED
      BY <1>4, <3>1, <3>2, <3>4
  <2> QED
    BY <2>1, <2>2
<1> HIDE DEF M
<1>8. M \in Loads(u)
  BY <1>2, <1>5, <1>6, <1>7 DEF Loads
<1> QED
  BY <1>8 DEF M

\* Removing a peer from file and kernel keeps them in step, unless it gave up an
\* address that another peer lists.
LEMMA UnassignLoads ==
  ASSUME NEW t \in Confs, NEW L \in Loads(t), NEW k \in Keys, ~Shares(t, k), NEW u, u = [t EXCEPT ![k] = Absent]
  PROVE  Unassign(L, k) \in Loads(u)
<1> DEFINE M == Unassign(L, k)
<1>1. L \in Lives
  BY DEF Loads
<1>2. M \in Lives /\ M[k] = Absent /\ \A q \in Keys \ {k} : M[q] = L[q]
  BY <1>1 DEF Unassign, Lives
<1>3. u[k] = Absent /\ \A q \in Keys \ {k} : u[q] = t[q]
  BY DEF Confs
<1>4. /\ \A q \in Keys : (L[q] = Absent) = (t[q] = Absent)
      /\ \A q \in Keys : L[q] # Absent => L[q] \subseteq t[q]
      /\ \A a \in Addrs : Holders(t, a) # {} => \E q \in Keys : Holders(L, a) = {q}
  BY <1>1, LoadsIs
<1>5. \A q \in Keys : (M[q] = Absent) = (u[q] = Absent)
  BY <1>2, <1>3, <1>4
<1>6. \A q \in Keys : M[q] # Absent => M[q] \subseteq u[q]
  BY <1>2, <1>3, <1>4
<1>7. ASSUME NEW a \in Addrs, Holders(u, a) # {} PROVE \E q \in Keys : Holders(M, a) = {q}
  <2>1. Holders(M, a) = Holders(L, a) \ {k}
    BY <1>2 DEF Holders
  <2>2. PICK p \in Keys \ {k} : p \in Holders(t, a)
    BY <1>3, <1>7 DEF Holders
  <2>3. k \notin Holders(t, a)
    BY <2>2 DEF Shares, Holders
  <2>4. k \notin Holders(L, a)
    BY <1>4, <2>3 DEF Holders
  <2> QED
    BY <1>4, <2>1, <2>2, <2>4
<1> HIDE DEF M
<1>8. M \in Loads(u)
  BY <1>2, <1>5, <1>6, <1>7 DEF Loads
<1> QED
  BY <1>8 DEF M

\* A rotation removes the old key and gives its addresses to the new one.
LEMMA RotateLoads ==
  ASSUME NEW t \in Confs, NEW L \in Loads(t), NEW k \in Keys, NEW n \in Keys, t[k] # Absent, t[n] = Absent,
         NEW u, u = [t EXCEPT ![k] = Absent, ![n] = t[k]]
  PROVE  Assign(Unassign(L, k), n, t[k]) \in Loads(u)
<1> DEFINE K == Unassign(L, k)
           M == Assign(K, n, t[k])
<1>1. L \in Lives /\ t[k] \in SUBSET Addrs /\ n # k
  BY WgAssumption DEF Loads, Confs
<1>2. K \in Lives /\ K[k] = Absent /\ \A q \in Keys \ {k} : K[q] = L[q]
  BY <1>1 DEF Unassign, Lives
<1>3. /\ M \in Lives /\ M[n] = t[k]
      /\ \A q \in Keys \ {n} : (M[q] = Absent) = (K[q] = Absent) /\ (K[q] # Absent => M[q] = K[q] \ t[k])
  BY <1>1, <1>2, AssignIs
<1>4. u[k] = Absent /\ u[n] = t[k] /\ \A q \in Keys \ {k, n} : u[q] = t[q]
  BY <1>1 DEF Confs
<1>5. /\ \A q \in Keys : (L[q] = Absent) = (t[q] = Absent)
      /\ \A q \in Keys : L[q] # Absent => L[q] \subseteq t[q]
      /\ \A a \in Addrs : Holders(t, a) # {} => \E q \in Keys : Holders(L, a) = {q}
  BY <1>1, LoadsIs
<1>6. ASSUME NEW q \in Keys PROVE (M[q] = Absent) = (u[q] = Absent) /\ (M[q] # Absent => M[q] \subseteq u[q])
  <2> HIDE DEF M, K
  <2>1. CASE q = n
    BY <1>1, <1>3, <1>4, <2>1
  <2>2. CASE q = k
    BY <1>1, <1>2, <1>3, <1>4, <2>2
  <2>3. CASE q \in Keys \ {k, n}
    <3>1. K[q] = L[q] /\ u[q] = t[q]
      BY <1>2, <1>4, <2>3
    <3>2. (M[q] = Absent) = (L[q] = Absent) /\ (L[q] # Absent => M[q] = L[q] \ t[k])
      BY <1>3, <2>3, <3>1
    <3>3. (L[q] = Absent) = (t[q] = Absent) /\ (L[q] # Absent => L[q] \subseteq t[q])
      BY <1>5
    <3> QED
      BY <3>1, <3>2, <3>3
  <2> QED
    BY <2>1, <2>2, <2>3
<1>7. ASSUME NEW a \in Addrs, Holders(u, a) # {} PROVE \E q \in Keys : Holders(M, a) = {q}
  <2>1. CASE a \in t[k]
    BY <1>1, <1>2, <2>1, AssignHolders
  <2>2. CASE a \notin t[k]
    <3>1. Holders(M, a) = Holders(K, a) \ {n}
      BY <1>1, <1>2, <2>2, AssignHolders
    <3>2. Holders(t, a) # {}
      BY <1>4, <1>7, <2>2 DEF Holders
    <3>3. k \notin Holders(L, a) /\ n \notin Holders(L, a)
      BY <1>5, <2>2 DEF Holders
    <3>4. Holders(K, a) = Holders(L, a)
      BY <1>2, <3>3 DEF Holders
    <3> QED
      BY <1>5, <3>1, <3>2, <3>3, <3>4
  <2> QED
    BY <2>1, <2>2
<1> HIDE DEF M
<1>8. M \in Loads(u)
  BY <1>3, <1>6, <1>7 DEF Loads
<1> QED
  BY <1>8 DEF M

\* What a caller that has written the config knows of it, and that a failed
\* command can be undone.
EditAt(c) ==
  /\ pc[c] \in {"save", "write", "live", "live2", "undo"} /\ op[c].kind # "restore" => Allowed(op[c], seen[c])
  /\ pc[c] \in {"live", "live2", "undo"} =>
       /\ op[c].kind \in {"add", "update", "remove", "rotate"} /\ seen[c] \in Confs
       /\ conf = Edited(op[c], seen[c]) /\ prev[c] \in {NoConf, seen[c]}
  /\ pc[c] = "live2" => op[c].kind = "rotate" /\ live[op[c].key] = Absent
  /\ pc[c] = "reload" => op[c].kind \in {"server", "restore", "ensure"}

\* While a change is half made the kernel still has what the caller read.
BehindAt(c) ==
  /\ pc[c] \in {"live", "undo"} => live \in Loads(seen[c])
  /\ pc[c] = "live2" => \E L \in Loads(seen[c]) : live = Unassign(L, op[c].key)
InStep ==
  ~doubt => /\ (\A c \in Callers : pc[c] \notin AfterWriting) => Agree
            /\ \A c \in Callers : BehindAt(c)

WgInv == IInv /\ (\A c \in Callers : EditAt(c)) /\ InStep

\* What is left to show of a step of the caller that holds the mutex.
LEMMA HolderSteps ==
  ASSUME MaxInst = 1, WgInv, NEW c \in Callers, pc[c] \notin {"idle", "lock"}, NEW l, pc' = [pc EXCEPT ![c] = l],
         IInv', EditAt(c)', ~doubt' => (l \notin AfterWriting => Agree') /\ BehindAt(c)'
  PROVE  WgInv'
<1>1. \A d \in Callers \ {c} : pc[d] \in {"idle", "lock"}
  BY OneHolder DEF WgInv
<1>2. pc'[c] = l /\ \A d \in Callers \ {c} : pc'[d] \in {"idle", "lock"}
  BY <1>1 DEF WgInv, IInv, TypeOK
<1>3. \A d \in Callers \ {c} : EditAt(d)' /\ BehindAt(d)'
  BY <1>2 DEF EditAt, BehindAt
<1>4. InStep'
  BY <1>2, <1>3 DEF InStep
<1> QED
  BY <1>3, <1>4 DEF WgInv

\* Before a caller writes, file and kernel are in step.
LEMMA BeforeWriting ==
  ASSUME MaxInst = 1, WgInv, NEW c \in Callers, pc[c] \in {"read", "save", "write"}, ~doubt
  PROVE  Agree
<1>1. \A d \in Callers \ {c} : pc[d] \in {"idle", "lock"}
  BY OneHolder DEF WgInv
<1> QED
  BY <1>1 DEF WgInv, InStep, AfterWriting

\* Calls and the mutex touch neither.
LEMMA WgCall ==
  ASSUME MaxInst = 1, WgInv, NEW c \in Callers, (\E o \in Requests : Call(c, o)) \/ Lock(c)
  PROVE  WgInv'
<1>1. IInv'
  BY CallInv, LockInv DEF WgInv
<1>2. /\ UNCHANGED <<conf, live, doubt>> /\ pc'[c] \in {"lock", "read"} /\ pc[c] \in {"idle", "lock"}
      /\ \A d \in Callers \ {c} : /\ pc'[d] = pc[d] /\ op'[d] = op[d] /\ seen'[d] = seen[d]
                                    /\ prev'[d] = prev[d]
  BY DEF WgInv, IInv, TypeOK, Call, Lock, Goto, host
<1>3. EditAt(c)' /\ BehindAt(c)'
  BY <1>2 DEF EditAt, BehindAt
<1>4. ASSUME NEW d \in Callers \ {c} PROVE EditAt(d)' /\ (BehindAt(d) => BehindAt(d)')
  <2>1. EditAt(d)
    BY DEF WgInv
  <2> QED
    BY <1>2, <2>1 DEF EditAt, BehindAt
<1>5. InStep'
  <2>1. \A d \in Callers : pc'[d] \notin AfterWriting <=> pc[d] \notin AfterWriting
    BY <1>2 DEF AfterWriting
  <2>2. Agree' = Agree
    BY <1>2 DEF Agree
  <2> QED
    BY <1>2, <1>3, <1>4, <2>1, <2>2 DEF WgInv, InStep
<1> QED
  BY <1>1, <1>3, <1>4, <1>5 DEF WgInv

\* readConf and FindPeer, and the read that keeps prev.
LEMMA WgRead ==
  ASSUME MaxInst = 1, WgInv, NEW c \in Callers, Read(c) \/ Save(c)
  PROVE  WgInv'
<1>1. IInv' /\ TypeOK /\ Holding
  BY ReadInv, SaveInv DEF WgInv, IInv
<1>2. UNCHANGED <<conf, live, doubt>> /\ pc[c] \in {"read", "save"}
  BY DEF Read, Save, host
<1>3. ~doubt' => Agree'
  BY <1>2, BeforeWriting DEF Agree
<1>4. PICK l \in {"idle", "save", "write"} : pc' = [pc EXCEPT ![c] = l]
  BY DEF Read, Save, Goto, Return, Continue
<1>5. pc'[c] = l
  BY <1>1, <1>4 DEF TypeOK
<1>6. EditAt(c)'
  <2>1. CASE Save(c)
    <3>1. op' = op /\ seen' = seen /\ pc[c] = "save"
      BY <2>1 DEF Save
    <3>2. EditAt(c)
      BY DEF WgInv
    <3> QED
      BY <1>4, <1>5, <3>1, <3>2 DEF EditAt
  <2>2. CASE Read(c) /\ l # "idle"
    <3>1. op' = op /\ (op[c].kind = "restore" \/ (seen'[c] = conf /\ Allowed(op[c], conf)))
      BY <1>1, <1>5, <2>2 DEF Read, Goto, Return, Continue, TypeOK
    <3> QED
      BY <1>4, <1>5, <3>1 DEF EditAt
  <2>3. CASE l = "idle"
    BY <1>5, <2>3 DEF EditAt
  <2> QED
    BY <2>1, <2>2, <2>3
<1>7. BehindAt(c)'
  BY <1>4, <1>5 DEF BehindAt
<1> QED
  BY <1>1, <1>2, <1>3, <1>4, <1>6, <1>7, HolderSteps

\* The config is overwritten, or not.
LEMMA WgWrite ==
  ASSUME MaxInst = 1, WgInv, NEW c \in Callers, Write(c)
  PROVE  WgInv'
<1>1. IInv' /\ IInv /\ TypeOK /\ pc[c] = "write" /\ live' = live /\ op[c] \in Ops /\ seen[c] \in Confs
  BY WriteInv DEF WgInv, IInv, Write, Holding
<1>2. ~doubt => live \in Loads(conf)
  BY <1>1, BeforeWriting DEF Agree
<1>3. CASE Return(c, "err") /\ ((conf' = conf /\ doubt' = doubt) \/ doubt' = TRUE)
  <2>1. pc' = [pc EXCEPT ![c] = "idle"] /\ pc'[c] = "idle"
    BY <1>1, <1>3 DEF Return, TypeOK
  <2>2. EditAt(c)' /\ BehindAt(c)' /\ (~doubt' => Agree')
    BY <1>1, <1>2, <1>3, <2>1 DEF EditAt, BehindAt, Agree
  <2> QED
    BY <1>1, <2>1, <2>2, HolderSteps
<1>4. CASE conf' = Edited(op[c], seen[c]) /\ Continue(c, AfterWrite(op[c])) /\ doubt' = doubt
  <2>1. pc' = [pc EXCEPT ![c] = AfterWrite(op[c])] /\ pc'[c] = AfterWrite(op[c]) /\ UNCHANGED <<op, seen, prev>>
    BY <1>1, <1>4 DEF Continue, Goto, TypeOK
  <2>2. CASE op[c].kind \in {"server", "restore", "ensure"}
    <3>1. AfterWrite(op[c]) = "reload"
      BY <2>2 DEF AfterWrite
    <3>2. EditAt(c)' /\ BehindAt(c)'
      BY <2>1, <2>2, <3>1 DEF EditAt, BehindAt
    <3> QED
      BY <1>1, <2>1, <3>1, <3>2, HolderSteps DEF AfterWriting
  <2>3. CASE op[c].kind \in {"add", "update", "remove", "rotate"}
    <3>1. AfterWrite(op[c]) = "live"
      BY <2>3 DEF AfterWrite
    <3>2. seen[c] = conf /\ prev[c] \in {NoConf, seen[c]} /\ Allowed(op[c], seen[c])
      BY <1>1, <2>3 DEF IInv, SeenIsConf, WgInv, EditAt
    <3>3. EditAt(c)'
      BY <1>1, <1>4, <2>1, <2>3, <3>1, <3>2 DEF EditAt
    <3>4. ~doubt' => BehindAt(c)'
      BY <1>1, <1>2, <1>4, <2>1, <3>1, <3>2 DEF BehindAt
    <3> QED
      BY <1>1, <2>1, <3>1, <3>3, <3>4, HolderSteps DEF AfterWriting
  <2> QED
    BY <1>1, <2>2, <2>3 DEF Ops, Kinds
<1> QED
  BY <1>3, <1>4 DEF Write
\* The first wg set.
LEMMA WgLive ==
  ASSUME MaxInst = 1, WgInv, NEW c \in Callers, Live(c)
  PROVE  WgInv'
<1>1. /\ IInv' /\ IInv /\ TypeOK /\ pc[c] = "live" /\ conf' = conf /\ op[c] \in Ops
      /\ EditAt(c) /\ (~doubt => BehindAt(c))
  BY LiveInv DEF WgInv, IInv, Live, Holding, InStep
<1>2. PICK o \in Ops : o = op[c]
  BY <1>1
<1>3. PICK t \in Confs : t = seen[c]
  BY <1>1 DEF EditAt
<1>4. /\ o.kind \in {"add", "update", "remove", "rotate"} /\ conf = Edited(o, t) /\ Allowed(o, t)
      /\ ~doubt => live \in Loads(t)
  BY <1>1, <1>2, <1>3 DEF EditAt, BehindAt
<1>5. o.key \in Keys /\ o.new \in Keys /\ o.ips \in Specs /\ live \in Lives
  BY <1>1 DEF Ops, TypeOK
<1>6. CASE live' = LiveEffect(o) /\ doubt' = (doubt \/ GivesUpShared(o, t)) /\ o.kind = "rotate" /\ Continue(c, "live2")
  <2>1. pc' = [pc EXCEPT ![c] = "live2"] /\ pc'[c] = "live2" /\ UNCHANGED <<op, seen, prev>>
    BY <1>1, <1>6 DEF Continue, Goto, TypeOK
  <2>2. live' = Unassign(live, o.key) /\ live'[o.key] = Absent
    BY <1>5, <1>6 DEF LiveEffect, Unassign, Lives
  <2>3. EditAt(c)'
    BY <1>1, <1>2, <1>6, <2>1, <2>2 DEF EditAt
  <2>4. ~doubt' => BehindAt(c)'
    BY <1>2, <1>3, <1>4, <1>6, <2>1, <2>2 DEF BehindAt
  <2> QED
    BY <1>1, <2>1, <2>3, <2>4, HolderSteps DEF AfterWriting
<1>7. CASE live' = LiveEffect(o) /\ doubt' = (doubt \/ GivesUpShared(o, t)) /\ o.kind # "rotate" /\ Return(c, "ok")
  <2>1. pc' = [pc EXCEPT ![c] = "idle"] /\ pc'[c] = "idle"
    BY <1>1, <1>7 DEF Return, TypeOK
  <2>2. ASSUME ~doubt' PROVE Agree'
    <3>1. ~doubt /\ ~GivesUpShared(o, t) /\ live \in Loads(t)
      BY <1>4, <1>7, <2>2
    <3>2. ~Shares(t, o.key)
      BY <1>4, <1>7, <3>1 DEF GivesUpShared, Shares, Allowed
    <3>3. CASE o.kind = "remove"
      <4>1. conf = [t EXCEPT ![o.key] = Absent] /\ live' = Unassign(live, o.key)
        BY <1>4, <1>7, <3>3 DEF Edited, LiveEffect
      <4> QED
        BY <1>1, <1>5, <3>1, <3>2, <4>1, UnassignLoads DEF Agree
    <3>4. CASE o.kind \in {"add", "update"}
      <4>1. conf = [t EXCEPT ![o.key] = o.ips] /\ live' = Assign(live, o.key, o.ips)
        BY <1>4, <1>7, <3>4 DEF Edited, LiveEffect
      <4> QED
        BY <1>1, <1>5, <3>1, <3>2, <4>1, AssignLoads DEF Agree
    <3> QED
      BY <1>4, <1>7, <3>3, <3>4
  <2>3. EditAt(c)' /\ BehindAt(c)'
    BY <2>1 DEF EditAt, BehindAt
  <2> QED
    BY <1>1, <2>1, <2>2, <2>3, HolderSteps
<1>8. CASE doubt' = (doubt \/ live' # live \/ o.kind = "remove") /\ o.kind = "remove" /\ Return(c, "err")
  <2>1. pc' = [pc EXCEPT ![c] = "idle"] /\ pc'[c] = "idle" /\ doubt'
    BY <1>1, <1>8 DEF Return, TypeOK
  <2>2. EditAt(c)'
    BY <2>1 DEF EditAt
  <2> QED
    BY <1>1, <2>1, <2>2, HolderSteps
<1>9. CASE doubt' = (doubt \/ live' # live \/ o.kind = "remove") /\ o.kind # "remove" /\ Continue(c, "undo")
  <2>1. pc' = [pc EXCEPT ![c] = "undo"] /\ pc'[c] = "undo" /\ UNCHANGED <<op, seen, prev>>
    BY <1>1, <1>9 DEF Continue, Goto, TypeOK
  <2>2. EditAt(c)'
    BY <1>1, <2>1 DEF EditAt
  <2>3. ~doubt' => BehindAt(c)'
    BY <1>3, <1>4, <1>9, <2>1 DEF BehindAt
  <2> QED
    BY <1>1, <2>1, <2>2, <2>3, HolderSteps DEF AfterWriting
<1> QED
  BY <1>2, <1>3, <1>6, <1>7, <1>8, <1>9 DEF Live

\* A rotation is of one key to another.
LEMMA RotationKnown ==
  ASSUME WgInv, NEW c \in Callers, pc[c] = "live2"
  PROVE  /\ op[c] \in Ops /\ op[c].kind = "rotate" /\ seen[c] \in Confs
         /\ seen[c][op[c].key] # Absent /\ seen[c][op[c].new] = Absent
         /\ conf = [seen[c] EXCEPT ![op[c].key] = Absent, ![op[c].new] = seen[c][op[c].key]]
<1>1. op[c] \in Ops /\ EditAt(c)
  BY DEF WgInv, IInv, Holding
<1>2. /\ op[c].kind = "rotate" /\ seen[c] \in Confs /\ Allowed(op[c], seen[c])
      /\ conf = Edited(op[c], seen[c])
  BY <1>1 DEF EditAt
<1> QED
  BY <1>1, <1>2 DEF Allowed, Edited

\* The second wg set of a rotation.
LEMMA WgLive2 ==
  ASSUME MaxInst = 1, WgInv, NEW c \in Callers, Live2(c)
  PROVE  WgInv'
<1>1. /\ IInv' /\ IInv /\ TypeOK /\ pc[c] = "live2" /\ conf' = conf
      /\ EditAt(c) /\ (~doubt => BehindAt(c))
  BY Live2Inv DEF WgInv, IInv, Live2, InStep
<1>2. PICK o \in Ops : o = op[c]
  BY <1>1, RotationKnown
<1>3. PICK t \in Confs : t = seen[c]
  BY <1>1, RotationKnown
<1>4. /\ t[o.key] # Absent /\ t[o.new] = Absent /\ conf = [t EXCEPT ![o.key] = Absent, ![o.new] = t[o.key]]
      /\ o.key \in Keys /\ o.new \in Keys
  BY <1>1, <1>2, <1>3, RotationKnown DEF Ops
<1>5. CASE live' = Assign(live, o.new, t[o.key]) /\ doubt' = doubt /\ Return(c, "ok")
  <2>1. pc' = [pc EXCEPT ![c] = "idle"] /\ pc'[c] = "idle"
    BY <1>1, <1>5 DEF Return, TypeOK
  <2>2. ASSUME ~doubt' PROVE Agree'
    <3>1. PICK L \in Loads(t) : live = Unassign(L, o.key)
      BY <1>1, <1>2, <1>3, <1>5, <2>2 DEF BehindAt
    <3> QED
      BY <1>1, <1>4, <1>5, <3>1, RotateLoads DEF Agree
  <2>3. EditAt(c)' /\ BehindAt(c)'
    BY <2>1 DEF EditAt, BehindAt
  <2> QED
    BY <1>1, <2>1, <2>2, <2>3, HolderSteps
<1>6. CASE doubt' = TRUE /\ Continue(c, "undo")
  <2>1. pc' = [pc EXCEPT ![c] = "undo"] /\ pc'[c] = "undo" /\ UNCHANGED <<op, seen, prev>>
    BY <1>1, <1>6 DEF Continue, Goto, TypeOK
  <2>2. EditAt(c)'
    BY <1>1, <2>1 DEF EditAt
  <2> QED
    BY <1>1, <1>6, <2>1, <2>2, HolderSteps
<1> QED
  BY <1>2, <1>3, <1>5, <1>6 DEF Live2

\* The rollback, and the restart.
LEMMA WgUndo ==
  ASSUME MaxInst = 1, WgInv, NEW c \in Callers, Undo(c) \/ Reload(c)
  PROVE  WgInv'
<1>1. IInv' /\ IInv /\ TypeOK /\ pc[c] \in {"undo", "reload"} /\ EditAt(c) /\ (~doubt => BehindAt(c))
  BY UndoInv, ReloadInv DEF WgInv, IInv, Undo, Reload, InStep
<1>2. pc' = [pc EXCEPT ![c] = "idle"] /\ pc'[c] = "idle"
  BY <1>1 DEF Undo, Reload, Return, TypeOK
<1>3. EditAt(c)' /\ BehindAt(c)'
  BY <1>2 DEF EditAt, BehindAt
<1>4. ~doubt' => Agree'
  <2>1. CASE Undo(c)
    <3>1. live' = live /\ (~doubt' => ~doubt /\ prev[c] # NoConf /\ conf' = prev[c])
      BY <2>1 DEF Undo
    <3>2. pc[c] = "undo" /\ prev[c] \in {NoConf, seen[c]}
      BY <1>1, <2>1 DEF Undo, EditAt
    <3> QED
      BY <1>1, <3>1, <3>2 DEF BehindAt, Agree
  <2>2. CASE Reload(c)
    BY <2>2 DEF Reload, Agree
  <2> QED
    BY <2>1, <2>2
<1> QED
  BY <1>1, <1>2, <1>3, <1>4, HolderSteps

\* What happens outside the operations: a reload in the middle of one is a doubt.
LEMMA WgOutside ==
  ASSUME MaxInst = 1, WgInv, Rebuild \/ HostReload \/ PanelCrash
  PROVE  WgInv'
<1>1. IInv' /\ IInv /\ TypeOK
  BY OutsideInv DEF WgInv, IInv
<1>2. CASE Rebuild
  BY <1>1, <1>2 DEF Rebuild, TypeOK, Insts
<1>3. CASE HostReload
  <2>1. /\ live' \in Loads(conf) /\ doubt' = (\E c \in Callers : pc[c] \in AfterWriting)
        /\ UNCHANGED <<conf, pc, op, seen, prev>>
    BY <1>3 DEF HostReload
  <2>2. ASSUME NEW c \in Callers PROVE EditAt(c)'
    <3>1. EditAt(c)
      BY DEF WgInv
    <3>2. pc[c] = "live2" => live'[op[c].key] = Absent
      <4> SUFFICES ASSUME pc[c] = "live2" PROVE live'[op[c].key] = Absent
        OBVIOUS
      <4>1. op[c].key \in Keys /\ op[c].new \in Keys /\ conf[op[c].key] = Absent
        BY RotationKnown DEF Ops, Confs
      <4> QED
        BY <2>1, <4>1 DEF Loads
    <3> QED
      BY <2>1, <3>1, <3>2 DEF EditAt
  <2>3. InStep'
    <3>1. Agree'
      BY <2>1 DEF Agree
    <3>2. ~doubt' => \A c \in Callers : BehindAt(c)'
      BY <2>1 DEF BehindAt, AfterWriting
    <3> QED
      BY <3>1, <3>2 DEF InStep
  <2> QED
    BY <1>1, <2>2, <2>3 DEF WgInv
<1>4. CASE PanelCrash
  <2>1. /\ pc' = [c \in Callers |-> "idle"] /\ UNCHANGED <<conf, live>>
        /\ doubt' = (doubt \/ \E c \in Callers : pc[c] \in AfterWriting)
    BY <1>4 DEF PanelCrash
  <2>2. \A c \in Callers : EditAt(c)' /\ BehindAt(c)'
    BY <2>1 DEF EditAt, BehindAt
  <2>3. ~doubt' => Agree'
    BY <2>1 DEF WgInv, InStep, Agree
  <2> QED
    BY <1>1, <2>2, <2>3 DEF WgInv, InStep
<1> QED
  BY <1>2, <1>3, <1>4

\* File and kernel begin without peers.
LEMMA WgInvInit == Init => WgInv
<1> SUFFICES ASSUME Init PROVE WgInv
  OBVIOUS
<1>1. IInv
  BY InitInv
<1>2. \A c \in Callers : EditAt(c) /\ BehindAt(c)
  BY DEF Init, EditAt, BehindAt
<1>3. Agree
  <2>1. NoPeers \in Lives /\ \A k \in Keys : NoPeers[k] = Absent
    BY DEF NoPeers, Lives
  <2>2. \A a : Holders(NoPeers, a) = {}
    BY <2>1 DEF Holders
  <2>3. NoPeers \in Loads(NoPeers)
    BY <2>1, <2>2 DEF Loads
  <2> QED
    BY <2>3 DEF Init, Agree
<1> QED
  BY <1>1, <1>2, <1>3 DEF WgInv, InStep

\* Every step keeps the invariant.
LEMMA WgInvNext == ASSUME MaxInst = 1 PROVE WgInv /\ [Next]_vars => WgInv'
<1> SUFFICES ASSUME WgInv, [Next]_vars PROVE WgInv'
  OBVIOUS
<1>1. ASSUME NEW c \in Callers, Step(c) PROVE WgInv'
  BY <1>1, WgRead, WgWrite, WgLive, WgLive2, WgUndo DEF Step
<1>2. CASE UNCHANGED vars
  <2>1. UNCHANGED <<conf, live, pc, op, seen, prev, doubt>> /\ IInv'
    BY <1>2, NextInv DEF WgInv, vars
  <2>2. \A c \in Callers : EditAt(c)' /\ (BehindAt(c) => BehindAt(c)')
    BY <2>1 DEF WgInv, EditAt, BehindAt
  <2>3. InStep'
    BY <2>1, <2>2 DEF WgInv, InStep, Agree
  <2> QED
    BY <2>1, <2>2, <2>3 DEF WgInv
<1> QED
  BY <1>1, <1>2, WgCall, WgOutside DEF Next, OneObjectNext

\* The invariant holds throughout.
LEMMA WgInvHolds == ASSUME MaxInst = 1 PROVE Spec => []WgInv
  BY WgInvInit, WgInvNext, PTL DEF Spec

\* writeConfAndApply, RotatePeerKey and RemovePeer: whenever nobody holds the
\* mutex the kernel has what a reload of the config would give, unless one of the
\* steps that doubt names happened since the last reload.
THEOREM WgInStep == ASSUME MaxInst = 1 PROVE Spec => []AgreeUnlessDoubt
<1>1. WgInv => AgreeUnlessDoubt
  <2> SUFFICES ASSUME WgInv, AtRest, ~doubt PROVE Agree
    BY DEF AgreeUnlessDoubt
  <2>1. \A c \in Callers : inst[c] \in Insts /\ None # c
    BY WgAssumption DEF WgInv, IInv, TypeOK
  <2>2. \A c \in Callers : pc[c] \in {"idle", "lock"}
    BY <2>1 DEF WgInv, IInv, Holding, AtRest
  <2> QED
    BY <2>2 DEF WgInv, InStep, AfterWriting
<1> QED
  BY <1>1, WgInvHolds, PTL

\* A call that returns no error left its peers the same in file and kernel.
Answered ==
  \A c \in Callers :
    ret'[c] = "ok" /\ ret[c] = None /\ op[c].kind \notin {"server", "restore", "ensure"}
      => \A k \in Touched(op[c]) : conf'[k] = live'[k]

\* Only the last wg set of a call returns ok.
LEMMA AnsweredStep == ASSUME MaxInst = 1 PROVE WgInv /\ [Next]_vars => Answered
<1> SUFFICES ASSUME WgInv, [Next]_vars, NEW c \in Callers, ret'[c] = "ok", ret[c] = None,
                    op[c].kind \notin {"server", "restore", "ensure"}, NEW k \in Touched(op[c])
             PROVE  conf'[k] = live'[k]
  BY DEF Answered
<1>1. TypeOK /\ EditAt(c) /\ Holding /\ None # "ok"
  BY WgAssumption DEF WgInv, IInv
<1>2. Live(c) \/ Live2(c)
  <2>1. ASSUME NEW d \in Callers, d # c, (\E o \in Requests : Call(d, o)) \/ Lock(d) \/ Step(d) PROVE FALSE
    <3> DEFINE Touches == ret' = ret \/ \E x : ret' = [ret EXCEPT ![d] = x]
    <3>1. ASSUME (\E o \in Requests : Call(d, o)) \/ Lock(d) \/ Save(d) PROVE Touches
      BY <3>1 DEF Call, Lock, Save
    <3>2. ASSUME Read(d) \/ Write(d) PROVE Touches
      BY <3>2 DEF Read, Write, Return, Continue
    <3>3. ASSUME Live(d) \/ Live2(d) PROVE Touches
      BY <3>3 DEF Live, Live2, Return, Continue
    <3>4. ASSUME Undo(d) \/ Reload(d) PROVE Touches
      BY <3>4 DEF Undo, Reload, Return
    <3>5. Touches
      BY <2>1, <3>1, <3>2, <3>3, <3>4 DEF Step
    <3>6. ret'[c] = ret[c]
      BY <1>1, <2>1, <3>5 DEF TypeOK
    <3> QED
      BY <1>1, <3>6
  <2>2. ASSUME Rebuild \/ HostReload \/ PanelCrash \/ UNCHANGED vars PROVE FALSE
    BY <1>1, <2>2 DEF Rebuild, HostReload, PanelCrash, vars
  <2>3. ASSUME (\E o \in Requests : Call(c, o)) \/ Lock(c) \/ Read(c) \/ Save(c) \/ Write(c) \/ Undo(c) \/ Reload(c)
        PROVE  FALSE
    <3>1. ASSUME (\E o \in Requests : Call(c, o)) \/ Lock(c) \/ Save(c) PROVE FALSE
      BY <1>1, <3>1 DEF TypeOK, Call, Lock, Save
    <3>2. ASSUME Read(c) \/ Write(c) \/ Undo(c) PROVE FALSE
      BY <1>1, <3>2 DEF TypeOK, Read, Write, Undo, Return, Continue
    <3>3. ASSUME Reload(c) PROVE FALSE
      BY <1>1, <3>3 DEF Reload, EditAt
    <3> QED
      BY <2>3, <3>1, <3>2, <3>3
  <2> QED
    BY <2>1, <2>2, <2>3 DEF Next, OneObjectNext, Step
<1>3. CASE Live(c)
  <2>1. PICK o \in Ops : o = op[c]
    BY <1>1, <1>3 DEF Holding, Live
  <2>2. PICK t \in Confs : t = seen[c]
    BY <1>1, <1>3 DEF EditAt, Live
  <2>3. /\ o.kind \in {"add", "update", "remove", "rotate"} /\ conf = Edited(o, t) /\ conf' = conf
        /\ o.key \in Keys /\ o.ips \in Specs /\ live \in Lives
    BY <1>1, <1>3, <2>1, <2>2 DEF EditAt, Live, Ops, TypeOK
  <2>4. live' = LiveEffect(o) /\ o.kind # "rotate"
    BY <1>1, <1>3, <2>1 DEF Live, Return, Continue, TypeOK
  <2>5. k = o.key
    BY <2>1, <2>3, <2>4 DEF Touched
  <2>6. CASE o.kind = "remove"
    BY <2>3, <2>4, <2>5, <2>6 DEF Edited, LiveEffect, Unassign, Lives, Confs
  <2>7. CASE o.kind \in {"add", "update"}
    <3>1. conf[k] = o.ips
      BY <2>3, <2>5, <2>7 DEF Edited, Confs
    <3>2. live'[k] = o.ips
      BY <2>3, <2>4, <2>5, <2>7 DEF LiveEffect, Assign
    <3> QED
      BY <2>3, <3>1, <3>2
  <2> QED
    BY <2>3, <2>4, <2>6, <2>7
<1>4. CASE Live2(c)
  <2>1. /\ pc[c] = "live2" /\ conf' = conf
        /\ live' = Assign(live, op[c].new, seen[c][op[c].key])
    BY <1>1, <1>4 DEF Live2, Return, Continue, TypeOK
  <2>2. /\ op[c] \in Ops /\ op[c].kind = "rotate" /\ seen[c] \in Confs
        /\ seen[c][op[c].key] # Absent /\ seen[c][op[c].new] = Absent
        /\ conf = [seen[c] EXCEPT ![op[c].key] = Absent, ![op[c].new] = seen[c][op[c].key]]
    BY <2>1, RotationKnown
  <2>3. /\ op[c].key \in Keys /\ op[c].new \in Keys /\ op[c].key # op[c].new /\ live[op[c].key] = Absent
        /\ k \in {op[c].key, op[c].new}
    BY <1>1, <2>1, <2>2 DEF Ops, EditAt, Touched
  <2>4. /\ conf[op[c].key] = Absent /\ conf[op[c].new] = seen[c][op[c].key]
    BY <2>2, <2>3 DEF Confs
  <2>5. /\ live'[op[c].key] = Absent /\ live'[op[c].new] = seen[c][op[c].key]
    BY <2>1, <2>3 DEF Assign
  <2> QED
    BY <2>1, <2>3, <2>4, <2>5
<1> QED
  BY <1>2, <1>3, <1>4

\* AddPeer, UpdatePeer, RemovePeer, RotatePeerKey: a call that returns no error left
\* its peers the same in the config and in the kernel, whatever reloads came between.
THEOREM WgOkAgrees == ASSUME MaxInst = 1 PROVE Spec => OkAgrees
<1>1. WgInv /\ [Next]_vars => [Answered]_vars
  BY AnsweredStep
<1>2. OkAgrees <=> [][Answered]_vars
  BY PTL DEF OkAgrees, Answered
<1> QED
  BY <1>1, <1>2, WgInvHolds, PTL DEF Spec
=============================================================================
