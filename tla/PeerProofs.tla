----------------------------- MODULE PeerProofs -----------------------------
(***************************************************************************)
(* Proofs about the life of the clients, for any number of keys, clients,  *)
(* requests at once, failing calls and handlers that stop half-way.        *)
(*                                                                         *)
(* PeerSafe holds always; Calm holds as long as no call has failed and no  *)
(* two operations on one key have overlapped.  The handlers that run then  *)
(* have keys of their own, so that what each knows of its keys is          *)
(* disturbed by no other.                                                  *)
(***************************************************************************)
EXTENDS PeerLifecycle, TLAPS

-----------------------------------------------------------------------------
(* The invariant *)

Label == {"idle", "add", "seal", "unadd", "expiry", "update", "find", "save", "remove",
          "unsave", "undisable", "get", "rotate", "unsecret", "unexpire"}
Job == [kind : AllKinds \cup {"expire"}, key : Keys \cup {Absent}, new : Keys \cup {Absent},
        client : Entries, term : {"none", "future"}]

StoreTypes ==
  /\ conf \in [Keys -> Entries] /\ disabled \in [Keys -> Entries]
  /\ live \subseteq Keys /\ todo \subseteq Keys
  /\ off \in [Keys -> {"no", "yes", "again"}]
  /\ clients \subseteq Clients
  /\ faults \in Nat /\ clash \in BOOLEAN

PeerTypes == StoreTypes /\ pc \in [Procs -> Label] /\ job \in [Procs -> Job]

\* What a handler at call l with job j is about: its keys are in use, and the key
\* whose secret it is going to delete is one that is gone.
Runs(l, j) ==
  /\ l # "idle" => j.key \in Keys /\ j.new \in Keys
  /\ l \notin {"idle", "find"} => j.key \in made /\ j.new \in made
  /\ l = "find" => j.new = j.key
  /\ l = "add" => j.kind \in {"create", "adopt", "enable"}
  /\ l = "seal" => j.kind \in {"create", "rotate"}
  /\ l \in {"find", "save", "unsave"} => j.kind \in {"disable", "expire"}
  /\ l = "remove" => j.kind \in {"delete", "disable", "expire"}
  /\ l = "unsecret" => j.kind \in {"delete", "rotate"}
  /\ l = "get" => j.kind = "enable"
  /\ l = "rotate" => j.kind = "rotate"
  /\ l \in {"add", "seal"} /\ j.kind \in {"create", "adopt"} => j.new = j.key /\ j.client \in Clients
  /\ l = "unsecret" \/ (l = "seal" /\ j.kind = "rotate") => off[j.key] # "no"

\* A key that any store knows has been used.
MadeKeys ==
  \A k \in Keys : k \in live \/ conf[k] # Absent \/ disabled[k] # Absent \/ off[k] # "no" => k \in made

\* The secrets that were issued are stored, and are those of keys never given up.
SecretsStored == \A k \in issued : k \in secret /\ k \in Keys /\ off[k] = "no"

PeerSafe ==
  /\ PeerTypes
  /\ \A p \in Procs : Runs(pc[p], job[p])
  /\ MadeKeys
  /\ SecretsStored

\* The entry that stands for the client of a key.
Primary(k) == IF conf[k] # Absent THEN conf[k] ELSE disabled[k]
Homes == \A c \in clients : \E k \in Keys : Primary(k) = c

Fresh(k) == conf[k] = Absent /\ disabled[k] = Absent /\ off[k] = "no"

\* What a handler at call l with job j knows of its keys.
Knows(l, j) ==
  /\ l \notin {"unadd", "unsave"}
  /\ l = "add" /\ j.kind = "create" => Fresh(j.key)
  /\ l = "add" /\ j.kind = "enable" => disabled[j.key] = j.client /\ j.client # Absent
  /\ l = "seal" /\ j.kind = "create" => conf[j.key] = j.client
  /\ l = "save" => conf[j.key] = j.client /\ j.client # Absent
  /\ l = "remove" /\ j.kind # "delete" =>
       conf[j.key] = j.client /\ disabled[j.key] = j.client /\ j.client # Absent
  /\ l = "undisable" => conf[j.key] # Absent
  /\ l = "rotate" => Fresh(j.new) /\ j.new # j.key

KeyCalm(k) ==
  /\ k \in live <=> conf[k] # Absent
  /\ off[k] = "yes" => conf[k] = Absent /\ disabled[k] = Absent

KeysOf(j) == {j.key, j.new}

CalmInv ==
  /\ \A k \in Keys : KeyCalm(k)
  /\ \A p, q \in Procs : p # q /\ pc[p] # "idle" /\ pc[q] # "idle" =>
                           KeysOf(job[p]) \cap KeysOf(job[q]) = {}
  /\ \A p \in Procs : pc[p] # "idle" => Knows(pc[p], job[p])
  /\ Homes

Calm == Undisturbed => CalmInv

PeerInv == PeerSafe /\ Calm

-----------------------------------------------------------------------------
(* Steps of one handler *)

Moves(p, l, j) == pc' = [pc EXCEPT ![p] = l] /\ job' = [job EXCEPT ![p] = j]

\* A handler that ends, or goes on with the same job.
LEMMA Moving ==
  ASSUME PeerTypes, NEW p \in Procs
  PROVE  /\ NoJob \in Job /\ Runs("idle", NoJob) /\ job[p] \in Job /\ pc[p] \in Label
         /\ Finish(p) => Moves(p, "idle", NoJob)
         /\ \A l : Then(p, l) => Moves(p, l, job[p])
<1>1. NoJob \in Job
  BY DEF NoJob, Job, AllKinds, Entries
<1>2. Runs("idle", NoJob)
  BY DEF Runs
<1>3. job[p] \in Job /\ pc[p] \in Label /\ job = [job EXCEPT ![p] = job[p]]
  BY DEF PeerTypes
<1>4. Finish(p) => Moves(p, "idle", NoJob)
  BY DEF Finish, Goto, Moves
<1>5. \A l : Then(p, l) => Moves(p, l, job[p])
  BY <1>3 DEF Then, Goto, Moves
<1>6. QED
  BY <1>1, <1>2, <1>3, <1>4, <1>5

\* A step of one handler keeps the part of the invariant that always holds when
\* no key returns to "no" and no used key is forgotten.
LEMMA SafeMove ==
  ASSUME PeerSafe, NEW p \in Procs, NEW l \in Label, NEW j \in Job, Moves(p, l, j),
         StoreTypes', Runs(l, j)', made \subseteq made',
         \A k \in Keys : off[k] # "no" => off'[k] # "no",
         MadeKeys', SecretsStored'
  PROVE  PeerSafe'
<1>1. pc \in [Procs -> Label] /\ job \in [Procs -> Job]
  BY DEF PeerSafe, PeerTypes
<1>2. PeerTypes'
  BY <1>1 DEF Moves, PeerTypes
<1>3. ASSUME NEW q \in Procs PROVE Runs(pc[q], job[q])'
  <2>1. CASE q = p
    BY <1>1, <2>1 DEF Moves
  <2>2. CASE q # p
    <3>1. pc'[q] = pc[q] /\ job'[q] = job[q] /\ Runs(pc[q], job[q])
      BY <1>1, <2>2 DEF Moves, PeerSafe
    <3>2. QED
      BY <3>1 DEF Runs
  <2>3. QED
    BY <2>1, <2>2
<1>4. QED
  BY <1>2, <1>3 DEF PeerSafe

\* A step that changes the stores of its own keys only leaves the calm of the
\* others alone.
LEMMA CalmMove ==
  ASSUME PeerInv, PeerSafe', NEW p \in Procs, NEW l \in Label, NEW j \in Job, Moves(p, l, j),
         pc[p] # "idle", l # "idle" => KeysOf(j) = KeysOf(job[p]),
         UNCHANGED <<clash, faults>>,
         \A k \in Keys \ KeysOf(job[p]) :
            conf'[k] = conf[k] /\ disabled'[k] = disabled[k] /\ off'[k] = off[k]
            /\ (k \in live' <=> k \in live),
         Undisturbed => Homes' /\ (l # "idle" => Knows(l, j)')
                        /\ \A k \in KeysOf(job[p]) : KeyCalm(k)'
  PROVE  Calm'
<1> SUFFICES ASSUME Undisturbed' PROVE CalmInv'
  BY DEF Calm
<1>1. Undisturbed /\ CalmInv
  BY DEF Undisturbed, PeerInv, Calm
<1>2. pc \in [Procs -> Label] /\ job \in [Procs -> Job]
  BY DEF PeerInv, PeerSafe, PeerTypes
<1>3. pc'[p] = l /\ job'[p] = j /\ \A q \in Procs : q # p => pc'[q] = pc[q] /\ job'[q] = job[q]
  BY <1>2 DEF Moves
<1>4. ASSUME NEW k \in Keys PROVE KeyCalm(k)'
  <2>1. CASE k \in KeysOf(job[p])
    BY <1>1, <2>1
  <2>2. CASE k \notin KeysOf(job[p])
    BY <1>1, <2>2 DEF CalmInv, KeyCalm
  <2>3. QED
    BY <2>1, <2>2
<1>5. ASSUME NEW a \in Procs, NEW b \in Procs, a # b, pc'[a] # "idle", pc'[b] # "idle"
      PROVE  KeysOf(job'[a]) \cap KeysOf(job'[b]) = {}
  <2>1. ASSUME NEW q \in Procs, pc'[q] # "idle"
        PROVE  pc[q] # "idle" /\ KeysOf(job'[q]) = KeysOf(job[q])
    BY <1>3, <2>1
  <2>2. QED
    BY <1>1, <1>5, <2>1 DEF CalmInv
<1>6. ASSUME NEW q \in Procs, pc'[q] # "idle" PROVE Knows(pc[q], job[q])'
  <2>1. CASE q = p
    BY <1>1, <1>3, <1>6, <2>1
  <2>2. CASE q # p
    <3>1. pc'[q] = pc[q] /\ job'[q] = job[q] /\ Knows(pc[q], job[q])
      BY <1>1, <1>3, <1>6, <2>2 DEF CalmInv
    <3>2. job[q].key \notin KeysOf(job[p]) /\ job[q].new \notin KeysOf(job[p])
      BY <1>1, <1>6, <2>2, <3>1 DEF CalmInv, KeysOf
    <3>3. job[q].key \in Keys /\ job[q].new \in Keys
      BY <1>6, <3>1 DEF PeerInv, PeerSafe, Runs
    <3>4. /\ conf'[job[q].key] = conf[job[q].key] /\ disabled'[job[q].key] = disabled[job[q].key]
          /\ off'[job[q].key] = off[job[q].key]
          /\ conf'[job[q].new] = conf[job[q].new] /\ disabled'[job[q].new] = disabled[job[q].new]
          /\ off'[job[q].new] = off[job[q].new]
      BY <3>2, <3>3
    <3>5. QED
      BY <3>1, <3>4 DEF Knows, Fresh
  <2>3. QED
    BY <2>1, <2>2
<1>7. QED
  BY <1>1, <1>4, <1>5, <1>6 DEF CalmInv

\* After a failed call nothing is claimed any more of calm keys.
LEMMA FaultEndsCalm == ASSUME PeerInv, Fault PROVE Calm'
  BY DEF Fault, Calm, Undisturbed, PeerInv, PeerSafe, PeerTypes, StoreTypes

\* A step that changes no entry and no key of the interface.
LEMMA QuietMove ==
  ASSUME PeerInv, NEW p \in Procs, NEW l \in Label, NEW j \in Job, Moves(p, l, j), pc[p] # "idle",
         UNCHANGED <<conf, live, disabled, off, clients, made, issued, clash>>,
         faults' = faults \/ Fault, todo' \subseteq Keys,
         \A k \in issued : k \in secret => k \in secret',
         Runs(l, j), l # "idle" => KeysOf(j) = KeysOf(job[p]),
         Undisturbed /\ l # "idle" /\ faults' = faults => Knows(l, j)
  PROVE  PeerInv'
<1>1. PeerSafe'
  <2>1. faults' \in Nat
    BY DEF PeerInv, PeerSafe, PeerTypes, StoreTypes, Fault
  <2>2. StoreTypes'
    BY <2>1 DEF PeerInv, PeerSafe, PeerTypes, StoreTypes
  <2>3. Runs(l, j)'
    BY DEF Runs
  <2>4. MadeKeys' /\ SecretsStored'
    BY DEF PeerInv, PeerSafe, MadeKeys, SecretsStored
  <2>5. QED
    BY <2>2, <2>3, <2>4, SafeMove DEF PeerInv
<1>2. CASE faults' = faults
  <2>1. Undisturbed => Homes' /\ (l # "idle" => Knows(l, j)') /\ \A k \in KeysOf(job[p]) : KeyCalm(k)'
    <3> SUFFICES ASSUME Undisturbed
                 PROVE  Homes' /\ (l # "idle" => Knows(l, j)') /\ \A k \in KeysOf(job[p]) : KeyCalm(k)'
      OBVIOUS
    <3>1. CalmInv /\ \A k \in KeysOf(job[p]) : k \in Keys
      BY DEF PeerInv, Calm, PeerSafe, Runs, KeysOf
    <3>2. Homes'
      BY <3>1 DEF CalmInv, Homes, Primary
    <3>3. \A k \in KeysOf(job[p]) : KeyCalm(k)'
      BY <3>1 DEF CalmInv, KeyCalm
    <3>4. l # "idle" => Knows(l, j)'
      BY <1>2 DEF Knows, Fresh
    <3>5. QED
      BY <3>2, <3>3, <3>4
  <2>2. Calm'
    BY <1>1, <1>2, <2>1, CalmMove
  <2>3. QED
    BY <1>1, <2>2 DEF PeerInv
<1>3. CASE Fault
  BY <1>1, <1>3, FaultEndsCalm DEF PeerInv
<1>4. QED
  BY <1>2, <1>3

\* An empty panel.
LEMMA PeerStart == ASSUME PeersAssumption, Init PROVE PeerInv
<1>1. NoJob \in Job
  BY DEF NoJob, Job, AllKinds, Entries
<1>2. PeerTypes
  BY <1>1 DEF Init, PeerTypes, StoreTypes, Label, Entries
<1>3. \A p \in Procs : pc[p] = "idle"
  BY DEF Init
<1>4. PeerSafe
  BY <1>2, <1>3 DEF PeerSafe, Runs, MadeKeys, SecretsStored, Init
<1>5. CalmInv
  BY <1>3 DEF Init, CalmInv, KeyCalm, Homes
<1>6. QED
  BY <1>4, <1>5 DEF PeerInv, Calm

\* The calls that only read, or write rows the invariant does not speak of.
LEMMA QuietSteps ==
  ASSUME PeerInv, NEW p \in Procs,
         SetExpiry(p) \/ Find(p) \/ Get(p) \/ Unexpire(p) \/ Unsecret(p) \/ Abort(p)
  PROVE  PeerInv'
<1>1. /\ NoJob \in Job /\ Runs("idle", NoJob) /\ job[p] \in Job /\ pc[p] \in Label
      /\ Finish(p) => Moves(p, "idle", NoJob)
      /\ \A l : Then(p, l) => Moves(p, l, job[p])
  BY Moving DEF PeerInv, PeerSafe
<1>2. Runs(pc[p], job[p]) /\ todo \subseteq Keys /\ "idle" \in Label
  BY DEF PeerInv, PeerSafe, PeerTypes, StoreTypes, Label
<1>3. pc[p] # "idle"
  BY DEF SetExpiry, Find, Get, Unexpire, Unsecret, Abort
<1>4. CASE SetExpiry(p) \/ Unexpire(p)
  <2>1. /\ Moves(p, "idle", NoJob) /\ (faults' = faults \/ Fault)
        /\ UNCHANGED <<conf, live, disabled, off, clients, made, issued, clash, todo, secret>>
    BY <1>1, <1>4 DEF SetExpiry, Unexpire, NoFault, history
  <2>2. QED
    BY <1>1, <1>2, <1>3, <2>1, QuietMove
<1>5. CASE Abort(p)
  <2>1. /\ Moves(p, "idle", NoJob) /\ faults' = faults
        /\ UNCHANGED <<conf, live, disabled, off, clients, made, issued, clash, secret>>
        /\ todo' \subseteq Keys
    BY <1>1, <1>2, <1>5 DEF Abort, history, stores
  <2>2. QED
    BY <1>1, <1>2, <1>3, <2>1, QuietMove
<1>6. CASE Unsecret(p)
  <2>1. /\ UNCHANGED <<conf, live, disabled, off, clients, made, issued, clash, todo>>
        /\ (faults' = faults \/ Fault) /\ pc[p] = "unsecret"
        /\ \/ Moves(p, "idle", NoJob)
           \/ job[p].kind = "delete" /\ Moves(p, "unexpire", job[p])
        /\ secret' = secret \/ secret' = secret \ {job[p].key}
    BY <1>1, <1>6 DEF Unsecret, NoFault, history
  <2>2. \A k \in issued : k \in secret => k \in secret'
    BY <1>2, <2>1 DEF Runs, PeerInv, PeerSafe, SecretsStored
  <2>3. CASE Moves(p, "idle", NoJob)
    BY <1>1, <1>2, <1>3, <2>1, <2>2, <2>3, QuietMove
  <2>4. CASE Moves(p, "unexpire", job[p])
    <3>1. Runs("unexpire", job[p]) /\ Knows("unexpire", job[p]) /\ "unexpire" \in Label
      BY <1>2, <2>1 DEF Runs, Knows, Label
    <3>2. QED
      BY <1>1, <1>2, <1>3, <2>1, <2>2, <2>4, <3>1, QuietMove
  <2>5. QED
    BY <2>1, <2>3, <2>4
<1>7. CASE Find(p)
  <2>1. PICK k \in Keys : k = job[p].key
    BY <1>2, <1>3 DEF Runs
  <2>2. PICK entry \in Entries : entry = IF conf[k] = Absent THEN Unnamed ELSE conf[k]
    BY DEF PeerInv, PeerSafe, PeerTypes, StoreTypes, Entries
  <2>3. /\ UNCHANGED <<conf, live, disabled, off, clients, made, issued, clash, todo, secret>>
        /\ (faults' = faults \/ Fault) /\ pc[p] = "find"
        /\ \/ Moves(p, "idle", NoJob)
           \/ /\ k \in live /\ Goto(p, "save") /\ faults' = faults
              /\ job' = [job EXCEPT ![p].client = entry]
    BY <1>1, <1>7, <2>1, <2>2 DEF Find, NoFault, history, stores
  <2>4. CASE Moves(p, "idle", NoJob)
    BY <1>1, <1>2, <1>3, <2>3, <2>4, QuietMove
  <2>5. CASE k \in live /\ Goto(p, "save") /\ job' = [job EXCEPT ![p].client = entry] /\ faults' = faults
    <3> DEFINE rec == [job[p] EXCEPT !.client = entry]
    <3>1. PICK j \in Job : /\ j = rec /\ j.client = entry /\ j.key = job[p].key
                           /\ j.new = job[p].new /\ j.kind = job[p].kind
      <4>1. rec \in Job /\ rec.client = entry /\ rec.key = job[p].key
            /\ rec.new = job[p].new /\ rec.kind = job[p].kind
        BY <1>1 DEF Job
      <4>2. QED
        BY <4>1
    <3>2. Moves(p, "save", j)
      BY <2>5, <3>1 DEF Goto, Moves
    <3>3. Runs("save", j) /\ "save" \in Label
      <4>1. k \in made /\ job[p].new = k
        BY <1>2, <2>1, <2>3, <2>5 DEF Runs, PeerInv, PeerSafe, MadeKeys
      <4>2. QED
        BY <1>2, <2>1, <2>3, <3>1, <4>1 DEF Runs, Label
    <3>4. Undisturbed => Knows("save", j)
      <4>1. Undisturbed => conf[k] # Absent
        BY <2>5 DEF PeerInv, Calm, CalmInv, KeyCalm
      <4>2. QED
        BY <2>1, <2>2, <3>1, <4>1 DEF Knows
    <3>5. KeysOf(j) = KeysOf(job[p])
      BY <3>1 DEF KeysOf
    <3>6. QED
      BY <1>2, <1>3, <2>3, <3>2, <3>3, <3>4, <3>5, QuietMove
  <2>6. QED
    BY <2>3, <2>4, <2>5
<1>8. CASE Get(p)
  <2>1. PICK k \in Keys : k = job[p].key
    BY <1>2, <1>3 DEF Runs
  <2>2. PICK row \in Entries : row = disabled[k]
    BY DEF PeerInv, PeerSafe, PeerTypes, StoreTypes
  <2>3. /\ UNCHANGED <<conf, live, disabled, off, clients, made, issued, clash, todo, secret>>
        /\ (faults' = faults \/ Fault) /\ pc[p] = "get"
        /\ \/ Moves(p, "idle", NoJob)
           \/ row # Absent /\ Goto(p, "add") /\ job' = [job EXCEPT ![p].client = row]
    BY <1>1, <1>8, <2>1, <2>2 DEF Get, NoFault, history, stores
  <2>4. CASE Moves(p, "idle", NoJob)
    BY <1>1, <1>2, <1>3, <2>3, <2>4, QuietMove
  <2>5. CASE row # Absent /\ Goto(p, "add") /\ job' = [job EXCEPT ![p].client = row]
    <3> DEFINE rec == [job[p] EXCEPT !.client = row]
    <3>1. PICK j \in Job : /\ j = rec /\ j.client = row /\ j.key = job[p].key
                           /\ j.new = job[p].new /\ j.kind = job[p].kind
      <4>1. rec \in Job /\ rec.client = row /\ rec.key = job[p].key
            /\ rec.new = job[p].new /\ rec.kind = job[p].kind
        BY <1>1 DEF Job
      <4>2. QED
        BY <4>1
    <3>2. Moves(p, "add", j)
      BY <2>5, <3>1 DEF Goto, Moves
    <3>3. Runs("add", j) /\ "add" \in Label
      BY <1>2, <2>3, <3>1 DEF Runs, Label
    <3>4. Knows("add", j)
      BY <1>2, <2>1, <2>2, <2>3, <2>5, <3>1 DEF Knows, Runs
    <3>5. KeysOf(j) = KeysOf(job[p])
      BY <3>1 DEF KeysOf
    <3>6. QED
      BY <1>2, <1>3, <2>3, <3>2, <3>3, <3>4, <3>5, QuietMove
  <2>6. QED
    BY <2>3, <2>4, <2>5
<1>9. QED
  BY <1>4, <1>5, <1>6, <1>7, <1>8

\* A step that changes the entries of its own keys.
LEMMA StoreMove ==
  ASSUME PeerInv, NEW p \in Procs, NEW l \in Label, NEW j \in Job, Moves(p, l, j),
         pc[p] \notin {"idle", "find"},
         l # "idle" => KeysOf(j) = KeysOf(job[p]),
         UNCHANGED <<made, clash, todo>>, faults' = faults \/ Fault,
         conf' \in [Keys -> Entries], disabled' \in [Keys -> Entries], live' \subseteq Keys,
         clients' \subseteq Clients,
         off' \in [Keys -> {"no", "yes", "again"}],
         \A k \in Keys : off[k] # "no" => off'[k] # "no",
         \A k \in Keys \ KeysOf(job[p]) :
            conf'[k] = conf[k] /\ disabled'[k] = disabled[k] /\ off'[k] = off[k]
            /\ (k \in live' <=> k \in live),
         SecretsStored', Runs(l, j)',
         Undisturbed /\ faults' = faults =>
            Homes' /\ (l # "idle" => Knows(l, j)') /\ \A k \in KeysOf(job[p]) : KeyCalm(k)'
  PROVE  PeerInv'
<1>1. PeerSafe'
  <2>1. faults' \in Nat
    BY DEF PeerInv, PeerSafe, PeerTypes, StoreTypes, Fault
  <2>2. StoreTypes'
    BY <2>1 DEF PeerInv, PeerSafe, PeerTypes, StoreTypes
  <2>3. KeysOf(job[p]) \subseteq made
    BY DEF PeerInv, PeerSafe, Runs, KeysOf
  <2>4. MadeKeys'
    BY <2>3 DEF PeerInv, PeerSafe, MadeKeys
  <2>5. QED
    BY <2>2, <2>4, SafeMove DEF PeerInv
<1>2. CASE faults' = faults
  BY <1>1, <1>2, CalmMove DEF PeerInv
<1>3. CASE Fault
  BY <1>1, <1>3, FaultEndsCalm DEF PeerInv
<1>4. QED
  BY <1>2, <1>3

\* The facts about a handler under way that every step starts from.
LEMMA Working ==
  ASSUME PeerInv, NEW p \in Procs, pc[p] # "idle"
  PROVE  /\ NoJob \in Job /\ Runs("idle", NoJob) /\ job[p] \in Job /\ "idle" \in Label
         /\ Finish(p) => Moves(p, "idle", NoJob)
         /\ \A l : Then(p, l) => Moves(p, l, job[p])
         /\ Runs(pc[p], job[p]) /\ job[p].key \in Keys /\ job[p].new \in Keys
         /\ KeysOf(job[p]) = {job[p].key, job[p].new}
         /\ job[p].client \in Entries
         /\ conf \in [Keys -> Entries] /\ disabled \in [Keys -> Entries] /\ live \subseteq Keys
         /\ off \in [Keys -> {"no", "yes", "again"}] /\ clients \subseteq Clients
         /\ Absent \in Entries
         /\ Undisturbed => CalmInv /\ Knows(pc[p], job[p]) /\ Homes
                           /\ KeyCalm(job[p].key) /\ KeyCalm(job[p].new)
<1>1. PeerTypes /\ Runs(pc[p], job[p])
  BY DEF PeerInv, PeerSafe
<1>2. job[p].key \in Keys /\ job[p].new \in Keys
  BY <1>1 DEF Runs
<1>3. job[p].client \in Entries /\ Absent \in Entries
  BY <1>1 DEF PeerTypes, Job, Entries
<1>4. Undisturbed => CalmInv /\ Knows(pc[p], job[p]) /\ Homes
                     /\ KeyCalm(job[p].key) /\ KeyCalm(job[p].new)
  BY <1>2 DEF PeerInv, Calm, CalmInv
<1>5. QED
  BY <1>1, <1>2, <1>3, <1>4, Moving DEF PeerTypes, StoreTypes, KeysOf, Label

\* AddPeer and AddConfiguredPeer.
LEMMA AddStep == ASSUME PeersAssumption, PeerInv, NEW p \in Procs, AddTo(p) PROVE PeerInv'
<1>0. pc[p] = "add"
  BY DEF AddTo
<1> USE <1>0
<1>1. PICK k \in Keys : k = job[p].key
  BY Working
<1>2. PICK c \in Entries : c = job[p].client
  BY Working
<1>3. UNCHANGED <<disabled, secret, todo, made, issued, clash>>
  BY DEF AddTo
<1>4. SecretsStored' \/ off' # off
  BY <1>3 DEF PeerInv, PeerSafe, SecretsStored
<1>5. CASE Finish(p) /\ faults' = faults /\ UNCHANGED <<conf, live, clients, off>>
  BY <1>3, <1>5, Working, QuietMove DEF PeerInv, PeerSafe, PeerTypes, StoreTypes
<1>6. ASSUME conf[k] = Absent, c # Unnamed, conf' = [conf EXCEPT ![k] = c], live' = live \cup {k},
             faults' = faults,
             off' = IF job[p].kind = "adopt" /\ off[k] # "no" THEN [off EXCEPT ![k] = "again"] ELSE off,
             clients' = IF job[p].kind = "adopt"
                        THEN (clients \ {disabled[k]}) \cup {c} ELSE clients,
             NEW l \in {"seal", "expiry", "undisable"}, Moves(p, l, job[p]),
             job[p].kind = "create" <=> l = "seal", job[p].kind = "adopt" <=> l = "expiry"
      PROVE  PeerInv'
  <2>0. job[p].kind \in {"create", "adopt"} => c \in Clients
    BY <1>2, Working DEF Runs
  <2>1. conf' \in [Keys -> Entries] /\ live' \subseteq Keys /\ clients' \subseteq Clients
    BY <1>6, <2>0, Working
  <2>2. off' \in [Keys -> {"no", "yes", "again"}] /\ \A x \in Keys : off[x] # "no" => off'[x] # "no"
    BY <1>6, Working
  <2>3. \A x \in Keys \ KeysOf(job[p]) : conf'[x] = conf[x] /\ off'[x] = off[x]
                                         /\ (x \in live' <=> x \in live)
    BY <1>1, <1>6, Working
  <2>4. SecretsStored'
    BY <1>3, <1>6, Working DEF PeerInv, PeerSafe, SecretsStored
  <2>5. Runs(l, job[p]) /\ l \in Label
    BY <1>6, Working DEF Runs, Label
  <2>6. PICK j \in Job : j = job[p]
    BY Working
  <2>7. Runs(l, j)'
    BY <1>3, <2>2, <2>5, <2>6, Working DEF Runs
  <2>8. Undisturbed => Homes' /\ Knows(l, j)' /\ \A x \in KeysOf(job[p]) : KeyCalm(x)'
    <3> SUFFICES ASSUME Undisturbed
                 PROVE  Homes' /\ Knows(l, j)' /\ \A x \in KeysOf(job[p]) : KeyCalm(x)'
      OBVIOUS
    <3>1. CalmInv /\ Knows("add", j) /\ Homes /\ KeyCalm(job[p].key) /\ KeyCalm(job[p].new)
      BY <2>6, Working
    <3>2. j.kind \in {"create", "adopt", "enable"}
      BY <2>6, Working DEF Runs
    <3>3. c # Absent
      BY <1>2, <1>6, <2>0, <2>6, <3>1, <3>2 DEF Knows, PeersAssumption
    <3>4. conf'[k] = c /\ disabled' = disabled /\ conf'[k] # Absent /\ k \in live'
      BY <1>3, <1>6, <3>3, Working
    <3>5. Knows(l, j)'
      BY <1>1, <1>2, <1>6, <2>6, <3>4 DEF Knows
    <3>6. KeyCalm(k)'
      <4>1. off'[k] # "yes"
        BY <1>1, <1>2, <1>6, <2>2, <2>6, <3>1, <3>2, <3>3, Working DEF Knows, Fresh, KeyCalm
      <4>2. QED
        BY <3>4, <4>1 DEF KeyCalm
    <3>7. \A x \in KeysOf(job[p]) : KeyCalm(x)'
      <4>1. CASE job[p].new = k
        BY <1>1, <3>6, <4>1, Working
      <4>2. CASE job[p].new # k
        <5>1. LET n == job[p].new IN conf'[n] = conf[n] /\ off'[n] = off[n] /\ (n \in live' <=> n \in live)
          BY <1>6, <4>2, Working
        <5>2. \A n \in {job[p].new} : KeyCalm(n)'
          BY <1>3, <3>1, <5>1 DEF KeyCalm
        <5>3. QED
          BY <1>1, <3>6, <5>2, Working
      <4>3. QED
        BY <4>1, <4>2
    <3>8. Homes'
      <4> SUFFICES ASSUME NEW d \in clients' PROVE \E x \in Keys : Primary(x)' = d
        BY DEF Homes
      <4>1. Primary(k)' = c
        BY <3>4 DEF Primary
      <4>2. \A x \in Keys : x # k => Primary(x)' = Primary(x)
        BY <1>6, <3>4, Working DEF Primary
      <4>3. CASE d = c
        BY <4>1, <4>3
      <4>4. CASE d # c
        <5>1. d \in clients /\ (job[p].kind = "adopt" => d # disabled[k])
          BY <1>6, <4>4
        <5>2. PICK x \in Keys : Primary(x) = d
          BY <3>1, <5>1 DEF Homes
        <5>3. x # k
          <6>1. Primary(k) = disabled[k]
            BY <1>6 DEF Primary
          <6>2. CASE job[p].kind = "adopt"
            BY <5>1, <5>2, <6>1, <6>2
          <6>3. CASE job[p].kind = "enable"
            BY <1>1, <1>2, <2>6, <3>1, <4>4, <5>2, <6>1, <6>3 DEF Knows
          <6>4. CASE job[p].kind = "create" /\ x = k
            <7>1. d = Absent
              BY <1>1, <2>6, <3>1, <5>2, <6>1, <6>4 DEF Knows, Fresh
            <7>2. QED
              BY <5>1, <7>1, Working DEF PeersAssumption
          <6>5. QED
            BY <2>6, <3>2, <6>2, <6>3, <6>4
        <5>4. QED
          BY <4>2, <5>2, <5>3
      <4>5. QED
        BY <4>3, <4>4
    <3>9. QED
      BY <3>5, <3>7, <3>8
  <2>9. QED
    BY <1>3, <1>6, <2>1, <2>2, <2>3, <2>4, <2>5, <2>6, <2>7, <2>8, Working, StoreMove
<1>7. ASSUME Fault, Finish(p), conf' \in {conf, [conf EXCEPT ![k] = c]},
             live' \in {live, live \cup {k}}, UNCHANGED <<clients, off>>
      PROVE  PeerInv'
  <2>1. conf' \in [Keys -> Entries] /\ live' \subseteq Keys
    BY <1>7, Working
  <2>2. \A x \in Keys \ KeysOf(job[p]) : conf'[x] = conf[x] /\ (x \in live' <=> x \in live)
    BY <1>1, <1>7, Working
  <2>3. SecretsStored' /\ Runs("idle", NoJob)' /\ faults' # faults
    BY <1>3, <1>4, <1>7 DEF Runs, Fault, PeerInv, PeerSafe, PeerTypes, StoreTypes
  <2>4. QED
    BY <1>3, <1>7, <2>1, <2>2, <2>3, Working, StoreMove
<1>8. QED
  <2>1. job[p].kind \in {"create", "adopt", "enable"}
    BY Working DEF Runs
  <2>2. CASE Finish(p) /\ faults' = faults /\ UNCHANGED <<conf, live, clients, off>>
    BY <1>5, <2>2
  <2>3. CASE /\ conf[k] = Absent /\ c # Unnamed /\ conf' = [conf EXCEPT ![k] = c]
             /\ live' = live \cup {k} /\ faults' = faults
             /\ clients' = IF job[p].kind = "adopt"
                          THEN (clients \ {disabled[k]}) \cup {c} ELSE clients
             /\ off' = IF job[p].kind = "adopt" /\ off[k] # "no"
                      THEN [off EXCEPT ![k] = "again"] ELSE off
             /\ Then(p, CASE job[p].kind = "create" -> "seal"
                          [] job[p].kind = "adopt" -> "expiry"
                          [] OTHER -> "undisable")
    <3>1. CASE job[p].kind = "create"
      <4>1. Moves(p, "seal", job[p])
        BY <2>3, <3>1, Working
      <4>2. QED
        BY <1>6, <2>3, <3>1, <4>1
    <3>2. CASE job[p].kind = "adopt"
      <4>1. Moves(p, "expiry", job[p])
        BY <2>3, <3>2, Working
      <4>2. QED
        BY <1>6, <2>3, <3>2, <4>1
    <3>3. CASE job[p].kind = "enable"
      <4>1. Moves(p, "undisable", job[p])
        BY <2>3, <3>3, Working
      <4>2. QED
        BY <1>6, <2>3, <3>3, <4>1
    <3>4. QED
      BY <2>1, <3>1, <3>2, <3>3
  <2>4. CASE /\ Fault /\ Finish(p) /\ conf' \in {conf, [conf EXCEPT ![k] = c]}
             /\ live' \in {live, live \cup {k}} /\ UNCHANGED <<clients, off>>
    BY <1>7, <2>4
  <2>5. QED
    BY <1>1, <1>2, <2>2, <2>3, <2>4 DEF AddTo, NoFault

\* A step that only adds or takes keys of the interface, or entries of the config,
\* and that nothing is claimed of when no call has failed.
LEMMA UncalmMove ==
  ASSUME PeerInv, NEW p \in Procs, NEW l \in Label, NEW j \in Job, Moves(p, l, j),
         pc[p] \notin {"idle", "find"}, l # "idle" => KeysOf(j) = KeysOf(job[p]),
         UNCHANGED <<made, clash, todo, secret, issued, off, disabled>>,
         Undisturbed => Fault, faults' = faults \/ Fault,
         conf' \in [Keys -> Entries], live' \subseteq Keys, clients' \subseteq Clients,
         \A k \in Keys \ KeysOf(job[p]) : conf'[k] = conf[k] /\ (k \in live' <=> k \in live),
         Runs(l, j)
  PROVE  PeerInv'
<1>1. SecretsStored' /\ Runs(l, j)'
  BY DEF PeerInv, PeerSafe, SecretsStored, Runs
<1>2. /\ off' \in [Keys -> {"no", "yes", "again"}] /\ disabled' \in [Keys -> Entries]
      /\ \A k \in Keys : off[k] # "no" => off'[k] # "no"
  BY DEF PeerInv, PeerSafe, PeerTypes, StoreTypes
<1>3. Fault => faults' # faults
  BY DEF Fault, PeerInv, PeerSafe, PeerTypes, StoreTypes
<1>4. \A k \in Keys \ KeysOf(job[p]) :
         conf'[k] = conf[k] /\ disabled'[k] = disabled[k] /\ off'[k] = off[k]
         /\ (k \in live' <=> k \in live)
  OBVIOUS
<1>5. QED
  BY <1>1, <1>2, <1>3, <1>4, StoreMove

\* The secret of a generated key is stored, or the client is taken back.
LEMMA SealStep == ASSUME PeersAssumption, PeerInv, NEW p \in Procs, Seal(p) PROVE PeerInv'
<1>0. pc[p] = "seal"
  BY DEF Seal
<1> USE <1>0
<1>1. PICK k \in Keys : k = job[p].new
  BY Working
<1>2. PICK j \in Job : j = job[p]
  BY Working
<1>3. UNCHANGED <<conf, live, disabled, todo, made, off, clash>>
  BY DEF Seal
<1>4. job[p].kind \in {"create", "rotate"} /\ (job[p].kind = "create" => job[p].key = k /\ job[p].client \in Clients)
  BY <1>1, Working DEF Runs
<1>5. CASE Fault /\ UNCHANGED <<secret, clients, issued>> /\ Then(p, "unadd")
  <2>1. Moves(p, "unadd", j) /\ Runs("unadd", j) /\ "unadd" \in Label
    BY <1>2, <1>5, Working DEF Runs, Label
  <2>2. QED
    BY <1>2, <1>3, <1>5, <2>1, Working, UncalmMove
<1>6. ASSUME NEW l \in {"expiry", "unsecret"}, Moves(p, l, j), job[p].kind = "create" <=> l = "expiry",
             secret' = secret \cup {k}, faults' = faults,
             \/ clients' = clients
             \/ job[p].kind = "create" /\ clients' = clients \cup {job[p].client},
             \/ issued' = issued
             \/ off[k] = "no" /\ issued' = issued \cup {k}
      PROVE  PeerInv'
  <2>1. SecretsStored'
    BY <1>3, <1>6 DEF PeerInv, PeerSafe, SecretsStored
  <2>2. Runs(l, j)' /\ l \in Label
    BY <1>2, <1>3, <1>4, <1>6, Working DEF Runs, Label
  <2>3. clients' \subseteq Clients
    BY <1>4, <1>6, Working
  <2>4. Undisturbed => Homes' /\ Knows(l, j)' /\ \A x \in KeysOf(job[p]) : KeyCalm(x)'
    <3> SUFFICES ASSUME Undisturbed
                 PROVE  Homes' /\ Knows(l, j)' /\ \A x \in KeysOf(job[p]) : KeyCalm(x)'
      OBVIOUS
    <3>1. Homes /\ Knows("seal", j) /\ \A x \in KeysOf(job[p]) : KeyCalm(x)
      BY <1>2, Working
    <3>2. Knows(l, j)' /\ \A x \in KeysOf(job[p]) : KeyCalm(x)'
      BY <1>3, <1>6, <3>1 DEF Knows, KeyCalm
    <3>3. Homes'
      <4> SUFFICES ASSUME NEW d \in clients' PROVE \E x \in Keys : Primary(x)' = d
        BY DEF Homes
      <4>1. \A x \in Keys : Primary(x)' = Primary(x)
        BY <1>3 DEF Primary
      <4>2. CASE d \in clients
        BY <3>1, <4>1, <4>2 DEF Homes
      <4>3. CASE d \notin clients
        <5>1. job[p].kind = "create" /\ d = job[p].client
          BY <1>6, <4>3
        <5>2. conf[k] = d /\ d # Absent
          BY <1>2, <1>4, <3>1, <5>1 DEF Knows, PeersAssumption
        <5>3. Primary(k) = d
          BY <5>2 DEF Primary
        <5>4. QED
          BY <4>1, <5>3
      <4>4. QED
        BY <4>2, <4>3
    <3>4. QED
      BY <3>2, <3>3
  <2>5. QED
    BY <1>2, <1>3, <1>6, <2>1, <2>2, <2>3, <2>4, Working, StoreMove
<1>7. QED
  <2>1. CASE /\ secret' = secret \cup {k} /\ faults' = faults
             /\ \/ clients' = clients
                \/ job[p].kind = "create" /\ clients' = clients \cup {job[p].client}
             /\ \/ issued' = issued
                \/ off[k] = "no" /\ issued' = issued \cup {k}
             /\ Then(p, IF job[p].kind = "create" THEN "expiry" ELSE "unsecret")
    <3>1. CASE job[p].kind = "create"
      <4>1. Moves(p, "expiry", j)
        BY <1>2, <2>1, <3>1, Working
      <4>2. QED
        BY <1>6, <2>1, <3>1, <4>1
    <3>2. CASE job[p].kind # "create"
      <4>1. Moves(p, "unsecret", j)
        BY <1>2, <2>1, <3>2, Working
      <4>2. QED
        BY <1>6, <2>1, <3>2, <4>1
    <3>3. QED
      BY <3>1, <3>2
  <2>2. QED
    BY <1>1, <1>5, <2>1 DEF Seal, NoFault

\* A client whose secret could not be stored is taken back.
LEMMA UnaddStep == ASSUME PeerInv, NEW p \in Procs, Unadd(p) PROVE PeerInv'
<1>0. pc[p] = "unadd"
  BY DEF Unadd
<1> USE <1>0
<1>1. PICK k \in Keys : k = job[p].new
  BY Working
<1>2. /\ UNCHANGED <<disabled, secret, todo, made, clients, issued, off, clash>>
      /\ Moves(p, "idle", NoJob) /\ (faults' = faults \/ Fault)
      /\ conf' \in {conf, [conf EXCEPT ![k] = Absent]} /\ live' \in {live, live \ {k}}
  BY <1>1, Working DEF Unadd, RemoveFails, NoFault, history
<1>3. conf' \in [Keys -> Entries] /\ live' \subseteq Keys
  BY <1>2, Working
<1>4. \A x \in Keys \ KeysOf(job[p]) : conf'[x] = conf[x] /\ (x \in live' <=> x \in live)
  BY <1>1, <1>2, Working
<1>5. ~Undisturbed
  BY Working DEF Knows
<1>6. QED
  BY <1>2, <1>3, <1>4, <1>5, Working, UncalmMove

\* UpdatePeer.
LEMMA UpdateStep == ASSUME PeerInv, NEW p \in Procs, Update(p) PROVE PeerInv'
<1>0. pc[p] = "update"
  BY DEF Update
<1> USE <1>0
<1>1. PICK k \in Keys : k = job[p].key
  BY Working
<1>2. /\ UNCHANGED <<conf, disabled, secret, todo, made, clients, issued, off, clash>>
      /\ Moves(p, "idle", NoJob)
      /\ \/ faults' = faults /\ live' = live
         \/ faults' = faults /\ conf[k] # Absent /\ live' = live \cup {k}
         \/ Fault /\ live' \in {live, live \cup {k}}
  BY <1>1, Working DEF Update, NoFault, history
<1>3. live' \subseteq Keys /\ conf' \in [Keys -> Entries] /\ clients' \subseteq Clients
  BY <1>2, Working
<1>4. \A x \in Keys \ KeysOf(job[p]) : conf'[x] = conf[x] /\ (x \in live' <=> x \in live)
  BY <1>1, <1>2, Working
<1>5. CASE Fault
  BY <1>2, <1>3, <1>4, <1>5, Working, UncalmMove
<1>6. CASE faults' = faults /\ live' = live
  BY <1>2, <1>6, Working, QuietMove DEF PeerInv, PeerSafe, PeerTypes, StoreTypes
<1>7. CASE faults' = faults /\ conf[k] # Absent /\ live' = live \cup {k}
  <2>1. SecretsStored' /\ Runs("idle", NoJob)'
    BY <1>2 DEF PeerInv, PeerSafe, SecretsStored, Runs
  <2>2. Undisturbed => Homes' /\ \A x \in KeysOf(job[p]) : KeyCalm(x)'
    BY <1>2, <1>7, Working DEF Homes, Primary, KeyCalm
  <2>3. \A x \in Keys : off[x] # "no" => off'[x] # "no"
    BY <1>2
  <2>4. \A x \in Keys \ KeysOf(job[p]) :
           conf'[x] = conf[x] /\ disabled'[x] = disabled[x] /\ off'[x] = off[x]
           /\ (x \in live' <=> x \in live)
    BY <1>2, <1>4
  <2>5. QED
    BY <1>2, <1>3, <1>7, <2>1, <2>2, <2>3, <2>4, Working, StoreMove
<1>8. QED
  BY <1>2, <1>5, <1>6, <1>7

\* SaveDisabledPeer: the entry is in both stores until the peer is removed.
LEMMA SaveStep == ASSUME PeerInv, NEW p \in Procs, Save(p) PROVE PeerInv'
<1>0. pc[p] = "save"
  BY DEF Save
<1> USE <1>0
<1>1. PICK k \in Keys : k = job[p].key
  BY Working
<1>2. PICK j \in Job : j = job[p]
  BY Working
<1>3. UNCHANGED <<conf, live, secret, todo, made, clients, issued, off, clash>>
  BY DEF Save, history
<1>4. CASE Fault /\ Finish(p) /\ UNCHANGED disabled
  BY <1>3, <1>4, Working, QuietMove DEF PeerInv, PeerSafe, PeerTypes, StoreTypes, Fault
<1>5. CASE disabled' = [disabled EXCEPT ![k] = j.client] /\ Then(p, "remove") /\ faults' = faults
  <2>1. Moves(p, "remove", j) /\ "remove" \in Label
    BY <1>2, <1>5, Working DEF Label
  <2>2. Runs("remove", j)'
    BY <1>2, <1>3, Working DEF Runs
  <2>3. disabled' \in [Keys -> Entries]
    BY <1>2, <1>5, Working
  <2>4. SecretsStored'
    BY <1>3 DEF PeerInv, PeerSafe, SecretsStored
  <2>5. \A x \in Keys \ KeysOf(job[p]) :
           conf'[x] = conf[x] /\ disabled'[x] = disabled[x] /\ off'[x] = off[x]
           /\ (x \in live' <=> x \in live)
    BY <1>1, <1>3, <1>5, Working
  <2>6. Undisturbed => Homes' /\ Knows("remove", j)' /\ \A x \in KeysOf(job[p]) : KeyCalm(x)'
    <3> SUFFICES ASSUME Undisturbed
                 PROVE  Homes' /\ Knows("remove", j)' /\ \A x \in KeysOf(job[p]) : KeyCalm(x)'
      OBVIOUS
    <3>1. /\ Homes /\ conf[k] = j.client /\ j.client # Absent
          /\ \A x \in KeysOf(job[p]) : KeyCalm(x)
      BY <1>1, <1>2, Working DEF Knows
    <3>2. disabled'[k] = j.client /\ \A x \in Keys : x # k => disabled'[x] = disabled[x]
      BY <1>5, Working
    <3>3. Homes'
      BY <1>3, <3>1, <3>2 DEF Homes, Primary
    <3>4. Knows("remove", j)'
      BY <1>1, <1>2, <1>3, <3>1, <3>2 DEF Knows
    <3>5. \A x \in KeysOf(job[p]) : KeyCalm(x)'
      BY <1>1, <1>3, <3>1, <3>2, Working DEF KeyCalm
    <3>6. QED
      BY <3>3, <3>4, <3>5
  <2>7. QED
    BY <1>2, <1>3, <1>5, <2>1, <2>2, <2>3, <2>4, <2>5, <2>6, Working, StoreMove
<1>6. QED
  BY <1>1, <1>2, <1>4, <1>5 DEF Save, NoFault

\* DeleteDisabledPeer.
LEMMA UnsaveStep == ASSUME PeerInv, NEW p \in Procs, Unsave(p) PROVE PeerInv'
<1>0. pc[p] \in {"unsave", "undisable"}
  BY DEF Unsave
<1> USE <1>0
<1>1. PICK k \in Keys : k = job[p].key
  BY Working
<1>2. /\ UNCHANGED <<conf, live, secret, todo, made, clients, issued, off, clash>>
      /\ Moves(p, "idle", NoJob)
  BY Working DEF Unsave, history
<1>3. CASE Fault /\ UNCHANGED disabled
  BY <1>2, <1>3, Working, QuietMove DEF PeerInv, PeerSafe, PeerTypes, StoreTypes, Fault
<1>4. CASE disabled' = [disabled EXCEPT ![k] = Absent] /\ faults' = faults
  <2>1. disabled' \in [Keys -> Entries]
    BY <1>4, Working
  <2>2. SecretsStored' /\ Runs("idle", NoJob)'
    BY <1>2 DEF PeerInv, PeerSafe, SecretsStored, Runs
  <2>3. \A x \in Keys \ KeysOf(job[p]) :
           conf'[x] = conf[x] /\ disabled'[x] = disabled[x] /\ off'[x] = off[x]
           /\ (x \in live' <=> x \in live)
    BY <1>1, <1>2, <1>4, Working
  <2>4. Undisturbed => Homes' /\ \A x \in KeysOf(job[p]) : KeyCalm(x)'
    <3> SUFFICES ASSUME Undisturbed PROVE Homes' /\ \A x \in KeysOf(job[p]) : KeyCalm(x)'
      OBVIOUS
    <3>1. Homes /\ conf[k] # Absent /\ \A x \in KeysOf(job[p]) : KeyCalm(x)
      BY <1>1, Working DEF Knows
    <3>2. disabled'[k] = Absent /\ \A x \in Keys : x # k => disabled'[x] = disabled[x]
      BY <1>4, Working
    <3>3. QED
      BY <1>2, <3>1, <3>2, Working DEF Homes, Primary, KeyCalm
  <2>5. QED
    BY <1>2, <1>4, <2>1, <2>2, <2>3, <2>4, Working, StoreMove
<1>5. QED
  BY <1>1, <1>3, <1>4 DEF Unsave, NoFault

\* RemovePeer: of a deletion, or of a client that has been saved as disabled.
LEMMA RemoveStep == ASSUME PeerInv, NEW p \in Procs, Remove(p) PROVE PeerInv'
<1>0. pc[p] = "remove"
  BY DEF Remove
<1> USE <1>0
<1>1. PICK k \in Keys : k = job[p].key
  BY Working
<1>2. PICK j \in Job : j = job[p]
  BY Working
<1>3. /\ UNCHANGED <<disabled, secret, todo, made, clash>>
      /\ j.kind \in {"delete", "disable", "expire"}
  BY <1>2, Working DEF Remove, Runs
<1>4. ASSUME Finish(p) \/ (j.kind # "delete" /\ Then(p, "unsave")), UNCHANGED <<issued, off>>,
             conf' \in {conf, [conf EXCEPT ![k] = Absent]}, live' \in {live, live \ {k}},
             clients' \subseteq Clients, faults' = faults \/ Fault, Undisturbed => Fault
      PROVE  PeerInv'
  <2>1. conf' \in [Keys -> Entries] /\ live' \subseteq Keys
    BY <1>4, Working
  <2>2. \A x \in Keys \ KeysOf(job[p]) : conf'[x] = conf[x] /\ (x \in live' <=> x \in live)
    BY <1>1, <1>4, Working
  <2>3. CASE Finish(p)
    BY <1>3, <1>4, <2>1, <2>2, <2>3, Working, UncalmMove
  <2>4. CASE j.kind # "delete" /\ Then(p, "unsave")
    <3>1. Moves(p, "unsave", j) /\ Runs("unsave", j) /\ "unsave" \in Label
      BY <1>2, <1>3, <2>4, Working DEF Runs, Label
    <3>2. QED
      BY <1>2, <1>3, <1>4, <2>1, <2>2, <3>1, Working, UncalmMove
  <2>5. QED
    BY <1>4, <2>3, <2>4
<1>5. CASE conf[k] = Absent /\ faults' = faults /\ (Finish(p) \/ (j.kind # "delete" /\ Then(p, "unsave")))
           /\ UNCHANGED <<conf, live, clients, issued, off>>
  <2>1. CASE Finish(p)
    BY <1>3, <1>5, <2>1, Working, QuietMove DEF PeerInv, PeerSafe, PeerTypes, StoreTypes
  <2>2. CASE j.kind # "delete"
    <3>1. ~Undisturbed
      BY <1>1, <1>2, <1>5, <2>2, Working DEF Knows
    <3>2. QED
      BY <1>4, <1>5, <3>1, Working
  <2>3. QED
    BY <1>5, <2>1, <2>2
<1>6. ASSUME conf[k] # Absent, faults' = faults, conf' = [conf EXCEPT ![k] = Absent], live' = live \ {k},
             clients' = IF j.kind = "delete" THEN clients \ {conf[k]} ELSE clients,
             issued' = IF j.kind = "delete" THEN issued \ {k} ELSE issued,
             off' = IF j.kind = "delete" THEN GoneOff(k) ELSE off,
             NEW l \in {"idle", "unsecret", "unexpire"}, NEW i \in Job, Moves(p, l, i), l # "idle" => i = j,
             l = "unsecret" => j.kind = "delete"
      PROVE  PeerInv'
  <2>1. conf' \in [Keys -> Entries] /\ live' \subseteq Keys /\ clients' \subseteq Clients
    BY <1>6, Working
  <2>2. /\ off' \in [Keys -> {"no", "yes", "again"}] /\ \A x \in Keys : off[x] # "no" => off'[x] # "no"
        /\ \A x \in Keys : x # k => off'[x] = off[x]
        /\ j.kind = "delete" => off'[k] = IF disabled[k] = Absent THEN "yes" ELSE "again"
        /\ j.kind # "delete" => off'[k] = off[k]
    BY <1>6, Working DEF GoneOff
  <2>3. \A x \in Keys \ KeysOf(job[p]) :
           conf'[x] = conf[x] /\ disabled'[x] = disabled[x] /\ off'[x] = off[x]
           /\ (x \in live' <=> x \in live)
    BY <1>1, <1>3, <1>6, <2>2, Working
  <2>4. SecretsStored'
    BY <1>3, <1>6, <2>2 DEF PeerInv, PeerSafe, SecretsStored
  <2>5. Runs(l, i)' /\ l \in Label
    BY <1>1, <1>2, <1>3, <1>6, <2>2, Working DEF Runs, Label
  <2>6. Undisturbed => Homes' /\ (l # "idle" => Knows(l, i)') /\ \A x \in KeysOf(job[p]) : KeyCalm(x)'
    <3> SUFFICES ASSUME Undisturbed
                 PROVE  Homes' /\ (l # "idle" => Knows(l, i)') /\ \A x \in KeysOf(job[p]) : KeyCalm(x)'
      OBVIOUS
    <3>1. /\ Homes /\ Knows("remove", j) /\ \A x \in KeysOf(job[p]) : KeyCalm(x)
      BY <1>2, Working
    <3>2. /\ conf'[k] = Absent /\ \A x \in Keys : x # k => conf'[x] = conf[x]
          /\ disabled' = disabled
      BY <1>3, <1>6, Working
    <3>3. \A x \in KeysOf(job[p]) : KeyCalm(x)'
      BY <1>1, <1>6, <2>2, <3>1, <3>2, Working DEF KeyCalm
    <3>4. l # "idle" => Knows(l, i)'
      BY <1>6 DEF Knows
    <3>5. Homes'
      <4> SUFFICES ASSUME NEW d \in clients' PROVE \E x \in Keys : Primary(x)' = d
        BY DEF Homes
      <4>1. \A x \in Keys : x # k => Primary(x)' = Primary(x)
        BY <3>2 DEF Primary
      <4>2. d \in clients /\ (j.kind = "delete" => d # conf[k])
        BY <1>6
      <4>3. PICK x \in Keys : Primary(x) = d
        BY <3>1, <4>2 DEF Homes
      <4>4. CASE x = k
        <5>1. j.kind # "delete" /\ conf[k] = d
          BY <1>6, <4>2, <4>3, <4>4 DEF Primary
        <5>2. disabled[k] = d
          BY <1>1, <1>2, <3>1, <5>1 DEF Knows
        <5>3. Primary(k)' = d
          BY <3>2, <5>2 DEF Primary
        <5>4. QED
          BY <5>3
      <4>5. QED
        BY <4>1, <4>3, <4>4
    <3>6. QED
      BY <3>3, <3>4, <3>5
  <2>7. l # "idle" => KeysOf(i) = KeysOf(job[p])
    BY <1>2, <1>6
  <2>8. disabled' \in [Keys -> Entries]
    BY <1>3, Working
  <2>9. QED
    BY <1>3, <1>6, <2>1, <2>2, <2>3, <2>4, <2>5, <2>6, <2>7, <2>8, Working, StoreMove
<1>7. CASE /\ conf[k] # Absent /\ faults' = faults /\ conf' = [conf EXCEPT ![k] = Absent] /\ live' = live \ {k}
           /\ clients' = IF j.kind = "delete" THEN clients \ {conf[k]} ELSE clients
           /\ issued' = IF j.kind = "delete" THEN issued \ {k} ELSE issued
           /\ off' = IF j.kind = "delete" THEN GoneOff(k) ELSE off
           /\ CASE j.kind = "delete" -> Then(p, "unsecret")
                [] j.kind = "expire" -> Then(p, "unexpire")
                [] OTHER -> Finish(p)
  <2>1. CASE j.kind = "delete"
    <3>1. Moves(p, "unsecret", j)
      BY <1>2, <1>7, <2>1, Working
    <3>2. QED
      BY <1>6, <1>7, <2>1, <3>1
  <2>2. CASE j.kind = "expire"
    <3>1. Moves(p, "unexpire", j)
      BY <1>2, <1>7, <2>2, Working
    <3>2. QED
      BY <1>6, <1>7, <2>2, <3>1
  <2>3. CASE j.kind = "disable"
    <3>1. Moves(p, "idle", NoJob) /\ NoJob \in Job
      BY <1>7, <2>3, Working
    <3>2. QED
      BY <1>6, <1>7, <2>3, <3>1
  <2>4. QED
    BY <1>3, <2>1, <2>2, <2>3
<1>8. CASE /\ Fault /\ (Finish(p) \/ (j.kind # "delete" /\ Then(p, "unsave")))
           /\ RemoveFails(k) /\ UNCHANGED <<issued, off>>
           /\ clients' = IF j.kind = "delete" THEN clients \ {conf[k]} ELSE clients
  <2>1. /\ conf' \in {conf, [conf EXCEPT ![k] = Absent]} /\ live' \in {live, live \ {k}}
        /\ clients' \subseteq Clients
    BY <1>8, Working DEF RemoveFails
  <2>2. QED
    BY <1>4, <1>8, <2>1
<1>9. QED
  BY <1>1, <1>2, <1>5, <1>7, <1>8 DEF Remove, NoFault

\* RotatePeerKey: the entry moves to a key that was never used.
LEMMA RotateStep == ASSUME PeersAssumption, PeerInv, NEW p \in Procs, Rotate(p) PROVE PeerInv'
<1>0. pc[p] = "rotate"
  BY DEF Rotate
<1> USE <1>0
<1>1. PICK k \in Keys : k = job[p].key
  BY Working
<1>2. PICK n \in Keys : n = job[p].new
  BY Working
<1>3. PICK j \in Job : j = job[p]
  BY Working
<1>4. UNCHANGED <<disabled, secret, todo, made, clients, clash>>
  BY DEF Rotate
<1> DEFINE moved == [conf EXCEPT ![k] = Absent, ![n] = conf[k]]
<1>5. /\ moved \in [Keys -> Entries]
      /\ moved[n] = conf[k] \/ n = k
      /\ \A x \in Keys : x \notin {k, n} => moved[x] = conf[x]
      /\ n # k => moved[k] = Absent
  BY Working
<1> HIDE DEF moved
<1>6. CASE Finish(p) /\ faults' = faults /\ UNCHANGED <<conf, live, issued, off>>
  BY <1>4, <1>6, Working, QuietMove DEF PeerInv, PeerSafe, PeerTypes, StoreTypes
<1>7. CASE /\ Fault /\ Finish(p) /\ conf' \in {conf, moved}
           /\ live' \in {live, live \ {k}, (live \ {k}) \cup {n}} /\ UNCHANGED <<issued, off>>
  <2>1. conf' \in [Keys -> Entries] /\ live' \subseteq Keys /\ clients' \subseteq Clients
    BY <1>4, <1>5, <1>7, Working
  <2>2. \A x \in Keys \ KeysOf(job[p]) : conf'[x] = conf[x] /\ (x \in live' <=> x \in live)
    BY <1>1, <1>2, <1>5, <1>7, Working
  <2>3. QED
    BY <1>4, <1>7, <2>1, <2>2, Working, UncalmMove
<1>8. CASE /\ conf[k] # Absent /\ faults' = faults /\ conf' = moved /\ live' = (live \ {k}) \cup {n}
           /\ Then(p, "seal") /\ issued' = issued \ {k} /\ off' = GoneOff(k)
  <2>1. Moves(p, "seal", j) /\ "seal" \in Label
    BY <1>3, <1>8, Working DEF Label
  <2>2. /\ off' \in [Keys -> {"no", "yes", "again"}] /\ \A x \in Keys : off[x] # "no" => off'[x] # "no"
        /\ \A x \in Keys : x # k => off'[x] = off[x]
        /\ off'[k] = IF disabled[k] = Absent THEN "yes" ELSE "again"
    BY <1>8, Working DEF GoneOff
  <2>3. Runs("seal", j)'
    BY <1>1, <1>3, <1>4, <2>2, Working DEF Runs
  <2>4. SecretsStored'
    BY <1>4, <1>8, <2>2 DEF PeerInv, PeerSafe, SecretsStored
  <2>5. \A x \in Keys \ KeysOf(job[p]) :
           conf'[x] = conf[x] /\ disabled'[x] = disabled[x] /\ off'[x] = off[x]
           /\ (x \in live' <=> x \in live)
    BY <1>1, <1>2, <1>4, <1>5, <1>8, <2>2, Working
  <2>6. Undisturbed => Homes' /\ Knows("seal", j)' /\ \A x \in KeysOf(job[p]) : KeyCalm(x)'
    <3> SUFFICES ASSUME Undisturbed
                 PROVE  Homes' /\ Knows("seal", j)' /\ \A x \in KeysOf(job[p]) : KeyCalm(x)'
      OBVIOUS
    <3>1. Homes /\ Fresh(n) /\ n # k /\ j.kind = "rotate"
      BY <1>1, <1>2, <1>3, Working DEF Knows, Runs
    <3>2. conf'[n] = conf[k] /\ conf'[k] = Absent /\ disabled' = disabled
      BY <1>4, <1>5, <1>8, <3>1
    <3>3. KeyCalm(k)' /\ KeyCalm(n)'
      BY <1>8, <2>2, <3>1, <3>2 DEF KeyCalm, Fresh
    <3>4. Knows("seal", j)'
      BY <3>1 DEF Knows
    <3>5. Homes'
      <4> SUFFICES ASSUME NEW d \in clients PROVE \E x \in Keys : Primary(x)' = d
        BY <1>4 DEF Homes
      <4>1. PICK x \in Keys : Primary(x) = d
        BY <3>1 DEF Homes
      <4>2. CASE x = k
        BY <1>8, <3>2, <4>1, <4>2 DEF Primary
      <4>3. x # n
        BY <3>1, <4>1, Working DEF Primary, Fresh, PeersAssumption
      <4>4. CASE x # k
        BY <1>5, <1>8, <3>2, <4>1, <4>3, <4>4 DEF Primary
      <4>5. QED
        BY <4>2, <4>4
    <3>6. QED
      BY <1>1, <1>2, <3>3, <3>4, <3>5, Working
  <2>7. disabled' \in [Keys -> Entries] /\ conf' \in [Keys -> Entries] /\ live' \subseteq Keys
        /\ clients' \subseteq Clients
    BY <1>4, <1>5, <1>8, Working
  <2>8. QED
    BY <1>3, <1>4, <1>8, <2>1, <2>2, <2>3, <2>4, <2>5, <2>6, <2>7, Working, StoreMove
<1>9. QED
  BY <1>1, <1>2, <1>6, <1>7, <1>8 DEF Rotate, NoFault, moved

\* A process that begins with keys no other one works on, or else a clash.
LEMMA Beginning ==
  ASSUME PeerInv, NEW p \in Procs, NEW l \in Label, NEW j \in Job, Moves(p, l, j),
         pc[p] = "idle", Begins(p, KeysOf(j)),
         UNCHANGED <<conf, live, disabled, secret, faults, clients, issued, off>>,
         todo' \subseteq Keys, made \subseteq made', Runs(l, j)', Undisturbed => Knows(l, j)
  PROVE  PeerInv'
<1>1. (clash \/ \E q \in Procs \ {p} : pc[q] # "idle" /\ {job[q].key, job[q].new} \cap KeysOf(j) # {}) \in BOOLEAN
  OBVIOUS
<1>2. clash' \in BOOLEAN
  BY <1>1, Zenon DEF Begins
<1>3. StoreTypes' /\ MadeKeys' /\ SecretsStored'
  BY <1>2 DEF PeerInv, PeerSafe, PeerTypes, StoreTypes, MadeKeys, SecretsStored
<1>4. PeerSafe'
  BY <1>3, SafeMove DEF PeerInv
<1>5. Calm'
  <2> SUFFICES ASSUME Undisturbed' PROVE CalmInv'
    BY DEF Calm
  <2>1. ~clash /\ \A q \in Procs \ {p} : pc[q] # "idle" => {job[q].key, job[q].new} \cap KeysOf(j) = {}
    BY DEF Undisturbed, Begins
  <2>2. Undisturbed /\ CalmInv
    BY <2>1 DEF Undisturbed, PeerInv, Calm
  <2>3. pc'[p] = l /\ job'[p] = j /\ \A q \in Procs : q # p => pc'[q] = pc[q] /\ job'[q] = job[q]
    BY DEF PeerInv, PeerSafe, PeerTypes, Moves
  <2>4. (\A k \in Keys : KeyCalm(k)') /\ Homes'
    BY <2>2 DEF CalmInv, KeyCalm, Homes, Primary
  <2>5. ASSUME NEW a \in Procs, NEW b \in Procs, a # b, pc'[a] # "idle", pc'[b] # "idle"
        PROVE  KeysOf(job'[a]) \cap KeysOf(job'[b]) = {}
    <3>1. \A q \in Procs : q # p /\ pc'[q] # "idle" => KeysOf(job'[q]) \cap KeysOf(j) = {}
      BY <2>1, <2>3 DEF KeysOf
    <3>2. CASE a = p
      BY <2>3, <2>5, <3>1, <3>2
    <3>3. CASE b = p
      BY <2>3, <2>5, <3>1, <3>3
    <3>4. CASE a # p /\ b # p
      BY <2>2, <2>3, <2>5, <3>4 DEF CalmInv
    <3>5. QED
      BY <3>2, <3>3, <3>4
  <2>6. ASSUME NEW q \in Procs, pc'[q] # "idle" PROVE Knows(pc[q], job[q])'
    <3>1. CASE q = p
      <4>1. Knows(l, j)'
        BY <2>2 DEF Knows, Fresh
      <4>2. QED
        BY <2>3, <3>1, <4>1
    <3>2. CASE q # p
      <4>1. pc'[q] = pc[q] /\ job'[q] = job[q] /\ Knows(pc[q], job[q])
        BY <2>2, <2>3, <2>6, <3>2 DEF CalmInv
      <4>2. QED
        BY <4>1 DEF Knows, Fresh
    <3>3. QED
      BY <3>1, <3>2
  <2>7. QED
    BY <2>4, <2>5, <2>6 DEF CalmInv
<1>6. QED
  BY <1>4, <1>5 DEF PeerInv

\* A request: a key generated for it is in no store.
LEMMA RequestStep == ASSUME PeersAssumption, PeerInv, NEW p \in Handlers, NewRequest(p) PROVE PeerInv'
<1>1. PICK kind \in Kinds, k \in Keys, n \in Keys, c \in Clients \cup {Absent}, t \in Asked \cup {"none"} :
        /\ kind # "rotate" => n = k
        /\ kind \in {"create", "adopt"} <=> c # Absent
        /\ kind \notin {"create", "adopt"} => k \in live \/ disabled[k] # Absent
        /\ Request(p, kind, k, n, c, t)
  BY DEF NewRequest
<1> DEFINE rec == [kind |-> kind, key |-> k, new |-> n, client |-> c, term |-> t]
<1>2. PICK j \in Job : /\ j = rec /\ j.kind = kind /\ j.key = k /\ j.new = n /\ j.client = c
  <2>1. kind \in AllKinds /\ t \in {"none", "future"} /\ c \in Entries
    BY DEF PeersAssumption, Entries
  <2>2. rec \in Job
    BY <2>1 DEF Job
  <2>3. QED
    BY <2>2
<1>3. PICK l \in Label : l = FirstCall(kind)
  <2>1. kind \in AllKinds
    BY DEF PeersAssumption
  <2>2. QED
    BY <2>1 DEF FirstCall, Label, AllKinds
<1>4. /\ kind \in {"create", "adopt"} <=> l = "add"
      /\ kind = "delete" <=> l = "remove"
      /\ kind = "disable" <=> l = "find"
      /\ kind = "enable" <=> l = "get"
      /\ kind = "rotate" <=> l = "rotate"
      /\ l \notin {"idle", "seal", "unadd", "expiry", "save", "unsave", "undisable", "unsecret", "unexpire"}
  <2>1. kind \in AllKinds
    BY DEF PeersAssumption
  <2>2. QED
    BY <1>3, <2>1 DEF FirstCall, AllKinds
<1>5. /\ p \in Procs /\ pc[p] = "idle" /\ Begins(p, {k, n}) /\ Moves(p, l, j)
      /\ UNCHANGED <<conf, live, disabled, secret, faults, clients, issued, off, todo>>
      /\ made' = made \cup {k, n}
      /\ kind = "create" => k \notin made
      /\ kind = "rotate" => n \notin made
  BY <1>1, <1>2, <1>3 DEF Request, Goto, Moves, Procs, stores
<1>6. todo' \subseteq Keys /\ KeysOf(j) = {k, n}
  BY <1>2, <1>5 DEF PeerInv, PeerSafe, PeerTypes, StoreTypes, KeysOf
<1>7. Runs(l, j)'
  BY <1>1, <1>2, <1>4, <1>5 DEF Runs
<1>8. Knows(l, j)
  <2>1. kind = "create" => Fresh(k)
    BY <1>5 DEF PeerInv, PeerSafe, MadeKeys, Fresh
  <2>2. kind = "rotate" => Fresh(n) /\ n # k
    BY <1>1, <1>5 DEF PeerInv, PeerSafe, MadeKeys, Fresh
  <2>3. QED
    BY <1>2, <1>4, <2>1, <2>2 DEF Knows
<1>9. QED
  BY <1>5, <1>6, <1>7, <1>8, Beginning

\* The sweep takes the next key that is due.
LEMMA DueStep == ASSUME PeerInv, NextDue PROVE PeerInv'
<1>1. PICK k \in todo :
        /\ pc[Worker] = "idle" /\ Begins(Worker, {k}) /\ todo' = todo \ {k} /\ Goto(Worker, "find")
        /\ job' = [job EXCEPT ![Worker] = [NoJob EXCEPT !.kind = "expire", !.key = k, !.new = k]]
        /\ UNCHANGED <<stores, faults, aborts, made, clients, issued, off, term>>
  BY DEF NextDue
<1>2. k \in Keys /\ todo' \subseteq Keys
  BY <1>1 DEF PeerInv, PeerSafe, PeerTypes, StoreTypes
<1> DEFINE rec == [NoJob EXCEPT !.kind = "expire", !.key = k, !.new = k]
<1>3. PICK j \in Job : j = rec /\ j.kind = "expire" /\ j.key = k /\ j.new = k
  <2>1. NoJob \in Job
    BY DEF NoJob, Job, AllKinds, Entries
  <2>2. rec \in Job /\ rec.kind = "expire" /\ rec.key = k /\ rec.new = k
    BY <1>2, <2>1 DEF Job
  <2>3. QED
    BY <2>2
<1>4. Moves(Worker, "find", j) /\ Worker \in Procs /\ "find" \in Label
  BY <1>1, <1>3 DEF Goto, Moves, Procs, Label
<1>5. Runs("find", j)' /\ Knows("find", j) /\ KeysOf(j) = {k}
  BY <1>2, <1>3 DEF Runs, Knows, KeysOf
<1>6. QED
  BY <1>1, <1>2, <1>4, <1>5, Beginning DEF stores

\* A sweep's list, a reload of the interface and the clock: no process moves.
LEMMA WorldStep ==
  ASSUME PeerInv,
         Sweep \/ HostReload \/ (\E k \in Keys : Tick(k)) \/ UNCHANGED vars
  PROVE  PeerInv'
<1>1. /\ UNCHANGED <<conf, disabled, secret, pc, job, faults, made, clients, issued, off, clash>>
      /\ todo' \subseteq Keys
      /\ live' = live \/ live' = {k \in Keys : conf[k] # Absent}
  BY DEF Sweep, HostReload, Tick, vars, stores, history, PeerInv, PeerSafe, PeerTypes, StoreTypes
<1>2. PeerSafe'
  <2>1. PeerTypes' /\ MadeKeys' /\ SecretsStored'
    BY <1>1 DEF PeerInv, PeerSafe, PeerTypes, StoreTypes, MadeKeys, SecretsStored
  <2>2. \A p \in Procs : Runs(pc[p], job[p])'
    BY <1>1 DEF PeerInv, PeerSafe, Runs
  <2>3. QED
    BY <2>1, <2>2 DEF PeerSafe
<1>3. Calm'
  <2> SUFFICES ASSUME Undisturbed' PROVE CalmInv'
    BY DEF Calm
  <2>1. CalmInv
    BY <1>1 DEF Undisturbed, PeerInv, Calm
  <2>2. \A k \in Keys : KeyCalm(k)'
    BY <1>1, <2>1 DEF CalmInv, KeyCalm
  <2>3. Homes'
    BY <1>1, <2>1 DEF CalmInv, Homes, Primary
  <2>4. \A p \in Procs : pc'[p] # "idle" => Knows(pc[p], job[p])'
    BY <1>1, <2>1 DEF CalmInv, Knows, Fresh
  <2>5. QED
    BY <1>1, <2>1, <2>2, <2>3, <2>4 DEF CalmInv
<1>4. QED
  BY <1>2, <1>3 DEF PeerInv

\* The invariant, step by step.
LEMMA PeerInvariant == Spec => []PeerInv
<1>1. Init => PeerInv
  BY PeersAssumption, PeerStart
<1>2. PeerInv /\ [Next]_vars => PeerInv'
  <2> SUFFICES ASSUME PeerInv, [Next]_vars PROVE PeerInv'
    OBVIOUS
  <2>1. ASSUME NEW h \in Handlers, NewRequest(h) PROVE PeerInv'
    BY <2>1, PeersAssumption, RequestStep
  <2>2. ASSUME NEW p \in Procs, Step(p) \/ Abort(p) PROVE PeerInv'
    BY <2>2, PeersAssumption, AddStep, SealStep, UnaddStep, UpdateStep, SaveStep, RemoveStep, UnsaveStep,
       RotateStep, QuietSteps DEF Step
  <2>3. CASE NextDue
    BY <2>3, DueStep
  <2>4. CASE Sweep \/ HostReload \/ (\E k \in Keys : Tick(k)) \/ UNCHANGED vars
    BY <2>4, WorldStep
  <2>5. QED
    BY <2>1, <2>2, <2>3, <2>4 DEF Next
<1>3. QED
  BY <1>1, <1>2, PTL DEF Spec

-----------------------------------------------------------------------------
(* What holds of the clients *)

\* Whatever calls of apiCreatePeer, apiRotatePeer and the others fail, and however
\* they interleave, the private half of a key the panel issued stays stored while
\* the key is configured or disabled.
THEOREM SecretsKept == Spec => []SecretKept
<1>1. PeerInv => SecretKept
  BY DEF PeerInv, PeerSafe, SecretsStored, SecretKept
<1>2. QED
  BY <1>1, PeerInvariant, PTL

\* A key that was deleted or rotated away is not taken back by the interface, as
\* long as calls succeed and operations on one key do not overlap, wherever
\* handlers stop and whatever runs on other keys.
THEOREM OffStays == Spec => []OffStaysOff
<1>1. PeerInv => OffStaysOff
  <2> SUFFICES ASSUME PeerInv, Undisturbed, NEW k \in live PROVE off[k] # "yes"
    BY DEF OffStaysOff
  <2>1. k \in Keys /\ KeyCalm(k)
    BY DEF PeerInv, PeerSafe, PeerTypes, StoreTypes, Calm, CalmInv
  <2>2. QED
    BY <2>1 DEF KeyCalm
<1>2. QED
  BY <1>1, PeerInvariant, PTL

\* The entry of a client is in the config file or in disabled_peers at every
\* moment of a disable, an enable, a rotation or a sweep, wherever it stops.
THEOREM SettingsStay == Spec => []SettingsKeptUndisturbed
<1>1. PeerInv => SettingsKeptUndisturbed
  <2> SUFFICES ASSUME PeerInv, Undisturbed, NEW c \in clients
               PROVE  \E k \in Keys : c \in {conf[k], disabled[k]}
    BY DEF SettingsKeptUndisturbed, SettingsKept
  <2>1. PICK k \in Keys : Primary(k) = c
    BY DEF PeerInv, Calm, CalmInv, Homes
  <2>2. QED
    BY <2>1 DEF Primary
<1>2. QED
  BY <1>1, PeerInvariant, PTL

=============================================================================
