---------------------------- MODULE AccessProofs ----------------------------
(***************************************************************************)
(* Proofs about access to an instance, for any number of accounts, keys,   *)
(* requests at once and failing calls.                                     *)
(*                                                                         *)
(* A provisioning owns the key it generated: no other one has it, and only *)
(* an admin who changes its peer directly touches it (and is recorded in   *)
(* `disturbed').  A revocation carries the keys it has still to remove.    *)
(* So for an account that is not disturbed, the peers given to it that are *)
(* on the host are those peer_owner lists, and a revocation's list covers  *)
(* them until it has removed the last.                                     *)
(***************************************************************************)
EXTENDS AccessRequests, TLAPS

-----------------------------------------------------------------------------
(* The invariant *)

Unowned == {"seal", "unadd", "relink", "own"}
HasKey == Unowned \cup {"check", "granted"}
Removing == {"remove", "clear"}
Label == {"idle", "upsert", "add", "fallback", "deny", "drop", "setoff", "list", "denyall", "deluser"}
           \cup HasKey \cup Removing
Job == [kind : Kinds, user : Users \cup {NoUser}, row : BOOLEAN, key : Keys \cup {NoKey},
        todo : SUBSET Keys]

AccTypes ==
  /\ user \in [Users -> {"on", "off", "gone"}]
  /\ req \in [Users -> {"none", "pending", "approved", "granted", "denied"}]
  /\ owner \in [Keys -> Users \cup {NoUser}] /\ given \in [Keys -> Users \cup {NoUser}]
  /\ host \subseteq made /\ made \subseteq Keys
  /\ last \in [Users -> {"granted", "revoked"}]
  /\ disturbed \subseteq Users

\* A peer given to the account is on the host.
Has(u) == \E k \in host : given[k] = u

\* What a handler at call l with job j is about.
Runs(l, j) ==
  /\ l # "idle" => j.user \in Users
  /\ l \in HasKey \cup {"add", "fallback"} => j.kind \in Granting
  /\ l \in HasKey => j.key \in made
  /\ l \in Removing \cup {"setoff", "list", "denyall", "deluser"} => j.kind \in Revoking
  /\ l \in Removing => j.todo \subseteq made
  /\ l = "clear" => j.key \in j.todo
  /\ l = "upsert" => j.kind \in {"request", "grant"}
  /\ l \in {"deny", "drop"} => j.kind = l
  /\ l # "idle" /\ j.row => user[j.user] # "gone"

\* What it knows of its keys.
Knows(l, j) ==
  /\ l \in Unowned => given[j.key] = NoUser \/ {j.user, given[j.key]} \subseteq disturbed
  /\ l \in {"check", "granted"} /\ j.user \notin disturbed => owner[j.key] = j.user
  /\ l = "granted" /\ j.user \notin disturbed => j.key \in host \cap secret
  /\ l \in Removing => \A k \in j.todo : given[k] \in {j.user, NoUser} \cup disturbed
  /\ l \in Removing /\ j.user \notin disturbed => \A k \in host : given[k] = j.user => k \in j.todo
  /\ l = "clear" /\ j.user \notin disturbed => j.key \notin host
  /\ l \in {"denyall", "deluser"} /\ j.user \notin disturbed => ~Has(j.user)

\* What holds between two handlers, one at l with job j and one at m with job i.
Apart(l, j, m, i) ==
  /\ l \in HasKey /\ m \in HasKey => j.key # i.key
  /\ l \in Unowned /\ m \in Removing /\ j.key \in i.todo => j.user \in disturbed
  /\ l # "idle" /\ m # "idle" /\ j.kind \in Granting /\ i.kind \in Revoking /\ j.user = i.user
       => j.user \in disturbed

KeyRows ==
  \A k \in Keys : owner[k] \in {NoUser, given[k]} /\ (given[k] # NoUser => k \in made)

\* What holds of an account.
Account(u) ==
  /\ user[u] = "gone" => req[u] = "none"
  /\ u \notin disturbed =>
       /\ \A k \in host : given[k] = u => owner[k] = u
       /\ user[u] = "gone" => ~Has(u)
       /\ last[u] = "revoked" => InFlight(u, Granting) = {}
       /\ last[u] = "revoked" /\ InFlight(u, Revoking) = {} => ~Has(u)
       /\ req[u] = "granted" /\ InFlight(u, Revoking) = {} => OwnedBy(u) \cap host \cap secret # {}

AccInv ==
  /\ AccTypes /\ pc \in [Handlers -> Label] /\ job \in [Handlers -> Job]
  /\ KeyRows
  /\ \A h \in Handlers : Runs(pc[h], job[h]) /\ Knows(pc[h], job[h])
  /\ \A h, g \in Handlers : h # g => Apart(pc[h], job[h], pc[g], job[g])
  /\ \A u \in Users : Account(u)

-----------------------------------------------------------------------------
(* Steps of one handler *)

\* A handler keeps its place and its job, except that its request's row may go.
Same(q) ==
  /\ pc'[q] = pc[q]
  /\ job'[q].kind = job[q].kind /\ job'[q].user = job[q].user
  /\ job'[q].key = job[q].key /\ job'[q].todo = job[q].todo
  /\ job'[q].row => job[q].row

Moves(h, l, j) ==
  /\ pc' = [pc EXCEPT ![h] = l] /\ job' \in [Handlers -> Job] /\ job'[h] = j
  /\ \A q \in Handlers \ {h} : Same(q)

\* A handler that ends, or goes on with a changed job.
LEMMA Moving ==
  ASSUME AccInv, NEW h \in Handlers
  PROVE  /\ NoJob \in Job /\ job[h] \in Job /\ pc[h] \in Label
         /\ Finish(h) => Moves(h, "idle", NoJob)
         /\ \A l : Then(h, l) => Moves(h, l, job[h])
         /\ \A l : \A j \in Job : Goto(h, l) /\ job' = [job EXCEPT ![h] = j] => Moves(h, l, j)
<1>1. NoJob \in Job
  BY DEF NoJob, Job, Kinds
<1>2. job \in [Handlers -> Job] /\ pc \in [Handlers -> Label]
  BY DEF AccInv
<1>3. ASSUME NEW l, NEW j \in Job, Goto(h, l), job' = [job EXCEPT ![h] = j]
      PROVE  Moves(h, l, j)
  BY <1>2, <1>3 DEF Goto, Moves, Same
<1>4. Finish(h) => Moves(h, "idle", NoJob)
  BY <1>1, <1>3 DEF Finish
<1>5. \A l : Then(h, l) => Moves(h, l, job[h])
  BY <1>2, <1>3 DEF Then
<1>6. QED
  BY <1>1, <1>2, <1>3, <1>4, <1>5

\* The handlers that a step does not move, when what they know still holds.
LEMMA Kept ==
  ASSUME AccInv, NEW H \in SUBSET Handlers, \A q \in H : Same(q),
         disturbed \subseteq disturbed', made \subseteq made',
         \A q \in H : pc[q] # "idle" /\ user'[job[q].user] = "gone" => user[job[q].user] = "gone" \/ ~job'[q].row,
         \A q \in H : Knows(pc[q], job[q])'
  PROVE  /\ \A q \in H : Runs(pc[q], job[q])' /\ Knows(pc[q], job[q])'
         /\ \A q, g \in H : q # g => Apart(pc[q], job[q], pc[g], job[g])'
<1>1. ASSUME NEW q \in H PROVE Runs(pc[q], job[q])'
  <2>1. Runs(pc[q], job[q])
    BY DEF AccInv
  <2>2. QED
    BY <2>1 DEF Runs, Same
<1>2. ASSUME NEW q \in H, NEW g \in H, q # g PROVE Apart(pc[q], job[q], pc[g], job[g])'
  <2>1. Apart(pc[q], job[q], pc[g], job[g])
    BY <1>2 DEF AccInv
  <2>2. QED
    BY <2>1 DEF Apart, Same
<1>3. QED
  BY <1>1, <1>2

\* What a handler knows is kept when its own keys are.
LEMMA KnowsKept ==
  ASSUME AccInv, NEW q \in Handlers, Same(q), disturbed \subseteq disturbed',
         pc[q] \in Unowned => \/ given'[job[q].key] \in {given[job[q].key], NoUser}
                              \/ {job[q].user, given'[job[q].key]} \subseteq disturbed',
         pc[q] \in {"check", "granted"} /\ job[q].user \notin disturbed'
           => owner'[job[q].key] = owner[job[q].key],
         pc[q] = "granted" /\ job[q].user \notin disturbed' /\ job[q].key \in host \cap secret
           => job[q].key \in host' \cap secret',
         pc[q] \in Removing => \A k \in job[q].todo :
            given'[k] = given[k] \/ given'[k] \in {job[q].user, NoUser} \cup disturbed',
         pc[q] \in Removing \cup {"denyall", "deluser"} /\ job[q].user \notin disturbed'
           => \A k \in host' : given'[k] = job[q].user => k \in host /\ given[k] = job[q].user,
         pc[q] = "clear" => job[q].key \notin host' \ host
  PROVE  Knows(pc[q], job[q])'
<1>1. Knows(pc[q], job[q])
  BY DEF AccInv
<1>2. QED
  BY <1>1 DEF Knows, Same, Has, Removing

\* A handler that moves and the others.
LEMMA ApartKept ==
  ASSUME AccInv, NEW h \in Handlers, NEW l \in Label, NEW j \in Job, Moves(h, l, j),
         disturbed \subseteq disturbed', pc[h] # "idle",
         l # "idle" => j.user = job[h].user /\ j.kind = job[h].kind,
         l \in HasKey => j.key \notin made \/ (pc[h] \in HasKey /\ j.key = job[h].key),
         l \in Unowned /\ j.key \in made => pc[h] \in Unowned,
         l \in Removing => \A q \in Handlers \ {h} :
            pc[q] \in Unowned /\ job[q].key \in j.todo => job[q].user \in disturbed',
         NEW q \in Handlers \ {h}
  PROVE  Apart(pc[h], job[h], pc[q], job[q])' /\ Apart(pc[q], job[q], pc[h], job[h])'
<1>1. /\ Apart(pc[h], job[h], pc[q], job[q]) /\ Apart(pc[q], job[q], pc[h], job[h])
      /\ Runs(pc[q], job[q])
  BY DEF AccInv
<1>2. Same(q) /\ pc'[h] = l /\ job'[h] = j
  BY DEF Moves, AccInv
<1>3. Apart(pc[h], job[h], pc[q], job[q])'
  BY <1>1, <1>2 DEF Apart, Same, Runs, HasKey, Unowned, Removing
<1>4. Apart(pc[q], job[q], pc[h], job[h])'
  BY <1>1, <1>2 DEF Apart, Same, Runs, HasKey, Unowned, Removing
<1>5. QED
  BY <1>3, <1>4

\* The handlers at work for an account change only by the one that ends.
LEMMA Flights ==
  ASSUME AccInv, NEW h \in Handlers, NEW l \in Label, NEW j \in Job, Moves(h, l, j), pc[h] # "idle",
         l # "idle" => j.user = job[h].user /\ j.kind = job[h].kind,
         NEW u \in Users, NEW S \in SUBSET Kinds
  PROVE  /\ InFlight(u, S)' \subseteq InFlight(u, S)
         /\ l # "idle" \/ job[h].kind \notin S \/ job[h].user # u => InFlight(u, S)' = InFlight(u, S)
<1>1. pc'[h] = l /\ job'[h] = j /\ \A q \in Handlers \ {h} : Same(q)
  BY DEF Moves, AccInv
<1>2. QED
  BY <1>1 DEF InFlight, Same

\* All parts together, for a step of handler h.
LEMMA StepInv ==
  ASSUME AccInv, NEW h \in Handlers, NEW l \in Label, NEW j \in Job, Moves(h, l, j), pc[h] # "idle",
         disturbed \subseteq disturbed', made \subseteq made', AccTypes', KeyRows',
         l # "idle" => j.user = job[h].user /\ j.kind = job[h].kind,
         l \in HasKey => j.key \notin made \/ (pc[h] \in HasKey /\ j.key = job[h].key),
         l \in Unowned /\ j.key \in made => pc[h] \in Unowned,
         l \in Removing => \A q \in Handlers \ {h} :
            pc[q] \in Unowned /\ job[q].key \in j.todo => job[q].user \in disturbed',
         \A q \in Handlers \ {h} :
            pc[q] # "idle" /\ user'[job[q].user] = "gone" => user[job[q].user] = "gone" \/ ~job'[q].row,
         \A q \in Handlers \ {h} : Knows(pc[q], job[q])',
         Runs(l, j)', Knows(l, j)',
         \A u \in Users : Account(u)'
  PROVE  AccInv'
<1>1. pc'[h] = l /\ job'[h] = j /\ pc' \in [Handlers -> Label] /\ job' \in [Handlers -> Job]
      /\ \A q \in Handlers \ {h} : Same(q)
  BY DEF Moves, AccInv
<1>2. /\ \A q \in Handlers \ {h} : Runs(pc[q], job[q])' /\ Knows(pc[q], job[q])'
      /\ \A q, g \in Handlers \ {h} : q # g => Apart(pc[q], job[q], pc[g], job[g])'
  BY <1>1, Kept
<1>3. \A q \in Handlers \ {h} :
        Apart(pc[h], job[h], pc[q], job[q])' /\ Apart(pc[q], job[q], pc[h], job[h])'
  BY ApartKept
<1>4. Runs(pc[h], job[h])' /\ Knows(pc[h], job[h])'
  BY <1>1
<1>5. \A q \in Handlers : Runs(pc[q], job[q])' /\ Knows(pc[q], job[q])'
  BY <1>2, <1>4
<1>6. \A q, g \in Handlers : q # g => Apart(pc[q], job[q], pc[g], job[g])'
  BY <1>2, <1>3
<1>7. QED
  BY <1>1, <1>5, <1>6 DEF AccInv

\* A step that leaves the host, peer_owner and what was given alone.
LEMMA QuietMove ==
  ASSUME AccInv, NEW h \in Handlers, NEW l \in Label, NEW j \in Job, Moves(h, l, j), pc[h] # "idle",
         UNCHANGED <<host, given, owner, made, last>>, secret \subseteq secret',
         disturbed \subseteq disturbed', disturbed' \subseteq Users,
         user' \in [Users -> {"on", "off", "gone"}],
         req' \in [Users -> {"none", "pending", "approved", "granted", "denied"}],
         \A u \in Users : user'[u] = "gone" => user[u] = "gone" /\ req'[u] = "none",
         \A u \in Users \ disturbed' :
            req'[u] = "granted" => req[u] = "granted" \/ OwnedBy(u) \cap host \cap secret # {},
         l = "idle" /\ job[h].kind \in Revoking /\ job[h].user \notin disturbed'
           => ~Has(job[h].user) /\ req'[job[h].user] # "granted",
         l # "idle" => j.user = job[h].user /\ j.kind = job[h].kind,
         l \in HasKey => pc[h] \in HasKey /\ j.key = job[h].key,
         l \in Unowned => pc[h] \in Unowned,
         l \in Removing => \A q \in Handlers \ {h} :
            pc[q] \in Unowned /\ job[q].key \in j.todo => job[q].user \in disturbed',
         Runs(l, j)', Knows(l, j)'
  PROVE  AccInv'
<1>1. AccTypes' /\ KeyRows'
  BY DEF AccInv, AccTypes, KeyRows
<1>2. ASSUME NEW q \in Handlers \ {h}
      PROVE  /\ Knows(pc[q], job[q])'
             /\ pc[q] # "idle" /\ user'[job[q].user] = "gone" => user[job[q].user] = "gone" \/ ~job'[q].row
  <2>1. Same(q) /\ job'[q] \in Job
    BY DEF Moves
  <2>2. Knows(pc[q], job[q])'
    BY <2>1, KnowsKept
  <2>3. pc[q] # "idle" => job[q].user \in Users
    BY DEF AccInv, Runs
  <2>4. QED
    BY <2>2, <2>3
<1>3. ASSUME NEW u \in Users PROVE Account(u)'
  <2>1. Account(u) /\ (job[h].user = u => u \in Users)
    BY DEF AccInv
  <2>2. InFlight(u, Granting)' \subseteq InFlight(u, Granting)
    BY Flights DEF Kinds
  <2>3. l # "idle" \/ job[h].kind \notin Revoking \/ job[h].user # u
          => InFlight(u, Revoking)' = InFlight(u, Revoking)
    BY Flights DEF Kinds
  <2>4. Has(u)' = Has(u) /\ OwnedBy(u)' = OwnedBy(u)
    BY DEF Has, OwnedBy
  <2>5. QED
    BY <2>1, <2>2, <2>3, <2>4 DEF Account
<1>4. QED
  BY <1>1, <1>2, <1>3, StepInv

\* The facts about a handler under way that every step starts from.
LEMMA Working ==
  ASSUME AccInv, NEW h \in Handlers, pc[h] # "idle"
  PROVE  /\ NoJob \in Job /\ "idle" \in Label /\ job[h] \in Job /\ job[h].user \in Users
         /\ job[h].kind \in Kinds /\ job[h].row \in BOOLEAN /\ job[h].todo \subseteq Keys
         /\ Finish(h) => Moves(h, "idle", NoJob)
         /\ \A l : Then(h, l) => Moves(h, l, job[h])
         /\ Runs(pc[h], job[h]) /\ Knows(pc[h], job[h]) /\ Account(job[h].user)
         /\ AccTypes /\ KeyRows
         /\ Runs("idle", NoJob)' /\ Knows("idle", NoJob)'
<1>1. job[h] \in Job /\ Runs(pc[h], job[h]) /\ Knows(pc[h], job[h]) /\ job[h].user \in Users
  BY DEF AccInv, Runs
<1>2. job[h].kind \in Kinds /\ job[h].row \in BOOLEAN /\ job[h].todo \subseteq Keys
  BY <1>1 DEF Job
<1>3. Runs("idle", NoJob)' /\ Knows("idle", NoJob)'
  BY DEF Runs, Knows, HasKey, Unowned, Removing
<1>4. QED
  BY <1>1, <1>2, <1>3, Moving DEF AccInv, Label

\* The error return of a provisioning.
LEMMA Failing ==
  ASSUME AccInv, NEW h \in Handlers, pc[h] # "idle", job[h].kind \in Granting, Fail(h)
  PROVE  \/ Moves(h, "idle", NoJob)
         \/ \E j \in Job : /\ Moves(h, "fallback", j) /\ j.user = job[h].user /\ j.kind = job[h].kind
                           /\ j.row = job[h].row /\ j.key = NoKey
<1>1. CASE job[h].kind = "link"
  BY <1>1, Working DEF Fail
<1>2. CASE job[h].kind # "link"
  <2> DEFINE rec == [job[h] EXCEPT !.key = NoKey]
  <2>1. rec \in Job /\ rec.user = job[h].user /\ rec.kind = job[h].kind /\ rec.row = job[h].row
        /\ rec.key = NoKey
    BY Working DEF Job
  <2>2. Goto(h, "fallback") /\ job' = [job EXCEPT ![h] = rec]
    BY <1>2 DEF Fail
  <2> HIDE DEF rec
  <2>3. Moves(h, "fallback", rec)
    BY <2>1, <2>2, Moving
  <2>4. QED
    BY <2>1, <2>3
<1>3. QED
  BY <1>1, <1>2

\* A step that changes only the handler's place, or stores a secret.
LEMMA PlaceMove ==
  ASSUME AccInv, NEW h \in Handlers, NEW l \in Label, NEW j \in Job, Moves(h, l, j), pc[h] # "idle",
         UNCHANGED <<user, req, owner, host, made, given, last, disturbed>>, secret \subseteq secret',
         job[h].kind \in Granting,
         l # "idle" => j.user = job[h].user /\ j.kind = job[h].kind,
         l \in HasKey => pc[h] \in HasKey /\ j.key = job[h].key,
         l \in Unowned => pc[h] \in Unowned,
         l \notin Removing, Runs(l, j)', Knows(l, j)'
  PROVE  AccInv'
<1>1. job[h].kind \notin Revoking
  BY DEF Granting, Revoking
<1>2. /\ disturbed' \subseteq Users /\ user' \in [Users -> {"on", "off", "gone"}]
      /\ req' \in [Users -> {"none", "pending", "approved", "granted", "denied"}]
  BY DEF AccInv, AccTypes
<1>3. \A u \in Users : user'[u] = "gone" => user[u] = "gone" /\ req'[u] = "none"
  BY DEF AccInv, Account
<1>4. QED
  BY <1>1, <1>2, <1>3, QuietMove

\* The same for a provisioning that gives up.
LEMMA FailMove ==
  ASSUME AccInv, NEW h \in Handlers, pc[h] # "idle", job[h].kind \in Granting, Fail(h),
         UNCHANGED <<user, req, owner, host, made, given, last, disturbed>>, secret \subseteq secret'
  PROVE  AccInv'
<1>1. CASE Moves(h, "idle", NoJob)
  BY <1>1, Working, PlaceMove DEF HasKey, Unowned, Removing
<1>2. ASSUME NEW j \in Job, Moves(h, "fallback", j), j.user = job[h].user, j.kind = job[h].kind,
             j.row = job[h].row
      PROVE  AccInv'
  <2>1. Runs("fallback", j)' /\ Knows("fallback", j)' /\ "fallback" \in Label
    BY <1>2, Working DEF Runs, Knows, Label, HasKey, Unowned, Removing
  <2>2. QED
    BY <1>2, <2>1, Working, PlaceMove DEF HasKey, Unowned, Removing
<1>3. QED
  BY <1>1, <1>2, Failing

\* SavePeerSecret, GetRequest and buildPeerDownload of a provisioning.
LEMMA ProvisionSteps ==
  ASSUME AccInv, NEW h \in Handlers, Seal(h) \/ Relink(h) \/ Check(h)
  PROVE  AccInv'
<1>1. pc[h] \in {"seal", "relink", "check"}
  BY DEF Seal, Relink, Check
<1>2. job[h].kind \in Granting
  BY <1>1, Working DEF Runs, HasKey, Unowned
<1>3. PICK j \in Job : j = job[h]
  BY <1>1, Working
<1>4. UNCHANGED <<user, req, owner, host, made, given, last, disturbed>> /\ secret \subseteq secret'
  BY DEF Seal, Relink, Check, tables, history
<1>5. ASSUME NEW l \in Label, Then(h, l),
             \/ pc[h] \in {"seal", "relink"} /\ l \in {"unadd", "relink", "own"}
             \/ pc[h] = "check" /\ l = "granted" /\ job[h].key \in host \cap secret
      PROVE  AccInv'
  <2>1. Moves(h, l, j)
    BY <1>1, <1>3, <1>5, Working
  <2>2. Runs(l, j)'
    BY <1>1, <1>3, <1>4, <1>5, Working DEF Runs, HasKey, Unowned, Removing
  <2>3. Knows(l, j)'
    BY <1>1, <1>3, <1>4, <1>5, Working DEF Knows, HasKey, Unowned, Removing
  <2>4. QED
    BY <1>1, <1>2, <1>3, <1>4, <1>5, <2>1, <2>2, <2>3, PlaceMove DEF HasKey, Unowned, Removing
<1>6. CASE Finish(h)
  BY <1>1, <1>2, <1>4, <1>6, Working, PlaceMove DEF HasKey, Unowned, Removing
<1>7. CASE Fail(h)
  BY <1>1, <1>2, <1>4, <1>7, FailMove
<1>8. CASE Seal(h)
  <2>1. Then(h, "relink") \/ Then(h, "own") \/ Then(h, "unadd")
    BY <1>8 DEF Seal
  <2>2. pc[h] = "seal" /\ {"relink", "own", "unadd"} \subseteq Label
    BY <1>8 DEF Seal, Label, HasKey, Unowned
  <2>3. QED
    BY <1>5, <2>1, <2>2
<1>9. CASE Relink(h)
  <2>1. pc[h] = "relink" /\ (Then(h, "own") \/ Finish(h)) /\ "own" \in Label
    BY <1>9 DEF Relink, Label, HasKey, Unowned
  <2>2. QED
    BY <1>5, <1>6, <2>1
<1>10. CASE Check(h)
  <2>1. pc[h] = "check" /\ "granted" \in Label
    BY <1>10 DEF Check, Label, HasKey
  <2>2. (Then(h, "granted") /\ job[h].key \in host \cap secret) \/ Fail(h)
    BY <1>10 DEF Check
  <2>3. QED
    BY <1>5, <1>7, <2>1, <2>2
<1>11. QED
  BY <1>8, <1>9, <1>10

\* A request's row gets another status, or is deleted.
LEMMA StatusMove ==
  ASSUME AccInv, NEW h \in Handlers, Moves(h, "idle", NoJob), pc[h] # "idle", job[h].kind \notin Revoking,
         UNCHANGED <<user, owner, host, secret, made, given, last, disturbed>>,
         NEW s \in {"none", "pending", "approved", "granted", "denied"},
         req' = [req EXCEPT ![job[h].user] = s], s # "none" => user[job[h].user] # "gone",
         s = "granted" /\ job[h].user \notin disturbed => OwnedBy(job[h].user) \cap host \cap secret # {}
  PROVE  AccInv'
<1>1. /\ disturbed' \subseteq Users /\ user' \in [Users -> {"on", "off", "gone"}]
      /\ req' \in [Users -> {"none", "pending", "approved", "granted", "denied"}]
  BY Working DEF AccTypes
<1>2. \A u \in Users : user'[u] = "gone" => user[u] = "gone" /\ req'[u] = "none"
  <2>1. \A u \in Users : user[u] = "gone" => req[u] = "none"
    BY DEF AccInv, Account
  <2>2. QED
    BY <1>1, <2>1, Working DEF AccTypes
<1>3. \A u \in Users \ disturbed' :
         req'[u] = "granted" => req[u] = "granted" \/ OwnedBy(u) \cap host \cap secret # {}
  BY Working DEF AccTypes
<1>4. QED
  BY <1>1, <1>2, <1>3, Working, QuietMove DEF HasKey, Unowned, Removing

\* A handler that ends without changing anything, when it was no revocation.
LEMMA EndMove ==
  ASSUME AccInv, NEW h \in Handlers, Moves(h, "idle", NoJob), pc[h] # "idle", job[h].kind \notin Revoking,
         UNCHANGED <<user, req, owner, host, secret, made, given, last, disturbed>>
  PROVE  AccInv'
<1>1. /\ disturbed' \subseteq Users /\ user' \in [Users -> {"on", "off", "gone"}]
      /\ req' \in [Users -> {"none", "pending", "approved", "granted", "denied"}]
  BY Working DEF AccTypes
<1>2. \A u \in Users : user'[u] = "gone" => user[u] = "gone" /\ req'[u] = "none"
  BY DEF AccInv, Account
<1>3. QED
  BY <1>1, <1>2, Working, QuietMove DEF HasKey, Unowned, Removing

\* SetRequestStatus(granted): the peer is there, owned, and has its secret.
LEMMA GrantedStep == ASSUME AccInv, NEW h \in Handlers, Granted(h) PROVE AccInv'
<1>1. pc[h] = "granted"
  BY DEF Granted
<1> USE <1>1
<1>2. job[h].kind \in Granting /\ job[h].kind \notin Revoking
  BY Working DEF Runs, HasKey, Granting, Revoking
<1>3. UNCHANGED <<user, owner, host, secret, made, given, last, disturbed>>
  BY DEF Granted, history
<1>4. CASE job[h].row /\ SetStatus(h, "granted") /\ Finish(h)
  <2>1. user[job[h].user] # "gone"
    BY <1>4, Working DEF Runs
  <2>2. job[h].user \notin disturbed => OwnedBy(job[h].user) \cap host \cap secret # {}
    <3> SUFFICES ASSUME job[h].user \notin disturbed PROVE job[h].key \in OwnedBy(job[h].user) \cap host \cap secret
      OBVIOUS
    <3>1. owner[job[h].key] = job[h].user /\ job[h].key \in host \cap secret /\ job[h].key \in made
      BY Working DEF Knows, Runs, HasKey
    <3>2. QED
      BY <3>1, Working DEF OwnedBy, AccTypes
  <2>3. QED
    BY <1>2, <1>3, <1>4, <2>1, <2>2, Working, StatusMove DEF SetStatus
<1>5. CASE Fail(h) /\ UNCHANGED req
  BY <1>2, <1>3, <1>5, FailMove
<1>6. QED
  BY <1>4, <1>5 DEF Granted

\* SetRequestStatus(approved) and SetRequestStatus(denied).
LEMMA StatusSteps == ASSUME AccInv, NEW h \in Handlers, Fallback(h) \/ Deny(h) PROVE AccInv'
<1>1. pc[h] \in {"fallback", "deny"}
  BY DEF Fallback, Deny
<1>2. job[h].kind \notin Revoking
  BY <1>1, Working DEF Runs, Granting, Revoking
<1>3. UNCHANGED <<user, owner, host, secret, made, given, last, disturbed>> /\ Finish(h)
  BY DEF Fallback, Deny, history
<1>4. CASE UNCHANGED req
  BY <1>1, <1>2, <1>3, <1>4, Working, EndMove
<1>5. ASSUME NEW s \in {"approved", "denied"}, job[h].row, SetStatus(h, s) PROVE AccInv'
  <2>1. user[job[h].user] # "gone"
    BY <1>1, <1>5, Working DEF Runs
  <2>2. QED
    BY <1>1, <1>2, <1>3, <1>5, <2>1, Working, StatusMove DEF SetStatus
<1>6. QED
  BY <1>4, <1>5 DEF Fallback, Deny

\* The rows of accounts are deleted under the handlers that hold their ids.
LEMMA RowsGoneMove ==
  ASSUME AccInv, NEW us \in SUBSET Users, NEW h \in Handlers, Goto(h, "idle"),
         job' = [RowsGone(us) EXCEPT ![h] = NoJob]
  PROVE  /\ Moves(h, "idle", NoJob)
         /\ \A q \in Handlers \ {h} : job[q].user \in us => ~job'[q].row
<1>1. job \in [Handlers -> Job] /\ NoJob \in Job
  BY Moving DEF AccInv
<1>2. ASSUME NEW q \in Handlers \ {h}
      PROVE  job'[q] \in Job /\ Same(q) /\ (job[q].user \in us => ~job'[q].row)
  <2> DEFINE rec == [job[q] EXCEPT !.row = FALSE]
  <2>1. /\ rec \in Job /\ rec.kind = job[q].kind /\ rec.user = job[q].user
        /\ rec.key = job[q].key /\ rec.todo = job[q].todo /\ ~rec.row
    BY <1>1 DEF Job
  <2>2. job'[q] = IF job[q].user \in us THEN rec ELSE job[q]
    BY DEF RowsGone
  <2> HIDE DEF rec
  <2>3. pc'[q] = pc[q]
    BY DEF Goto, AccInv
  <2>4. QED
    BY <1>1, <2>1, <2>2, <2>3 DEF Same
<1>3. job'[h] = NoJob /\ job' \in [Handlers -> Job]
  <2>1. DOMAIN job' = Handlers /\ job'[h] = NoJob /\ job' = [q \in Handlers |-> job'[q]]
    BY DEF RowsGone
  <2>2. QED
    BY <1>1, <1>2, <2>1
<1>4. QED
  BY <1>2, <1>3 DEF Moves, Goto

\* DeleteRequest.
LEMMA DropStep == ASSUME AccInv, NEW h \in Handlers, Drop(h) PROVE AccInv'
<1>1. pc[h] = "drop" /\ UNCHANGED <<user, owner, host, secret, made, given, last, disturbed>>
  BY DEF Drop, history
<1>2. job[h].kind \notin Revoking
  BY <1>1, Working DEF Runs, Revoking
<1>3. CASE Finish(h) /\ UNCHANGED req
  BY <1>1, <1>2, <1>3, Working, EndMove
<1>4. CASE /\ req' = [req EXCEPT ![job[h].user] = "none"] /\ Goto(h, "idle")
           /\ job' = [RowsGone({job[h].user}) EXCEPT ![h] = NoJob]
  <2>1. Moves(h, "idle", NoJob)
    BY <1>1, <1>4, Working, RowsGoneMove
  <2>2. QED
    BY <1>1, <1>2, <1>4, <2>1, StatusMove
<1>5. QED
  BY <1>3, <1>4 DEF Drop

\* UpsertRequest.
LEMMA UpsertStep == ASSUME AccInv, NEW h \in Handlers, Upsert(h) PROVE AccInv'
<1>1. pc[h] = "upsert" /\ UNCHANGED <<user, owner, host, secret, made, given, last, disturbed>>
  BY DEF Upsert, history
<1>2. job[h].kind \in {"request", "grant"} /\ job[h].kind \notin Revoking
  BY <1>1, Working DEF Runs, Revoking
<1>3. CASE Finish(h) /\ UNCHANGED req
  BY <1>1, <1>2, <1>3, Working, EndMove
<1>4. CASE user[job[h].user] # "gone" /\ req' = [req EXCEPT ![job[h].user] = "pending"] /\ Finish(h)
  BY <1>1, <1>2, <1>4, Working, StatusMove
<1>5. CASE /\ user[job[h].user] # "gone" /\ req' = [req EXCEPT ![job[h].user] = "pending"]
           /\ job[h].kind = "grant" /\ Goto(h, "add") /\ job' = [job EXCEPT ![h].row = TRUE]
  <2> DEFINE rec == [job[h] EXCEPT !.row = TRUE]
  <2>1. rec \in Job /\ rec.user = job[h].user /\ rec.kind = job[h].kind
    BY <1>1, Working DEF Job
  <2>2. PICK j \in Job : j = rec /\ j.user = job[h].user /\ j.kind = job[h].kind
    BY <2>1
  <2>3. Moves(h, "add", j) /\ "add" \in Label
    <3>1. job' = [job EXCEPT ![h] = j]
      BY <1>5, <2>2
    <3>2. QED
      BY <1>5, <3>1, Moving DEF Label
  <2>4. Runs("add", j)' /\ Knows("add", j)'
    BY <1>1, <1>5, <2>2, Working DEF Runs, Knows, Granting, HasKey, Unowned, Removing
  <2>5. /\ disturbed' \subseteq Users /\ user' \in [Users -> {"on", "off", "gone"}]
        /\ req' \in [Users -> {"none", "pending", "approved", "granted", "denied"}]
    BY <1>1, <1>5, Working DEF AccTypes
  <2>6. \A u \in Users : user'[u] = "gone" => user[u] = "gone" /\ req'[u] = "none"
    <3>1. \A u \in Users : user[u] = "gone" => req[u] = "none"
      BY DEF AccInv, Account
    <3>2. QED
      BY <1>1, <1>5, <3>1, Working DEF AccTypes
  <2>7. \A u \in Users : req'[u] = "granted" => req[u] = "granted"
    BY <1>1, <1>5, Working DEF AccTypes
  <2>8. QED
    BY <1>1, <1>2, <2>2, <2>3, <2>4, <2>5, <2>6, <2>7, QuietMove DEF HasKey, Unowned, Removing
<1>6. QED
  BY <1>3, <1>4, <1>5 DEF Upsert

\* A step of a revocation that leaves the host and peer_owner alone; a failing
\* one leaves its account disturbed.
LEMMA RevokeMove ==
  ASSUME AccInv, NEW h \in Handlers, NEW l \in Label, NEW j \in Job, Moves(h, l, j), pc[h] # "idle",
         UNCHANGED <<owner, host, secret, made, given, last>>,
         disturbed' \in {disturbed, disturbed \cup {job[h].user}},
         user' \in {user, [user EXCEPT ![job[h].user] = "off"]}, user' # user => user[job[h].user] # "gone",
         req' \in {req, [req EXCEPT ![job[h].user] = "denied"]}, req' # req => req[job[h].user] # "none",
         l = "idle" /\ job[h].user \notin disturbed'
           => ~Has(job[h].user) /\ req'[job[h].user] # "granted",
         l # "idle" => j.user = job[h].user /\ j.kind = job[h].kind,
         l \notin HasKey,
         l \in Removing => \A q \in Handlers \ {h} :
            pc[q] \in Unowned /\ job[q].key \in j.todo => job[q].user \in disturbed',
         Runs(l, j)', Knows(l, j)'
  PROVE  AccInv'
<1>1. /\ disturbed \subseteq disturbed' /\ disturbed' \subseteq Users
      /\ user' \in [Users -> {"on", "off", "gone"}]
      /\ req' \in [Users -> {"none", "pending", "approved", "granted", "denied"}]
  BY Working DEF AccTypes
<1>2. \A u \in Users : user[u] = "gone" => req[u] = "none"
  BY DEF AccInv, Account
<1>3. \A u \in Users : user'[u] = "gone" => user[u] = "gone" /\ req'[u] = "none"
  BY <1>2, Working DEF AccTypes
<1>4. \A u \in Users : req'[u] = "granted" => req[u] = "granted"
  BY Working DEF AccTypes
<1>5. QED
  BY <1>1, <1>3, <1>4, QuietMove DEF HasKey

\* UpdateUserEnabled(false), ListOwnedPeerKeys and SetRequestStatus(denied).
LEMMA RevokeSteps ==
  ASSUME AccessAssumption, AccInv, NEW h \in Handlers, SetOff(h) \/ List(h) \/ DenyAll(h)
  PROVE  AccInv'
<1>1. pc[h] \in {"setoff", "list", "denyall"}
  BY DEF SetOff, List, DenyAll
<1>2. PICK j \in Job : j = job[h]
  BY <1>1, Working
<1>3. PICK u \in Users : u = job[h].user
  BY <1>1, Working
<1>4. /\ UNCHANGED <<owner, host, secret, made, given, last>>
      /\ disturbed' \in {disturbed, disturbed \cup {u}}
  BY <1>3 DEF SetOff, List, DenyAll, tables, RevokeFault, NoRevokeFault
<1>5. job[h].kind \in Revoking
  BY <1>1, Working DEF Runs
<1>6. CASE SetOff(h)
  <2>1. pc[h] = "setoff" /\ UNCHANGED req
    BY <1>6 DEF SetOff
  <2>2. CASE user[u] # "gone" /\ user' = [user EXCEPT ![u] = "off"] /\ Then(h, "list")
    <3>1. Moves(h, "list", j) /\ "list" \in Label
      BY <1>1, <1>2, <2>2, Working DEF Label
    <3>2. Runs("list", j)' /\ Knows("list", j)'
      BY <1>1, <1>2, <1>3, <1>5, <2>2, Working DEF Runs, Knows, AccTypes, HasKey, Unowned, Removing
    <3>3. QED
      BY <1>1, <1>2, <1>3, <1>4, <2>1, <2>2, <3>1, <3>2, RevokeMove DEF HasKey, Unowned, Removing
  <2>3. CASE user[u] = "gone" /\ Finish(h) /\ UNCHANGED user
    <3>1. u \notin disturbed' => ~Has(u) /\ req'[u] # "granted"
      BY <1>1, <1>3, <1>4, <2>1, <2>3, Working DEF Account
    <3>2. QED
      BY <1>1, <1>3, <1>4, <2>1, <2>3, <3>1, Working, RevokeMove DEF HasKey, Unowned, Removing
  <2>4. CASE RevokeFault(h) /\ Finish(h) /\ UNCHANGED user
    <3>1. u \in disturbed'
      BY <1>3, <2>4 DEF RevokeFault
    <3>2. QED
      BY <1>1, <1>3, <1>4, <2>1, <2>4, <3>1, Working, RevokeMove DEF HasKey, Unowned, Removing
  <2>5. QED
    BY <1>3, <1>6, <2>2, <2>3, <2>4 DEF SetOff
<1>7. CASE DenyAll(h)
  <2>1. pc[h] = "denyall" /\ UNCHANGED user /\ Finish(h)
    BY <1>7 DEF DenyAll
  <2>2. /\ req' \in {req, [req EXCEPT ![u] = "denied"]} /\ (req' # req => req[u] # "none")
        /\ u \notin disturbed' => req'[u] # "granted"
    <3>1. CASE req' = (IF req[u] = "none" THEN req ELSE [req EXCEPT ![u] = "denied"])
      BY <1>1, <3>1, Working DEF AccTypes
    <3>2. CASE RevokeFault(h) /\ UNCHANGED req
      BY <1>3, <3>2 DEF RevokeFault
    <3>3. QED
      BY <1>3, <1>7, <3>1, <3>2 DEF DenyAll
  <2>3. u \notin disturbed' => ~Has(u)
    BY <1>1, <1>3, <1>4, <2>1, Working DEF Knows
  <2>4. QED
    BY <1>1, <1>3, <1>4, <2>1, <2>2, <2>3, Working, RevokeMove DEF HasKey, Unowned, Removing
<1>8. CASE List(h)
  <2>1. pc[h] = "list" /\ UNCHANGED <<user, req>> /\ AfterPeers(h) \in {"deluser", "denyall"}
    BY <1>8 DEF List, tables, AfterPeers
  <2>2. CASE RevokeFault(h) /\ Then(h, AfterPeers(h))
    <3>1. PICK l \in {"deluser", "denyall"} : l = AfterPeers(h)
      BY <2>1
    <3>2. Moves(h, l, j) /\ l \in Label /\ u \in disturbed'
      BY <1>1, <1>2, <1>3, <2>2, <3>1, Working DEF Label, RevokeFault
    <3>3. Runs(l, j)' /\ Knows(l, j)'
      BY <1>1, <1>2, <1>3, <1>5, <2>1, <3>2, Working DEF Runs, Knows, HasKey, Unowned, Removing
    <3>4. QED
      BY <1>1, <1>2, <1>3, <1>4, <2>1, <3>1, <3>2, <3>3, RevokeMove DEF HasKey, Unowned, Removing
  <2>3. CASE /\ UNCHANGED disturbed /\ Goto(h, IF OwnedBy(u) = {} THEN AfterPeers(h) ELSE "remove")
             /\ job' = [job EXCEPT ![h].todo = OwnedBy(u)]
    <3> DEFINE rec == [job[h] EXCEPT !.todo = OwnedBy(u)]
    <3>1. rec \in Job /\ rec.user = u /\ rec.kind = job[h].kind /\ rec.row = job[h].row /\ rec.todo = OwnedBy(u)
      BY <1>1, <1>3, Working DEF Job, OwnedBy
    <3>2. PICK i \in Job : /\ i = rec /\ i.user = u /\ i.kind = job[h].kind /\ i.row = job[h].row
                           /\ i.todo = OwnedBy(u)
      BY <3>1
    <3>3. PICK l \in {"deluser", "denyall", "remove"} : l = IF OwnedBy(u) = {} THEN AfterPeers(h) ELSE "remove"
      BY <2>1
    <3>4. Moves(h, l, i) /\ l \in Label
      <4>1. job' = [job EXCEPT ![h] = i] /\ Goto(h, l)
        BY <2>3, <3>2, <3>3
      <4>2. QED
        BY <4>1, Moving DEF Label, Removing
    <3>5. \A k \in OwnedBy(u) : given[k] = u /\ k \in made
      BY <1>1, Working DEF OwnedBy, KeyRows, AccessAssumption
    <3>6. Runs(l, i)'
      BY <1>1, <1>3, <1>4, <1>5, <2>1, <3>2, <3>3, <3>5, Working DEF Runs, HasKey, Unowned, Removing
    <3>7. u \notin disturbed => \A k \in host : given[k] = u => k \in OwnedBy(u)
      BY <1>1, <1>3, Working DEF Account, OwnedBy, AccTypes
    <3>8. Knows(l, i)'
      <4>1. CASE l = "remove"
        BY <1>4, <2>3, <3>2, <3>5, <3>7, <4>1 DEF Knows, HasKey, Unowned, Removing
      <4>2. CASE l # "remove"
        <5>1. u \notin disturbed' => ~Has(u)'
          BY <1>4, <2>3, <3>3, <3>7, <4>2 DEF Has
        <5>2. QED
          BY <3>2, <4>2, <5>1 DEF Knows, HasKey, Unowned, Removing
      <4>3. QED
        BY <4>1, <4>2
    <3>9. \A q \in Handlers \ {h} : pc[q] \in Unowned /\ job[q].key \in i.todo => job[q].user \in disturbed'
      <4> SUFFICES ASSUME NEW q \in Handlers \ {h}, pc[q] \in Unowned, job[q].key \in OwnedBy(u)
                   PROVE  job[q].user \in disturbed
        BY <2>3, <3>2
      <4>1. Knows(pc[q], job[q]) /\ given[job[q].key] # NoUser
        BY <3>5 DEF AccInv, AccessAssumption
      <4>2. QED
        BY <4>1 DEF Knows
    <3>10. QED
      BY <1>1, <1>3, <1>4, <2>1, <3>2, <3>3, <3>4, <3>6, <3>8, <3>9, RevokeMove DEF HasKey, Unowned, Removing
  <2>4. QED
    BY <1>3, <1>8, <2>2, <2>3 DEF List, NoRevokeFault
<1>9. QED
  BY <1>6, <1>7, <1>8

\* AddPeer: the key is one that no store and no handler has.
LEMMA AddStep == ASSUME AccessAssumption, AccInv, NEW h \in Handlers, Add(h) PROVE AccInv'
<1>1. PICK k \in Keys \ made :
        /\ pc[h] = "add"
        /\ \/ /\ host' = host \cup {k} /\ made' = made \cup {k}
              /\ Goto(h, "seal") /\ job' = [job EXCEPT ![h].key = k]
           \/ /\ host' \in {host, host \cup {k}} /\ made' = made \cup host'
              /\ Fail(h)
        /\ UNCHANGED <<tables, secret, history>>
  BY DEF Add
<1>2. UNCHANGED <<user, req, owner, secret, given, last, disturbed>>
  BY <1>1 DEF tables, history
<1>3. job[h].kind \in Granting /\ job[h].kind \notin Revoking
  BY <1>1, Working DEF Runs, Granting, Revoking
<1>4. host \subseteq host' /\ host' \subseteq host \cup {k} /\ made \subseteq made' /\ given[k] = NoUser
  BY <1>1, Working DEF KeyRows
<1>5. AccTypes' /\ KeyRows'
  BY <1>1, <1>2, <1>4, Working DEF AccTypes, KeyRows
<1>6. ASSUME NEW q \in Handlers \ {h}, Same(q) PROVE Knows(pc[q], job[q])'
  <2>1. /\ Runs(pc[q], job[q]) /\ (pc[q] # "idle" => job[q].user # NoUser)
        /\ (pc[q] = "clear" => job[q].key \in made)
    BY DEF AccInv, Runs, AccessAssumption, Removing
  <2>2. pc[q] \in Removing \cup {"denyall", "deluser"} => pc[q] # "idle"
    BY DEF Removing
  <2>3. \A x \in host' : given'[x] # NoUser => x \in host
    BY <1>2, <1>4
  <2>4. QED
    BY <1>1, <1>2, <1>4, <1>6, <2>1, <2>2, <2>3, KnowsKept
<1>7. ASSUME NEW l \in Label, NEW j \in Job, Moves(h, l, j), l # "idle" => j.user = job[h].user /\ j.kind = job[h].kind
      PROVE  \A u \in Users : Account(u)'
  <2> SUFFICES ASSUME NEW u \in Users PROVE Account(u)'
    OBVIOUS
  <2>1. Account(u) /\ u # NoUser
    BY DEF AccInv, AccessAssumption
  <2>2. InFlight(u, Granting)' \subseteq InFlight(u, Granting) /\ InFlight(u, Revoking)' = InFlight(u, Revoking)
    BY <1>1, <1>3, <1>7, Flights DEF Kinds
  <2>3. OwnedBy(u)' = OwnedBy(u) /\ (Has(u)' => Has(u))
    BY <1>2, <1>4, <2>1 DEF OwnedBy, Has
  <2>4. QED
    BY <1>2, <1>4, <2>1, <2>2, <2>3 DEF Account
<1>8. ASSUME NEW l \in {"idle", "fallback"}, NEW j \in Job, Moves(h, l, j),
             l # "idle" => j.user = job[h].user /\ j.kind = job[h].kind /\ j.row = job[h].row
      PROVE  AccInv'
  <2>1. l \in Label /\ l \notin HasKey /\ l \notin Unowned /\ l \notin Removing
    BY DEF Label, HasKey, Unowned, Removing
  <2>2. Runs(l, j)' /\ Knows(l, j)'
    BY <1>1, <1>2, <1>3, <1>8, <2>1, Working DEF Runs, Knows, Removing
  <2>3. QED
    BY <1>1, <1>2, <1>4, <1>5, <1>6, <1>7, <1>8, <2>1, <2>2, StepInv DEF Moves
<1>9. CASE Fail(h)
  BY <1>1, <1>3, <1>8, <1>9, Failing, Working
<1>10. CASE /\ host' = host \cup {k} /\ made' = made \cup {k}
            /\ Goto(h, "seal") /\ job' = [job EXCEPT ![h].key = k]
  <2> DEFINE rec == [job[h] EXCEPT !.key = k]
  <2>1. rec \in Job /\ rec.user = job[h].user /\ rec.kind = job[h].kind /\ rec.row = job[h].row /\ rec.key = k
    BY <1>1, Working DEF Job
  <2>2. PICK j \in Job : /\ j = rec /\ j.user = job[h].user /\ j.kind = job[h].kind
                         /\ j.row = job[h].row /\ j.key = k
    BY <2>1
  <2>3. Moves(h, "seal", j) /\ "seal" \in Label
    <3>1. job' = [job EXCEPT ![h] = j]
      BY <1>10, <2>2
    <3>2. QED
      BY <1>10, <3>1, Moving DEF Label, HasKey, Unowned
  <2>4. Runs("seal", j)' /\ Knows("seal", j)'
    BY <1>1, <1>2, <1>3, <1>4, <1>10, <2>2, Working DEF Runs, Knows, HasKey, Unowned, Removing
  <2>5. QED
    BY <1>1, <1>2, <1>4, <1>5, <1>6, <1>7, <2>2, <2>3, <2>4, StepInv DEF Moves, Removing
<1>11. QED
  BY <1>1, <1>9, <1>10

\* RemovePeer of a peer whose secret could not be stored: nobody was given it.
LEMMA UnaddStep == ASSUME AccessAssumption, AccInv, NEW h \in Handlers, Unadd(h) PROVE AccInv'
<1>1. /\ pc[h] = "unadd" /\ Fail(h) /\ host' \in {host, host \ {job[h].key}}
      /\ UNCHANGED <<user, req, owner, secret, made, given, last, disturbed>>
  BY DEF Unadd, tables, history
<1>2. job[h].kind \in Granting /\ job[h].kind \notin Revoking
  BY <1>1, Working DEF Runs, Granting, Revoking, HasKey, Unowned
<1>3. AccTypes' /\ KeyRows'
  BY <1>1, Working DEF AccTypes, KeyRows
<1>4. ASSUME NEW q \in Handlers \ {h}, Same(q) PROVE Knows(pc[q], job[q])'
  <2>1. pc[q] = "granted" => job[q].key # job[h].key
    BY <1>1 DEF AccInv, Apart, HasKey, Unowned
  <2>2. QED
    BY <1>1, <1>4, <2>1, KnowsKept
<1>5. ASSUME NEW l \in Label, NEW j \in Job, Moves(h, l, j), l # "idle" => j.user = job[h].user /\ j.kind = job[h].kind
      PROVE  \A u \in Users : Account(u)'
  <2> SUFFICES ASSUME NEW u \in Users PROVE Account(u)'
    OBVIOUS
  <2>1. Account(u) /\ u # NoUser
    BY DEF AccInv, AccessAssumption
  <2>2. InFlight(u, Granting)' \subseteq InFlight(u, Granting) /\ InFlight(u, Revoking)' = InFlight(u, Revoking)
    BY <1>1, <1>2, <1>5, Flights DEF Kinds
  <2>3. u \notin disturbed => given[job[h].key] # u
    BY <1>1, <2>1, Working DEF Knows, Unowned
  <2>4. u \notin disturbed => OwnedBy(u)' = OwnedBy(u) /\ job[h].key \notin OwnedBy(u) /\ (Has(u)' => Has(u))
    BY <1>1, <2>1, <2>3, Working DEF OwnedBy, Has, KeyRows
  <2>5. u \notin disturbed => (OwnedBy(u) \cap host \cap secret)' = OwnedBy(u) \cap host \cap secret
    BY <1>1, <2>4
  <2>6. QED
    BY <1>1, <2>1, <2>2, <2>4, <2>5 DEF Account
<1>6. ASSUME NEW l \in {"idle", "fallback"}, NEW j \in Job, Moves(h, l, j),
             l # "idle" => j.user = job[h].user /\ j.kind = job[h].kind /\ j.row = job[h].row
      PROVE  AccInv'
  <2>1. l \in Label /\ l \notin HasKey /\ l \notin Unowned /\ l \notin Removing
    BY DEF Label, HasKey, Unowned, Removing
  <2>2. Runs(l, j)' /\ Knows(l, j)'
    BY <1>1, <1>2, <1>6, <2>1, Working DEF Runs, Knows, Removing
  <2>3. QED
    BY <1>1, <1>3, <1>4, <1>5, <1>6, <2>1, <2>2, StepInv DEF Moves
<1>7. QED
  BY <1>1, <1>2, <1>6, Failing, Working

\* SetPeerOwner.
LEMMA OwnStep == ASSUME AccessAssumption, AccInv, NEW h \in Handlers, Own(h) PROVE AccInv'
<1>1. pc[h] = "own" /\ UNCHANGED <<user, req, host, secret, made, last, disturbed>>
  BY DEF Own
<1>2. job[h].kind \in Granting /\ job[h].kind \notin Revoking
  BY <1>1, Working DEF Runs, Granting, Revoking, HasKey, Unowned
<1>3. CASE Fail(h) /\ UNCHANGED <<owner, given>>
  BY <1>1, <1>2, <1>3, FailMove
<1>4. CASE /\ user[job[h].user] # "gone" /\ owner' = [owner EXCEPT ![job[h].key] = job[h].user]
           /\ given' = [given EXCEPT ![job[h].key] = job[h].user] /\ Then(h, "check")
  <2>1. PICK j \in Job : j = job[h]
    BY <1>1, Working
  <2>2. PICK k \in made : k = job[h].key
    BY <1>1, Working DEF Runs, HasKey, Unowned
  <2>3. PICK w \in Users : w = job[h].user
    BY <1>1, Working
  <2>4. k \in Keys /\ owner'[k] = w /\ given'[k] = w /\ \A x \in Keys : x # k => owner'[x] = owner[x] /\ given'[x] = given[x]
    BY <1>1, <1>4, <2>2, <2>3, Working DEF AccTypes
  <2>5. Moves(h, "check", j) /\ "check" \in Label
    BY <1>1, <1>4, <2>1, Working DEF Label, HasKey
  <2>6. AccTypes' /\ KeyRows'
    BY <1>1, <1>4, <2>2, <2>3, <2>4, Working DEF AccTypes, KeyRows
  <2>7. Runs("check", j)' /\ Knows("check", j)'
    BY <1>1, <1>2, <2>1, <2>2, <2>3, <2>4, Working DEF Runs, Knows, HasKey, Unowned, Removing
  <2>8. ASSUME NEW q \in Handlers \ {h} PROVE Knows(pc[q], job[q])'
    <3>1. Same(q) /\ Apart(pc[h], job[h], pc[q], job[q]) /\ Apart(pc[q], job[q], pc[h], job[h])
          /\ Runs(pc[q], job[q]) /\ made \subseteq Keys
      BY <2>5 DEF Moves, AccInv, AccTypes
    <3>2. pc[q] \in HasKey => job[q].key # k /\ job[q].key \in Keys
      BY <1>1, <2>2, <3>1 DEF Apart, HasKey, Unowned, Runs
    <3>3. pc[q] \in Removing /\ k \in job[q].todo => w \in disturbed
      BY <1>1, <2>2, <2>3, <3>1 DEF Apart, Unowned
    <3>4. pc[q] \in Removing \cup {"denyall", "deluser"} /\ job[q].user = w => w \in disturbed
      BY <1>1, <1>2, <2>3, <3>1 DEF Apart, Runs, Removing
    <3>5. pc[q] \in Removing => job[q].todo \subseteq Keys
      BY <3>1 DEF Runs
    <3>6. Unowned \subseteq HasKey /\ {"check", "granted"} \subseteq HasKey /\ host \subseteq Keys
      BY <1>1, Working DEF HasKey, AccTypes
    <3>7. QED
      BY <1>1, <2>4, <3>1, <3>2, <3>3, <3>4, <3>5, <3>6, KnowsKept
  <2>9. ASSUME NEW u \in Users PROVE Account(u)'
    <3>1. Account(u) /\ u # NoUser
      BY DEF AccInv, AccessAssumption
    <3>2. InFlight(u, Granting)' = InFlight(u, Granting) /\ InFlight(u, Revoking)' = InFlight(u, Revoking)
      BY <1>1, <1>2, <2>1, <2>5, Flights DEF Kinds
    <3>3. CASE u # w
      <4>1. u \notin disturbed => given[k] # u
        BY <1>1, <2>2, <3>1, Working DEF Knows, Unowned
      <4>2. u \notin disturbed => owner[k] # u
        BY <1>1, <2>4, <3>1, <4>1, Working DEF KeyRows
      <4>3. u \notin disturbed => OwnedBy(u)' = OwnedBy(u)
        BY <2>4, <3>3, <4>2 DEF OwnedBy
      <4>4. Has(u)' => Has(u)
        BY <1>1, <2>4, <3>3, Working DEF Has, AccTypes
      <4>5. \A x \in host : x \in Keys
        BY <1>1, Working DEF AccTypes
      <4>6. QED
        BY <1>1, <2>4, <3>1, <3>2, <3>3, <4>3, <4>4, <4>5 DEF Account
    <3>4. CASE u = w
      <4>1. h \in InFlight(u, Granting)
        BY <1>1, <1>2, <2>3, <3>4 DEF InFlight
      <4>2. u \notin disturbed => last[u] # "revoked" /\ user[u] # "gone"
        BY <1>4, <2>3, <3>1, <3>4, <4>1 DEF Account
      <4>3. OwnedBy(u) \subseteq OwnedBy(u)'
        BY <2>4, <3>4 DEF OwnedBy
      <4>4. \A x \in host : x \in Keys
        BY <1>1, Working DEF AccTypes
      <4>5. QED
        BY <1>1, <1>4, <2>3, <2>4, <3>1, <3>2, <3>4, <4>2, <4>3, <4>4 DEF Account
    <3>5. QED
      BY <3>3, <3>4
  <2>10. QED
    BY <1>1, <2>1, <2>2, <2>5, <2>6, <2>7, <2>8, <2>9, StepInv DEF HasKey, Unowned, Removing
<1>5. QED
  BY <1>3, <1>4 DEF Own

\* What a revocation has still to remove is not in the way of a provisioning for
\* another account, unless that one is disturbed.
LEMMA TodoApart ==
  ASSUME AccessAssumption, AccInv, NEW h \in Handlers, pc[h] \in Removing, NEW q \in Handlers \ {h},
         pc[q] \in {"check", "granted"}, job[q].user \notin disturbed
  PROVE  job[q].key \notin job[h].todo /\ job[q].user # job[h].user
<1>1. /\ Knows(pc[q], job[q]) /\ Runs(pc[q], job[q]) /\ Knows(pc[h], job[h]) /\ Runs(pc[h], job[h])
      /\ Apart(pc[q], job[q], pc[h], job[h]) /\ KeyRows /\ made \subseteq Keys
  BY DEF AccInv, AccTypes
<1>2. job[q].user # job[h].user
  BY <1>1 DEF Apart, Runs, HasKey, Removing
<1>3. owner[job[q].key] = job[q].user /\ job[q].user # NoUser /\ job[q].key \in Keys
  BY <1>1 DEF Knows, Runs, HasKey, AccessAssumption
<1>4. given[job[q].key] = job[q].user
  BY <1>1, <1>3 DEF KeyRows
<1>5. QED
  BY <1>1, <1>2, <1>3, <1>4 DEF Knows

\* RemovePeer of a revocation.
LEMMA RemoveStep == ASSUME AccessAssumption, AccInv, NEW h \in Handlers, Remove(h) PROVE AccInv'
<1>1. PICK k \in job[h].todo :
        /\ pc[h] = "remove" /\ Goto(h, "clear") /\ job' = [job EXCEPT ![h].key = k]
        /\ \/ host' = host \ {k} /\ UNCHANGED disturbed
           \/ RevokeFault(h) /\ UNCHANGED host
        /\ UNCHANGED <<user, req, owner, secret, made, given, last>>
  BY DEF Remove, tables, NoRevokeFault
<1>2. PICK w \in Users : w = job[h].user
  BY <1>1, Working
<1>3. /\ disturbed \subseteq disturbed' /\ disturbed' \subseteq disturbed \cup {w} /\ host' \subseteq host
      /\ host \ {k} \subseteq host' /\ (w \notin disturbed' => k \notin host') /\ k \in Keys
  BY <1>1, <1>2, Working DEF RevokeFault
<1>4. job[h].kind \in Revoking /\ job[h].kind \notin Granting /\ job[h].todo \subseteq made
  BY <1>1, Working DEF Runs, Granting, Revoking, Removing
<1> DEFINE rec == [job[h] EXCEPT !.key = k]
<1>5. /\ rec \in Job /\ rec.user = w /\ rec.kind = job[h].kind /\ rec.row = job[h].row /\ rec.key = k
      /\ rec.todo = job[h].todo
  BY <1>1, <1>2, <1>3, Working DEF Job
<1>6. PICK j \in Job : /\ j = rec /\ j.user = w /\ j.kind = job[h].kind /\ j.row = job[h].row /\ j.key = k
                       /\ j.todo = job[h].todo
  BY <1>5
<1>7. Moves(h, "clear", j) /\ "clear" \in Label
  <2>1. job' = [job EXCEPT ![h] = j]
    BY <1>1, <1>6
  <2>2. QED
    BY <1>1, <2>1, Moving DEF Label, Removing
<1>8. AccTypes' /\ KeyRows'
  BY <1>1, <1>3, Working DEF AccTypes, KeyRows
<1>9. Runs("clear", j)'
  BY <1>1, <1>2, <1>4, <1>6, Working DEF Runs, HasKey, Unowned, Removing
<1>10. Knows("clear", j)'
  BY <1>1, <1>2, <1>3, <1>6, Working DEF Knows, HasKey, Unowned, Removing
<1>11. ASSUME NEW q \in Handlers \ {h} PROVE Knows(pc[q], job[q])'
  <2>1. Same(q)
    BY <1>7 DEF Moves
  <2>2. pc[q] = "granted" /\ job[q].user \notin disturbed' => job[q].key # k
    BY <1>1, <1>3, TodoApart DEF Removing
  <2>3. QED
    BY <1>1, <1>3, <2>1, <2>2, KnowsKept
<1>12. ASSUME NEW q \in Handlers \ {h}, pc[q] \in Unowned, job[q].key \in j.todo PROVE job[q].user \in disturbed'
  <2>1. Apart(pc[q], job[q], pc[h], job[h])
    BY DEF AccInv
  <2>2. QED
    BY <1>1, <1>3, <1>6, <1>12, <2>1 DEF Apart, Removing
<1>13. ASSUME NEW u \in Users PROVE Account(u)'
  <2>1. Account(u) /\ u # NoUser
    BY DEF AccInv, AccessAssumption
  <2>2. InFlight(u, Granting)' = InFlight(u, Granting) /\ InFlight(u, Revoking)' = InFlight(u, Revoking)
    <3>1. pc[h] # "idle" /\ j.user = job[h].user /\ j.kind = job[h].kind
      BY <1>1, <1>2, <1>6
    <3>2. Granting \in SUBSET Kinds /\ Revoking \in SUBSET Kinds
      BY DEF Kinds
    <3>3. QED
      BY <1>7, <3>1, <3>2, Flights
  <2>3. OwnedBy(u)' = OwnedBy(u) /\ (Has(u)' => Has(u))
    BY <1>1, <1>3 DEF OwnedBy, Has
  <2>4. CASE u = w
    <3>1. InFlight(u, Revoking) # {}
      BY <1>1, <1>2, <1>4, <2>4 DEF InFlight
    <3>2. QED
      BY <1>1, <1>3, <2>1, <2>2, <2>3, <3>1 DEF Account
  <2>5. CASE u # w
    <3>1. u \notin disturbed => given[k] # u
      BY <1>1, <1>2, <2>1, <2>5, Working DEF Knows, Removing
    <3>2. u \notin disturbed => k \notin OwnedBy(u)
      BY <1>1, <1>3, <2>1, <3>1, Working DEF OwnedBy, KeyRows
    <3>3. u \notin disturbed => (OwnedBy(u) \cap host \cap secret)' = OwnedBy(u) \cap host \cap secret
      BY <1>1, <1>3, <2>3, <3>2
    <3>4. QED
      BY <1>1, <1>3, <2>1, <2>2, <2>3, <2>5, <3>3 DEF Account
  <2>6. QED
    BY <2>4, <2>5
<1>14. QED
  BY <1>1, <1>2, <1>3, <1>6, <1>7, <1>8, <1>9, <1>10, <1>11, <1>12, <1>13, StepInv
  DEF HasKey, Unowned, Removing

\* ClearPeerOwner of a revocation: the peer is off the host, or its removal failed.
LEMMA ClearStep == ASSUME AccessAssumption, AccInv, NEW h \in Handlers, Clear(h) PROVE AccInv'
<1>1. PICK k : k = job[h].key
  OBVIOUS
<1>2. PICK left \in SUBSET Keys : left = job[h].todo \ {k}
  BY Working DEF Clear
<1>3. /\ pc[h] = "clear" /\ Goto(h, IF left = {} THEN AfterPeers(h) ELSE "remove")
      /\ job' = [job EXCEPT ![h].todo = left, ![h].key = NoKey]
      /\ \/ owner' = [owner EXCEPT ![k] = NoUser] /\ UNCHANGED disturbed
         \/ RevokeFault(h) /\ UNCHANGED owner
      /\ UNCHANGED <<user, req, host, secret, made, given, last>>
  BY <1>1, <1>2 DEF Clear, NoRevokeFault
<1>4. PICK w \in Users : w = job[h].user
  BY <1>3, Working
<1>5. job[h].kind \in Revoking /\ job[h].todo \subseteq made /\ k \in job[h].todo /\ k \in Keys
  BY <1>1, <1>3, Working DEF Runs, Removing
<1>6. /\ disturbed \subseteq disturbed' /\ disturbed' \subseteq disturbed \cup {w}
      /\ \A x \in Keys : x # k => owner'[x] = owner[x]
      /\ owner'[k] \in {owner[k], NoUser} /\ (w \in disturbed' \/ owner'[k] = NoUser)
      /\ owner' \in [Keys -> Users \cup {NoUser}]
  BY <1>3, <1>4, <1>5, Working DEF RevokeFault, AccTypes
<1> DEFINE rec == [[job[h] EXCEPT !.todo = left] EXCEPT !.key = NoKey]
<1>7. /\ rec \in Job /\ rec.user = w /\ rec.kind = job[h].kind /\ rec.row = job[h].row /\ rec.todo = left
      /\ job' = [job EXCEPT ![h] = rec]
  BY <1>3, <1>4, Working DEF Job, AccInv
<1>8. PICK j \in Job : j = rec /\ j.user = w /\ j.kind = job[h].kind /\ j.row = job[h].row /\ j.todo = left
  BY <1>7
<1>9. PICK l \in {"deluser", "denyall", "remove"} : l = IF left = {} THEN AfterPeers(h) ELSE "remove"
  BY DEF AfterPeers
<1>10. Moves(h, l, j) /\ l \in Label
  <2>1. job' = [job EXCEPT ![h] = j] /\ Goto(h, l)
    BY <1>3, <1>7, <1>8, <1>9
  <2>2. QED
    BY <2>1, Moving DEF Label, Removing
<1>11. AccTypes' /\ KeyRows'
  BY <1>3, <1>5, <1>6, Working DEF AccTypes, KeyRows
<1>12. Runs(l, j)'
  BY <1>2, <1>3, <1>4, <1>5, <1>8, <1>9, Working DEF Runs, HasKey, Unowned, Removing
<1>13. w \notin disturbed' => k \notin host /\ \A x \in host : given[x] = w => x \in left
  BY <1>1, <1>2, <1>3, <1>4, <1>6, Working DEF Knows, Removing
<1>14. Knows(l, j)'
  <2>1. CASE l = "remove"
    <3>1. \A x \in left : given[x] \in {w, NoUser} \cup disturbed'
      BY <1>2, <1>3, <1>4, <1>6, Working DEF Knows, Removing
    <3>2. QED
      BY <1>3, <1>8, <1>13, <2>1, <3>1 DEF Knows, HasKey, Unowned, Removing
  <2>2. CASE l # "remove"
    <3>1. w \notin disturbed' => ~Has(w)'
      BY <1>3, <1>9, <1>13, <2>2 DEF Has
    <3>2. QED
      BY <1>8, <2>2, <3>1 DEF Knows, HasKey, Unowned, Removing
  <2>3. QED
    BY <2>1, <2>2
<1>15. ASSUME NEW q \in Handlers \ {h} PROVE Knows(pc[q], job[q])'
  <2>1. Same(q) /\ Runs(pc[q], job[q]) /\ made \subseteq Keys
    BY <1>10 DEF Moves, AccInv, AccTypes
  <2>2. pc[q] \in {"check", "granted"} /\ job[q].user \notin disturbed' => job[q].key # k /\ job[q].key \in Keys
    BY <1>3, <1>5, <1>6, <2>1, TodoApart DEF Removing, Runs, HasKey
  <2>3. QED
    BY <1>3, <1>6, <2>1, <2>2, KnowsKept
<1>16. ASSUME NEW q \in Handlers \ {h}, pc[q] \in Unowned, job[q].key \in j.todo PROVE job[q].user \in disturbed'
  <2>1. Apart(pc[q], job[q], pc[h], job[h])
    BY DEF AccInv
  <2>2. QED
    BY <1>2, <1>3, <1>6, <1>8, <1>16, <2>1 DEF Apart, Removing
<1>17. ASSUME NEW u \in Users PROVE Account(u)'
  <2>1. Account(u) /\ u # NoUser /\ \A x \in host : x \in Keys
    BY DEF AccInv, AccessAssumption, AccTypes
  <2>2. InFlight(u, Granting)' = InFlight(u, Granting) /\ InFlight(u, Revoking)' = InFlight(u, Revoking)
    BY <1>3, <1>4, <1>8, <1>9, <1>10, Flights DEF Kinds
  <2>3. Has(u)' = Has(u)
    BY <1>3 DEF Has
  <2>4. CASE u = w
    <3>1. InFlight(u, Revoking) # {}
      BY <1>3, <1>4, <1>5, <2>4 DEF InFlight
    <3>2. u \notin disturbed' => \A x \in host : given[x] = u => owner'[x] = u
      BY <1>6, <1>13, <2>1, <2>4 DEF Account
    <3>3. QED
      BY <1>3, <1>6, <2>1, <2>2, <2>3, <3>1, <3>2 DEF Account
  <2>5. CASE u # w
    <3>1. u \notin disturbed => given[k] # u
      BY <1>3, <1>4, <1>5, <2>1, <2>5, Working DEF Knows, Removing
    <3>2. u \notin disturbed => owner[k] # u
      BY <1>3, <1>5, <2>1, <3>1, Working DEF KeyRows
    <3>3. u \notin disturbed => OwnedBy(u)' = OwnedBy(u)
      BY <1>6, <2>1, <3>2 DEF OwnedBy
    <3>4. u \notin disturbed => \A x \in host : given[x] = u => owner'[x] = u
      BY <1>6, <2>1, <3>1 DEF Account
    <3>5. QED
      BY <1>3, <1>6, <2>1, <2>2, <2>3, <2>5, <3>3, <3>4 DEF Account
  <2>6. QED
    BY <2>4, <2>5
<1>18. QED
  BY <1>3, <1>4, <1>6, <1>8, <1>9, <1>10, <1>11, <1>12, <1>14, <1>15, <1>16, <1>17, StepInv
  DEF HasKey, Unowned, Removing

\* DeleteUser: the account's rows go with it.
LEMMA DeleteUserStep == ASSUME AccessAssumption, AccInv, NEW h \in Handlers, DeleteUser(h) PROVE AccInv'
<1>1. pc[h] = "deluser" /\ UNCHANGED <<host, secret, made, given, last>>
  BY DEF DeleteUser
<1>2. PICK w \in Users : w = job[h].user
  BY <1>1, Working
<1>3. job[h].kind \in Revoking
  BY <1>1, Working DEF Runs
<1>4. CASE RevokeFault(h) /\ Finish(h) /\ UNCHANGED <<user, req, owner>>
  BY <1>1, <1>4, Working, RevokeMove DEF RevokeFault, HasKey, Unowned, Removing
<1>5. CASE /\ user' = [user EXCEPT ![w] = "gone"] /\ req' = [req EXCEPT ![w] = "none"]
           /\ owner' = [k \in Keys |-> IF owner[k] = w THEN NoUser ELSE owner[k]]
           /\ Goto(h, "idle") /\ job' = [RowsGone({w}) EXCEPT ![h] = NoJob]
           /\ UNCHANGED disturbed
  <2>1. /\ Moves(h, "idle", NoJob) /\ \A q \in Handlers \ {h} : Same(q)
        /\ \A q \in Handlers \ {h} : job[q].user = w => ~job'[q].row
    <3>1. PICK us \in SUBSET Users : us = {w}
      OBVIOUS
    <3>2. job' = [RowsGone(us) EXCEPT ![h] = NoJob] /\ Goto(h, "idle")
      BY <1>5, <3>1
    <3>3. /\ Moves(h, "idle", NoJob)
          /\ \A q \in Handlers \ {h} : job[q].user \in us => ~job'[q].row
      BY <3>2, RowsGoneMove
    <3>4. QED
      BY <3>1, <3>3 DEF Moves
  <2>2. AccTypes' /\ KeyRows'
    BY <1>1, <1>5, Working DEF AccTypes, KeyRows
  <2>3. ASSUME NEW q \in Handlers \ {h}
        PROVE  /\ Knows(pc[q], job[q])'
               /\ pc[q] # "idle" /\ user'[job[q].user] = "gone" => user[job[q].user] = "gone" \/ ~job'[q].row
    <3>1. /\ Apart(pc[q], job[q], pc[h], job[h]) /\ Knows(pc[q], job[q]) /\ Runs(pc[q], job[q])
          /\ made \subseteq Keys
      BY DEF AccInv, AccTypes
    <3>2. pc[q] \in {"check", "granted"} /\ job[q].user \notin disturbed =>
            /\ job[q].user # w /\ owner[job[q].key] = job[q].user /\ job[q].key \in Keys
      BY <1>1, <1>2, <1>3, <3>1 DEF Apart, Knows, Runs, HasKey
    <3>3. Knows(pc[q], job[q])'
      BY <1>1, <1>5, <2>1, <3>2, KnowsKept
    <3>4. pc[q] # "idle" => job[q].user \in Users
      BY <3>1 DEF Runs
    <3>5. QED
      BY <1>1, <1>5, <2>1, <3>3, <3>4, Working DEF AccTypes
  <2>4. ASSUME NEW u \in Users PROVE Account(u)'
    <3>1. Account(u) /\ u # NoUser /\ \A x \in host : x \in Keys
      BY DEF AccInv, AccessAssumption, AccTypes
    <3>2. InFlight(u, Granting)' \subseteq InFlight(u, Granting)
      BY <1>1, <2>1, Working, Flights DEF Kinds
    <3>3. u # w => InFlight(u, Revoking)' = InFlight(u, Revoking)
      BY <1>1, <1>2, <2>1, Working, Flights DEF Kinds
    <3>4. Has(u)' = Has(u)
      BY <1>1 DEF Has
    <3>5. CASE u = w
      <4>1. u \notin disturbed => ~Has(u)
        BY <1>1, <1>2, <3>5, Working DEF Knows
      <4>2. req'[u] = "none"
        BY <1>1, <1>5, <3>5, Working DEF AccTypes
      <4>3. QED
        BY <1>1, <1>5, <3>1, <3>2, <3>4, <4>1, <4>2 DEF Account, Has
    <3>6. CASE u # w
      <4>1. OwnedBy(u)' = OwnedBy(u) /\ \A x \in host : owner[x] = u => owner'[x] = u
        BY <1>5, <3>1, <3>6 DEF OwnedBy
      <4>2. user'[u] = user[u] /\ req'[u] = req[u]
        BY <1>1, <1>5, <3>6, Working DEF AccTypes
      <4>3. QED
        BY <1>1, <1>5, <3>1, <3>2, <3>3, <3>4, <3>6, <4>1, <4>2 DEF Account
    <3>7. QED
      BY <3>5, <3>6
  <2>5. QED
    BY <1>1, <1>5, <2>1, <2>2, <2>3, <2>4, Working, StepInv DEF HasKey, Unowned, Removing
<1>6. QED
  BY <1>2, <1>4, <1>5 DEF DeleteUser, NoRevokeFault

-----------------------------------------------------------------------------
(* Requests that arrive, and steps of no handler *)

\* A request arrives; a grant meets a revocation of the same account, or the
\* reverse, only by disturbing it.
LEMMA BeginStep ==
  ASSUME AccessAssumption, AccInv, NEW h \in Handlers, NEW kind \in Kinds, NEW w \in Users, Begin(h, kind, w)
  PROVE  AccInv'
<1>1. /\ pc[h] = "idle" /\ user[w] # "gone" /\ Goto(h, FirstCall(kind))
      /\ job' = [job EXCEPT ![h] = [NoJob EXCEPT !.kind = kind, !.user = w,
                   !.row = kind \in {"approve", "deny", "drop", "link"}]]
      /\ last' = CASE kind \in Granting -> [last EXCEPT ![w] = "granted"]
                   [] kind \in Revoking -> [last EXCEPT ![w] = "revoked"]
                   [] OTHER -> last
      /\ disturbed' = IF \/ kind \in Granting /\ InFlight(w, Revoking) # {}
                         \/ kind \in Revoking /\ InFlight(w, Granting) # {}
                      THEN disturbed \cup {w} ELSE disturbed
      /\ UNCHANGED <<user, req, owner, host, secret, made, given>>
  BY DEF Begin, tables
<1>2. Granting \cap Revoking = {}
  BY DEF Granting, Revoking
<1>3. AccTypes /\ KeyRows /\ pc \in [Handlers -> Label] /\ job \in [Handlers -> Job]
  BY DEF AccInv
<1>4. PICK b \in BOOLEAN : b = (kind \in {"approve", "deny", "drop", "link"})
  <2>1. (kind \in {"approve", "deny", "drop", "link"}) \in BOOLEAN
    OBVIOUS
  <2>2. QED
    BY <2>1, Zenon
<1> DEFINE rec == [NoJob EXCEPT !.kind = kind, !.user = w, !.row = b]
<1>5. rec \in Job /\ rec.kind = kind /\ rec.user = w
  BY Moving DEF Job
<1>6. PICK j \in Job : j = rec /\ j.kind = kind /\ j.user = w
  BY <1>5
<1>7. PICK l \in {"upsert", "add", "setoff", "list", "deny", "drop"} : l = FirstCall(kind)
  BY DEF FirstCall, Kinds, Granting, Revoking
<1>8. Moves(h, l, j) /\ l \in Label /\ l \notin HasKey /\ l \notin Unowned /\ l \notin Removing
  <2>1. job' = [job EXCEPT ![h] = j] /\ Goto(h, l)
    BY <1>1, <1>4, <1>6, <1>7
  <2>2. QED
    BY <2>1, Moving DEF Label, HasKey, Unowned, Removing
<1>9. Runs(l, j)'
  <2>1. /\ l = "upsert" => kind \in {"request", "grant"}
        /\ l = "add" => kind \in Granting
        /\ l \in {"setoff", "list"} => kind \in Revoking
        /\ l \in {"deny", "drop"} => kind = l
    BY <1>7 DEF FirstCall, Kinds, Granting, Revoking
  <2>2. QED
    BY <1>1, <1>6, <1>8, <2>1 DEF Runs
<1>10. Knows(l, j)'
  BY <1>8 DEF Knows, HasKey
<1>11. disturbed \subseteq disturbed' /\ disturbed' \subseteq disturbed \cup {w} /\ made' = made
  BY <1>1
<1>12. \A u \in Users : u # w => last'[u] = last[u]
  BY <1>1, <1>3 DEF AccTypes
<1>13. /\ kind \in Granting => last'[w] = "granted"
       /\ kind \notin Granting /\ kind \notin Revoking => last'[w] = last[w]
       /\ last' \in [Users -> {"granted", "revoked"}]
  BY <1>1, <1>2, <1>3 DEF AccTypes
<1>14. AccTypes' /\ KeyRows'
  BY <1>1, <1>3, <1>11, <1>13 DEF AccTypes, KeyRows
<1>15. pc'[h] = l /\ job'[h] = j /\ pc' \in [Handlers -> Label] /\ job' \in [Handlers -> Job]
       /\ \A q \in Handlers \ {h} : Same(q)
  BY <1>3, <1>8 DEF Moves
<1>16. \A q \in Handlers \ {h} : Knows(pc[q], job[q])'
  BY <1>1, <1>11, <1>15, KnowsKept
<1>17. /\ \A q \in Handlers \ {h} : Runs(pc[q], job[q])' /\ Knows(pc[q], job[q])'
       /\ \A q, g \in Handlers \ {h} : q # g => Apart(pc[q], job[q], pc[g], job[g])'
  BY <1>1, <1>11, <1>15, <1>16, Kept
<1>18. ASSUME NEW q \in Handlers \ {h}
       PROVE  Apart(pc[h], job[h], pc[q], job[q])' /\ Apart(pc[q], job[q], pc[h], job[h])'
  <2>1. Same(q)
    BY <1>15
  <2>2. pc[q] # "idle" /\ job[q].user = w /\ job[q].kind \in Revoking /\ kind \in Granting => w \in disturbed'
    <3>1. pc[q] # "idle" /\ job[q].user = w /\ job[q].kind \in Revoking => q \in InFlight(w, Revoking)
      BY DEF InFlight
    <3>2. QED
      BY <1>1, <3>1
  <2>3. pc[q] # "idle" /\ job[q].user = w /\ job[q].kind \in Granting /\ kind \in Revoking => w \in disturbed'
    <3>1. pc[q] # "idle" /\ job[q].user = w /\ job[q].kind \in Granting => q \in InFlight(w, Granting)
      BY DEF InFlight
    <3>2. QED
      BY <1>1, <3>1
  <2>4. QED
    BY <1>6, <1>8, <1>15, <2>1, <2>2, <2>3 DEF Apart, Same
<1>19. ASSUME NEW u \in Users PROVE Account(u)'
  <2>1. Account(u)
    BY DEF AccInv
  <2>2. Has(u)' = Has(u) /\ OwnedBy(u)' = OwnedBy(u)
    BY <1>1 DEF Has, OwnedBy
  <2>3. ASSUME NEW S \in SUBSET Kinds, u # w \/ kind \notin S PROVE InFlight(u, S)' = InFlight(u, S)
    BY <1>1, <1>6, <1>15, <2>3 DEF InFlight, Same
  <2>4. CASE u # w
    <3>1. InFlight(u, Granting)' = InFlight(u, Granting) /\ InFlight(u, Revoking)' = InFlight(u, Revoking)
      BY <2>3, <2>4 DEF Kinds
    <3>2. QED
      BY <1>1, <1>11, <1>12, <2>1, <2>2, <2>4, <3>1 DEF Account
  <2>5. CASE u = w /\ kind \notin Granting /\ kind \notin Revoking
    <3>1. InFlight(u, Granting)' = InFlight(u, Granting) /\ InFlight(u, Revoking)' = InFlight(u, Revoking)
      BY <2>3, <2>5 DEF Kinds
    <3>2. QED
      BY <1>1, <1>11, <1>13, <2>1, <2>2, <2>5, <3>1 DEF Account
  <2>6. CASE u = w /\ kind \in Granting
    <3>1. InFlight(u, Revoking)' = InFlight(u, Revoking)
      BY <1>2, <2>3, <2>6 DEF Kinds
    <3>2. QED
      BY <1>1, <1>11, <1>13, <2>1, <2>2, <2>6, <3>1 DEF Account
  <2>7. CASE u = w /\ kind \in Revoking
    <3>1. InFlight(u, Granting)' = InFlight(u, Granting) /\ InFlight(u, Revoking)' # {}
      <4>1. InFlight(u, Granting)' = InFlight(u, Granting)
        BY <1>2, <2>3, <2>7 DEF Kinds
      <4>2. h \in InFlight(u, Revoking)'
        BY <1>6, <1>15, <2>7 DEF InFlight
      <4>3. QED
        BY <4>1, <4>2
    <3>2. u \notin disturbed' => InFlight(u, Granting) = {}
      BY <1>1, <2>7
    <3>3. QED
      BY <1>1, <1>11, <2>1, <2>2, <2>7, <3>1, <3>2 DEF Account
  <2>8. QED
    BY <2>4, <2>5, <2>6, <2>7
<1>20. Runs(pc[h], job[h])' /\ Knows(pc[h], job[h])'
  BY <1>9, <1>10, <1>15
<1>21. QED
  <2>1. \A q \in Handlers : Runs(pc[q], job[q])' /\ Knows(pc[q], job[q])'
    BY <1>17, <1>20
  <2>2. \A q, g \in Handlers : q # g => Apart(pc[q], job[q], pc[g], job[g])'
    BY <1>17, <1>18
  <2>3. QED
    BY <1>14, <1>15, <1>19, <2>1, <2>2 DEF AccInv

\* A step that moves no handler.
LEMMA StillMove ==
  ASSUME AccInv, pc' = pc, job' \in [Handlers -> Job], \A q \in Handlers : Same(q),
         disturbed \subseteq disturbed', made \subseteq made', AccTypes', KeyRows',
         \A u \in Users : user'[u] = "gone" => user[u] = "gone",
         \A q \in Handlers : Knows(pc[q], job[q])',
         \A u \in Users : (\A S \in SUBSET Kinds : InFlight(u, S)' = InFlight(u, S)) => Account(u)'
  PROVE  AccInv'
<1>1. \A q \in Handlers : pc[q] # "idle" => job[q].user \in Users
  BY DEF AccInv, Runs
<1>2. PICK H \in SUBSET Handlers : H = Handlers
  OBVIOUS
<1>3. /\ \A q \in H : Runs(pc[q], job[q])' /\ Knows(pc[q], job[q])'
      /\ \A q, g \in H : q # g => Apart(pc[q], job[q], pc[g], job[g])'
  BY <1>1, <1>2, Kept
<1>4. \A u \in Users : \A S \in SUBSET Kinds : InFlight(u, S)' = InFlight(u, S)
  BY DEF InFlight, Same
<1>5. QED
  BY <1>2, <1>3, <1>4 DEF AccInv

\* The steps of one statement that touch no peer.
LEMMA TableSteps ==
  ASSUME AccInv, ClearDenied \/ (\E w \in Users : EnableUser(w)) \/ UNCHANGED vars
  PROVE  AccInv'
<1>1. AccTypes /\ KeyRows /\ pc \in [Handlers -> Label] /\ job \in [Handlers -> Job]
  BY DEF AccInv
<1>2. UNCHANGED <<owner, host, secret, pc, made, given, last, disturbed>>
  BY DEF ClearDenied, EnableUser, vars, tables, history
<1>3. job' \in [Handlers -> Job] /\ \A q \in Handlers : Same(q)
  <2>1. CASE UNCHANGED job
    BY <1>1, <1>2, <2>1 DEF Same
  <2>2. CASE ClearDenied
    <3> DEFINE denied == {u \in Users : req[u] = "denied"}
    <3>1. ASSUME NEW q \in Handlers PROVE job'[q] \in Job /\ Same(q)
      <4> DEFINE rec == [job[q] EXCEPT !.row = FALSE]
      <4>1. /\ rec \in Job /\ rec.kind = job[q].kind /\ rec.user = job[q].user
            /\ rec.key = job[q].key /\ rec.todo = job[q].todo /\ ~rec.row
        BY <1>1 DEF Job
      <4>2. job'[q] = IF job[q].user \in denied THEN rec ELSE job[q]
        BY <2>2 DEF ClearDenied, RowsGone
      <4> HIDE DEF rec
      <4>3. QED
        BY <1>1, <1>2, <4>1, <4>2 DEF Same
    <3>2. job' = [q \in Handlers |-> job'[q]]
      BY <2>2 DEF ClearDenied, RowsGone
    <3>3. QED
      BY <3>1, <3>2
  <2>3. QED
    BY <2>1, <2>2 DEF EnableUser, vars
<1>4. /\ user' \in [Users -> {"on", "off", "gone"}]
      /\ req' \in [Users -> {"none", "pending", "approved", "granted", "denied"}]
      /\ \A u \in Users : user'[u] = "gone" => user[u] = "gone"
      /\ \A u \in Users : req'[u] \in {req[u], "none"}
  BY <1>1 DEF ClearDenied, EnableUser, vars, tables, AccTypes
<1>5. AccTypes' /\ KeyRows'
  BY <1>1, <1>2, <1>4 DEF AccTypes, KeyRows
<1>6. \A q \in Handlers : Knows(pc[q], job[q])'
  BY <1>2, <1>3, KnowsKept
<1>7. ASSUME NEW u \in Users, \A S \in SUBSET Kinds : InFlight(u, S)' = InFlight(u, S) PROVE Account(u)'
  <2>1. Account(u)
    BY DEF AccInv
  <2>2. InFlight(u, Granting)' = InFlight(u, Granting) /\ InFlight(u, Revoking)' = InFlight(u, Revoking)
    BY <1>7 DEF Kinds
  <2>3. Has(u)' = Has(u) /\ OwnedBy(u)' = OwnedBy(u)
    BY <1>2 DEF Has, OwnedBy
  <2>4. QED
    BY <1>2, <1>4, <2>1, <2>2, <2>3 DEF Account
<1>8. QED
  BY <1>2, <1>3, <1>4, <1>5, <1>6, <1>7, StillMove

\* apiPeerSetOwner: it disturbs whoever had the peer and whoever works on it.
LEMMA SetOwnerStep ==
  ASSUME AccessAssumption, AccInv, NEW k \in Keys, NEW w \in Users \cup {NoUser}, SetOwner(k, w)
  PROVE  AccInv'
<1>1. /\ k \in host /\ (w # NoUser => user[w] # "gone")
      /\ owner' = [owner EXCEPT ![k] = w] /\ given' = [given EXCEPT ![k] = w]
      /\ last' = IF w = NoUser THEN last ELSE [last EXCEPT ![w] = "granted"]
      /\ UNCHANGED <<user, req, host, secret, pc, job, made>>
  BY DEF SetOwner
<1>2. AccTypes /\ KeyRows /\ pc \in [Handlers -> Label] /\ job \in [Handlers -> Job]
  BY DEF AccInv
<1>3. PICK busy \in SUBSET Handlers : busy = {h \in Handlers : job[h].key = k \/ k \in job[h].todo}
  OBVIOUS
<1>4. PICK new : new = IF busy # {} \/ InFlight(w, Revoking) # {} THEN {w} ELSE {}
  OBVIOUS
<1>5. disturbed' = disturbed \cup (({given[k]} \cup {job[h].user : h \in busy} \cup new) \ {NoUser})
  BY <1>3, <1>4 DEF SetOwner
<1>6. /\ disturbed \subseteq disturbed' /\ disturbed' \subseteq Users
      /\ given[k] \in disturbed' \cup {NoUser}
      /\ \A q \in busy : job[q].user \in disturbed' \cup {NoUser}
      /\ busy # {} \/ InFlight(w, Revoking) # {} => w \in disturbed' \cup {NoUser}
  <2>1. \A q \in busy : job[q].user \in Users \cup {NoUser}
    BY <1>2 DEF Job
  <2>2. QED
    BY <1>2, <1>4, <1>5, <2>1 DEF AccTypes
<1>7. /\ owner'[k] = w /\ given'[k] = w
      /\ \A x \in Keys : x # k => owner'[x] = owner[x] /\ given'[x] = given[x]
  BY <1>1, <1>2 DEF AccTypes
<1>8. AccTypes' /\ KeyRows'
  BY <1>1, <1>2, <1>6, <1>7 DEF AccTypes, KeyRows
<1>9. ASSUME NEW q \in Handlers PROVE Knows(pc[q], job[q])' /\ Same(q)
  <2>1. Same(q)
    BY <1>1 DEF Same
  <2>2. Runs(pc[q], job[q]) /\ (pc[q] # "idle" => job[q].user \in Users /\ job[q].user # NoUser)
    BY DEF AccInv, Runs, AccessAssumption
  <2>3. job[q].key = k \/ k \in job[q].todo => q \in busy
    BY <1>3
  <2>4. pc[q] # "idle" /\ q \in busy => job[q].user \in disturbed' /\ w \in disturbed' \cup {NoUser}
    BY <1>6, <2>2
  <2>5. pc[q] \in Removing \cup {"denyall", "deluser"} /\ job[q].user = w => w \in disturbed'
    <3>1. pc[q] \in Removing \cup {"denyall", "deluser"} /\ job[q].user = w => q \in InFlight(w, Revoking)
      BY <2>2 DEF InFlight, Runs, Removing
    <3>2. QED
      BY <1>6, <2>2, <3>1 DEF Removing
  <2>6. /\ pc[q] \in HasKey => job[q].key \in Keys
        /\ pc[q] \in Removing => job[q].todo \subseteq Keys
        /\ host \subseteq Keys /\ "idle" \notin HasKey /\ "idle" \notin Removing
        /\ Unowned \subseteq HasKey /\ {"check", "granted"} \subseteq HasKey
    BY <1>2, <2>2 DEF Runs, AccTypes, HasKey, Unowned, Removing
  <2>7. pc[q] \in Unowned => \/ given'[job[q].key] \in {given[job[q].key], NoUser}
                             \/ {job[q].user, given'[job[q].key]} \subseteq disturbed'
    BY <1>7, <2>3, <2>4, <2>6
  <2>8. pc[q] \in {"check", "granted"} /\ job[q].user \notin disturbed' => owner'[job[q].key] = owner[job[q].key]
    BY <1>7, <2>3, <2>4, <2>6
  <2>9. pc[q] \in Removing => \A x \in job[q].todo :
          given'[x] = given[x] \/ given'[x] \in {job[q].user, NoUser} \cup disturbed'
    BY <1>7, <2>3, <2>4, <2>6
  <2>10. pc[q] \in Removing \cup {"denyall", "deluser"} /\ job[q].user \notin disturbed'
           => \A x \in host' : given'[x] = job[q].user => x \in host /\ given[x] = job[q].user
    BY <1>1, <1>7, <2>5, <2>6
  <2>11. QED
    BY <1>1, <1>6, <2>1, <2>7, <2>8, <2>9, <2>10, KnowsKept
<1>10. ASSUME NEW u \in Users, \A S \in SUBSET Kinds : InFlight(u, S)' = InFlight(u, S) PROVE Account(u)'
  <2>1. Account(u) /\ u # NoUser /\ host \subseteq Keys
    BY <1>2 DEF AccInv, AccessAssumption, AccTypes
  <2>2. InFlight(u, Granting)' = InFlight(u, Granting) /\ InFlight(u, Revoking)' = InFlight(u, Revoking)
    BY <1>10 DEF Kinds
  <2>3. u \notin disturbed' => given[k] # u /\ owner[k] # u
    BY <1>2, <1>6, <2>1 DEF KeyRows
  <2>4. CASE u = w
    <3>1. last'[u] = "granted" /\ user[u] # "gone"
      BY <1>1, <1>2, <2>1, <2>4 DEF AccTypes
    <3>2. OwnedBy(u) \subseteq OwnedBy(u)'
      BY <1>7, <2>4 DEF OwnedBy
    <3>3. \A x \in host : u \notin disturbed' /\ given'[x] = u => owner'[x] = u
      BY <1>6, <1>7, <2>1, <2>4 DEF Account
    <3>4. QED
      BY <1>1, <1>6, <2>1, <2>2, <3>1, <3>2, <3>3 DEF Account
  <2>5. CASE u # w
    <3>1. u \notin disturbed' => OwnedBy(u)' = OwnedBy(u)
      BY <1>7, <2>3, <2>5 DEF OwnedBy
    <3>2. Has(u)' => Has(u)
      BY <1>1, <1>7, <2>1, <2>5 DEF Has
    <3>3. last'[u] = last[u]
      BY <1>1, <1>2, <2>5 DEF AccTypes
    <3>4. \A x \in host : u \notin disturbed' /\ given'[x] = u => owner'[x] = u
      BY <1>6, <1>7, <2>1, <2>5 DEF Account
    <3>5. QED
      BY <1>1, <1>6, <2>1, <2>2, <3>1, <3>2, <3>3, <3>4 DEF Account
  <2>6. QED
    BY <2>4, <2>5
<1>11. QED
  BY <1>1, <1>2, <1>6, <1>8, <1>9, <1>10, StillMove

\* apiDeletePeer and apiRotatePeer: they disturb the account the peer was given to.
LEMMA PeerSteps ==
  ASSUME AccessAssumption, AccInv, NEW k \in Keys, DeletePeer(k) \/ \E n \in Keys : RotatePeer(k, n)
  PROVE  AccInv'
<1>1. /\ k \in host /\ UNCHANGED <<user, req, owner, pc, job, last>>
      /\ disturbed' = disturbed \cup ({given[k]} \ {NoUser})
  BY DEF DeletePeer, RotatePeer, tables
<1>2. AccTypes /\ KeyRows /\ pc \in [Handlers -> Label] /\ job \in [Handlers -> Job]
  BY DEF AccInv
<1>3. PICK N \in SUBSET (Keys \ made) :
        /\ host' = (host \ {k}) \cup N /\ secret' = (secret \ {k}) \cup N /\ made' = made \cup N
        /\ given' \in [Keys -> Users \cup {NoUser}]
        /\ \A x \in Keys : given'[x] = IF x \in N THEN given[k] ELSE given[x]
  <2>1. CASE DeletePeer(k)
    <3>1. /\ host' = (host \ {k}) \cup {} /\ secret' = (secret \ {k}) \cup {} /\ made' = made \cup {}
          /\ given' = given
      BY <2>1 DEF DeletePeer
    <3>2. given' \in [Keys -> Users \cup {NoUser}]
          /\ \A x \in Keys : given'[x] = IF x \in {} THEN given[k] ELSE given[x]
      BY <1>2, <3>1 DEF AccTypes
    <3>3. {} \in SUBSET (Keys \ made)
      OBVIOUS
    <3>4. WITNESS {} \in SUBSET (Keys \ made)
    <3>5. QED
      BY <3>1, <3>2
  <2>2. CASE \E n \in Keys : RotatePeer(k, n)
    <3>1. PICK n \in Keys : RotatePeer(k, n)
      BY <2>2
    <3>2. /\ n \in Keys \ made /\ host' = (host \ {k}) \cup {n} /\ secret' = (secret \ {k}) \cup {n}
          /\ made' = made \cup {n} /\ given' = [given EXCEPT ![n] = given[k]]
      BY <3>1 DEF RotatePeer
    <3>3. given' \in [Keys -> Users \cup {NoUser}]
          /\ \A x \in Keys : given'[x] = IF x \in {n} THEN given[k] ELSE given[x]
      BY <1>2, <3>2 DEF AccTypes
    <3>4. {n} \in SUBSET (Keys \ made)
      BY <3>2
    <3>5. WITNESS {n} \in SUBSET (Keys \ made)
    <3>6. QED
      BY <3>2, <3>3
  <2>3. QED
    BY <2>1, <2>2
<1>4. /\ disturbed \subseteq disturbed' /\ disturbed' \subseteq Users /\ given[k] \in disturbed' \cup {NoUser}
      /\ \A x \in N : x \notin made /\ given[x] = NoUser /\ owner[x] = NoUser
  BY <1>1, <1>2, <1>3 DEF AccTypes, KeyRows
<1>5. AccTypes' /\ KeyRows'
  <2>1. AccTypes'
    BY <1>1, <1>2, <1>3, <1>4 DEF AccTypes
  <2>2. k \in made
    BY <1>1, <1>2 DEF AccTypes
  <2>3. KeyRows'
    BY <1>1, <1>2, <1>3, <1>4, <2>2 DEF KeyRows
  <2>4. QED
    BY <2>1, <2>3
<1>6. ASSUME NEW q \in Handlers PROVE Knows(pc[q], job[q])' /\ Same(q)
  <2>1. Same(q)
    BY <1>1 DEF Same
  <2>2. Runs(pc[q], job[q]) /\ Knows(pc[q], job[q]) /\ (pc[q] # "idle" => job[q].user # NoUser)
        /\ made \subseteq Keys /\ host \subseteq made
    BY <1>2 DEF AccInv, Runs, AccessAssumption, AccTypes
  <2>3. pc[q] = "granted" /\ job[q].user \notin disturbed' => job[q].key # k
    <3> SUFFICES ASSUME pc[q] = "granted", job[q].user \notin disturbed', job[q].key = k PROVE FALSE
      OBVIOUS
    <3>1. owner[k] = job[q].user
      BY <1>4, <2>2 DEF Knows
    <3>2. QED
      BY <1>2, <1>4, <2>2, <3>1 DEF KeyRows
  <2>4. /\ pc[q] \in HasKey => job[q].key \in Keys /\ job[q].key \notin N
        /\ pc[q] \in Removing => job[q].todo \subseteq Keys /\ job[q].todo \cap N = {}
        /\ pc[q] = "clear" => job[q].key \notin N
        /\ Unowned \subseteq HasKey
    BY <1>3, <2>2 DEF Runs, HasKey, Removing
  <2>5. pc[q] \in Removing \cup {"denyall", "deluser"} /\ job[q].user \notin disturbed'
           => \A x \in host' : given'[x] = job[q].user => x \in host /\ given[x] = job[q].user
    <3>1. pc[q] \in Removing \cup {"denyall", "deluser"} => pc[q] # "idle"
      BY DEF Removing
    <3>2. QED
      BY <1>3, <1>4, <2>2, <3>1
  <2>6. pc[q] = "clear" => job[q].key \notin host' \ host
    BY <1>3, <2>4
  <2>7. pc[q] \in Unowned => given'[job[q].key] \in {given[job[q].key], NoUser}
    BY <1>3, <2>4
  <2>8. pc[q] \in Removing => \A x \in job[q].todo : given'[x] = given[x]
    BY <1>3, <2>4
  <2>9. pc[q] = "granted" /\ job[q].user \notin disturbed' /\ job[q].key \in host \cap secret
           => job[q].key \in host' \cap secret'
    BY <1>3, <2>3
  <2>10. QED
    BY <1>1, <1>4, <2>1, <2>5, <2>6, <2>7, <2>8, <2>9, KnowsKept
<1>7. ASSUME NEW u \in Users, \A S \in SUBSET Kinds : InFlight(u, S)' = InFlight(u, S) PROVE Account(u)'
  <2>1. Account(u) /\ u # NoUser /\ host \subseteq Keys
    BY <1>2 DEF AccInv, AccessAssumption, AccTypes
  <2>2. InFlight(u, Granting)' = InFlight(u, Granting) /\ InFlight(u, Revoking)' = InFlight(u, Revoking)
    BY <1>7 DEF Kinds
  <2>3. u \notin disturbed' => given[k] # u /\ owner[k] # u
    BY <1>2, <1>4, <2>1 DEF KeyRows
  <2>4. OwnedBy(u)' = OwnedBy(u)
    BY <1>1 DEF OwnedBy
  <2>5. u \notin disturbed' => \A x \in host' : given'[x] = u => x \in host /\ given[x] = u
    BY <1>3, <2>1, <2>3
  <2>6. u \notin disturbed' /\ Has(u)' => Has(u)
    BY <2>5 DEF Has
  <2>7. u \notin disturbed' => \A x \in OwnedBy(u) \cap host \cap secret : x \in host' \cap secret'
    BY <1>3, <2>3 DEF OwnedBy
  <2>8. QED
    BY <1>1, <1>4, <2>1, <2>2, <2>4, <2>5, <2>6, <2>7 DEF Account
<1>8. QED
  <2>1. job' \in [Handlers -> Job] /\ made \subseteq made' /\ \A u \in Users : user'[u] = "gone" => user[u] = "gone"
    BY <1>1, <1>2, <1>3
  <2>2. QED
    BY <1>1, <1>4, <1>5, <1>6, <1>7, <2>1, StillMove

-----------------------------------------------------------------------------
(* The invariant, and what follows *)

\* No account has access at the start.
LEMMA AccStart == ASSUME AccessAssumption, Init PROVE AccInv
<1>1. NoJob \in Job
  BY DEF NoJob, Job, Kinds
<1>2. AccTypes /\ KeyRows /\ pc \in [Handlers -> Label] /\ job \in [Handlers -> Job]
  BY <1>1 DEF Init, AccTypes, KeyRows, Label
<1>3. \A h \in Handlers : Runs(pc[h], job[h]) /\ Knows(pc[h], job[h])
  BY DEF Init, Runs, Knows, HasKey, Unowned, Removing
<1>4. \A h, g \in Handlers : Apart(pc[h], job[h], pc[g], job[g])
  BY DEF Init, Apart, HasKey, Unowned, Removing
<1>5. \A u \in Users : Account(u)
  BY DEF Init, Account, Has, InFlight
<1>6. QED
  BY <1>2, <1>3, <1>4, <1>5 DEF AccInv

\* The invariant holds throughout.
LEMMA AccInvariant == Spec => []AccInv
<1>1. Init => AccInv
  BY AccessAssumption, AccStart
<1>2. AccInv /\ [Next]_vars => AccInv'
  <2> SUFFICES ASSUME AccInv, [Next]_vars PROVE AccInv'
    OBVIOUS
  <2>1. ASSUME NEW h \in Handlers, NEW kind \in Kinds, NEW u \in Users, Begin(h, kind, u) PROVE AccInv'
    BY <2>1, AccessAssumption, BeginStep
  <2>2. ASSUME NEW h \in Handlers, Step(h) PROVE AccInv'
    BY <2>2, AccessAssumption, UpsertStep, AddStep, ProvisionSteps, UnaddStep, OwnStep, GrantedStep, StatusSteps,
       DropStep, RevokeSteps, RemoveStep, ClearStep, DeleteUserStep DEF Step
  <2>3. CASE ClearDenied \/ (\E u \in Users : EnableUser(u)) \/ UNCHANGED vars
    BY <2>3, TableSteps
  <2>4. ASSUME NEW k \in Keys, NEW u \in Users \cup {NoUser}, SetOwner(k, u) PROVE AccInv'
    BY <2>4, AccessAssumption, SetOwnerStep
  <2>5. ASSUME NEW k \in Keys, DeletePeer(k) \/ \E n \in Keys : RotatePeer(k, n) PROVE AccInv'
    BY <2>5, AccessAssumption, PeerSteps
  <2>6. QED
    BY <2>1, <2>2, <2>3, <2>4, <2>5 DEF Next
<1>3. QED
  BY <1>1, <1>2, PTL DEF Spec

\* For any number of accounts and requests at once: when the access of an account
\* was revoked last (revokeUserProviderAccess, apiUsersSetEnabled, apiUsersDelete)
\* and the handlers are done, none of the peers it was given is on the host, unless
\* a call of the revocation failed, it overlapped a grant of the same account, or an
\* admin changed the account's peers directly.
THEOREM RevokedAccessEnds == Spec => []RevokedOffUndisturbed
<1>1. AccInv => RevokedOffUndisturbed
  <2> SUFFICES ASSUME AccInv, NEW u \in Users \ disturbed, last[u] = "revoked", Settled(u),
                      NEW k \in Keys, given[k] = u
               PROVE  k \notin host
    BY DEF RevokedOffUndisturbed
  <2>1. InFlight(u, Revoking) = {}
    BY DEF Settled, InFlight
  <2>2. ~Has(u)
    BY <2>1 DEF AccInv, Account
  <2>3. QED
    BY <2>2 DEF Has
<1>2. QED
  BY <1>1, AccInvariant, PTL

\* For any number of accounts and requests at once, whichever calls of approving,
\* granting or linking fail: a request shown as granted has a peer that is the
\* account's, on the host, and whose private key is stored, while none of the
\* account's access is being revoked.  Excepted are the accounts in `disturbed',
\* whose revocation failed or met a grant, or whose peers an admin changed.
THEOREM GrantedAccessWorks == Spec => []GrantedWorks
<1>1. AccInv => GrantedWorks
  BY DEF AccInv, Account, GrantedWorks
<1>2. QED
  BY <1>1, AccInvariant, PTL

=============================================================================
