# Protean: TLA+ models, checks and proofs

Protean is a panel (Go, PostgreSQL) that manages VPN servers on remote hosts over
SSH. This directory models the parts of it in which several actors change state
that is spread over a database, files on a host, a daemon and a kernel, checks
them with TLC on small instances and proves the central invariants with TLAPS.

`PROJECT.json` is the machine-readable index: components, runs, mutants,
the source lines behind every definition, findings, hazards, theorems.

## 1. Inventory

### The system's parts

| Part | State | Operations | Module |
|---|---|---|---|
| Firewall safety net (`hostboot/installer.sh` verbs, `api/api_firewall.go`) | kernel rules, `/run/protean-fw/*`, a systemd timer, `current.rules`, boot unit | apply, confirm, rollback, timer, boot restore | `Firewall` |
| wg-family provider (`vpn/wgfamily`) | one config file and one interface per instance, a mutex | add, update, remove, rotate, server settings, restore, reload | `WgProvider` |
| Client lifecycle (`api/api_peers.go`, `handlers_peers.go`, `expiry.go`) | `disabled_peers`, `peer_secrets`, `peer_expiry`, the provider | create, adopt, update, disable, enable, rotate, delete, expiry sweep | `PeerLifecycle` |
| Access and accounts (`api/api_access_requests.go`, `api_users.go`) | `users`, `access_request`, `peer_owner`, the provider | request, approve, grant, deny, revoke, disable, delete | `AccessRequests` |
| OpenVPN, IKEv2, PKI (`vpn/openvpn`, `ikev2`, `pki`, `api_ca.go`) | CA, client rows, revocations, host files, loaded configuration, a mutex | issue, sign, import, remove, revoke, CRL, provision, import CA | `CertProvider` |
| Xray (`vpn/xray`, `api_xray.go`) | instance and client rows, config file, service | apply, add, remove client, rebuild | `Xray` |
| Server manager (`servers/manager.go`, `api_servers.go`, `api_server_instances.go`) | server and instance rows, SSH clients, provider registry | create, update, enable, disable, delete, load, rebuild, remove | `Servers` |
| Status cache (`api/statuscache.go`) | TTL entries, singleflight | get, invalidate | `StatusCache` |
| Brute-force guard (`auth/bruteforce.go`, `api_login_security.go`) | `login_attempts`, `login_ban_state`, rules, settings | check, record, escalate, unban | `LoginGuard` |
| Accounts, login methods, sessions (`auth/manager.go`, `ldap.go`, `oidc.go`, `api_auth.go`, `api_users.go`) | `users`, `sessions`, method switches, group rules | login, second factor, external login, logout, user administration | `Accounts` |
| Web TLS (`webtls`, `api_tls.go`) | settings row, CA, leaf, what the Manager serves from | load, save, reissue, renew, serve | `WebTLS` |
| Address arithmetic (`vpn/ipam.go`, `overlap.go`, `classify.go`) | none | next free address, overlap, split of AllowedIPs | `Addresses` |
| Nodes and peer forwarding (`api_nodes.go`, `api_peer_forward.go`) | `nodes`, `node_peer`, `peer_forward_rules`, FORWARD rules | create, delete, grant, revoke, assign, restrict, reapply, and what the peers page does to the same peers | `Nodes` |
| Mesh, subnets, NAT (`api/mesh.go`, `api_subnets.go`, `api_network.go`) | `subnets`, `provider_settings`, groups, NAT and FORWARD rules | create, NAT mode, delete, mesh settings, forwarding button, detection, reapply | `Subnets` |
| Web console (`console`, `api_console.go`) | tickets, counters, a session's goroutines | mint, consume, acquire, release, bridge | `ConsoleHub`, `Bridge` |
| Master-key rotation (`keyrotate`, `cmd/panel`) | every sealed column, the singleton lock | rotate in one transaction | `KeyRotate` |
| Firewall policy and rendering, notifications, traffic, history, installers, pages | rows, text, I/O | | section 8 |

### How they interact, and what is hard

* The panel is one Go process. Every HTTP request is a goroutine, and so are the
  expiry worker, the renew loop, the workers at startup and the samplers. Handlers
  call a provider (SSH) and then the database, or the reverse, with **no
  transaction around both**: each call can fail alone, the request can be
  cancelled, and another handler can run between any two calls.
* The wg-family and certificate providers serialise their own operations with a
  mutex; the Xray provider, the TLS manager and most handlers do not. The object
  that holds the mutex is replaced when its server is rebuilt.
* An SSH command can run on the host while its answer is lost.
* The firewall verbs are shell scripts without a lock and without `set -e`; the
  verb, the rollback service and a reboot interleave command by command.
* Rows of a client (`peer_expiry`, `peer_owner`, `node_peer`, `disabled_peers`,
  `peer_secrets`) are keyed by its public key, which rotation changes.
* Rules outside a wg-quick config (NAT, FORWARD) are lost at a host's reboot and
  put back only when the panel starts.
* A check (the last admin, a cap, a free address, an overlapping network, a ban)
  and the change it allows are separate statements.

### What makes each part correct

* Firewall: unconfirmed rules are never in force without an armed way back to
  confirmed ones, they do not stay, and a boot never restores them.
* Providers: no operation loses another's client; success means rows, files and
  daemon agree; a removed client stays out; the CA is not replaced by accident;
  every call returns.
* Clients and access: no operation loses settings or a private key; a deleted or
  rotated key stays off; a due client goes off; granted access works and revoked
  access leaves nothing behind.
* Registry and cache: what is served is what the rows and the host say, within a
  bound that can be named.
* Login: guesses are bounded however many run at once; an admin is left; no
  session of a deleted account.
* Network: addresses the panel picks and subnets it adds are disjoint,
  restrictions, NAT and mesh on record are in force.
* Console, TLS, keys: slots are given back and sessions end; no expired certificate
  of the panel's own or of an upload is served; one key opens every secret at
  any time.

## 2. Modules

`PeerLifecycle`, `AccessRequests` and `Nodes` use a provider call as one step,
with the failures that `WgProvider` shows such a call to have. `Servers` has the
rebuild whose consequence for the mutex is in `WgProvider`. `Nodes` and
`Subnets` are built on the operators of `Addresses`. A `history` variable says
what has happened and is read only by properties and bounds: it names where a promise of
the code ends (an overlap, a failed call).

* **`Firewall`**. Each command of a verb that reads or writes shared state is an
  action; `pc[p]` is the next command of process `p`, an SSH session or the
  rollback service. `SessionLost` cuts a session at any command, `Reboot` clears
  `/run` and restores `current.rules`, `Forward` is `cmd_forward`. A table is its
  INPUT part, whether the guard rules are in, and the FORWARD networks.
  `trusted`: INPUT rules in force at boot or at a confirm. `WindowOutlastsSwap`
  is the one timing assumption: the window (at least 30 s) does not elapse
  between arming the timer and the `iptables-restore` in the next command. `Spec`
  lets verbs overlap; `SerialSpec` starts one only when no other runs.
* **`WgProvider`**. `conf` is the config file, `live` the kernel's peers with the
  addresses routed to each (`Assign` moves an address as `wg set` does). A call is
  `Lock`, `Read`, `Save` (backup row), `Write`, `Live`/`Live2` or `Reload`, `Undo`.
  Each SSH command succeeds, fails, or takes effect unanswered; the write of the
  file, which is in place, can also be cut off and leave some of the peers
  (`Cuts`). `Rebuild` gives
  later calls a new object. `doubt` is set by exactly the steps after which the
  code accepts a difference between file and kernel.
* **`PeerLifecycle`**. One action per provider call or SQL statement of the peer
  handlers and the sweep. A client is what an entry holds apart from its key;
  `Tick` is the clock, `Abort` ends a handler between two calls. The history `off`
  says of a key that it was deleted or rotated away (`yes`), or that it was but may
  come back (`again`), its `disabled_peers` row being left or the key configured
  anew.
* **`AccessRequests`**. One action per call of the request, approval, grant, denial,
  deletion and revocation handlers and of account changes.
* **`CertProvider`**. Both certificate providers: `kind` is chosen at the start. A
  method is a program, the sequence of its calls; each step of it is an action
  that reads or writes a row, a file of the host (`disk`) or what the daemon has
  loaded (`used`), and may fail or lose its answer. `certMu` is the provider's
  mutex, which `RebuildCRL` does not take. `Accepted` is what the daemons do with
  a CRL of another issuer than the server's CA: it bars nobody.
* **`Servers`**. Requests as programs over the rows, `Rebuild` as its reads, its
  construction and its swap under the manager's mutex, `LoadAll` at a restart. A
  provider in the registry carries the version of the row it was built from.
* **`StatusCache`**. One entry for status and one for peers, each with its
  singleflight read; `hostVer` counts changes, so an entry shows which it has seen.
* **`Xray`**. One action per database read, write, file write and restart; a
  credential is its kind and number.
* **`LoginGuard`**. A login is the check, the verification of the credential, and
  `RecordResult` statement by statement. Failures and guesses are rows counted per
  age, so a counting window slides; `LoginTick` is time.
* **`Accounts`**. A request authenticates, reads what it checks, then writes. An
  external login resolves a role from groups, creates or updates the row, then
  opens the session.
* **`WebTLS`**. A save writes the row, issues and saves a leaf, then wires the mode;
  a forced reissue and the loop use the settings in memory. The unit of time is
  the loop's interval.
* **`Addresses`, `AddressCheck`**. Operators over addresses of `Width` bits, and
  their reference definitions: the least address that is free, in the range and
  not the network's own; the split of a peer's AllowedIPs by the addresses they
  contain. The scan is a recursive function, a list's parts are sets of places.
* **`Nodes`**. Nodes and their peers, restrictions on record and on the host,
  `ReapplyPeerForwardRules` peer by peer, where it may fail or skip. The node and
  rule requests are statement by statement; create, update, rotate, disable and
  enable of `api_peers.go`, which put any address on a peer and any key in its place,
  are one step each. `cmd_peer_forward_rules` deletes what carries the tag of
  the address, or a longer one that begins with it (`Tagged`), then inserts; it can
  stop half-way or lose its answer. The chain is emptied by a reboot or a
  firewall-apply, and overruled by an interface that goes up again. Histories:
  `moved` (rotated keys), `forced` (typed addresses), `adrift` (rules half
  written, skipped, or left by a change of address), `clipped` (rules a shorter
  address took along), `blurred`, `wiped`.
* **`Subnets`**. Subnets with their NAT rules, mesh and egress settings of a wg
  and a certificate instance, the forwarding button, groups, detection, the workers
  at startup, each of which may skip what it cannot read or reach. A tunnel
  is compared with only while it is up and readable (`unchecked` is the history of
  what was not compared); `overruled` says that the forwarding button wrote the
  wg conf last.
* **`ConsoleHub`, `Bridge`**. Tickets and caps with every way an upgrade ends; a
  session's three goroutines, each blocked in a read, a write or, in `sendExit`, the
  wait for the shell's exit status, and the teardown. `limits`: which of idle
  timeout and maximal duration are configured.
* **`KeyRotate`, `Vault`**. `Vault` is the abstract promise: one key opens every
  secret, changing it changes no secret, saving a secret does not change it.
  `KeyRotate` is the transaction statement by statement beside a panel that
  seals secrets, with the advisory lock, its loss, crashes and failures; it
  implements `Vault` with `secret <- valOf`, `opens <- Opens`,
  `sound <- exclusive`.

`MCPeers` adds the symmetry of its run to `PeerLifecycle`. The other MC modules put
components that share no state into one run each: `MCHosts` the certificate
providers, the servers, the status cache and Xray; `MCLogin` the guard, the accounts
and the web certificate; `MCNetwork` the address operators, the subnets and a wg
interface; `MCNodes` the nodes and the access requests; `MCPanel` the firewall, the
console and the key rotation. `part` is chosen in the initial state, and a behaviour is
a behaviour of that part; so a run checks each part's own behaviours, all of them.

## 3. Runs

| Run | Properties | Result | Distinct states |
|---|---|---|---|
| `panel` | `TypeOK`, `DeadMan`, `BootTrusted`, `UnconfirmedReverts` (Firewall), `SlotsCounted`, `SessionEnds` (console), `RotationAtomic` (KeyRotate implements Vault) | hold | 662 k |
| `hosts` | `RemovedRefused`, `ConnsCurrent`, `CAKept` (CertProvider), `RegistryTracked`, `Settled` (Servers), `ShownAfterInvalidate`, `ServedRecent` (StatusCache), `XraySettled` | hold | 4.0 M |
| `login` | `GuessBound` (LoginGuard), `AdminKept`, `NoOrphanSession` (Accounts), `ServedValid`, `TlsSettled` (WebTLS) | hold | 2.7 M |
| `network` | `NextFreeExact`, `RoutesSplit` (Addresses), `NatAgrees`, `MeshApplied`, `SubnetsDisjoint` (Subnets), `AgreeUnlessDoubt`, `OkAgrees` (WgProvider, one caller, two addresses) | hold | 1.2 M |
| `nodes` | `NoOrphanPeer`, `AddressesDistinct`, `RestrictionInForce` (Nodes), `RevokedOffUndisturbed`, `GrantedWorks` (AccessRequests) | hold | 3.1 M |
| `wg_safe` | `TypeOK`, `NoLostPeer`, `CallsReturn` (WgProvider, two callers) | hold | 349 k |
| `peers_sweep` | `SettingsKeptUndisturbed`, `DueGoesOff` | hold | 204 k |
| `peers_two` | `SecretKept`, `OffStaysOff` | hold | 1.4 M |
| `firewall_race` | `ConfirmRaceSafe` | violated | finding |
| `wg_rebuild` | `NoLostPeer` with two Provider objects | violated | finding |
| `access_rotate` | `RevokedOff` | violated | finding |
| `certs_import` | `RevokedCannotReconnect` | violated | finding |

No run has a state constraint. Bounds are the sizes of the constant sets and the
named `Max...` constants, which guard the actions that would exceed them.

**Why they are enough.**
* Two requests at a time, everywhere: every hazard found is between two actors;
  a third adds an overlap of two. The console has three upgrades against caps of one
  per user and two in all.
* One fault (a failing or unanswered call, a broken-off request, a crash) at any
  point. A repair that follows needs no second one.
* Firewall: one session next to the rollback service, as `SerialSpec` lets one
  verb run; a ruleset that loads, one that `--test` refuses, the factory rules.
* Provider: two callers with one address in `wg_safe`; one caller with peers at one
  address or at two in `network`, where peers share and give up an address; two objects
  give one rebuild.
* Clients: two keys are one rotation; two clients, so that a key can be used
  again by another (`peers_two`). Updates, the clock and handlers that stop half-way
  are in `peers_sweep`, which has one client; the theorems have all of it.
  `DueGoesOff` is checked where no call fails: with one failing call it is false
  (section 5), as the retry of a removal that failed half-way never succeeds.
* Access: one account with two peers.
* Certificates: one name with two certificates (removed and issued again) and two
  CAs. Servers: one host with a seeded and a single-instance kind, three
  versions of its row. Xray: a strategy with secrets and several clients, one
  with neither and passwords; two names.
* Guard: threshold, window and ban of two with one escalation; one address and one
  name, which are two keys. Accounts: two local ones, one of them the emergency
  admin, and an external one; four logins or requests.
* TLS: a leaf valid for two loops, renewed one before its end, over four loops;
  two saves.
* Addresses: every range and every set of used addresses of a /1 pool of 3-bit
  addresses and the corners of a /0 one; every list of up to two AllowedIPs.
  Nodes: three nodes, three keys and three requests in a pool of 4-bit addresses,
  where the typed addresses 1 and 12 have the host's prefix in common. Subnets: a
  network within another beside two tunnels.
* Rotation: two cells in two columns, two keys, two plaintexts.

**Symmetry** of the requests is used in `hosts`, `login`, `network`, `nodes`
and `peers_two`, with that of the keys in `nodes` and of keys and clients in
`peers_two`; none of them checks liveness.

**Deadlock** is checked for `WgProvider` and `PeerLifecycle`. In the five composed runs
and that of `CertProvider` it is not: a session that has returned, a rotation or
request beyond the bounds and the inputs of `AddressCheck` really stop.

**Fairness.** `RollbackFairness`: systemd fires an armed timer and runs the service
it starts; nothing is assumed of the panel, which may never confirm. `FairSpec`
(WgProvider, while one Provider object serves the interface): an SSH command ends at
the latest at its timeout (`sshexec` `CmdTimeout`), and a Go mutex in starvation mode
hands the lock to the longest waiter, hence strong fairness of `Lock`. `LiveSpec` (PeerLifecycle): handlers go on,
and the worker's ticker starts a sweep after the last. `BridgeFairness`: a
goroutine that can go on does, a write to the socket ends by being taken or by
the connection's failure, a host answers the close of a channel or its
connection drops, the clock runs; nothing is assumed of what the shell prints or
the browser sends.

**Mutants.** Every property of a passing run has one: a definition changed the way
a bug would change the code (a check dropped, an order swapped, a mutex not
taken, an error ignored), under which TLC finds the property violated. They stand
before the definition they replace.

## 4. Findings

Each is a violation run; `PROJECT.json` quotes the claim it contradicts.

1. `firewall_race`: firewall-confirm reads the timer's state in one command and
   commits in the next. A rollback in between reverts the rules, and confirm
   still answers `confirmed`.
2. `wg_rebuild`: the mutex is per Provider object, not per interface. A call on
   the object that `Rebuild` replaced loses a peer added on the new one.
3. `access_rotate`: rotation leaves `peer_owner` with the old key; revoking,
   disabling or deleting the account no longer removes the client.
4. `certs_import`: after an import of a CA, removing a client puts a CRL of the new
   CA over that of the one the server runs with; the removed client, and those
   removed before, are let in until the server is set up again.

## 5. Known limits of the code

Met while modelling. The properties say where they stop (a history variable, a
named exception), or the step is left out as stated.

*Firewall*
* Two overlapping `firewall-apply` both pass `fw_pending` (installer.sh:1110).
  `DeadMan` needs `SerialSpec`.
* `firewall-confirm` commits before it writes `current.rules` and does not check
  the write (installer.sh:1192): a boot may restore older, still confirmed, rules.
* `iptables-restore` replaces the whole filter table, so an apply or a rollback
  drops the FORWARD rules of `cmd_forward` (installer.sh:1145), although the
  comment at 996-998 says the two do not collide.

*wg-family provider and clients*
* `wg set` can take effect while its answer is lost: the file is rolled back and
  the kernel keeps the peer until a reload (provider.go:150).
* The config is written in place (sshexec/client.go:301): a write that is cut off
  leaves a file without some of the peers, or without any. `NoLostPeer` says so;
  what it makes of the clients is not followed in `PeerLifecycle`.
* Under `SaveConfig = true`, which the panel never writes but a hand-made config may
  have, wg-quick replaces the file by the kernel's peers at every stop
  (provider.go:585-595); not modelled.
* A failed `test -e` counts as a missing config, and EnsureServer writes one
  without the peers (provider.go:636).
* `disablePeer` deletes the saved row when `RemovePeer` fails, although the config
  may already lack the peer; so two disables of one client at once lose its
  settings (handlers_peers.go:78).
* Rotation leaves `peer_expiry` with the old key: the client never expires
  (api_peers.go:491). If the new secret cannot be stored it removes the new peer;
  the old one is already gone (api_peers.go:485).
* When the sweep's RemovePeer fails after it has written the config
  (provider.go:350-355), `disablePeer` deletes the saved row and returns the error;
  every later sweep finds the peer in the kernel and gets `peer not found` from the
  config. The expired client stays connected until a reload, although expiry.go:39
  says `retry next sweep`.
* `apiEnablePeer` ignores a failing `DeleteDisabledPeer` (api_peers.go:428); the
  row can later bring back a deleted or rotated key.
* Creating a client on the key of a disabled one leaves the `disabled_peers` row,
  and deleting that client does not touch it either (api_peers.go:365): an enable
  later brings the deleted key back, with the settings of the former client.
* `apiUpdatePeer` keeps the extra AllowedIPs of a list that may be 5 s old
  (api_peers.go:301).

*Access requests*
* An approval that overlaps the revocation of the same account can add its peer
  after the owned keys were listed (api_access_requests.go:528).
* `apiAccessRequestDelete` checks and deletes in two statements (:124);
  concurrent provisionings can pick the same free address (:493), and the search
  ignores disabled peers.
* Approving and granting check neither the request's status nor whether the
  account is enabled; denying a granted request, or deleting its peer, leaves the
  other half. A failing `SetPeerOwner` leaves a peer that nobody owns.

*Certificates*
* `revoke` takes a failed read of the client for `nothing stored` and skips the
  revocation (openvpn/provider.go:420); `getCA` takes a failed read for `no CA`
  and replaces it (:113); `RebuildCRL` takes no mutex and can write an older
  list (:165).
* Adding a name again leaves its former certificate unrevoked; `ImportPeer`
  accepts a revoked certificate.
* Two openvpn instances of one server share `/etc/openvpn/server` and so `ca.crt`
  and `crl.pem` (manager.go:353-357); the model has one instance on the host.

*Servers and status*
* Deleting the last instance of the "default" server seeds all of them again,
  although manager.go:249-252 says seeding runs once; a partly failed seeding is
  never completed.
* Overlapping requests can bring a disabled server back until its next change.
* A read that began before `invalidate` is cached after it (statuscache.go:74).

*Xray*
* Removing the last client deletes its row, but every strategy refuses an empty
  list (strategies.go:102), so the service keeps the credential (provider.go:211).
* A failed read of the instance in Apply counts as `no instance`: secrets are
  made anew and the relay chain is dropped. Switching to a strategy of the other
  credential kind leaves clients with an empty one.
* Overlapping requests can leave an older config until the next change.

*Login and accounts*
* Two admins who delete or disable each other at the same time leave none.
* Nothing compares the ban or the cap on it with the counting window
  (api_login_security.go:44): where either is shorter the failures outlive the
  ban, and `GuessBound` promises nothing.
* After an unban or a success the next ban has level 1; rejected attempts count
  towards the next ban (bruteforce.go:131); an allow rule also skips the ban of
  the username.
* A password change ends neither sessions nor pending tokens, and enabling an
  account again revives its sessions. A deleted external account comes back
  as a new row at its next login.

*TLS*
* Two overlapping saves lose one's group of settings. After overlapping reissues
  the stored and the served leaf may differ until a restart.
* Choosing http-01 at run time needs a restart, though the message names only the
  proxy mode. An upload that has expired is accepted; the fallback is served.
  What autocert serves while its renewals fail is autocert's (manager.go:301-305):
  `ServedValid` is about the panel's own and uploaded certificates.

*Network*
* That an instance has one network node is only checked by the access switch;
  detection checks a subnet only for equality; two detections can add a node twice.
* Create, update and enable of a peer put it on any address, also one in use
  (api_peers.go:65-72); `AddressesDistinct` is about the addresses the panel picks.
* Rotation leaves `node_peer` with the old key (api_peers.go:496): deleting the node,
  or revoking its access, leaves the rotated peer on the host.
* The rules of a peer are found by `grep -F` of a tag with nothing after the address
  (installer.sh:782, 816): setting the destinations of 10.8.0.1 deletes the rules of
  10.8.0.12, whose rows stay.
* Deleting a peer deletes the rows of its destinations and not the host's rules
  (api_peers.go:374): the next peer at its address is restricted without a list, which
  the comment at 371-373 says cannot happen.
* The forwarding button rewrites the managed rules without egress
  (wgfamily/provider.go:508): the host does no NAT while the setting stays on.
* Deleting or disabling a peer leaves its `node_peer` row, and a node that is
  revoked meanwhile does not keep a disabled peer from coming back.
* An update that moves a peer, and a rotation, leave its restriction behind: the
  rules with the old address, the rows with the old key, so that a rotated peer
  keeps its rules only until the chain is next lost.
* A peer whose interface went up again is above its own rules
  (installer.sh:765-770), a firewall-apply empties the chain (1145); both last until
  the panel restarts, which skips what it cannot read or reach (mesh.go:160-192).
* A subnet is compared only with tunnels that are up and readable (mesh.go:26-48),
  and a new instance's network only with tunnels, not with subnets
  (api_server_instances.go:73). Changing an instance's network is not modelled.
* A failed list of a node's peers on delete leaves them on the host.
* A remote host that reboots without a restart of the panel runs without
  restrictions, NAT and mesh rules. A worker's stale list at startup can restrict
  a peer that was just freed. Saving the same mesh settings again applies nothing.

*Console*
* While the browser takes no data the limits are not enforced, as the frames of
  `sendErr` and `sendExit` have no deadline (bridge.go:222), until TCP fails. On
  a pooled connection the teardown waits for the host, which is not probed.
* A ticket outlives the disabling of its server, and a session the logout or the
  disabling of its account.

*Key rotation*
* A commit whose answer is lost is reported as "database unchanged" (main.go:459).
* Nothing compares SECRET_KEY with the database at startup, and nothing watches the
  connection that holds the lock (store.go:61): `exclusive` ends there.

*Notifications*
* An event queued while a report is being sent is cleared unreported
  (notify.go:274).

## 6. Proofs

TLAPS proves the theorems below for every value of the constants that the named
assumptions allow: any number of requests at once, keys, accounts, servers, and
any number of faults, where the runs have two and one. None of the properties is
inductive as it stands, for the same reason each time: it speaks of what is
stored, and a step depends on what a half-done request has read. The inductive
invariants therefore say what a request at each of its steps knows, and when
another may make that knowledge stale.

* **`FirewallProofs`**: `SerialTypeOK`, `SerialDeadMan`, `SerialBootTrusted`, from
  `FirewallAssumption` (the service is no session, the markers are no rules).
  `DeadMan` does not say that the snapshot a later apply takes is trusted, nor what
  a half-done verb knows. `IInv` adds `SvcTimer` (the service runs exactly while its
  timer has elapsed), `OneVerb`, `FilesTrusted` (snapshot and `current.rules` hold
  confirmed rules), `NetKept` (unconfirmed rules imply `fw_pending` and a
  snapshot) and `PcFacts` (what holds at each command). One lemma per verb.
* **`WgProviderProofs`**: `WgTypeOK`, `WgInStep` (`AgreeUnlessDoubt`) and the action
  properties `WgNoLostPeer` and `WgOkAgrees`, from `WgAssumption` and `MaxInst = 1`
  (with two Provider objects they fail, see `wg_rebuild`). `Holding` is mutual
  exclusion; `SeenIsConf` says that what the holder read is still what the file
  holds until it writes, and that the content to roll back to differs from it
  only in the peers of its own operation; the lemma `EditedLocal` says an edit
  changes no other peer. `WgInv` adds what the holder's edit is at each step
  (`EditAt`) and where the kernel stands to the file meanwhile (`InStep`): what a
  reload would give before the write, what the caller had read until its `wg set`.
  `AssignLoads`, `UnassignLoads` and `RotateLoads` say that a `wg set` leaves what
  a reload of the edited file could, unless a peer gives up an address that
  another one lists, which `doubt` records.
* **`PeerProofs`**: `SecretsKept`, `OffStays`, `SettingsStay`, from
  `PeersAssumption`. `PeerInv` has two halves. `PeerSafe` holds whatever fails or
  overlaps: the secret of an issued key is stored, and a key that is being
  generated is nobody else's. `Calm` holds until a call fails or operations on
  one key overlap: the requests that run have disjoint keys, each `Knows` what its
  keys hold at its step (a disable about to remove has its row saved; a create has
  an unused key), interface and file agree, and every client is at home in the
  config or in `disabled_peers`. Disjointness is what lets the step of one request
  leave the knowledge of every other alone.
* **`AccessProofs`**: `RevokedAccessEnds`, `GrantedAccessWorks`, from
  `AccessAssumption`. `AccInv`: a provisioning has a key no other one has
  (`Apart`); a revocation's list covers the account's peers on the host until the
  last is removed (`Knows`); `peer_owner` names nobody but the account the peer was
  given to (`KeyRows`); a grant and a revocation of one account that run together
  have put it into `disturbed`; and per account (`Account`) ownership, request and
  host agree unless it is there.
* **`HostsProofs`**:
  * `CacheShows`, `CacheRecent`, from `TTLAssumption` and `MaxReadAssumption`.
    `CacheInv` numbers the reads by the last invalidation: a read whose number is
    current shows the change (`ReadShows`), and its time bounds its age
    (`ReadTimed`).
  * `ServersTracked`, `ServersSettled`, from `SeedAssumption` and
    `MaxVerAssumption`. `SrvInv`: the registry is exactly what the manager's maps
    describe (`Exact`), and a request that nothing has overlapped is alone on its
    server, so what it read there and what it has still to do account for every
    difference between registry and rows (`AloneKnows`, `Programmed`).
  * `XrayInOrder`, from `XrayAssumption`. `XrayInv`: a request alone so far builds
    from what the rows still hold (`AloneBuilds`); whoever is not alone is on record
    (`OverlapNoted`).
* **`CertProofs`**: `RemovedClientsRefused`, `ConnectionsCurrent` and the action
  property `StoredCAKept`, from `NoProcAssumption`, `MaxCAAssumption`,
  `MaxCertAssumption` and `CertCallsAssumption`. A method is a program, so what is left of
  it tells what it has done: `CertInv` says which tails each kind of method may
  have, that a method past its lock holds the mutex (`CertMutex`), what a removal
  knows of its certificate at each step (`Removal`), that a certificate reported
  removed is revoked, on the host's list and on the daemon's, whichever CA signed
  that (`RemovedBarred`, `DaemonReads`; the exceptions of the property are in
  `missed` and `outrun`, and in a list of the wrong issuer), and
  that only the holder of the mutex has rows and connections apart (`ConnsInv`).
* **`NetworkProofs`**:
  * `NextFreeIsLeast` and `RoutesAreSplit`, from `AddrAssumption`: for addresses of
    every width. There is no induction to use; `LeastNat`, that a set of naturals has a
    least element, takes its place: the scan is characterised by the first
    address at which it stops. `PowerSum` and `PowerNat` come from the number of
    subsets of a set. From them a network is an interval; two networks overlap
    exactly when one holds the other's base (`OverlapExact`); an entry lies in the
    tunnel network exactly when its address does and its prefix is no shorter
    (`InsideExact`).
  * `NodePeersOwned`, `PeerAddressesDistinct`, `RestrictionsHold`, from
    `NodeAssumption`. `NodeInv`: unless requests ran into each other or one broke
    off (`blurred`), one request at most is under way and knows which key, owner
    row and address are half done.
  * `HostMasquerades`, `HostMeshes`, `CatalogueDisjoint`, from `SubnetAssumption`.
    `SubInv`: what is not in doubt (`unsure`) is the business of one request at
    most, which says how far its rule, its settings and its row have come.
* **`PanelProofs`**:
  * `AdminsRemain`, `SessionsOwned`, from `AccountAssumption`.
    `AcctInv` adds to the properties what a request carries (`ReqOk`): whoever is
    about to take an admin away is an enabled admin and not that one, as long as
    nothing has excused a lockout.
  * `TlsAgrees` and `NeverExpired`, from `TlsAssumption`; the second also from
    `MaxTlsFault <= RenewBefore`, in units of the renew loop: with more failing
    renewals than the margin has loops the leaf does run out, so the bound is part
    of the promise and not of the model. `TlsInv` says what a save and a reissue
    that were alone have made of settings and leaf; `LeafFresh` that the leaf
    outlives the margin, less one loop for each fault, and one loop more once the
    loop has run.
  * `GuessesBounded`, from `GuardAssumption`; that the powers of the escalation factor
    are positive is part of it, as exponentiation is opaque to the provers. The
    bound compares a sliding window with attempts in flight, and the failures on
    record with the guesses made. `GuardInv` has three parts for each key: in every
    window the guesses are on record, but for those whose `RecordResult` broke off
    (`Recorded`); since the last ban began there were fewer than the threshold,
    apart from attempts that are being recorded (`SinceBan`); and the window's
    guesses and the attempts that may still guess keep to the bound (`InAll`).
    Attempts and rows are counted as cardinalities, so that a step moves one
    element from one set to another.
  * `RotationImplementsVault`, the refinement `RotSpec => V!VaultSpec`, from
    `KeyRotateAssumption`. The abstract step needs more than the abstract state:
    `RotInv` says that while the lock and the keys are what they should be, a
    running rotation excludes the panel and a running panel's key opens the
    database (`OneHolder`); what the rotation has written is what the database
    says, and it has written every secret of the columns behind it (`Faithful`); a
    cell has a key exactly when it has a plaintext (`SealedTogether`).
    `CommitChangesKey` shows that a commit leaves one key, `SealKeepsKey` that a
    saved secret does, `RotStepSimulates` maps every step to a step of `Vault` or
    a stutter.
  * `ConsoleSlots`, from `HubAssumption` (finitely many upgrades: the counters are
    cardinalities). `SlotsCounted` is inductive with the types of the hub's state;
    the work is in what adding or removing one upgrade does to the two sets of
    slots.

**What the attempts showed.** Three proofs failed for a reason in the model. A `CASE`
of `Servers` had overlapping arms, of which TLC takes the first and the logic any;
the arms are now disjoint. `OffStaysOff` held in the run only because the run had
one client: with two, a client created under a disabled client's key and deleted
leaves a row that an enable brings back. That is what the code does (section 5); the
history `off` now tells the case apart and `peers_two` has two clients. `GuessBound`
was stated for a base ban that outlasts the window; the cap on a ban can be
shorter than the window as well, and the bound then fails, so its condition now names both.

**Only model-checked.** Liveness (`UnconfirmedReverts`, `CallsReturn`, `DueGoesOff`,
`SessionEnds`): it needs fairness, which is out of the prover's reach. Every
invariant and every safety action property of the passing runs has a theorem.

## 7. What could follow

* An atomic peer store as the abstract specification of `WgProvider`, with the
  clients of `PeerLifecycle` on top of it.
* The firewall policy's order of rules (section 8) as operators over a small policy.

## 8. Not modelled

* Firewall rendering and baseline: a pure translation of policy rows to text; the
  text is a model value of `Firewall`.
* Notifications, traffic, metrics, history, retention, audit: periodic inserts and
  deletes by age; channels are I/O.
* Startup reconciliation: reads and logs.
* Installation, updates, provisioning of hosts: sequences of commands without
  shared state.
* Formats: X.509, OpenVPN, swanctl and Xray texts, share links, QR codes, the
  relay chain's JSON.
* Database access and migrations, configuration, routing, pages, frontend.
