# dcgm-exporter-supervisor: specification and proofs

`dcgm-exporter-supervisor` runs on a GPU host. It discovers the VMs that use a
GPU, runs one child `dcgm-exporter` per VM (inside the network namespace that
reaches the VM), supervises the children, and serves their metrics, relabelled,
on one HTTP port. The children are reached through UNIX sockets in one
directory.

The modules here model *which children exist, for which targets, what happens to
them, and what a client of the supervisor sees of them*: the supervision loop of a
child, the manager that reconciles children with an inventory, the manager that
merges the inventories of the discovery providers, the providers, the application
that wires them together and handles signals, the HTTP handlers, and the packages
underneath (namespace resolver, endpoint normalization, relabelling, port
allocator). TLC checks them on small instances, and TLAPS proves their safety
properties for all values of their constants. Paths below are relative to `src/`.

## 1. Inventory

| Component | State | Operations | Module |
|---|---|---|---|
| supervisor instance, `internal/pkg/supervisor/instance.go` | `state`, `pid`, `cancelFunc`, `stoppedCh`, the socket file, the child | `Start`, `Stop`, `runLoop`/`execProcess`, `CheckHealth`, `Scrape`, `State` | `Instance`, `Supervision` |
| supervisor manager, `internal/pkg/supervisor/manager.go` | the map `instances` under `mu`, its context | `Reconcile`, `Shutdown`, `StartHealthLoop`, `ScrapeAll`, `GetInstance`, `ListInstances` | `Manager`, `Fleet`, `Server` |
| discovery manager, `internal/pkg/discovery/discovery.go` | `targets` per provider under `mu`, `notifyCh` (10 places), a channel of 5 per provider | `RegisterProvider`, `Start`, `updateTargets`, `CurrentTargets` | `Discovery`, `Inventory`, `Snapshots` |
| application, `pkg/cmd/app.go` | the configuration, `netnsResolver`, `sigCh` (1 place), contexts | snapshot consumer, SIGHUP, SIGINT/SIGTERM, server failure, shutdown | `App` |
| libvirt provider, `internal/pkg/discovery/libvirt` | none between scans | `Run`, `scanDomains`, `scanFromQEMURuntime` | `Libvirt`, `Providers` |
| file provider, `internal/pkg/discovery/file` | none between scans | `Run`, `scanDirectory` | `TargetFiles`, `Providers` |
| Nova provider, `internal/pkg/discovery/nova` | the Keystone token and its expiry | `Run`, `scanServers`, `getToken` | `Nova`, `Providers` |
| static provider, `internal/pkg/discovery/static` | none | `Run`: one report | `StaticReport` in `App` |
| HTTP server, `internal/pkg/server` | counters of one request | `/metrics`, `/probe`, `/targets`, `/health` | `Server`; failure and shutdown in `App` |
| netns resolver, `internal/pkg/netns` | rules, `routeCache` | `NewResolver`, `Resolve` | `Resolver` |
| relabelling, `internal/pkg/proxy` | none | `InjectLabels` | `Relabel` |
| endpoint utilities, `internal/pkg/netutil` | none | `NormalizeEndpoint`; three that format | `Endpoint` |
| port allocator, `internal/pkg/allocator` | two port maps | `Allocate`, `Release` | `Ports` (the program does not call it) |
| configuration, `internal/pkg/appconfig` | none at run time | decoding, defaults | `LoadConfigFile`, `Override` in `App` |
| entry point, `cmd/.../main.go` | none | `main` | not modelled: it calls the application and exits |

### How the components interact

```
 libvirt --\                                         SIGHUP, SIGTERM
 nova    ---+--> chan(5) --> updateTargets            |
 file    --/     per         (mu) merge               v
 static -/       provider      |                    main goroutine
                               v                      |  Reconcile(static only)
                        notifyCh(10), drop oldest     |  Shutdown
                               |                      v
                               +--> consumer --> Reconcile (mu) --> Start / Stop
                                    resolve netns                     |
                                                                      v
                     health loop --> CheckHealth --> state     one loop per Start
                                                                      |
                               HTTP handlers --> Scrape ---> socket <- child
```

* A provider sends its whole list; a list replaces the provider's last one.
* Discovery's goroutines (one per provider) merge under a lock and send a merged
  list. The channel is bounded; the oldest list is dropped.
* Two goroutines call `Reconcile`, each with a list of its own: the consumer, and
  the main goroutine on SIGHUP. They share `netnsResolver` without a lock.
* `Reconcile` holds the manager's lock while it waits for the loops it stops.
* A loop, the caller of `Stop`, the health loop, the watcher that
  `exec.CommandContext` starts, and the child itself act on one instance.

### What is hard, and what makes each component correct

* **Instance.** `Stop` may give up (`shutdown_timeout`) while the loop is still
  there, and the next `Start` then runs beside the old loop, on the same socket
  path and the same `pid` field. `Stop` signals a pid it copied earlier, which may be
  somebody else's by then. Correct: never two loops that both keep a child
  going, a `Stop` that did not time out leaves nothing behind, until one does the
  socket file is the live child's, a cancelled loop ends whomever the signals reach,
  a crashed child comes back, and the state shown is not wrong for ever.
* **Manager.** `Shutdown` cancels the context before it takes the lock, so that a
  `Reconcile` runs before, during or after it; a restart passes through a moment
  without a child; a `Stop` inside any of this may return before its loop has ended.
  Correct: between two calls the children are those of the last list, labelled as it
  says, no loop is lost, nothing runs after `Shutdown`, an unchanged target is not
  restarted, both calls return; and a loop that was given up is cancelled and touches
  none of it.
* **Discovery.** The send into a full channel happens under the lock, in two
  steps. Correct: it never blocks, the newest list is never dropped, the reader
  never goes back in time, every report arrives.
* **Application.** Reloads, snapshots and signals in any order. Correct: an idle
  application serves the last inventory, a listed VM is monitored, one that is not
  listed is not, namespaces converge after a reload, a termination signal ends the
  process with no child left.
* **HTTP server.** A handler holds the lock while it copies pointers, and uses them
  without it: instances are stopped, restarted and replaced on the same socket path
  between the scrape and the reading of the labels, and a handler may outlive the
  shutdown. Correct: a sample is labelled as the target its child serves or as a later
  one, never as one that was replaced before the child was started; there is no sample
  once the manager is shut down; every request is answered although `Reconcile` keeps
  the lock while it waits for children.
* **Resolver.** Two goroutines, a cache read and written under two locks with
  commands in between, one deadline for all candidates. Correct: while nothing moves
  the cache changes no answer; a lasting route is found unless a command failed.
* **Normalization, relabelling, allocator.** Inputs that can be read in two ways,
  answers that break off, two maps that must stay each other's inverse.
* **Providers.** A scan is many commands or reads, not one. Correct: what is there
  throughout a scan is reported, what was never there is not, a failing service
  does not take exporters away, and reports resume after an outage.

`PROJECT.json` lists each such hazard at its line, with the properties about it.

## 2. The modules

Four modules are abstract, the others detailed. Each definition names the code it
stands for in `PROJECT.json`, `map`.

| Module | Role |
|---|---|
| `Supervision` | abstract: generations of a child that open, drain and close; a closed one owns no process |
| `Instance` | `instance.go` step by step; implements `Supervision` |
| `Fleet` | abstract: lists applied one entry at a time, children that come and go, each for what its id means |
| `Manager` | `Reconcile` and `Shutdown` beside the loops; implements `Fleet` |
| `Server` | extends `Manager` by the handlers, `ScrapeAll`, `ListInstances`, `GetInstance` |
| `Inventory` | abstract: a listener that may miss snapshots and never goes back |
| `Snapshots` | abstract: a channel that never makes its writer wait and loses only its oldest lists |
| `Discovery` | channels, lock, drain and resend; implements `Inventory` and `Snapshots` |
| `App` | both goroutines of `runSupervisor`, on the promises of the two managers; its channel implements `Snapshots` |
| `Libvirt`, `TargetFiles`, `Nova` | one scan each, beside the world it looks at |
| `Providers` | the three of them as one specification |
| `Resolver`, `Endpoint`, `Relabel`, `Ports` | one package each |
| `Utilities` | the four of them as one specification |
| `MC*` | values of constants for TLC |
| `*_proofs` | the theorems: `Instance`, `Manager`, `Server`, `Discovery`, `App`, `Providers`, `Utilities` |

### How the levels compose

`App` does not contain the state of `Manager` and `Discovery`: it uses what they
show. Each simplification it makes is a property of the module below it:

* a `Reconcile` is atomic and ends with exactly the instances it was given:
  `Manager`'s `MatchesGoal` (and `CallsReturn`). `Fleet` says the same of every moment
  in between: a list is applied entry by entry, no other is begun meanwhile, and no
  entry changes under a child that serves it;
* a manager that is shut down starts no child: `QuietAfterShutdown`;
* discovery delivers the newest merged list and drops only older ones:
  `Discovery`'s `NewestIsCurrent`, `SendNeverBlocks`, and `Snapshots`, which both
  modules implement: `Discovery` with a lock and two selects between which the reader
  may take a list, `App` with one step, `Send`. The refinement is what shows that one
  step is enough, and that it must be allowed to drop a list although there is room:
  the second select drains one also when the reader has just made room.

In the same way `Manager` has a loop of four steps instead of `Instance`'s
seventeen: that a cancelled loop ends and leaves nothing is `Instance`'s
`CancellationEnds` and `StopLeavesNothing`. A `Stop` returns in both modules when the
loop has ended or when its timer strikes; what the old loop then does to the fields and
the socket file it shares with the next one is `Instance`'s subject, and which children
there are beside the map is `Manager`'s.

`Server` is a true composition: the whole of `Manager` runs beside the handlers.
That handlers disturb nothing is a theorem, `ManagerUnaffected`: every behaviour of
`Server` is one of `Manager`, so that all theorems of the manager hold in it, and
`ServedFleet` among them.

`Providers` and `Utilities` are sums, not products: `kind` says which provider or
package a behaviour is about. Providers share nothing but discovery, which
`Discovery` models for any number of them, and the packages nothing at all, so that
interleaving their states would add states and no behaviour. What `Manager` assumes
of normalization and `App` of resolution is stated of `Endpoint` and `Resolver`:

* `Manager`'s `NormalizeIsIdempotent` is the part of `NormalizationIsSound` that says
  that what was normalized is normal, for endpoints that are well formed;
* `App` takes the answer of a resolver as a function of its configuration, which
  `CacheIsTransparent` shows while no route moves and no command fails.

### Instance

`state`, `pid` and the pair `cancelFunc`/`stoppedCh` (`cur`) are the fields. A loop
is named by the number of the `Start` that made it; its context, its listener and
the pid of its child have the same name. `pc[g]` walks through `runLoop` and
`execProcess` with one step per statement another actor can see: the check of the
context, removal of the old socket, `net.Listen`, `cmd.Start` (its check of the
context, then the fork), recording the pid, `Wait`, clearing the pid, the deferred
removal of the socket, the second check, the backoff, the last write of `state`,
the closing of `stoppedCh`. `Stop` has its own steps, including the SIGKILL of the
timeout. The pid it copies (`stopPid`) becomes `Gone` when the child it names is reaped:
from then on the number is nobody's or anybody's, and a signal to it reaches nothing
of this instance or any child forked since (`Receivers`). `CheckHealth` is two steps: the answer, and the write of `state`.
`restartCount`, `lastError` and `startTime` decide nothing and are left out; the
duration of the backoff is not measured.

### Manager

The map is `loopOf` (with `target`), the lock is `mu`, a caller's position is
`step`. `Reconcile` is its two loops in the source's order, one instance at a time,
with the wait inside a `Stop` as a step of its own during which loops run. `goal` is
the list of the `Reconcile` that last took the lock, `former` the one before it, for as
long as that `Reconcile` is under way. A target is its endpoint and its namespace, which
are what `Reconcile` compares and what the child is told (`Served`, kept in `conf`); its
labels, which stand for `Labels` and `Tenant` and are assigned in place
(`manager.go:109-110`); and its name, which is not, and stays that of the start
(`Keep`). `NormalizeEndpoint` is an idempotent function on a small set.

A `Stop` returns when its loop has ended, or before (`StopReturns`; the constant
`TimersStrike` turns that off where a run is not about it). Then the loop is given up:
cancelled, in no map, beside the one that replaces it, until it ends by itself. In the
code it reads the fields of an instance it does not own any more when it builds one last
command; what it reads there is not followed, and its child is not
one of the fleet's. `Fleet` says the same with `given`, the places that are not
waited for: whoever starts next does so elsewhere. That a restart stores
the raw endpoint (`manager.go:105`) while a new instance stores the normalized one
is kept, and is what `Manager_restart` is about.

### Discovery

The v-th report of a provider is the number v, and `Report[p][v]` its ids. A merged
list says which report it holds of each provider and which provider each id was
taken from; the order of Go's map iteration is a choice (`Orders`). `updateTargets`
is four steps under the lock: merge, first select, drain, plain send.

### App

`targetCh` holds lists of ids, `snap` and `plan` are the consumer's list before and
after resolution (one target per step, because `netnsResolver` is read for each of
them), `main` is where the main goroutine is. `running` is the namespace each child
runs in. SIGHUP reads the configuration file as it is by then, or fails to; the
reload reconciles the static targets alone, as the code does. A configuration is a
file and whether the flags of the command line have been applied to it: they are at
start (`Override`) and not after a reload. A signal that finds `sigCh` full is lost, as
with `signal.Notify`, and leaves the state unchanged.

### Libvirt, TargetFiles, Nova

A scan is modelled command by command and read by read, with the host, the editor
or the cloud changing in between. `steady` collects what has been true ever since
the scan began, `ran` what has been true at some moment of it; the properties say
what a scan that is not atomic may be relied on to find. `virsh`'s output is
abstracted to what the command finds; where libvirt keeps its XML files is taken
from the comment at `libvirt.go:99`. A file of a domain that cannot be read or does not
parse is skipped (`libvirt.go:326-334`): `broken` are the running domains this would
happen to, which the world may change at any moment, and in `/etc/libvirt/qemu` it may
happen to any file. In the file provider a file is the set of ids it parses to. Nova's
JSON is a set of (server, address) pairs.

### Server

`held` are the pointers a handler has copied, `frozen` the `Target` of an instance
that has left the map since, whose pointer the handler still has; its socket path,
though, is that of whatever instance has the id now, and `Scrape` asks that one.
`data` is what the answering child serves (`conf` of `Manager`), `read` the two fields
a sample is labelled with, name and labels, read one by one, because `Reconcile` assigns
the whole `Target` when it restarts (`manager.go:105`) and labels and tenant in place
when it does not (`109-110`), while the reader holds no lock. `since` collects the
targets the instance has had since its child answered: these are what the labels may
come from, all of them the one the child serves or later ones. An instance that is gone
when it is scraped is excepted, because another one may listen on its socket path, and
so is a manager in which a `Stop` has timed out, because an old child may listen there. One request is served at a time: requests share nothing but the reading
side of the lock.

### Resolver, Endpoint, Relabel, Ports

`Resolve` decides by explicit namespace, tenant, template and subnet in one step,
then asks the candidates one command at a time (`Found`, `NotRouted`,
`CommandFails`, which may also use up the deadline of the rest) while `RoutesChange`
moves routes, and stores what it found in a step of its own.

An endpoint is a scheme, a form (plain, bracketed, ...) and the pieces between its
colons, of which only the kind matters: a name, a hexadecimal or decimal group, one
with a zone, a number too long for a group.
`Readings` is the reference definition: the hosts and ports a reader may take it
for; `Normalize` is the code.

A body is a sequence of samples, lines that are passed on, and lines too long for
the scanner; `Merge` and `Skip` are the loop of `handleMetrics`. `Ports` is the
allocator's two maps.

## 3. What the runs check

States are distinct states found by TLC.

| Run | States | Shows |
|---|---|---|
| `Instance_behaviour` | 175,529 | three invariants, the refinement of `Supervision`, four liveness properties, with two `Start`s |
| `Manager_safety` | 338,670 | three invariants, `SteadyTargetIsKept` and the refinement of `Fleet`, with timers that strike; two ids, three targets, two callers |
| `Server_behaviour` | 175,408 | requests beside `Reconcile` and `Shutdown`: labels, no samples afterwards, and that all three return |
| `Discovery_behaviour` | 15,997 | two invariants, the refinements of `Inventory` and of `Snapshots`, `ReportsArrive`; two providers |
| `App_behaviour` | 50,697 | two invariants, three liveness properties; one polled VM, three files, with and without flags |
| `Providers_behaviour` | 514,532 | per provider, what a scan finds and that reports resume |
| `Utilities_behaviour` | 682,550 | per package: the resolver's answers, the meaning of endpoints, the merged body, the port maps |
| `Instance_graceful`, `Instance_socket`, `Manager_restart`, `App_reload`, `Providers_running` | | one counterexample each: section 6 |

What follows from a checked property is proved and not run by itself: `OneActiveLoop`
and `OneProcess` (one loop, one child), `PidNamesChild` (the recorded pid is that of a
child its loop waits for or has just reaped), `ListsInOrder` (the reader never goes
back), what `Supervision`, `Inventory`, `Snapshots` and `Fleet`
promise of themselves (`AbsSafe`, `InvSafe`, `SnapSafe`, `FleetSafe`), `App`'s
refinement of `Snapshots`, and every type invariant but `Instance`'s.

### Bounds, and why they are enough

* `MaxStarts = 2`. The hazards of `Instance` are between a loop and the one that
  replaces it. A third loop would meet the second as the second meets the first,
  and the safety properties are proved for every number.
* Two ids and three targets (`raw`, `full` with other labels, `full` in a namespace):
  one instance can be removed, added, restarted and kept while another is in any other
  of these situations; `raw` and `full` are equal after normalization, so that a list
  may keep an instance and change its labels. Two loops are enough for two
  instances, since a loop that has ended is used again, and for one loop that was given
  up beside the next of the same instance; a `Start` for which no loop is free waits.
  With three loops TLC finds no violation in 2,941,014 states. Ids and loops are
  symmetric: no definition tells one from another. The safety properties are proved
  for all sets.
* Channels of one and two places, three reports per provider: `notifyCh` is full,
  drained, emptied by the reader between the select and the drain, and filled
  again. The reports let a target appear, move to the other provider, be listed
  by both, and vanish.
* `QueueCap = 2`: the channel overflows while the consumer resolves.
* Three files: two with different static targets and one without static discovery;
  with and without the flags, and two namespaces, so that a reload may change the
  namespace of a target by the file or by the loss of a flag.
* `Server`: one id, one loop, two targets that differ in endpoint and labels. A handler
  treats each pointer by itself, and what two instances do to one another is the subject
  of `Manager_safety`; one id can leave the map and come back as another target while a
  handler holds the old instance, which is the case that matters. Timers of `Stop` do
  not strike here: liveness does not count on them, and both safety properties except
  what happens after one has; for all targets, loops and timers they are proved.
* The resolver: two configurations of three items (a name given twice, an item
  without a name, a subnet, a tenant, a template), two addresses, five targets that
  meet every rule, two goroutines. Endpoints of at most five pieces, addresses of
  at most three groups: an address may be a whole one, one too long, or one followed
  by a port; the proof is for any number. Two exporters with two lines each, names and
  ids that coincide or are missing. Three targets for two ports.
* Two domains, with and without a CID, one of them persistent, and a file that becomes
  unreadable and readable again; two files and two
  ids, so that a target can move either way; one server with two addresses; a
  token kept for two ticks. `connection_mode` is `auto`, which has the steps of
  both other modes, and `filter_gpu_only` is on with every domain having a GPU.

`CHECK_DEADLOCK FALSE` is set where the program is meant to stop: after the
cancellation in `Discovery` and `Providers`, at the end of the process in `App`, when an
endpoint is normalized or a body merged in `Utilities`. `Instance`, `Manager` and
`Server` are checked for deadlock.

## 4. Fairness

* Goroutines that can run do run (weak fairness of each loop, caller, consumer and
  provider). The Go scheduler is preemptive and fair in this sense.
* A goroutine that waits for a `sync.Mutex` gets it (strong fairness of the lock
  steps): Go's mutexes hand over to a waiter after a millisecond.
* A child that has been sent SIGKILL dies, and the watcher of a cancelled
  `CommandContext` wakes up. A child that was not killed need never exit.
* `Stop`'s timer need not strike: `CancellationEnds` and `CallsReturn` hold without it,
  and fairness of the manager's steps is asked only for those that need no timer.
* `FalseStoppedEnds` supposes that the health loop comes round, since it is what
  corrects the state; nothing else does.
* Tickers fire and commands and requests return (the HTTP client has a timeout of
  15 s). In `App` fairness asks for the polls that find room in the channel.
* A scrape ends, by its answer or by the deadline of its request (weak fairness of
  the handlers), and a handler that waits for the read lock gets it (strong fairness:
  `sync.RWMutex` lets waiting readers in before the next writer).
* Nothing is assumed of signals, operators, hosts, clouds, of `Start`, `Stop` or of
  the failure of anything.

One assumption is about the environment rather than the code: `virsh` is started by
`exec.Command` without a context (`libvirt.go:104`, `119`, `181`, `191`), so nothing
ends a `virsh` that hangs on libvirtd, and with it the provider's goroutine. The
liveness properties of `Libvirt` hold when every `virsh` returns.

## 5. What is proved

TLAPS checks the proofs in the seven `*_proofs` modules. Each follows one pattern: a
lemma that the initial states satisfy the inductive invariant, one or more that the
steps keep it (a step per action), `Invariance`, then the properties. The
assumptions are those the modules name: `MaxStartsAssumption`;
`NormalizeIsIdempotent`, `NoLoopAssumption`, `TargetsAssumption`; `ServerAssumption`;
`MaxReportsAssumption`, `CapsAssumption`, `ReportAssumption`; `ConfigsAssumption`,
`PolledAssumption`, `AbsentAssumption`, `QueueCapAssumption`; `LibvirtAssumption`,
`FileAssumption`, `NovaAssumption`; `UtilitiesAssumption`.

**Instance**: `TypeOK`, `OneActiveLoop`, `StopLeavesNothing`, `OneProcess`,
`PidNamesChild`, `SocketServed`, and `ImplementsSupervision`, for any number of
Starts. The properties speak of a few moments (a `Stop` that returned, a child that
runs) and are not inductive. `IInv` adds: types together with "no Start, no
current loop" (`Typed`); loops are started in order and every one but the last is
cancelled, the last one too once `Stop` is past its `cancel()` (`Order`); a loop
leaves only if cancelled (`Ends`); a loop has a child exactly from the fork to the
reaping (`Kids`); the pid names a loop that waits or has just reaped (`PidNamesChild`,
which is inductive as it stands, and all that can be said of the pid: not that `Stop`
signals a child of its own with it); and,
until a `Stop` times out, the last loop has the fields and the socket for itself
(`Sole`). `Sole` is where the timeout matters: every property that does not
mention `late` holds with it, and the others do not, as `Instance_socket` shows.
For the refinement, `phase` is a function of `pc` and the contexts: a step inside a
loop is a stutter, a fork is `Spawn`, a reap is `Die`, the closing of `stoppedCh` is
`Close` (by `Ends` and `Kids`), and `Start` is `Open` (by `Order`). `SupervisionIsSafe`
is a theorem about the abstract specification alone, and `LoopsAreSafe` its consequence.

`CancelledLoopGetsOn` is the part of the termination argument that needs no fairness.
`Left` counts the steps a cancelled loop and its child have before them, at most 55;
each step of the loop, of the child and of the watcher makes it smaller, and no step of
anybody makes it greater, `Start` and the timer of `Stop` included. That the next step
is possible is seen from the guards: a loop waits for nothing but its child, which it
has whenever it waits (`Kids`). What is left to TLC is that fair steps are taken.

**Manager**: `TypeOK`, `MatchesGoal`, `QuietAfterShutdown`, `NoLostLoop`,
`SteadyTargetIsKept`, `ImplementsFleet`, for any ids, targets and loops, and whether
timers strike or not. `IInv` says who holds the lock
and that the context is cancelled exactly from the call of `Shutdown` on (`Locked`),
that an instance owns its loop (`Mapped`), that the child of the current loop serves
what its instance's target says (`Fresh`: endpoint and namespace are only assigned when
the loop has ended or is given up, labels at any time), how far a
`Reconcile` has come (`Progress`), that those a `Shutdown` waits for are cancelled
(`Stopping`), that any other cancelled loop of the map is the one that is being waited
for (`Kept`), and what holds between two calls (`Settled`, `Steady`). `NoLostLoop` is the
conjunct that carries the timeouts: whatever runs outside the map is cancelled, which is
why it cannot fork for ever and why nothing but its end is promised of it.

`FleetRefinement` maps taking the lock to `Begin`, the deletion, addition or
replacement of an instance to `Assign`, which gives up the place of a loop that has not
ended (otherwise no child is left, by `NoLostLoop`), the return to `End` (what was
applied is the list, by `Progress`), the end of `Shutdown`
to `Close`, a fork and its exit to `Start` and `Stop`, and the end of a loop that was
given up to `Release`; the rest stutters.
A target means its normalized form, so that a restart with the raw form of the same
endpoint, which `Manager_restart` shows, means nothing new. `FleetIsSafe` is the
invariant of the abstract specification; `ChildrenServeTheList` states it of the
manager, during and after a `Shutdown` too, where `MatchesGoal` says nothing.

`AwaitedLoopGetsOn` and `ReconcileGetsOn` are the fairness-free part of
`CallsReturn`: a loop that is waited for comes nearer to its end with each step
(`ToEnd`) and is not exchanged before it is given up; `Reconcile` goes through its removals and then
through its targets, `Present` and then `todo` only lose members, and no other
goroutine adds to them.

**Server**: `ManagerUnaffected`, `ServedFleet`, `ServerTypeOK`, `LabelsFollowTheChild`,
`NoSampleAfterShutdown`, for any ids, targets and loops. `SInv`
says what a handler has between two requests (`Clean`), that a pointer leads to an
instance in the map or to its frozen target (`Pointers`), that nothing is read of an
instance whose child has not been asked (`Ordered`, the order in which `ScrapeAll`
builds a result), and that the targets collected since the answer include the one the
child serves, the one the instance has now and whatever was read (`Followed`), which
needs `Fresh` of `Manager`.

**Discovery**: `TypeOK`, `SendNeverBlocks`, `NewestIsCurrent`, `ListsInOrder`,
`ImplementsInventory` and `ImplementsSnapshots`, for any providers, reports and
capacities. `IInv` says that a goroutine between merge and send is alone and its list
is the map of targets (`Holder`), that reports are numbered without gaps from the provider to the map
(`Counts`), that lists are sorted from the reader to the map (`Sorted`), and that
the newest list is the map (`Newest`). The refinement of `Inventory` maps a merge to `Publish`
(by `Counts`) and the reader's step to `Hand` (by `Sorted`); `InventoryIsSafe` is the
invariant of `Inventory` itself, and `ReaderNeverGoesBack` states the order of the lists
as a property of steps. The refinement of `Snapshots` counts a list as sent from the
moment its goroutine has nothing but the plain send before it: the first select, if it
sends, and otherwise the drain, is the `Put`, and the send after the drain is a stutter.
A `Get` of the reader between the two takes the same list in both specifications, by a
lemma about sequences; that there is always room for the list that counts is
`SendNeverBlocks`. `SnapshotsAreSafe` is the invariant of `Snapshots`.

**App**: `TypeOK`, `NothingRunsAtExit`, `InventoryIsServed`, and the refinement of
`Snapshots` (`ChannelRefinement`), for any targets,
configurations and capacity. `IInv` follows the newest list: it is the last one in
the channel (`NewestQueued`), or in the hands of the consumer (`NewestInHand`), or
served (`InventoryIsServed`); and the manager is shut down before the context is
cancelled (`ShutMeansNothing`).

**Providers**: `TypeOK`, `LibvirtScanIsExact`, `FileScanIsExact`, `NovaKeepsActive`, for
any domains, files, targets, servers and token life. `IInv` is one invariant per
`kind`. `LInv` says of a scan in flight which domains are still to be asked, and that
one that was there since the scan began and is not pending is found, by `virsh`
(`ByVirsh`) or, if its file was readable all the time, in the XML files (`ByFiles`); `FInv` the same of the files not read yet
(`FilesCover`), which is where a target that moves between files would be lost;
`NInv` that the list to be sent has every server that Nova has known of all along.

**Utilities**: `TypeOK`, `CacheIsTransparent`, `DefaultMissesNothing`,
`NormalizationIsSound`, `SeriesApart`, `AllOrNothing`, `PortsAreExact`, for any configurations, routes
and requests, endpoints with any number of pieces, answers of any length from any
number of exporters, and any range of ports. `RInv` says that every entry of the
cache and every candidate on its way there is, as long as no route has moved and no
command has failed, the first candidate with a route; and that a candidate with a
route since the call began is still to be asked. `EInv` says that the endpoint is the
input or what was made of it, and the lemmas about `Normalize` go through the forms an
input may have. `MInv` says whose each line of the merged body is (`Owned`), which two
different keys keep apart, and that `AllOrNothing` has held so far: the samples an answer
adds are as many as its own, since the merged body grows at its end and a shift of
positions is a bijection (`ShiftCount`), which needs no induction. `PInv` is the agreement of the maps, with types.

Only model-checked: every liveness property (fairness and `ENABLED` are beyond the
prover; `CancelledLoopGetsOn`, `AwaitedLoopGetsOn` and `ReconcileGetsOn` prove the part of
`CancellationEnds` and `CallsReturn` that is a property of steps), and the
counterexamples, which are facts about instances. Every invariant and every action
property that a run checks is also a theorem.

## 6. Where the code and what is said of it differ

Each is a run that TLC must find violated.

* `Instance_graceful`: the context of `exec.CommandContext` is cancelled before
  SIGTERM is sent (`instance.go:332-341`), so SIGKILL follows at once and
  `shutdown_timeout` is never granted, against `config.example.yaml:40`.
* `Instance_socket`: after a `Stop` that timed out, the old loop's deferred
  `os.Remove` (`instance.go:213`) deletes the new loop's socket. In the trace `Stop` copies
  no pid, because the loop has not recorded one, and its timer strikes while the loop is
  inside `cmd.Start`, past its check of the context; the next loop is started and binds
  the path; the old loop's child comes up, exits, is
  reaped, and the deferred removal takes the new file. (A fork that fails ends in the
  same removal; the property leaves that way out.)
* `Manager_restart`: `Reconcile` compares a normalized endpoint with a raw one
  (`manager.go:97`); a target reported twice in its raw form is restarted once more
  than needed.
* `App_reload`: SIGHUP reconciles with the static targets alone (`app.go:385`) and
  stops the exporters of all discovered VMs until their providers report again.
* `Providers_running`: when `virsh` fails, the definitions in `/etc/libvirt/qemu` are
  reported whether the domains run or not (`libvirt.go:312`).

Read in the source and not the subject of a run:

* a restart gives the child the raw endpoint (`manager.go:105`), which skips the
  normalization of `NewInstance`, although `README.md:91` says that the supervisor
  normalizes and validates endpoints;
* a health answer obtained before the child died overwrites `restarting` with
  `running` (`instance.go:403`), until the next start (`FalseRunningEnds`);
* `Stop` signals a pid it copied earlier, at once (`instance.go:336-341`) and again when
  its timer strikes (`348-354`), up to `shutdown_timeout` after the child may have been
  reaped: the number may be another process's by then, of this program or not. And a
  loop that was given up clears the pid whoever has recorded it
  (`307`): the `Stop` of the next child then signals nobody. What remains true is that
  loops end without these signals (`CancellationEnds`);
* a loop that was given up writes `stopped` when it ends (`instance.go:161`, `170`), over
  the state of the next one, until the health loop comes round (`FalseStoppedEnds`);
* a SIGHUP forgets the overrides of the command line (`app.go:366` against `209-262`);
* the labels of a sample are those of the target at the time they are read
  (`manager.go:190`): the sample of a target that changes during the request may be
  labelled as a later one, and its labels may come from several
  (`LabelsFollowTheChild` says which); that of an instance that was removed may be
  another instance's, whose socket has the same path;
* a target that keeps its endpoint and namespace keeps its name in the supervisor, and
  `vm_name` and `/probe` use the old one, although labels and tenant follow the list
  (`manager.go:109-110`);
* `ListInstances` is said to return a copy (`manager.go:147`) and returns the pointers;
* a `web_write_timeout` of a second or less makes the deadline of every scrape one that
  is over (`server.go:121`, `232`);
* the keys of `/health` are names, so that two VMs with one name are one entry; two
  targets without an id and with one `vm_name` collide in `/metrics`, where HELP and
  TYPE lines are also repeated per exporter;
* the socket directory falls back to another one for any directory that cannot be
  made, not only for the default one;
* an unbracketed IPv6 address with `::` whose last group is a decimal number loses that
  group to the port (`netutil.go:143`, `README.md:91`); the branch of `netutil.go:136-138` is
  never taken; malformed endpoints are not idempotent;
* the route cache is keyed by address alone, so that tenants whose addresses overlap
  share a namespace, and never forgets: what a late `Store` or a passing failure left
  there stays until a reload (`resolver.go:159-177`);
* an item of the resolver's list with tenants and no name gives them the empty
  namespace (`resolver.go:129-135`);
* custom arguments are never compared, so a change of them reaches no child;
* the ids `vm:1` and `vm_1` have one socket path (`instance.go:120-130`);
* `netns.enabled` is never read, against `config.example.yaml:52-53`;
* `default_netns` of libvirt and Nova is set as the target's explicit namespace and
  therefore overrides the tenant rules, although `config.example.yaml:147` and `170`
  call it a fallback;
* Nova's `filter_gpu_only` is never read;
* the `auth_url` of `config.example.yaml:153` ends in `/v3`, and `nova.go:289` adds
  `/v3/auth/tokens` to it;
* the Keystone token is kept for two hours whatever its `expires_at` says;
* a server in several networks may change its endpoint from scan to scan, and an id
  listed by two providers its provider, by Go's map iteration;
* a SIGTERM that arrives while a SIGHUP waits in `sigCh` is lost;
* the `netns` label is written into the provider's label map, which all snapshots of
  one report share (`app.go:331`), and is not updated after a reload; handlers iterate
  over the same map (`server.go:137`), which Go does not allow beside a write;
* the XML fallback does not look at `connection_mode`, and skips silently a file that
  does not parse, such as one whose root is not `domain` (`domain_xml.go:27`);
* a loop's backoff is never reset, so a child that ran for weeks is restarted after
  the pause its earliest crashes had grown to (`instance.go:190`);
* two targets with one name: `GetInstance` returns whichever the map iteration meets
  first (`manager.go:169`).

## 7. Not modelled

* The entry point, which calls the application; the logger and the creation of the
  socket directory, which happen once before anything else.
* `AttachScopeIfLinkLocal`, `FormatHostPort`, `FormatHTTPURL`: they put strings together
  and decide nothing another component depends on.
* Defaults and YAML decoding: constants, and a library's work.
* Labels beyond those the server adds, their escaping and their order: data. The
  label map shared by snapshots and handlers is recorded in section 6.
* The root page, logging, the text of `virsh`, XML, JSON.
* Durations of backoffs, polls and timeouts: only their order matters here. The
  deadline of a scrape is one subtraction; in `Server` a scrape may fail at any time.
* `CustomArgs`: they are never compared, and nothing else depends on them.

## 8. Plan

1. The fields a loop that was given up goes on writing, in `Manager` and `Server` as well:
   what its last child serves, and who answers on a socket path it has deleted.
2. The step properties that the remaining liveness properties rest on: that a poll, a
   request and a termination come nearer to their end with each step.
3. The label map as one that is shared, where it is now one value: what a handler may
   see of a map that the consumer writes.

## 9. Running

```
tlc -workers 2 -config Instance_behaviour.cfg Instance
tlc -workers 2 -config Manager_safety.cfg MCManager
tlc -workers 2 -config Server_behaviour.cfg MCServer
tlc -workers 2 -config Discovery_behaviour.cfg MCDiscovery
tlc -workers 2 -config App_behaviour.cfg MCApp
tlc -workers 2 -config Providers_behaviour.cfg Providers
tlc -workers 2 -config Utilities_behaviour.cfg MCUtilities
tlapm Instance_proofs.tla        # and Manager_, Server_, Discovery_, App_,
                                 # Providers_, Utilities_proofs
```

Definitions whose names end in `Mut` are faulty variants of the definitions that
follow them: with one of them in place of the original, TLC finds the property that
`PROJECT.json`, `mutants`, names with it violated.
