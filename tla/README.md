# Verification of notyetanotherenvoybackend

TLA+ modules, TLC runs and TLAPS proofs about the two Go modules of this repository: `client`, a
delta xDS client for agentgateway's control plane, and `nginxbackend`, a Gateway API data plane
that turns what the client receives into NGINX configuration files. Paths below are relative to
the repository's root; `address.go`, `resource.go` and `manager.go` are in
`nginxbackend/pkg/store` and `nginxbackend/pkg/nginx`.

Contents: [the system](#the-system), [modules](#modules), [runs](#runs), [fairness](#fairness),
[proofs](#proofs), [divergences](#divergences-found), [not modelled](#not-modelled),
[plan](#plan).

## The system

```
 xDS server --stream--> ADSClient --Update/Remove--> AddressStore --------> endpoints/*.conf
                            |                          ^      | callback         |
                            |        EnsureUpstreamFile|      v                  v
                            +------Update/Remove---> ResourceStore -----> servers/ routes/ certs/
                                                             |                   |
                                        nginx -t, nginx -s reload (both stores)  |
                                                             v                   v
                                                       NGINX manager ------> NGINX master
```

| Component | State | Operations | Hard behaviour |
|---|---|---|---|
| `ADSClient` (`client/client.go`) | attempt counter, reconnect delay, one stream; no resource versions | `Start` (reconnection loop), `runStream` (subscribe, receive, dispatch, ACK/NACK) | lost streams, retries, cancellation, failing handlers |
| `AddressStore` (`address.go`) | `serviceMap`, `workloadMap`, `activeServices`, a mutex | `Update`, `Remove` from the client; `EnsureUpstreamFile` from the ResourceStore; `DeleteUpstreamFile`, which nothing calls | order of resources in and between batches, failing writes and reloads, callbacks after unlocking |
| `ResourceStore` (`resource.go`) | binds, listeners, routes; three reverse indexes; `serverFiles`; a mutex | `Update`, `Remove`, `onServiceAvailable` | resources in any order, objects that move, indexes that must follow |
| NGINX manager (`manager.go`) | the NGINX process, the configuration directory | `Start`, `WriteConfig`, `DeleteConfig`, `Reload` | a write truncates before it fills, test and reload are two steps, NGINX reads later, NGINX may exit |
| `main.go`, probe | none after start-up | start-up order, exit on error | restart over an old configuration directory |
| debug stores, `examples/adsgui`, `examples/dump` | a map, a notification channel | `Update`, `Remove`, `Notify` | an unbuffered channel written from inside a handler |

All store handlers run on the goroutine of `ADSClient.Start`; the other goroutines (the one that
waits for NGINX, the probe server, the forwarder and the terminal program of `adsgui`) do not call
the stores. The two mutexes therefore never contend, but a mutex that is not released stops the
program. What does run concurrently is NGINX, which reads files while handlers write them.

What makes each component correct:

- ADSClient: every change the server sends reaches the handlers, in order, and is acknowledged
  only if it was applied; transient failures are retried with a bounded delay; permanent ones
  and cancellation end `Start`.
- AddressStore: the two maps agree, upstream files of tracked services hold the live endpoints, and
  routes that wait for a service hear of it.
- ResourceStore: every stored route is in the route file and server files that its listener,
  bind and hostnames call for; files refer to files that are there; changes are reloaded.
- NGINX manager and composition: what NGINX runs is what the stores last wrote, and serves every
  stored route with every live endpoint.
- Debug stores: notifications reach the reader in order, and a handler that waits for its reader
  gets to return.

PROJECT.json lists the hazards behind these, each at its line, with the properties that cover it.

## Modules

```
 EndpointStore <--implements-- AddressStore            ResourceStore   ADSClient   DebugStore
       ^                                               (all listeners)
       | INSTANCE
    Gateway  (one listener) --INSTANCE--> NginxManager
```

`AddressStore.tla`. One action per iteration of the loops of `Update` and `Remove`, and one for
`EnsureUpstreamFile`, which runs while no handler holds the lock. `DeleteUpstreamFile` has no
caller in the program: it is defined, because `ActiveUntilReleased` names it, and is no part of
`Next`. `pc` is the phase of the call, `lock` the mutex, and `serviceMap`, `workloadMap`,
`activeServices`, and the locals `affectedServices`, `newlyAvailableServices`, `needsReload` are
the Go variables. `endpoints` is the directory of upstream files: a set of `<<address, port>>` per
service. A batch is not a variable: a loop iteration takes any resource and the loop may end at
any time, which is every finite batch in every order. A Go map is iterated in any order: an
iteration takes any element of the set. Every write, delete and reload may fail, where and as
`manager.go` can fail. A write is two steps, since `os.WriteFile` (manager.go:115) truncates the
file when it opens it and fills it afterwards: `WriteOpens` leaves an empty file and the key in
`opened`, and `WriteSucceeds` or `WriteFails` comes next. A handler does nothing else in between,
a reader may. `waiting` and `unsynced` are history variables. Metadata that only becomes comments
of the upstream file is left out. The model has no bound: its state space is finite for finite
constants.

`EndpointStore.tla`. What the AddressStore promises to its callers, without its maps, batches and
loops: which endpoints are `live`, which services are `listed` and `used` (tracked in
`activeServices`), what is `published`, and whom a call still has to announce. A handler call
changes the live endpoints at will, publishes files one by one, each in two steps, and returns only
when the file of every tracked service is current. Only a service that `Remove` has left without
workloads (`lost`) can be withdrawn, and with it that it is tracked. `AddressStore` implements this
module under the mapping `Promise` in `AddressStore.tla`, checked as the property
`ImplementsEndpointStore` and proved in `EndpointStoreProofs`.

`ADSClient.tla`. `Start` and `runStream` as a program counter with one action per step that can
interleave with the environment: the caller's cancellation, the server (a `world` of versioned
resources per type, `sent` on this stream) and the stream (`down`, a FIFO of responses, and how
the stream ended). `held` is what the handlers hold: the effect of their calls is that of the
debug stores, applied whole or, on an error, whole or not at all. `IsPermanentError` sees a
status only where gRPC reports one: `Recv` returns it, `Send` on a finished stream returns
`io.EOF`. `attempt` is abstracted to zero and more than zero, which is all the code tests.

`ResourceStore.tla`. The six phases of `Update`, the loops of `Remove`, and `onServiceAvailable`,
again one action per iteration. `serverConf`, `routeConf` and `certs` are the directories
`servers/`, `routes/` and `certs/`; a server file has its port and the routes it includes, a
route file its location's backends. Files are written in two steps here too (`openCerts`,
`openServers`, `openRoutes`): a truncated server file is as good as none, a truncated route file
has no backend, and a certificate is "torn" from the empty one that `generateTLSFiles` writes first
(resource.go:848) until certificate and key are written. What this store sees of the AddressStore
is part of the module: services with workloads (`available`), tracked services (`active`),
callbacks to make (`pending`). A batch of the AddressStore changes the availability of any services
at once, announces those that routes waited for, and may announce tracked services again
(address.go:186) or some that lost their workloads in the same batch. `Panic` is the nil
dereference of `generateServerFile` for an index entry whose route is gone. `affectedRoutes` is
also `deletedRoutes` of `Remove`. `excused` (routes that moved or arrived in a state for which the
code promises no server file), `unsynced` (route files whose last write failed) and `dirty` (files
changed since the last reload) are history variables. Kinds, protocol and match lists are data of
the files and left out, except the hostnames, on which the set of files depends. Hostname matching
is equality or `*` in the route, as in the code. `Update` takes one version of a route per batch,
an assumption about the server: a delta response names a resource once. (With two versions that
name different listeners, the server file of the first would include a file that is not written.)

`NginxManager.tla`. `Start` (test, start, sleep, and a return that looks at a `ProcessState` which
is still nil; an NGINX that cannot be executed makes it fail), the goroutine that panics when NGINX
fails, `Reload` as a test and a signal, either of which may fail, and the NGINX master. The master
reads some time after it was started or signalled: it lists the upstream files, opens them one
after the other, then the server file, then the route files this one includes, and adopts the
configuration when it has read all of them. Handlers may write between any two of these reads. It
keeps its old configuration if it rejects what it read: an included route file or a proxied
upstream that is missing, a listed file that is gone when it comes to it, or a part of a file. A
file truncated and not yet filled is read as an empty one, and may also be rejected, for a reader
may find any prefix of it (`cut`). The files are an argument of the actions.

`Gateway.tla`. The NGINX backend as a whole, at the grain of one file operation: the AddressStore
by `EndpointStore`, the manager and NGINX by `NginxManager`, and of the ResourceStore the routes of
one listener and bind that are stored before, so that there is one server file and the question is
what the two stores, their callback and NGINX do to each other. `Directory` is the directory as
NGINX sees it, `CutShort` says that it has a part of a file, `Accepted` is NGINX's judgement of a
configuration (included files exist, proxied hosts are defined, no `split_clients` in a location).
Handlers run one after the other; between any two of their steps, the truncation and the filling of
one file included, NGINX may read a file, adopt what it read, end, or be found not running. The
process may panic and is then restarted with empty stores over the old directory, cut files
included, or an empty one. History variables say what the properties exempt: `orphans` are services
whose upstream file may be missing or empty although routes rely on it (`Remove` deletes the
upstream under the routes that name it, a write failed, or `EnsureUpstreamFile` returned true
without writing), `missed` says that the last reload of acceptable files failed, `damaged` and
`serverCut` that a file of the ResourceStore is missing or cut short by a write that is under way
or has failed.

`DebugStore.tla`. Both debug stores with their `Notify` channel, the forwarder and the event loop
of `adsgui`, and `dump`, which does not subscribe. Channels have no buffer, so that a send and its
receive are one step. An UPDATE notification carries messages without their xDS names
(debugstore/address.go:49-58); the model files it by name because a message says which resource it
describes: workloads have a uid, services a namespace and hostname, other resources a key, and the
stores of `nginxbackend` rely on it when they store by these and remove by name
(address.go:308-312). `joinMessages` drops what `protojson` cannot marshal (adsgui/main.go:247-254):
values in `Unprintable` are left out of the notification on its way (`Printed`).

The MC modules add symmetry sets for TLC. Modules named `...Proofs` hold the theorems. Definitions
named in "mutants" of PROJECT.json (`ConfigUpdatedOnce`, `IndexedOnce`, ...) are plausible bugs:
with one of them in place of the definition that follows it, the named property fails, which shows
that the property has something to say about that code.

## Runs

| Run | What is checked | Instance |
|---|---|---|
| `address_store` | `TypeOK`, `WorkloadListed`, `EndpointsPublished`, `EndpointsExact`, `ArrivalsAnnounced`, `FilesTracked`, `ImplementsEndpointStore` | two services, two pods, one workload that is not a pod, two addresses, one port |
| `ads_client` | `TypeOK`, `NoLostUpdate`, `QuietMeansCurrent`, `AckMeansApplied` | a handled type, one with a nil handler, an unknown one; two resources; 3 changes, 2 stream failures, 1 handler error, 2 responses in flight |
| `ads_client_live` | `CancelStops`, `Converges` | one type, two resources, the same bounds |
| `resource_store` | `TypeOK`, `RoutesIndexed`, `BackendsTracked`, `RouteServesAvailable`, `IncludesResolve`, `RouteStaysServed`, `ChangesLoaded`, `CertificatePresent` | two listeners, one with TLS; two routes; one bind, service, port; a hostname and `*`; 5 events, one of them a failing write |
| `gateway` | `TypeOK`, `RunsDisk`, `ReferencesResolve`, `ServesLive` | two services, one endpoint, one route; 5 events (handler calls, batch iterations, restarts), a failing file operation or the end of a process counts for two of them |
| `gateway_live` | `EventuallyServes`, `FailureEndsProcess` | one service, 6 events, counted likewise |
| `debug_store` | `TypeOK`, `ListFollowsContent`, `OneReader`, `HandlerReturns`, `ListCatchesUp` | two stores, two names, two values (one unprintable) and one that cannot be unmarshalled; 3 handler calls; with and without a subscriber |
| `address_lock`, `address_members`, `address_tracking`, `resource_release`, `ads_client_removals` | one property each, which a doc or a comment states and the code violates | the smallest that shows it |

Why the instances are enough:

- AddressStore. A violation needs at most two workloads of a service (the first and the last one
  leaving), a change of address (two of them) and a workload that moves between two services; all
  batches and all orders are explored without a bound. A change of target port is not: two ports
  multiply the states beyond what a run can visit, and the theorems cover it.
- ADSClient. Two names tell a partial response from a whole one, a type with a nil handler and an
  unknown type cover the two special branches, two stream failures include a failure while
  recovering from one, and a delay that starts at 1 with a maximum of 3 passes the cap between
  two doublings.
- ResourceStore. Five events (`MaxEvents` counts resources and failing writes) reach every
  action, the panic included: listener, route, route moved, route removed, bind.
- Gateway. Five events are a service that comes, a route that uses it, and one change that races
  the reload of the others (a begin and an iteration each); or, with a fault for two, a panic, a
  restart over the old files and a call, or a write that fails halfway in a call after others.
  `MaxEvents` and `FaultCost` bound them together. Two services make a `split_clients` location and
  let one service change while a route waits for the other. One route cannot show one route
  disturbing another: for that there are the theorems, which are for all numbers of routes.
  `gateway_live` has one service, and six events, which are the five and a reload that comes late.
- DebugStore. Three calls fill the pipeline (the handler's notification, the forwarder's, the
  message of the terminal program), which is full at three whatever the number of calls.

Deadlock is not checked: handlers may stop for ever (a leaked lock, a panic, `Start` returned, a
closed program), and a bounded environment runs out of events.

What each property means is said above it. Some are weaker than one might wish, because the code
is:

- `EndpointsExact`, that an upstream file has no endpoint but the live ones, leaves out two kinds
  of service: those with a workload that no longer declares them (`MembersDeclareService` fails,
  and such a workload's changes reach no file), and those without workloads, whose last upstream
  file stays, since one without servers is not written. `ServesLive` says that live endpoints are
  in what NGINX runs, not that nothing else is.
- No property says that a reader only sees whole files, or that what a server file serves stays
  served while it is rewritten: `os.WriteFile` truncates a file that NGINX may be reading. What is
  said is about states between calls (`IncludesResolve`, `RouteStaysServed`, `EndpointsPublished`)
  and about a quiet system (`RunsDisk`, `ServesLive`), in which NGINX has read the whole files.
- `FilesTracked` is about tracked services, not used ones: nothing calls `DeleteUpstreamFile`, so
  that a service whose routes are gone stays tracked and keeps its file (`UntrackedWhenUnused`
  fails).
- `CertificatePresent` takes a torn certificate for a present one, and is about files that are
  there, not about what they hold.
- `RouteStaysServed` excuses a route that came before its listener, or whose listener changed its
  hostname or bind. Gateway therefore starts from a stored listener and bind.
- `ReferencesResolve` excuses `orphans`: `Remove` deletes the upstream of a service that routes
  use (address.go:325), and `EnsureUpstreamFile` returns `true, nil` for a service whose
  workloads resolve to no server although its comment (address.go:550) says that true means that
  the file was created.
- `RunsDisk` excuses a reload that came before NGINX had started (`missed`): `Start` waits 100 ms
  and the handler only logs the error. It also says nothing while NGINX would reject the files, or
  one of them is cut short.
- `ServesLive` asks for the endpoints of tracked services only: when `Remove` has forgotten that
  routes use a service (`ActiveUntilReleased` fails), its upstream stays deleted until one of
  these routes is stored again.
- `EventuallyServes` stops at a lock that is left locked, at the end of the process, and at files
  that NGINX rejects.
- `ListFollowsContent` and `ListCatchesUp` except a resource whose latest message cannot be
  marshalled: the list goes on showing the one before.

## Fairness

- ADSClient. `WF_vars(Client)`: the goroutine is scheduled, its timer fires, handlers return, and
  a receive returns what has arrived. `WF_vars(ServerSends(t))`: a control plane sends a
  subscribed type's changes. Nothing obliges the environment to cancel, to change the world or to
  break a stream, and each of those is bounded, so `Converges` speaks of the time after the last
  of them. It says nothing of resources that were removed while the client was away
  (`HandlersMatchWorld` fails) nor of those a handler refused.
- Gateway. `WF_vars(HandlerSteps)`: the handler that runs goes on; its loops are over finite sets.
  `SF_vars(AddressReturns \/ AddressLocks)`: the loop over a batch ends, for a batch is finite, and
  so does the loop that writes upstream files, for it writes each file once. In EndpointStore both
  could go on for ever, and while a file is open the return is not enabled, hence strong fairness.
  `StartStep`, `MasterStep` and `ManagerPanicStep` are steps of other processes and goroutines,
  which the operating system schedules. Begins of handler calls, failures, ends and restarts are
  not fair: they may never come.
- DebugStore. The handlers' own steps, the forwarder's goroutine and the event loop of the
  terminal program are each weakly fair; calls by the server, quitting and failing are not.
- AddressStore and ResourceStore have no fairness; what must happen in them is said as an
  invariant of the states between two calls, and Gateway adds that calls end.

## Proofs

All theorems hold for every value of the constants under the module's named assumption, which
says that the values for "absent" are none of the values they stand beside and that bounds are
numbers. Bounds are constants like the others, so the theorems are about any number of events.
Each proof has one step per action of `Next`; actions that leave the relevant variables alone
share a step.

`AddressStoreProofs`:

- `TypeCorrect`: `TypeOK`, inductive as it stands.
- `ListedCorrect`: `WorkloadListed`. Inductive with types; the interesting step is a workload
  that is stored again, joins services and must stay in those of other workloads. `ForgetService`
  needs that a service that is forgotten has no members.
- `PublishedCorrect`: `EndpointsPublished` holds between calls only. `PublishedInv` says what
  holds during a call: the file of a tracked service is current unless the service is among
  `affectedServices`, while the loop over the batch runs or after it; and outside a call
  `affectedServices` is empty.
- `ExactCorrect`: `EndpointsExact`, with `ExactInv` of the same shape, but for the servers that
  must not be there. The workloads of a service are frozen while it is outside `affectedServices`
  (`ExactFrame`) only if they declare it: one that does not can move or go without the service
  being affected. This is where the proof needs the exception that `EndpointsExact` makes.
- `ArrivalsCorrect`: `ArrivalsAnnounced`, with `ArrivalsInv`: `waiting` only has services that
  are tracked, and one that has workloads in the middle of a batch is announced already. The step
  that matters is a service that gets its first workload, loses it and gets another in one batch.
- `FilesCorrect`: `FilesTracked`, inductive with types: `Remove` deletes the file of a service that
  it forgets, or fails to, and no other step stops tracking one.
- `TargetCorrect`: `TargetOnlyFromService`, an action property, one step per action. No run checks
  it, since the instance of `address_store` has one port.

`EndpointStoreProofs`: `EndpointStoreImplemented`, that AddressStore implements EndpointStore.
Each step is matched with an action of the abstract store or a stutter (`StepRefines`), from types,
`LockInv` (where the mutex is in a call), `OpenInv` (a file is under write only in the loop over
`affectedServices`, for a member of it, or in `EnsureUpstreamFile`), `WorkloadListed` (so that the
servers written from `serviceMap` include the live endpoints, which are those of `workloadMap`) and
`PublishedInv` (so that a call returns with every tracked service settled).

`ADSClientProofs`:

- `TypeCorrect`: `TypeOK` is not inductive, since a handler call about a response of unknown type
  would break the type of `refused`; `CallInv` says which response is at hand at each `pc`.
- `AckCorrect`: `AckMeansApplied` needs `AckInv`, that between the two calls the removals are
  applied or the error is set.
- `LossCorrect`: `NoLostUpdate` with `RefusedInv`, that an error set by `Remove` has the updates
  of the response among the refused. `UpToDate` follows a resource from the queue to the handler,
  so the proof is about what moves it: a response is added behind the last mention of its names
  (`AppendUpToDate`), the head of the queue becomes the response at hand (`RecvUpToDate`), a call
  settles some names of it (`CallUpToDate`), and the rest leaves it alone (`IdleUpToDate`).
- `QuietCorrect`: `QuietMeansCurrent` follows from `NoLostUpdate`: with nothing unsent, what was
  sent last is what the server has (`QuietCurrent`).

`ResourceStoreProofs`. Every invariant that the run checks is proved:

- `TypeCorrect` needs `StoredInv`: `Update` regenerates stored routes only, `Remove` deletes files
  of routes that are gone; and `OpenInv`: one file is written after the other, and the route,
  index and services that it is written from do not change while it is open.
- `IndexedCorrect` (`RoutesIndexed`) is inductive with types.
- `TrackedCorrect`: `BackendsTracked` holds between calls. In the middle of `Update` a route to
  regenerate is not tracked (`TrackedInv`); a panic leaves it so, which is why `Updating` has the
  crashed state.
- `LoadedCorrect`: `DirtyInv`, that whoever changes a file has, or had, a key of a file to
  regenerate, on which `Update` and `Remove` decide to reload.
- `CertificateCorrect`: the certificate, possibly torn, is written before the server file, whichever
  write fails.
- `IncludesCorrect`: `FileInv`, that the route files of all routes that a server file or an index
  names are there or still to be written, those of routes that moved included (`Named`).
- `LocationCorrect`: `LocationInv`, what the location of a stored route still waits for: nothing,
  the end of `Update`, a callback, or the arrival of the service.
- `ServedCorrect`: `ServedInv`, that a route is in each server file it asks for, on disk and in
  `serverFiles`, or the file is still to be written.

`GatewayProofs`. The invariant `GatewayInv` has seven parts: types; `HandlerInv`, where each
handler is in its call; `FreshInv`; `ResolvedInv`; `EndpointInv`; `IncludedInv`; `PlacedInv`.

- `TypeCorrect`.
- `DiskCorrect`: `RunsDisk` from `FreshInv`. When the files are reloaded (`Reloaded`: no handler has
  unsaved changes, NGINX accepts them, none is cut short) the master runs them, is signalled or
  starting, or is reading and what it has read so far is what is there (`Agrees`), whichever files
  these are. A master that goes on reading still agrees, and adopts the files when it has read all
  of them (`ReadsOn`). A file that it read while a handler wrote it does not matter: the handler
  signals at the end of its call, and the master reads again.
- `ReferencesCorrect`: `ReferencesResolve` from `ResolvedInv`. It is lost when the process
  restarts over old files, and `Start`'s test of the configuration re-establishes it: a process
  only gets to handle anything over files that NGINX accepts.
- `ServesCorrect`: `ServesLive`, from all of them: the route is included (`IncludedInv`), its file
  has the backend (`PlacedInv`: it does, or the running handler will see to it, or the
  AddressStore will call back, or the service is yet to come), the upstream has the live endpoints
  (`EndpointInv`, which is what EndpointStore promises) and NGINX runs these files (`RunsDisk`).

`DebugStoreProofs`:

- `TypeCorrect` needs `CallInv`: a running call has a notification, and a batch of values.
- `ReaderCorrect`: `OneReader` with `ReaderInv`, that nothing arrives before the terminal program
  runs. At most one notification has arrived (`OneArrived`), so `arrived`, of which commands may
  take any element, is never reordered.
- `ListCorrect`: `ListFollowsContent` with `SaysInv`: list, arrived, the forwarder's and, in a
  call, the handler's notification say in this order what the stores contain, but for resources
  whose latest message cannot be marshalled (`Shown`). Each operation adds one value to the last
  of them (`SaysNoted`), the forwarder drops from its notification what it cannot print
  (`SaysPrinted`), and each receive moves one on (`SentMoves`). What `Says` makes of an appended
  notification (`SaysAppend`) needs that the last index that says something of a name exists
  (`LastExists`): it is the least distance from the end, by the library's theorem that the natural
  numbers are well-founded.

Only model-checked: the six liveness properties (`CancelStops`, `Converges`, `EventuallyServes`,
`FailureEndsProcess`, `HandlerReturns`, `ListCatchesUp`). Liveness under fairness is beyond the
prover, as is induction over data, which no theorem here needs. Every invariant that a
passing run checks, and the refinement `ImplementsEndpointStore`, is the statement of a theorem.

## Divergences found

Each is a run that TLC ends with a counterexample; PROJECT.json quotes the text that the code
contradicts.

1. `address_lock`: a failed reload leaves the AddressStore locked (address.go:262). It needs no
   failing environment: NGINX rejects the test as soon as a route has two backends or names an
   upstream that `Remove` has deleted.
2. `address_members`: a workload that drops a service stays its endpoint (address.go:392-423).
3. `address_tracking`: removing the last workload un-tracks a service that routes still use
   (address.go:331).
4. `ads_client_removals`: removals during a disconnection are never seen (client.go:217-220).
5. `resource_release`: nothing calls `DeleteUpstreamFile`, so that a service whose last route is
   gone stays tracked and its upstream file stays and is regenerated, although address.go:589 says
   that ResourceStore calls it then, and address.go:93 that `activeServices` tracks which services
   are currently used by routes.

Met on the way, without a run:

- A permanent status that `Send` meets first is retried (client.go:222), although `Start` means to
  stop on it (client.go:196): `Send` reports `io.EOF` and the status is with `Recv`.
- A route that comes before its listener is deferred (resource.go:306), but the listener only
  generates the file of its own hostname (resource.go:241-243), not those of the route's.
- Removing the last route of a server regenerates an empty server file instead of deleting it
  (resource.go:175).
- A crash between the write of a server file and that of its route files, or in the middle of a
  write, can leave a directory that `nginx -t` rejects: the restarted process exits, each time.
- `client/README.md:256` says that network errors end the client, which reconnects; `:257` says
  that failed ACKs are logged, and they end the stream.
- The first delay may exceed `MaxReconnectDelay` if configured so (client.go:65), and
  `DialTimeout` is only logged.
- The branch for a Service resource that makes a service available (address.go:230-236) is never
  taken, since a Service resource changes no workloads.

## Not modelled

- Names: keys are model values, so that keys built differently for the same service, or two keys
  with one file name, do not occur. These are questions about strings without state.
- Location patterns, match directives, percentages of weighted backends: text computed from one
  message, whose meaning is NGINX's. That two routes may ask for the same location, which NGINX
  rejects, is not in `Accepted`.
- Start-up as a sequence (it exits on any error), flags, token parsing; the probe, which is
  stateless; rendering and key bindings of `adsgui` other than quitting.
- `NewADSClient`'s validation and `Close`.
- Two handlers at once: the client calls them on one goroutine.
- `DeleteUpstreamFile` as a step: the program does not call it.
- How much of a file that is being written a reader finds: it finds none of it, or a part that
  NGINX rejects. A part that NGINX would accept with other content than none is left out; the
  handler reloads after the write, and what runs then is what the properties are about.
- Two versions of one resource in a response: an assumption about the server, which ResourceStore
  makes for routes.

## Plan

Done: AddressStore, ADSClient, ResourceStore, EndpointStore, NginxManager, Gateway and DebugStore,
proofs of all their invariants, and of the refinement. What is left, in order:

1. Perhaps an abstract specification of the ResourceStore, as EndpointStore is one of the
   AddressStore: it would let Gateway have several listeners.
2. `Naming`: the three service key builders, file names and server file keys over short names.
3. `SplitClients`: cumulative percentages against shares, over bounded weights.
