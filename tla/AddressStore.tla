---------------------------- MODULE AddressStore ----------------------------
(***************************************************************************)
(* The endpoint store of the NGINX backend                                 *)
(* (nginxbackend/pkg/store/address.go).                                    *)
(*                                                                         *)
(* The store is the xDS handler for Address resources.  It keeps two maps  *)
(* that refer to each other (services to workloads, workloads to services) *)
(* and mirrors every service a route has used into an upstream file of     *)
(* NGINX's endpoints directory.  A handler call is a loop over its batch,  *)
(* followed by a loop over the services the batch touched, a reload, and,  *)
(* for Update, the callbacks into the ResourceStore.  Each iteration is an *)
(* action.  The batch itself is not a variable: an iteration takes any     *)
(* resource, and the loop may end at any time, which together are all the  *)
(* finite batches.                                                         *)
(***************************************************************************)

CONSTANTS
    ServiceKey,     \* keys "namespace/name/port" of serviceMap
    Uid,            \* workload uids that the server may send
    Pod,            \* those of them that isPod accepts
    Addr,           \* IP addresses
    Port,           \* target ports
    NoAddr,         \* no parseable address in a Workload resource
    NoPort,         \* the key is not in the resource
    NoService,      \* absent from serviceMap
    NoWorkload,     \* absent from workloadMap
    NoFile          \* no such file on disk

Service == [target : Port, workloads : SUBSET Uid]
Workload == [addr : Addr, services : SUBSET ServiceKey]
Upstream == [servers : SUBSET (Addr \X Port)]
PortMap == [ServiceKey -> Port \cup {NoPort}]

\* A Workload resource; ports gives the target port of each service key it serves.  Of
\* an unhealthy one nothing but its uid is read.
WorkloadRes ==
    [uid : Uid, healthy : {TRUE}, addr : Addr \cup {NoAddr}, ports : PortMap]
        \cup [uid : Uid, healthy : {FALSE}, addr : {NoAddr},
              ports : {[k \in ServiceKey |-> NoPort]}]

ASSUME AddressAssumption ==
    /\ Pod \subseteq Uid
    /\ NoAddr \notin Addr
    /\ NoPort \notin Port
    /\ NoService \notin Service
    /\ NoWorkload \notin Workload
    /\ NoFile \notin Upstream

VARIABLES
    pc,                     \* where the running handler call is
    lock,                   \* AddressStore.lock: "free" or "held"
    serviceMap,
    workloadMap,
    activeServices,
    endpoints,              \* upstream files, servers as <<address, port>>
    opened,                 \* the upstream file that WriteFile has truncated and
                            \* not yet filled
    affectedServices,       \* local to Update and Remove
    newlyAvailableServices, \* local to Update
    needsReload,            \* local to Update and Remove
    waiting,                \* history: active and without workloads when Update began
    unsynced                \* history: keys whose last file write or delete has not
                            \* succeeded

store == <<serviceMap, workloadMap>>
files == <<endpoints, opened, unsynced>>
vars == <<pc, lock, serviceMap, workloadMap, activeServices, endpoints, opened,
          affectedServices, newlyAvailableServices, needsReload, waiting, unsynced>>

-----------------------------------------------------------------------------
(* What the store's maps say *)

Exists(k) == serviceMap[k] # NoService
Known(u) == workloadMap[u] # NoWorkload

\* ServiceExists: in memory with at least one workload.
Available(k) == Exists(k) /\ serviceMap[k].workloads # {}

Declares(u, k) == Known(u) /\ k \in workloadMap[u].services
ServicesOf(u) == IF Known(u) THEN workloadMap[u].services ELSE {}
KeysOf(ports) == {k \in ServiceKey : ports[k] # NoPort}

\* The server lines of an upstream block: members that workloadMap still resolves.
Servers(k) ==
    {<<workloadMap[u].addr, serviceMap[k].target>> :
        u \in {v \in serviceMap[k].workloads : Known(v)}}

\* removeWorkloadFromServices
WithoutWorkload(u) ==
    [k \in ServiceKey |->
        IF Declares(u, k) /\ Exists(k)
        THEN [target |-> serviceMap[k].target,
              workloads |-> serviceMap[k].workloads \ {u}]
        ELSE serviceMap[k]]

\* Bugs this helper could have had: it joins only services it creates, it creates
\* services w does not name.
WithWorkloadCreatedOnly(w) ==
    [k \in ServiceKey |->
        IF w.ports[k] = NoPort \/ Exists(k)
        THEN serviceMap[k]
        ELSE [target |-> w.ports[k], workloads |-> {w.uid}]]

WithWorkloadEverywhere(w) ==
    [k \in ServiceKey |->
        IF Exists(k)
        THEN [serviceMap[k] EXCEPT !.workloads = @ \cup {w.uid}]
        ELSE [target |-> w.ports[k], workloads |-> {w.uid}]]

\* createWorkload, its effect on serviceMap: w joins each service it names, and
\* only creates the service where no Service resource (or workload) has done so.
WithWorkload(w) ==
    [k \in ServiceKey |->
        IF w.ports[k] = NoPort
        THEN serviceMap[k]
        ELSE IF Exists(k)
             THEN [target |-> serviceMap[k].target,
                   workloads |-> serviceMap[k].workloads \cup {w.uid}]
             ELSE [target |-> w.ports[k], workloads |-> {w.uid}]]

\* The mutant asks whether w created the service, which a Service resource may
\* have done before.
AnnouncedIfCreated(w) ==
    {k \in KeysOf(w.ports) \cap activeServices : ~Exists(k)}

\* Tracked services of w that have w as their only workload.
Announced(w) ==
    {k \in KeysOf(w.ports) \cap activeServices :
        WithWorkload(w)[k].workloads = {w.uid}}

-----------------------------------------------------------------------------
(* Files.  os.WriteFile truncates a file when it opens it, and fills it in a *)
(* second step; NGINX may read the empty file in between.  Either call may   *)
(* fail.  The mutex is held from the first step to the second, also by       *)
(* EnsureUpstreamFile: no other action has opened # {} in its guard.         *)

WriteOpens(k) ==
    /\ opened = {}
    /\ endpoints' = [endpoints EXCEPT ![k] = [servers |-> {}]]
    /\ opened' = {k}
    /\ unsynced' = unsynced \cup {k}

WriteSucceeds(k) ==
    /\ opened = {k}
    /\ endpoints' = [endpoints EXCEPT ![k] = [servers |-> Servers(k)]]
    /\ opened' = {}
    /\ unsynced' = unsynced \ {k}

\* The old file stays if it cannot be opened, an empty one if it cannot be filled.
WriteFails(k) ==
    /\ opened \subseteq {k}
    /\ opened' = {}
    /\ unsynced' = unsynced \cup {k}
    /\ UNCHANGED endpoints

\* The mutant has lost the path of the file when it comes to delete it.
DeleteForgets(k) ==
    /\ opened = {} /\ UNCHANGED <<endpoints, opened>>
    /\ unsynced' = unsynced \ {k}

DeleteSucceeds(k) ==
    /\ opened = {} /\ UNCHANGED opened
    /\ endpoints' = [endpoints EXCEPT ![k] = NoFile]
    /\ unsynced' = unsynced \ {k}

DeleteFails(k) ==
    /\ opened = {} /\ UNCHANGED opened
    /\ endpoints[k] # NoFile
    /\ UNCHANGED endpoints
    /\ unsynced' = unsynced \cup {k}

NoFileTouched == opened = {} /\ UNCHANGED files

\* The mutant takes an existing file for a current one.
ConfigUpdatedOnce(k) ==
    /\ Exists(k)
    /\ IF Servers(k) = {} \/ (endpoints[k] # NoFile /\ opened = {})
       THEN NoFileTouched
       ELSE WriteSucceeds(k)

\* updateServiceConfig up to the truncated file, its return of nil, and of an error.
\* An upstream with no resolvable server is skipped without an error: the old file
\* stays.
ConfigOpens(k) == Exists(k) /\ Servers(k) # {} /\ WriteOpens(k)

ConfigUpdated(k) ==
    /\ Exists(k)
    /\ \/ Servers(k) = {} /\ NoFileTouched
       \/ Servers(k) # {} /\ WriteSucceeds(k)

ConfigFails(k) ==
    \/ ~Exists(k) /\ NoFileTouched
    \/ Exists(k) /\ Servers(k) # {} /\ WriteFails(k)

-----------------------------------------------------------------------------
(* Update *)

UpdateBegin ==
    /\ pc = "idle" /\ lock = "free" /\ opened = {}
    /\ pc' = "update" /\ lock' = "held"
    /\ affectedServices' = {}
    /\ newlyAvailableServices' = {}
    /\ needsReload' = FALSE
    /\ waiting' = {k \in activeServices : ~Available(k)}
    /\ UNCHANGED <<store, activeServices, files>>

\* Neither a pod nor, for a workload not seen before, something with both a
\* service and an address: the loop moves on.
WorkloadSkipped(w) ==
    /\ pc = "update"
    /\ \/ w.uid \notin Pod
       \/ /\ w.healthy /\ ~Known(w.uid)
          /\ KeysOf(w.ports) = {} \/ w.addr = NoAddr
    /\ UNCHANGED vars

\* The mutant asks for the workload's services when it has already left the map.
WorkloadUnhealthyUntracked(w) ==
    /\ pc = "update" /\ w.uid \in Pod /\ ~w.healthy
    /\ serviceMap' = WithoutWorkload(w.uid)
    /\ workloadMap' = [workloadMap EXCEPT ![w.uid] = NoWorkload]
    /\ UNCHANGED <<pc, lock, activeServices, files, affectedServices,
                   newlyAvailableServices, needsReload, waiting>>

WorkloadUnhealthy(w) ==
    /\ pc = "update" /\ w.uid \in Pod /\ ~w.healthy
    /\ affectedServices' = affectedServices \cup ServicesOf(w.uid)
    /\ serviceMap' = WithoutWorkload(w.uid)
    /\ workloadMap' = [workloadMap EXCEPT ![w.uid] = NoWorkload]
    /\ UNCHANGED <<pc, lock, activeServices, files, newlyAvailableServices,
                   needsReload, waiting>>

\* A workload not seen before must name a service, but the service may list no
\* port: then the workload is stored without a service.
WorkloadStored(w) ==
    /\ pc = "update" /\ w.uid \in Pod /\ w.healthy /\ w.addr # NoAddr
    /\ serviceMap' = WithWorkload(w)
    /\ workloadMap' = [workloadMap EXCEPT ![w.uid] =
                          [addr |-> w.addr, services |-> KeysOf(w.ports)]]
    /\ affectedServices' =
          affectedServices \cup ServicesOf(w.uid) \cup KeysOf(w.ports)
    /\ newlyAvailableServices' = newlyAvailableServices \cup Announced(w)
    /\ UNCHANGED <<pc, lock, activeServices, files, needsReload, waiting>>

\* addrs[0] of a known workload that has lost its addresses: index out of range.
\* Nothing recovers the panic, the process is gone.
WorkloadPanics(w) ==
    /\ pc = "update" /\ w.uid \in Pod /\ w.healthy
    /\ Known(w.uid) /\ w.addr = NoAddr
    /\ pc' = "crashed"
    /\ UNCHANGED <<lock, store, activeServices, files, affectedServices,
                   newlyAvailableServices, needsReload, waiting>>

\* A Service resource: ports gives the target port of each of its keys.
ServiceStored(ports) ==
    /\ pc = "update"
    /\ serviceMap' =
          [k \in ServiceKey |->
              IF ports[k] = NoPort
              THEN serviceMap[k]
              ELSE [target |-> ports[k],
                    workloads |-> IF Exists(k) THEN serviceMap[k].workloads ELSE {}]]
    /\ affectedServices' = affectedServices \cup KeysOf(ports)
    /\ newlyAvailableServices' = newlyAvailableServices \cup
          {k \in KeysOf(ports) \cap activeServices :
              ~Available(k) /\ serviceMap'[k].workloads # {}}
    /\ UNCHANGED <<pc, lock, workloadMap, activeServices, files, needsReload,
                   waiting>>

UpdateLoopEnds ==
    /\ pc = "update"
    /\ pc' = "regenerate"
    /\ UNCHANGED <<lock, store, activeServices, files, affectedServices,
                   newlyAvailableServices, needsReload, waiting>>

\* One service of affectedServices, in this loop or the one of Remove: its file is
\* truncated.
OpenService(k) ==
    /\ pc \in {"regenerate", "cleanup"} /\ k \in affectedServices
    /\ pc = "cleanup" => Available(k)
    /\ k \in activeServices /\ ConfigOpens(k)
    /\ UNCHANGED <<pc, lock, store, activeServices, affectedServices,
                   newlyAvailableServices, needsReload, waiting>>

\* The mutant leaves the loop where the code continues it.
RegenerateServiceOrBreak(k) ==
    /\ pc = "regenerate" /\ k \in affectedServices
    /\ \/ /\ k \notin activeServices /\ NoFileTouched /\ UNCHANGED needsReload
          /\ affectedServices' = affectedServices \ {k}
       \/ /\ k \in activeServices /\ ConfigUpdated(k) /\ needsReload' = TRUE
          /\ affectedServices' = affectedServices \ {k}
       \/ /\ k \in activeServices /\ ConfigFails(k) /\ UNCHANGED needsReload
          /\ affectedServices' = {}
    /\ UNCHANGED <<pc, lock, store, activeServices, newlyAvailableServices, waiting>>

\* The service is done; a failure is logged and asks for no reload.
RegenerateService(k) ==
    /\ pc = "regenerate" /\ k \in affectedServices
    /\ affectedServices' = affectedServices \ {k}
    /\ \/ k \notin activeServices /\ NoFileTouched /\ UNCHANGED needsReload
       \/ k \in activeServices /\ ConfigUpdated(k) /\ needsReload' = TRUE
       \/ k \in activeServices /\ ConfigFails(k) /\ UNCHANGED needsReload
    /\ UNCHANGED <<pc, lock, store, activeServices, newlyAvailableServices, waiting>>

\* The reload succeeded or was not needed: the lock is released, then the callbacks run.
UpdateUnlocks ==
    /\ pc = "regenerate" /\ affectedServices = {}
    /\ pc' = "notify" /\ lock' = "free"
    /\ needsReload' = FALSE /\ waiting' = {}
    /\ UNCHANGED <<store, activeServices, files, affectedServices,
                   newlyAvailableServices>>

\* The reload failed: Update returns the error from inside its critical section.
UpdateReloadFails ==
    /\ pc = "regenerate" /\ affectedServices = {} /\ needsReload
    /\ pc' = "idle"
    /\ newlyAvailableServices' = {} /\ needsReload' = FALSE /\ waiting' = {}
    /\ UNCHANGED <<lock, store, activeServices, files, affectedServices>>

\* serviceAvailableCallback(k); what it calls back is EnsureUpstreamFile.
Notify(k) ==
    /\ pc = "notify" /\ k \in newlyAvailableServices /\ opened = {}
    /\ newlyAvailableServices' = newlyAvailableServices \ {k}
    /\ UNCHANGED <<pc, lock, store, activeServices, files, affectedServices,
                   needsReload, waiting>>

UpdateReturns ==
    /\ pc = "notify" /\ newlyAvailableServices = {} /\ opened = {}
    /\ pc' = "idle"
    /\ UNCHANGED <<lock, store, activeServices, files, affectedServices,
                   newlyAvailableServices, needsReload, waiting>>

-----------------------------------------------------------------------------
(* Remove *)

RemoveBegin ==
    /\ pc = "idle" /\ lock = "free" /\ opened = {}
    /\ pc' = "remove" /\ lock' = "held"
    /\ affectedServices' = {}
    /\ needsReload' = FALSE
    /\ UNCHANGED <<store, activeServices, files, newlyAvailableServices, waiting>>

RemoveWorkload(u) ==
    /\ pc = "remove"
    /\ u \in Pod
    /\ affectedServices' = affectedServices \cup ServicesOf(u)
    /\ serviceMap' = WithoutWorkload(u)
    /\ workloadMap' = [workloadMap EXCEPT ![u] = NoWorkload]
    /\ UNCHANGED <<pc, lock, activeServices, files, newlyAvailableServices,
                   needsReload, waiting>>

RemoveLoopEnds ==
    /\ pc = "remove"
    /\ pc' = "cleanup"
    /\ UNCHANGED <<lock, store, activeServices, files, affectedServices,
                   newlyAvailableServices, needsReload, waiting>>

\* A service left without workloads is forgotten, and so is that routes use it.
ForgetService(k) ==
    /\ pc = "cleanup" /\ k \in affectedServices /\ ~Available(k)
    /\ affectedServices' = affectedServices \ {k}
    /\ serviceMap' = [serviceMap EXCEPT ![k] = NoService]
    /\ activeServices' = activeServices \ {k}
    /\ \/ k \notin activeServices /\ NoFileTouched /\ UNCHANGED needsReload
       \/ /\ k \in activeServices /\ needsReload' = TRUE
          /\ DeleteSucceeds(k) \/ DeleteFails(k)
    /\ UNCHANGED <<pc, lock, workloadMap, newlyAvailableServices, waiting>>

ShrinkService(k) ==
    /\ pc = "cleanup" /\ k \in affectedServices /\ Available(k)
    /\ affectedServices' = affectedServices \ {k}
    /\ \/ k \notin activeServices /\ NoFileTouched /\ UNCHANGED needsReload
       \/ k \in activeServices /\ ConfigUpdated(k) /\ needsReload' = TRUE
       \/ k \in activeServices /\ ConfigFails(k) /\ UNCHANGED needsReload
    /\ UNCHANGED <<pc, lock, store, activeServices, newlyAvailableServices, waiting>>

\* With or without a reload error: the unlock is deferred.
RemoveReturns ==
    /\ pc = "cleanup" /\ affectedServices = {}
    /\ pc' = "idle" /\ lock' = "free" /\ needsReload' = FALSE
    /\ UNCHANGED <<store, activeServices, files, affectedServices,
                   newlyAvailableServices, waiting>>

-----------------------------------------------------------------------------
(* Called by the ResourceStore, from its own handlers or from the callback *)

EnsureUpstreamFile(k) ==
    /\ pc \in {"idle", "notify"} /\ lock = "free"
    /\ activeServices' = activeServices \cup {k}
    /\ \/ ~Available(k) /\ NoFileTouched
       \/ Available(k) /\ (ConfigOpens(k) \/ ConfigUpdated(k) \/ ConfigFails(k))
    /\ UNCHANGED <<pc, lock, store, affectedServices, newlyAvailableServices,
                   needsReload, waiting>>

\* Nothing calls it, so it is no part of Next; ActiveUntilReleased names it.
DeleteUpstreamFile(k) ==
    /\ pc \in {"idle", "notify"} /\ lock = "free"
    /\ activeServices' = activeServices \ {k}
    /\ DeleteSucceeds(k) \/ DeleteFails(k)
    /\ UNCHANGED <<pc, lock, store, affectedServices, newlyAvailableServices,
                   needsReload, waiting>>

-----------------------------------------------------------------------------
(* NewAddressStore *)
Init ==
    /\ pc = "idle" /\ lock = "free"
    /\ serviceMap = [k \in ServiceKey |-> NoService]
    /\ workloadMap = [u \in Uid |-> NoWorkload]
    /\ activeServices = {}
    /\ endpoints = [k \in ServiceKey |-> NoFile] /\ opened = {}
    /\ affectedServices = {} /\ newlyAvailableServices = {}
    /\ needsReload = FALSE
    /\ waiting = {} /\ unsynced = {}

Update ==
    \/ UpdateBegin
    \/ \E w \in WorkloadRes :
          \/ WorkloadSkipped(w)
          \/ WorkloadUnhealthy(w)
          \/ WorkloadStored(w)
          \/ WorkloadPanics(w)
    \/ \E ports \in PortMap : ServiceStored(ports)
    \/ UpdateLoopEnds
    \/ \E k \in ServiceKey : RegenerateService(k)
    \/ UpdateUnlocks
    \/ UpdateReloadFails
    \/ \E k \in ServiceKey : Notify(k)
    \/ UpdateReturns

Remove ==
    \/ RemoveBegin
    \/ \E u \in Uid : RemoveWorkload(u)
    \/ RemoveLoopEnds
    \/ \E k \in ServiceKey : ForgetService(k) \/ ShrinkService(k)
    \/ RemoveReturns

FromResourceStore == \E k \in ServiceKey : EnsureUpstreamFile(k)

Next == Update \/ Remove \/ FromResourceStore \/ \E k \in ServiceKey : OpenService(k)

Spec == Init /\ [][Next]_vars

-----------------------------------------------------------------------------
(* Properties *)

\* The variables hold values of the kinds the Go declarations give them.
TypeOK ==
    /\ pc \in {"idle", "update", "regenerate", "notify", "remove", "cleanup", "crashed"}
    /\ lock \in {"free", "held"}
    /\ serviceMap \in [ServiceKey -> Service \cup {NoService}]
    /\ workloadMap \in [Uid -> Workload \cup {NoWorkload}]
    /\ activeServices \in SUBSET ServiceKey
    /\ endpoints \in [ServiceKey -> Upstream \cup {NoFile}]
    /\ opened \in SUBSET ServiceKey
    /\ affectedServices \in SUBSET ServiceKey
    /\ newlyAvailableServices \in SUBSET ServiceKey
    /\ needsReload \in BOOLEAN
    /\ waiting \in SUBSET ServiceKey
    /\ unsynced \in SUBSET ServiceKey

\* Every service a workload declares is in serviceMap and lists that workload: the
\* two maps, changed by different handlers, never lose a live endpoint.
WorkloadListed ==
    \A u \in Uid, k \in ServiceKey :
        Declares(u, k) => Exists(k) /\ u \in serviceMap[k].workloads

\* Between handler calls the upstream file of a service that the store tracks has the
\* current address and target port of every workload that declares the service,
\* unless the last write of that file failed.
EndpointsPublished ==
    pc \in {"idle", "notify"} =>
        \A k \in activeServices \ unsynced, u \in Uid :
            Declares(u, k) =>
                /\ endpoints[k] # NoFile
                /\ <<workloadMap[u].addr, serviceMap[k].target>> \in endpoints[k].servers

\* The other half: such a file has no server of a workload that has gone, become
\* unhealthy or moved, nor an old target port.  It is exactly what the two maps say,
\* for every service with workloads all of which still declare it (one that does not
\* is the finding of MembersDeclareService).
EndpointsExact ==
    pc \in {"idle", "notify"} =>
        \A k \in activeServices \ unsynced :
            /\ Available(k)
            /\ \A u \in serviceMap[k].workloads : Declares(u, k)
            => endpoints[k] = [servers |-> Servers(k)]

\* A route that was waiting for a service without workloads when Update began is
\* told: whatever the order of the batch, the service is among those called back
\* if it has a workload at the end of the loop.
ArrivalsAnnounced ==
    pc \in {"update", "regenerate"} =>
        \A k \in waiting : Available(k) => k \in newlyAvailableServices

\* An upstream file that was written without an error belongs to a service that the
\* store still tracks, and so keeps current: Remove, which forgets a service, takes the
\* file along, also when the service appears, disappears and appears again in a batch.
\* (That routes still use a tracked service is another matter: UntrackedWhenUnused in
\* ResourceStore is violated.)
FilesTracked ==
    \A k \in ServiceKey :
        endpoints[k] # NoFile => k \in activeServices \cup unsynced

\* Service resources are the source of truth for a service in serviceMap
\* (address.go:43): no workload changes the target port of a service that exists.
TargetOnlyFromService ==
    [][\A k \in ServiceKey :
          (Exists(k) /\ Exists(k)' /\ serviceMap'[k].target # serviceMap[k].target)
             => \E ports \in PortMap : ServiceStored(ports)]_vars

(* What the store promises its clients *)

\* The current endpoints of each service: those of the workloads that declare it.
Live ==
    [k \in ServiceKey |->
        {<<workloadMap[u].addr, serviceMap[k].target>> :
            u \in {v \in Uid : Declares(v, k)}}]

Listed == {k \in ServiceKey : Available(k)}

Phase ==
    CASE pc = "idle" -> IF lock = "free" THEN "rest" ELSE "locked"
      [] pc \in {"update", "regenerate"} -> "update"
      [] pc \in {"remove", "cleanup"} -> "remove"
      [] OTHER -> pc

\* Remove has left these services without workloads, and has not forgotten them yet.
Lost == IF Phase = "remove" THEN affectedServices \ Listed ELSE {}

Promise ==
    INSTANCE EndpointStore
    WITH Endpoint <- Addr \X Port,
         phase <- Phase,
         live <- Live,
         listed <- Listed,
         used <- activeServices,
         published <- endpoints,
         opened <- opened,
         failed <- unsynced,
         announced <- newlyAvailableServices,
         lost <- Lost

\* Whatever arrives and whichever calls fail, each step of the store is one that
\* EndpointStore allows, or changes nothing of it: upstream files change only while
\* their service is tracked, and in the two steps of a write; a service is announced in
\* the step that lists it, and no call returns before the files have the live endpoints.
ImplementsEndpointStore == Promise!EndpointSpec

(* What comments and docs say of the store, and the code does not do *)

\* "Thread-safe with proper locking" (client/README.md:202): no handler call
\* returns with the mutex locked.
LockReleasedOnReturn == pc = "idle" => lock = "free"

\* "In case it is updated, the ServiceMap that contains it should also be updated
\* accordingly" (address.go:67): between calls a service lists no workload whose
\* current version does not declare it.
MembersDeclareService ==
    pc = "idle" =>
        \A k \in ServiceKey : Exists(k) =>
            \A u \in serviceMap[k].workloads : Declares(u, k)

\* "Always mark service as active (used by routes), even if it doesn't exist yet.
\* This ensures that when the service arrives later, it will trigger config
\* updates" (address.go:555): only the ResourceStore ends the use of a service.
ActiveUntilReleased ==
    [][\A k \in activeServices \ activeServices' : DeleteUpstreamFile(k)]_vars

=============================================================================
