---------------------------- MODULE GatewayProofs ----------------------------
(***************************************************************************)
(* Theorems about Gateway, for any services, endpoints and routes and any  *)
(* bounds on calls, failures and ends of processes.                        *)
(***************************************************************************)
EXTENDS Gateway, TLAPS

Files == <<published, served, routeConf, serverCut, damaged>>

-----------------------------------------------------------------------------
(* Types *)

ResourceTypeOK ==
    /\ pc \in {"idle", "server", "serverfile", "routes", "routefile"}
    /\ routes \in [RouteKey -> Backends \cup {NoRoute}]
    /\ serviceToRoutes \in [ServiceKey -> SUBSET Stored]
    /\ affectedRoutes \in SUBSET Stored
    /\ writing \in RouteKey \cup {NoRoute}
    /\ unchecked \in SUBSET ServiceKey /\ valid \in SUBSET ServiceKey
    /\ served \in SUBSET RouteKey
    /\ routeConf \in [RouteKey -> RouteFile]
    /\ serverCut \in BOOLEAN /\ damaged \in SUBSET RouteKey
    /\ orphans \in SUBSET ServiceKey

\* The stores of a process that has not handled anything.
Empty ==
    /\ phase = "rest" /\ listed = {} /\ used = {} /\ failed = {} /\ announced = {}
    /\ opened = {}
    /\ live = [k \in ServiceKey |-> {}] /\ ~needsReload
    /\ Stored = {} /\ pc = "idle"

\* Where each handler is in its call.
HandlerInv ==
    /\ manager \in {"new", "started"} => Empty
    /\ phase \in {"rest", "notify", "locked"} => ~needsReload
    /\ pc # "idle" => phase \in {"rest", "notify", "locked"}
    /\ pc = "idle" => affectedRoutes = {}
    /\ writing # NoRoute =>
          /\ pc \in {"routes", "routefile"}
          /\ writing \in Stored /\ unchecked \subseteq routes[writing].backends
    /\ pc = "routefile" => writing # NoRoute /\ unchecked = {}
    /\ (opened # {} /\ phase \in {"rest", "notify", "locked"}) =>
          writing # NoRoute /\ opened \subseteq unchecked
    /\ writing = NoRoute => valid = {}
    /\ \A k \in ServiceKey : \A r \in serviceToRoutes[k] : k \in routes[r].backends

\* The steps of the AddressStore in Gateway are steps of EndpointStore.
LEMMA EndpointStep ==
    ASSUME [Next]_vars, ~Restarts
    PROVE  [Endpoints!EndpointNext]_endpointVars
<1>1. CASE UNCHANGED vars
  BY <1>1 DEF vars, endpointVars
<1>2. CASE AddressBegins \/ AddressChanges \/ AddressPanics \/ AddressReturns
           \/ AddressLocks \/ AddressNotified
  BY <1>2 DEF AddressBegins, AddressChanges, AddressPanics, AddressReturns, AddressLocks,
              AddressNotified, Endpoints!EndpointNext
<1>3. CASE \E k \in ServiceKey :
              \/ AddressWrites(k) \/ AddressWithdraws(k) \/ OnServiceAvailable(k)
              \/ OpenBackend(k) \/ CheckBackend(k)
  BY <1>3 DEF AddressWrites, AddressWithdraws, OpenBackend, CheckBackend,
              OnServiceAvailable, Endpoints!EndpointNext
<1>4. CASE \E batch \in SUBSET RouteKey :
              \/ \E backends \in [batch -> Backends] : UpdateRoutes(batch, backends)
              \/ RemoveRoutes(batch)
  BY <1>4 DEF UpdateRoutes, RemoveRoutes, endpointVars
<1>5. CASE OpenServerFile \/ WriteServerFile \/ OpenRouteFile \/ WriteRouteFile
           \/ ResourceReturns \/ \E r \in RouteKey : GenerateRouteFile(r)
  BY <1>5 DEF OpenServerFile, WriteServerFile, OpenRouteFile, WriteRouteFile,
              ResourceReturns, GenerateRouteFile, endpointVars
<1>6. CASE StartStep \/ MasterStep \/ ManagerPanicStep \/ MasterEnds
  BY <1>6 DEF StartStep, MasterStep, ManagerPanicStep, MasterEnds, endpointVars
<1>7. QED BY <1>1, <1>2, <1>3, <1>4, <1>5, <1>6 DEF Next, HandlerSteps

LEMMA EndpointType ==
    ASSUME Endpoints!EndpointTypeOK, [Endpoints!EndpointNext]_endpointVars
    PROVE  Endpoints!EndpointTypeOK'
<1> USE DEF Endpoints!EndpointTypeOK
<1>1. CASE UNCHANGED endpointVars
  BY <1>1 DEF endpointVars
<1>2. CASE Endpoints!Begins \/ Endpoints!Returns \/ Endpoints!Locks \/ Endpoints!Panics
           \/ Endpoints!Notified
  BY <1>2 DEF Endpoints!Begins, Endpoints!Returns, Endpoints!Locks, Endpoints!Panics,
              Endpoints!Notified, Endpoints!files
<1>3. CASE Endpoints!Changes
  BY <1>3 DEF Endpoints!Changes, Endpoints!files
<1>4. ASSUME NEW k \in ServiceKey,
             \/ Endpoints!Truncated(k) \/ Endpoints!Filled(k) \/ Endpoints!NotFilled(k)
             \/ Endpoints!Deleted(k)
      PROVE  /\ published' \in [ServiceKey -> [servers : SUBSET Endpoint] \cup {NoFile}]
             /\ opened' \in SUBSET ServiceKey /\ failed' \in SUBSET ServiceKey
  <2>1. \A servers \in SUBSET Endpoint : [servers |-> servers] \in [servers : SUBSET Endpoint]
    OBVIOUS
  <2>2. CASE Endpoints!Truncated(k)
    BY <2>1, <2>2 DEF Endpoints!Truncated
  <2>3. CASE Endpoints!Filled(k)
    BY <2>1, <2>3 DEF Endpoints!Filled
  <2>4. CASE Endpoints!NotFilled(k) \/ Endpoints!Deleted(k)
    BY <2>4 DEF Endpoints!NotFilled, Endpoints!Deleted
  <2>5. QED BY <1>4, <2>2, <2>3, <2>4
<1>5. ASSUME NEW k \in ServiceKey,
             \/ Endpoints!Opens(k) \/ Endpoints!Publishes(k) \/ Endpoints!PublishFails(k)
             \/ Endpoints!Withdraws(k) \/ Endpoints!EnsureOpens(k) \/ Endpoints!Ensures(k)
             \/ Endpoints!EnsureFails(k)
      PROVE  Endpoints!EndpointTypeOK'
  BY <1>4, <1>5 DEF Endpoints!Opens, Endpoints!Publishes, Endpoints!PublishFails,
     Endpoints!Withdraws, Endpoints!EnsureOpens, Endpoints!Ensures, Endpoints!EnsureFails,
     Endpoints!files
<1>6. ASSUME NEW k \in ServiceKey,
             Endpoints!Skips(k) \/ Endpoints!Notifies(k) \/ Endpoints!EnsurePends(k)
      PROVE  Endpoints!EndpointTypeOK'
  BY <1>6 DEF Endpoints!Skips, Endpoints!Notifies, Endpoints!EnsurePends, Endpoints!files
<1>7. QED BY <1>1, <1>2, <1>3, <1>5, <1>6 DEF Endpoints!EndpointNext

LEMMA TypeParts ==
    TypeOK <=> /\ Endpoints!EndpointTypeOK
               /\ Nginx!NginxTypeOK(ServiceKey, UpstreamFile, RouteKey, RouteFile)
               /\ ResourceTypeOK
BY DEF TypeOK, ResourceTypeOK

\* What the master reads of files of the right types has the right type.
LEMMA ReadsType ==
    ASSUME TypeOK, MasterReads
    PROVE  /\ reading' \in Nginx!PartsOf(ServiceKey, UpstreamFile, RouteKey, RouteFile)
                           \cup {NotRead}
           /\ running' \in [upstreams : [ServiceKey -> UpstreamFile],
                            locations : Nginx!LocationsOf(RouteKey, RouteFile)] \cup {NotRead}
<1> USE DEF Directory
<1>0. Nginx!NginxTypeOK(ServiceKey, UpstreamFile, RouteKey, RouteFile)
  BY TypeParts
<1>1. /\ published \in [ServiceKey -> UpstreamFile] /\ served \in SUBSET RouteKey
      /\ routeConf \in [RouteKey -> RouteFile]
  BY TypeParts DEF Endpoints!EndpointTypeOK, ResourceTypeOK, UpstreamFile
<1>2. /\ reading \in Nginx!PartsOf(ServiceKey, UpstreamFile, RouteKey, RouteFile) \cup {NotRead}
      /\ running \in [upstreams : [ServiceKey -> UpstreamFile],
                      locations : Nginx!LocationsOf(RouteKey, RouteFile)] \cup {NotRead}
  BY <1>0 DEF Nginx!NginxTypeOK
<1>3. CASE Nginx!ReadBegins(Directory)
  <2> DEFINE u == [k \in ServiceKey |-> IF published[k] = NoFile THEN NoFile ELSE NotRead]
  <2>1. u \in [ServiceKey -> UpstreamFile \cup {NotRead}]
    BY DEF UpstreamFile
  <2>2. reading' = [upstreams |-> u, locations |-> NotRead] /\ running' = running
    BY <1>1, <1>3 DEF Nginx!ReadBegins
  <2>3. QED BY <1>2, <2>1, <2>2 DEF Nginx!PartsOf
<1>4. ASSUME NEW k \in ServiceKey, Nginx!ReadUpstream(Directory, k)
      PROVE  /\ reading' \in Nginx!PartsOf(ServiceKey, UpstreamFile, RouteKey, RouteFile)
             /\ running' = running
  BY <1>1, <1>2, <1>4 DEF Nginx!ReadUpstream, Nginx!PartsOf
<1>5. CASE Nginx!ReadServer(Directory)
  <2>1. [r \in served |-> NotRead] \in Nginx!LocationsOf(RouteKey, RouteFile \cup {NotRead})
    BY <1>1 DEF Nginx!LocationsOf
  <2>2. reading \in Nginx!PartsOf(ServiceKey, UpstreamFile, RouteKey, RouteFile)
    BY <1>2, <1>5 DEF Nginx!ReadServer, Nginx!UpstreamsRead
  <2>3. reading' = [reading EXCEPT !.locations = [r \in served |-> NotRead]]
    BY <1>5 DEF Nginx!ReadServer
  <2>4. QED BY <1>2, <1>5, <2>1, <2>2, <2>3 DEF Nginx!ReadServer, Nginx!PartsOf
<1>6. ASSUME NEW r \in RouteKey, Nginx!ReadRoute(Directory, r)
      PROVE  /\ reading' \in Nginx!PartsOf(ServiceKey, UpstreamFile, RouteKey, RouteFile)
             /\ running' = running
  <2>1. reading \in Nginx!PartsOf(ServiceKey, UpstreamFile, RouteKey, RouteFile)
    BY <1>2, <1>6 DEF Nginx!ReadRoute, Nginx!ServerRead, Nginx!UpstreamsRead
  <2>2. PICK included \in SUBSET RouteKey :
            reading.locations \in [included -> RouteFile \cup {NotRead}]
    BY <1>6, <2>1 DEF Nginx!ReadRoute, Nginx!ServerRead, Nginx!PartsOf, Nginx!LocationsOf
  <2>3. [reading.locations EXCEPT ![r] = routeConf[r]]
            \in [included -> RouteFile \cup {NotRead}]
    BY <1>1, <2>2
  <2>4. [reading.locations EXCEPT ![r] = routeConf[r]]
            \in Nginx!LocationsOf(RouteKey, RouteFile \cup {NotRead})
    BY <2>3 DEF Nginx!LocationsOf
  <2>5. reading' = [reading EXCEPT !.locations = [reading.locations EXCEPT ![r] = routeConf[r]]]
    BY <1>6, <2>1 DEF Nginx!ReadRoute, Nginx!PartsOf
  <2>6. QED BY <1>6, <2>1, <2>4, <2>5 DEF Nginx!ReadRoute, Nginx!PartsOf
<1>7. CASE Nginx!Adopts
  <2>1. reading \in Nginx!PartsOf(ServiceKey, UpstreamFile, RouteKey, RouteFile)
    BY <1>2, <1>7 DEF Nginx!Adopts, Nginx!AllRead, Nginx!ServerRead, Nginx!UpstreamsRead
  <2>2. PICK included \in SUBSET RouteKey :
            reading.locations \in [included -> RouteFile \cup {NotRead}]
    BY <1>7, <2>1 DEF Nginx!Adopts, Nginx!AllRead, Nginx!ServerRead, Nginx!PartsOf,
       Nginx!LocationsOf
  <2>3. /\ \A k \in ServiceKey : reading.upstreams[k] # NotRead
        /\ \A r \in included : reading.locations[r] # NotRead
    BY <1>7, <2>1, <2>2 DEF Nginx!Adopts, Nginx!AllRead, Nginx!ServerRead,
       Nginx!UpstreamsRead, Nginx!PartsOf
  <2>4. reading.upstreams \in [ServiceKey -> UpstreamFile]
    BY <2>1, <2>3 DEF Nginx!PartsOf
  <2>5. reading.locations \in [included -> RouteFile]
    BY <2>2, <2>3
  <2>6. reading.locations \in Nginx!LocationsOf(RouteKey, RouteFile)
    BY <2>5 DEF Nginx!LocationsOf
  <2>7. reading = [upstreams |-> reading.upstreams, locations |-> reading.locations]
    BY <2>1 DEF Nginx!PartsOf
  <2>8. QED BY <1>7, <2>4, <2>6, <2>7 DEF Nginx!Adopts
<1>8. CASE Nginx!Rejects(Directory, CutShort)
  BY <1>2, <1>8 DEF Nginx!Rejects
<1>9. QED BY <1>2, <1>3, <1>4, <1>5, <1>6, <1>7, <1>8 DEF MasterReads

LEMMA NginxType ==
    ASSUME TypeOK, [Next]_vars
    PROVE  Nginx!NginxTypeOK(ServiceKey, UpstreamFile, RouteKey, RouteFile)'
<1> USE DEF Nginx!NginxTypeOK
<1>0. Nginx!NginxTypeOK(ServiceKey, UpstreamFile, RouteKey, RouteFile) BY TypeParts
<1>1. CASE UNCHANGED nginxVars
  BY <1>0, <1>1 DEF nginxVars
<1>2. CASE Nginx!ReloadSucceeds(Directory) \/ ReloadFails \/ AddressPanics
           \/ Starts \/ ManagerPanics
  BY <1>0, <1>2 DEF Nginx!ReloadSucceeds, ReloadFails, Nginx!ReloadFails,
     Nginx!ReloadBreaks, AddressPanics, Starts, Nginx!Start, Nginx!StartFails,
     Nginx!StartReturns, ManagerPanics, Nginx!WaitPanics
<1>3. CASE MasterReads
  <2>1. /\ manager' = manager /\ missed' = missed /\ hup' \in BOOLEAN
        /\ master' \in {"none", "starting", "running", "quit", "failed"}
    BY <1>0, <1>3 DEF MasterReads, Nginx!ReadBegins, Nginx!ReadUpstream, Nginx!ReadServer,
       Nginx!ReadRoute, Nginx!Adopts, Nginx!Rejects
  <2>2. QED BY <1>0, <1>3, <2>1, ReadsType
<1>4. CASE MasterEnds \/ Restarts
  BY <1>0, <1>4 DEF MasterEnds, Nginx!Ends, Restarts, Nginx!NginxRestarts
<1>5. QED
  <2>1. CASE AddressReturns \/ AddressLocks \/ ResourceReturns
    BY <1>1, <1>2, <2>1 DEF AddressReturns, AddressLocks, ResourceReturns
  <2>2. CASE StartStep \/ MasterStep \/ ManagerPanicStep
    BY <1>2, <1>3, <2>2 DEF StartStep, MasterStep, ManagerPanicStep
  <2>3. CASE \/ AddressBegins \/ AddressChanges \/ AddressNotified
             \/ OpenServerFile \/ WriteServerFile \/ OpenRouteFile \/ WriteRouteFile
             \/ \E r \in RouteKey : GenerateRouteFile(r)
    BY <1>1, <2>3 DEF AddressBegins, AddressChanges, AddressNotified, OpenServerFile,
       WriteServerFile, OpenRouteFile, WriteRouteFile, GenerateRouteFile
  <2>4. CASE \E k \in ServiceKey :
                \/ AddressWrites(k) \/ AddressWithdraws(k) \/ OnServiceAvailable(k)
                \/ OpenBackend(k) \/ CheckBackend(k)
    BY <1>1, <2>4 DEF AddressWrites, AddressWithdraws, OpenBackend, CheckBackend,
       OnServiceAvailable
  <2>5. CASE \E batch \in SUBSET RouteKey :
                \/ \E backends \in [batch -> Backends] : UpdateRoutes(batch, backends)
                \/ RemoveRoutes(batch)
    BY <1>1, <2>5 DEF UpdateRoutes, RemoveRoutes
  <2>6. CASE UNCHANGED vars
    BY <1>1, <2>6 DEF vars
  <2>7. QED BY <1>2, <1>4, <2>1, <2>2, <2>3, <2>4, <2>5, <2>6 DEF Next, HandlerSteps

\* The handlers of the ResourceStore keep each other's types, and the index of services.
LEMMA ResourceType ==
    ASSUME TypeOK, HandlerInv, [Next]_vars
    PROVE  ResourceTypeOK'
<1> USE DEF ResourceTypeOK, routeFile, routeDisk, diskVars
<1>0. ResourceTypeOK BY TypeParts
<1>a. Endpoints!EndpointTypeOK BY TypeParts
<1>1. CASE UNCHANGED <<resourceVars, orphans>>
  BY <1>0, <1>1 DEF resourceVars, Stored
<1>2. ASSUME NEW k \in ServiceKey, AddressWrites(k) \/ AddressWithdraws(k) \/ OpenBackend(k)
      PROVE  ResourceTypeOK'
  <2>1. orphans' \in SUBSET ServiceKey /\ UNCHANGED resourceVars
    BY <1>0, <1>2 DEF AddressWrites, AddressWithdraws, OpenBackend, Notes
  <2>2. QED BY <1>0, <2>1 DEF resourceVars, Stored
<1>3. ASSUME NEW batch \in SUBSET RouteKey, NEW backends \in [batch -> Backends],
             UpdateRoutes(batch, backends)
      PROVE  ResourceTypeOK'
  <2>1. /\ routes' \in [RouteKey -> Backends \cup {NoRoute}]
        /\ Stored' = Stored \cup batch
    <3>1. \A r \in batch : backends[r] # NoRoute
      BY GatewayAssumption
    <3>2. QED BY <1>0, <1>3, <3>1 DEF UpdateRoutes, Stored
  <2>2. serviceToRoutes' \in [ServiceKey -> SUBSET Stored']
    BY <1>0, <1>3, <2>1 DEF UpdateRoutes
  <2>3. QED BY <1>0, <1>3, <2>1, <2>2 DEF UpdateRoutes
<1>4. ASSUME NEW batch \in SUBSET RouteKey, RemoveRoutes(batch)
      PROVE  ResourceTypeOK'
  <2>1. /\ routes' \in [RouteKey -> Backends \cup {NoRoute}]
        /\ Stored' = Stored \ batch
    BY <1>0, <1>4 DEF RemoveRoutes, Stored
  <2>2. \A k \in ServiceKey : \A r \in serviceToRoutes'[k] :
            r \in serviceToRoutes[k] /\ r \notin batch
    BY <1>0, <1>4 DEF RemoveRoutes, HandlerInv
  <2>3. serviceToRoutes' \in [ServiceKey -> SUBSET Stored']
    BY <1>0, <1>4, <2>1, <2>2 DEF RemoveRoutes
  <2>4. QED BY <1>0, <1>4, <2>1, <2>3 DEF RemoveRoutes
<1>5. CASE OpenServerFile \/ WriteServerFile
  BY <1>0, <1>5 DEF OpenServerFile, WriteServerFile, RoutesIncluded, Stored
<1>6. ASSUME NEW r \in RouteKey, GenerateRouteFile(r)
      PROVE  ResourceTypeOK'
  <2>1. routes[r].backends \in SUBSET ServiceKey
    BY <1>0, <1>6 DEF GenerateRouteFile, Backends
  <2>2. QED BY <1>0, <1>6, <2>1 DEF GenerateRouteFile, Stored
<1>7. ASSUME NEW k \in ServiceKey, CheckBackend(k)
      PROVE  ResourceTypeOK'
  <2>1. writing \in Stored /\ writing \in RouteKey
    BY <1>0, <1>7 DEF CheckBackend, HandlerInv
  <2>2. serviceToRoutes' \in [ServiceKey -> SUBSET Stored]
    BY <1>0, <1>7, <2>1 DEF CheckBackend
  <2>3. valid' \in SUBSET ServiceKey /\ orphans' \in SUBSET ServiceKey
    BY <1>0, <1>7 DEF CheckBackend, Notes
  <2>4. QED BY <1>0, <1>7, <2>2, <2>3 DEF CheckBackend, Stored
<1>8. CASE OpenRouteFile \/ WriteRouteFile
  <2>1. \A b \in SUBSET ServiceKey : [backends |-> b] \in RouteFile
    BY DEF Backends, RouteFile
  <2>2. writing \in RouteKey
    BY <1>0, <1>8 DEF OpenRouteFile, WriteRouteFile, HandlerInv
  <2>3. routeConf' \in [RouteKey -> RouteFile] /\ damaged' \in SUBSET RouteKey
    BY <1>0, <1>8, <2>1, <2>2 DEF OpenRouteFile, WriteRouteFile
  <2>4. QED
    BY <1>0, <1>8, <2>3 DEF OpenRouteFile, WriteRouteFile, RouteFileEnds, Stored
<1>9. ASSUME NEW k \in ServiceKey, OnServiceAvailable(k)
      PROVE  ResourceTypeOK'
  BY <1>0, <1>9 DEF OnServiceAvailable, Stored
<1>10. CASE ResourceReturns
  BY <1>0, <1>10 DEF ResourceReturns, Stored
<1>11. CASE Restarts
  <2>1. Stored' = {}
    BY <1>11 DEF Restarts, Stored
  <2>2. routeConf' \in [RouteKey -> RouteFile]
    BY <1>0, <1>11 DEF Restarts, RouteFile
  <2>3. QED BY <1>0, <1>11, <2>1, <2>2 DEF Restarts
<1>12. QED
  <2>1. CASE AddressBegins \/ AddressChanges \/ AddressPanics \/ AddressReturns
             \/ AddressLocks \/ AddressNotified
    BY <1>1, <2>1 DEF AddressBegins, AddressChanges, AddressPanics, AddressReturns,
       AddressLocks, AddressNotified
  <2>2. CASE StartStep \/ MasterStep \/ ManagerPanicStep \/ MasterEnds
    BY <1>1, <2>2 DEF StartStep, MasterStep, ManagerPanicStep, MasterEnds
  <2>3. CASE UNCHANGED vars
    BY <1>1, <2>3 DEF vars
  <2>4. QED
    BY <1>2, <1>3, <1>4, <1>5, <1>6, <1>7, <1>8, <1>9, <1>10, <1>11, <2>1, <2>2, <2>3
    DEF Next, HandlerSteps

LEMMA HandlerStep ==
    ASSUME TypeOK, HandlerInv, [Next]_vars
    PROVE  HandlerInv'
<1> USE DEF HandlerInv, Empty, routeDisk, diskVars
<1>0. ResourceTypeOK /\ Endpoints!EndpointTypeOK BY TypeParts
<1>1. ASSUME UNCHANGED <<resourceVars, endpointVars>>,
             \/ manager' = manager
             \/ manager = "new" /\ manager' \in {"started", "exited"}
             \/ manager = "started" /\ manager' = "ready"
             \/ manager = "ready" /\ manager' = "panicked"
      PROVE  HandlerInv'
  BY <1>1 DEF resourceVars, endpointVars, routeFile, Stored
<1>2. ASSUME Alive, pc = "idle", UNCHANGED resourceVars, manager' \in {"ready", "panicked"},
             phase' \in {"rest", "notify", "locked"} => ~needsReload' /\ opened' = {}
      PROVE  HandlerInv'
  BY <1>2 DEF resourceVars, routeFile, Stored, Alive
<1>3. CASE \/ AddressBegins \/ AddressChanges \/ AddressPanics \/ AddressNotified
           \/ \E k \in ServiceKey : AddressWrites(k) \/ AddressWithdraws(k)
  BY <1>2, <1>3 DEF AddressBegins, AddressChanges, AddressPanics, AddressNotified,
     AddressWrites, AddressWithdraws, nginxVars, Alive,
     Endpoints!Begins, Endpoints!Changes, Endpoints!Panics, Endpoints!Notified,
     Endpoints!Opens, Endpoints!Publishes, Endpoints!Skips, Endpoints!PublishFails,
     Endpoints!Withdraws, Endpoints!NotWriting, Endpoints!files
<1>4. CASE AddressReturns \/ AddressLocks
  BY <1>2, <1>4 DEF AddressReturns, AddressLocks, nginxVars, Alive,
     Endpoints!Returns, Endpoints!Locks, Endpoints!NotWriting, Endpoints!files,
     Nginx!ReloadSucceeds, ReloadFails, Nginx!ReloadFails, Nginx!ReloadBreaks
<1>5. ASSUME NEW batch \in SUBSET RouteKey, NEW backends \in [batch -> Backends],
             UpdateRoutes(batch, backends)
      PROVE  HandlerInv'
  <2>1. \A k \in ServiceKey : \A r \in serviceToRoutes'[k] :
            r \in RouteKey /\ r \notin batch /\ k \in routes[r].backends
    BY <1>0, <1>5 DEF UpdateRoutes, ResourceTypeOK, Stored
  <2>2. \A k \in ServiceKey : \A r \in serviceToRoutes'[k] : k \in routes'[r].backends
    BY <1>5, <2>1 DEF UpdateRoutes
  <2>3. QED
    BY <1>5, <2>2
    DEF UpdateRoutes, ResourceBegins, Alive, endpointVars, nginxVars, routeFile
<1>6. ASSUME NEW batch \in SUBSET RouteKey, RemoveRoutes(batch)
      PROVE  HandlerInv'
  <2>1. \A k \in ServiceKey : \A r \in serviceToRoutes'[k] :
            r \in RouteKey /\ r \notin batch /\ k \in routes[r].backends
    BY <1>0, <1>6 DEF RemoveRoutes, ResourceTypeOK, Stored
  <2>2. \A k \in ServiceKey : \A r \in serviceToRoutes'[k] : k \in routes'[r].backends
    BY <1>6, <2>1 DEF RemoveRoutes
  <2>3. QED
    BY <1>6, <2>2
    DEF RemoveRoutes, ResourceBegins, Alive, endpointVars, nginxVars, routeFile
<1>7. CASE OpenServerFile \/ WriteServerFile
  BY <1>7 DEF OpenServerFile, WriteServerFile, Alive, endpointVars, nginxVars, routeFile
<1>8. ASSUME NEW r \in RouteKey, GenerateRouteFile(r)
      PROVE  HandlerInv'
  BY <1>0, <1>8, GatewayAssumption
  DEF GenerateRouteFile, Alive, endpointVars, nginxVars, Stored
<1>9. ASSUME NEW k \in ServiceKey, CheckBackend(k)
      PROVE  HandlerInv'
  <2>1. \A s \in ServiceKey : \A r \in serviceToRoutes'[s] : k \in routes[writing].backends
            /\ (r \in serviceToRoutes[s] \/ (s = k /\ r = writing))
    BY <1>0, <1>9 DEF CheckBackend, ResourceTypeOK
  <2>2. phase' = phase /\ needsReload' = needsReload /\ opened' = {}
    BY <1>9 DEF CheckBackend, Endpoints!Ensures, Endpoints!EnsurePends, Endpoints!EnsureFails,
       Endpoints!Filled, Endpoints!NotFilled, Endpoints!NotWriting, Endpoints!files
  <2>3. QED BY <1>9, <2>1, <2>2 DEF CheckBackend, Alive, nginxVars, Stored
<1>10. ASSUME NEW k \in ServiceKey, OpenBackend(k)
       PROVE  HandlerInv'
  BY <1>10 DEF OpenBackend, Endpoints!EnsureOpens, Endpoints!Truncated, Alive, nginxVars,
     resourceVars, routeFile, Stored
<1>16. CASE OpenRouteFile \/ WriteRouteFile
  <2>1. opened = {} \/ phase \notin {"rest", "notify", "locked"}
    BY <1>16 DEF OpenRouteFile, WriteRouteFile
  <2>2. QED
    BY <1>16, <1>0, <2>1 DEF OpenRouteFile, WriteRouteFile, RouteFileEnds, Alive, endpointVars,
       nginxVars, Stored
<1>11. CASE ResourceReturns
  BY <1>11 DEF ResourceReturns, Alive, endpointVars, routeFile, Stored,
     Nginx!ReloadSucceeds, ReloadFails, Nginx!ReloadFails, Nginx!ReloadBreaks
<1>12. ASSUME NEW k \in ServiceKey, OnServiceAvailable(k)
       PROVE  HandlerInv'
  BY <1>12 DEF OnServiceAvailable, Endpoints!Notifies, Endpoints!NotWriting, Endpoints!files,
     Alive, nginxVars, routeFile, Stored
<1>13. CASE StartStep \/ MasterStep \/ ManagerPanicStep \/ MasterEnds
  BY <1>1, <1>13 DEF StartStep, MasterStep, ManagerPanicStep, MasterEnds, Starts,
     MasterReads, ManagerPanics, Nginx!Start, Nginx!StartFails, Nginx!StartReturns,
     Nginx!ReadBegins, Nginx!ReadUpstream, Nginx!ReadServer, Nginx!ReadRoute, Nginx!Adopts,
     Nginx!Rejects, Nginx!WaitPanics, Nginx!Ends
<1>14. CASE Restarts
  BY <1>14 DEF Restarts, Stored, Nginx!NginxRestarts
<1>15. CASE UNCHANGED vars
  BY <1>1, <1>15 DEF vars, nginxVars
<1>17. QED
  BY <1>3, <1>4, <1>5, <1>6, <1>7, <1>8, <1>9, <1>10, <1>11, <1>12, <1>13, <1>14, <1>15,
     <1>16
  DEF Next, HandlerSteps

-----------------------------------------------------------------------------
(* NGINX and the files *)

\* Nothing is left to reload, and NGINX accepts the files that are there.
Reloaded ==
    /\ pc = "idle" /\ ~needsReload /\ phase # "locked" /\ ~missed
    /\ Loadable
    /\ master \in {"starting", "running"}

\* What the master has read so far is still what is there.
Agrees ==
    /\ reading # NotRead
    /\ \A k \in ServiceKey :
          \/ reading.upstreams[k] = published[k]
          \/ reading.upstreams[k] = NotRead /\ published[k] # NoFile
    /\ \/ reading.locations = NotRead
       \/ /\ reading.locations # NotRead
          /\ DOMAIN reading.locations = served
          /\ \A r \in served : reading.locations[r] \in {NotRead, routeConf[r]}

\* NGINX runs the files, or is going to read what they are now.
Reads ==
    \/ hup
    \/ reading = NotRead /\ (running = Disk \/ master = "starting")
    \/ Agrees

FreshInv ==
    /\ manager = "new" => master = "none"
    /\ reading # NotRead => master \in {"starting", "running"}
    /\ Reloaded => Reads

LEMMA SameDisk == UNCHANGED Files => Disk' = Disk /\ CutShort' = CutShort /\ Loadable' = Loadable
<1> SUFFICES ASSUME UNCHANGED Files
             PROVE  Disk' = Disk /\ CutShort' = CutShort /\ Loadable' = Loadable
  OBVIOUS
<1>1. Disk' = Disk /\ CutShort' = CutShort
  BY DEF Files, Disk, Directory, Nginx!Configuration, CutShort
<1>2. QED BY <1>1 DEF Loadable, Accepted, Weighted

LEMMA SameReads ==
    ASSUME UNCHANGED Files, UNCHANGED <<master, running, reading, hup>>, Reads
    PROVE  Reads'
BY SameDisk DEF Reads, Agrees, Files

\* A master that goes on reading what does not change still agrees with it, and adopts it.
LEMMA ReadsOn ==
    ASSUME TypeOK, MasterReads, UNCHANGED Files, Reads, Loadable
    PROVE  Reads'
<1> USE DEF Directory
<1>0. /\ published \in [ServiceKey -> UpstreamFile] /\ served \in SUBSET RouteKey
      /\ routeConf \in [RouteKey -> RouteFile]
      /\ reading \in Nginx!PartsOf(ServiceKey, UpstreamFile, RouteKey, RouteFile) \cup {NotRead}
      /\ reading' \in Nginx!PartsOf(ServiceKey, UpstreamFile, RouteKey, RouteFile) \cup {NotRead}
  BY TypeParts, ReadsType
  DEF Endpoints!EndpointTypeOK, ResourceTypeOK, UpstreamFile, Nginx!NginxTypeOK
<1>1. Disk' = Disk BY SameDisk
<1>2. CASE Nginx!ReadBegins(Directory)
  <2> DEFINE u == [k \in ServiceKey |-> IF published[k] = NoFile THEN NoFile ELSE NotRead]
  <2>1. reading' = [upstreams |-> u, locations |-> NotRead]
    BY <1>0, <1>2 DEF Nginx!ReadBegins
  <2>2. reading' # NotRead
    <3>1. u \in [ServiceKey -> UpstreamFile \cup {NotRead}]
      BY DEF UpstreamFile
    <3>2. reading' \in Nginx!PartsOf(ServiceKey, UpstreamFile, RouteKey, RouteFile)
      BY <2>1, <3>1 DEF Nginx!PartsOf
    <3>3. QED BY <3>2, GatewayAssumption
  <2>3. QED BY <2>1, <2>2 DEF Reads, Agrees, Files
<1>3. CASE hup /\ ~Nginx!ReadBegins(Directory)
  BY <1>3 DEF Reads, MasterReads, Nginx!ReadUpstream, Nginx!ReadServer, Nginx!ReadRoute,
     Nginx!Adopts, Nginx!Rejects
<1>4. CASE ~hup /\ ~Nginx!ReadBegins(Directory)
  <2>1. reading # NotRead
    BY <1>4 DEF MasterReads, Nginx!ReadUpstream, Nginx!ReadServer, Nginx!ReadRoute,
       Nginx!Adopts, Nginx!Rejects, Nginx!AllRead, Nginx!ServerRead, Nginx!UpstreamsRead
  <2>2. Agrees /\ reading \in Nginx!PartsOf(ServiceKey, UpstreamFile, RouteKey, RouteFile)
    BY <1>0, <1>4, <2>1 DEF Reads
  <2>3. \A x \in Nginx!PartsOf(ServiceKey, UpstreamFile, RouteKey, RouteFile) : x # NotRead
    BY GatewayAssumption
  <2>4. ASSUME NEW k \in ServiceKey, Nginx!ReadUpstream(Directory, k)
        PROVE  Agrees'
    <3>1. /\ reading'.upstreams = [reading.upstreams EXCEPT ![k] = published[k]]
          /\ reading'.locations = reading.locations
          /\ reading' \in Nginx!PartsOf(ServiceKey, UpstreamFile, RouteKey, RouteFile)
      <4>1. reading' = [reading EXCEPT !.upstreams = [reading.upstreams EXCEPT ![k] = published[k]]]
        BY <2>2, <2>4 DEF Nginx!ReadUpstream, Nginx!PartsOf
      <4>2. [reading.upstreams EXCEPT ![k] = published[k]] \in [ServiceKey -> UpstreamFile \cup {NotRead}]
        BY <1>0, <2>2 DEF Nginx!PartsOf
      <4>3. QED BY <2>2, <4>1, <4>2 DEF Nginx!PartsOf
    <3>2. \A s \in ServiceKey : reading'.upstreams[s] =
              IF s = k THEN published[k] ELSE reading.upstreams[s]
      BY <2>2, <3>1 DEF Nginx!PartsOf
    <3>3. \A s \in ServiceKey :
              \/ reading'.upstreams[s] = published[s]
              \/ reading'.upstreams[s] = NotRead /\ published[s] # NoFile
      BY <2>2, <3>2 DEF Agrees
    <3>4. reading' # NotRead
      BY <2>3, <3>1
    <3>5. QED BY <2>2, <3>1, <3>3, <3>4 DEF Agrees, Files
  <2>5. CASE Nginx!ReadServer(Directory)
    <3> DEFINE new == [r \in served |-> NotRead]
    <3>1. reading'.upstreams = reading.upstreams /\ reading'.locations = new
      BY <2>2, <2>5 DEF Nginx!ReadServer, Nginx!PartsOf
    <3>2. new \in Nginx!LocationsOf(RouteKey, RouteFile \cup {NotRead})
      BY <1>0 DEF Nginx!LocationsOf
    <3>3. reading' # NotRead
      BY <1>0, <2>2, <2>3, <2>5, <3>2 DEF Nginx!ReadServer, Nginx!PartsOf
    <3>4. new # NotRead
      BY <3>2, GatewayAssumption
    <3>5. DOMAIN new = served /\ \A r \in served : new[r] = NotRead
      OBVIOUS
    <3> HIDE DEF new
    <3>6. \A k \in ServiceKey :
              \/ reading'.upstreams[k] = published'[k]
              \/ reading'.upstreams[k] = NotRead /\ published'[k] # NoFile
      BY <2>2, <3>1 DEF Agrees, Files
    <3>7. /\ DOMAIN reading'.locations = served'
          /\ \A r \in served' : reading'.locations[r] = NotRead
      BY <3>1, <3>5 DEF Files
    <3>8. QED BY <3>1, <3>3, <3>4, <3>6, <3>7 DEF Agrees, Reads
  <2>6. ASSUME NEW r \in RouteKey, Nginx!ReadRoute(Directory, r)
        PROVE  Agrees'
    <3> DEFINE new == [reading.locations EXCEPT ![r] = routeConf[r]]
    <3>1. PICK included \in SUBSET RouteKey :
              reading.locations \in [included -> RouteFile \cup {NotRead}]
      BY <2>2, <2>6 DEF Nginx!ReadRoute, Nginx!ServerRead, Nginx!PartsOf, Nginx!LocationsOf
    <3>2. r \in included /\ included = served
      BY <2>2, <2>6, <3>1 DEF Nginx!ReadRoute, Nginx!ServerRead, Agrees
    <3>3. new \in [included -> RouteFile \cup {NotRead}]
      BY <1>0, <3>1
    <3>4. new \in Nginx!LocationsOf(RouteKey, RouteFile \cup {NotRead})
      BY <3>3 DEF Nginx!LocationsOf
    <3>5. reading' = [reading EXCEPT !.locations = new]
      BY <2>2, <2>6 DEF Nginx!ReadRoute, Nginx!PartsOf
    <3>6. /\ reading'.upstreams = reading.upstreams /\ reading'.locations = new
          /\ reading' \in Nginx!PartsOf(ServiceKey, UpstreamFile, RouteKey, RouteFile)
      BY <2>2, <3>4, <3>5 DEF Nginx!PartsOf
    <3>7. \A q \in served : new[q] = IF q = r THEN routeConf[r] ELSE reading.locations[q]
      BY <3>1, <3>2
    <3>8. DOMAIN new = served /\ new # NotRead
      BY <3>1, <3>2, <3>4, GatewayAssumption
    <3>9. /\ \A q \in served : reading.locations[q] \in {NotRead, routeConf[q]}
          /\ \A k \in ServiceKey :
                \/ reading.upstreams[k] = published[k]
                \/ reading.upstreams[k] = NotRead /\ published[k] # NoFile
      BY <2>2, <2>6 DEF Agrees, Nginx!ReadRoute, Nginx!ServerRead
    <3>10. QED BY <2>3, <3>6, <3>7, <3>8, <3>9 DEF Agrees, Files
  <2>7. CASE Nginx!AllRead
    <3>1. reading.upstreams = published
      <4>1. \A k \in ServiceKey : reading.upstreams[k] = published[k]
        BY <2>2, <2>7 DEF Agrees, Nginx!AllRead, Nginx!ServerRead, Nginx!UpstreamsRead,
           Nginx!PartsOf
      <4>2. QED BY <1>0, <2>2, <4>1 DEF Nginx!PartsOf
    <3>2. reading.locations = [r \in served |-> routeConf[r]]
      <4>1. PICK included \in SUBSET RouteKey :
                reading.locations \in [included -> RouteFile \cup {NotRead}]
        BY <2>2, <2>7 DEF Nginx!AllRead, Nginx!ServerRead, Nginx!PartsOf, Nginx!LocationsOf
      <4>2. included = served /\ \A r \in served : reading.locations[r] = routeConf[r]
        BY <2>2, <2>7, <4>1 DEF Nginx!AllRead, Nginx!ServerRead, Agrees
      <4>3. QED BY <4>1, <4>2
    <3>3. reading = Disk
      BY <2>2, <3>1, <3>2 DEF Disk, Nginx!Configuration, Nginx!PartsOf
    <3>4. ~Nginx!Rejects(Directory, CutShort)
      <4>1. \A k \in ServiceKey : published[k] # NotRead
        BY <1>0, GatewayAssumption
      <4>2. DOMAIN Directory.upstreams = ServiceKey
        BY <1>0
      <4>3. QED BY <2>7, <3>1, <3>3, <4>1, <4>2 DEF Nginx!Rejects, Loadable
    <3>5. Nginx!Adopts => Reads'
      BY <1>1, <3>3 DEF Nginx!Adopts, Reads
    <3>6. QED BY <1>4, <2>4, <2>5, <2>6, <3>4, <3>5 DEF MasterReads, Reads
  <2>8. ~(~Nginx!AllRead /\ Nginx!Rejects(Directory, CutShort))
    <3>1. \A k \in ServiceKey : ~(reading.upstreams[k] = NotRead /\ published[k] = NoFile)
      BY <1>0, <2>2, GatewayAssumption DEF Agrees, UpstreamFile
    <3>2. QED BY <1>0, <3>1 DEF Nginx!Rejects, Loadable
  <2>9. QED
    BY <1>4, <2>4, <2>5, <2>6, <2>7, <2>8 DEF MasterReads, Nginx!Adopts, Reads
<1>5. QED BY <1>2, <1>3, <1>4

LEMMA FreshStep ==
    ASSUME TypeOK, HandlerInv, FreshInv, [Next]_vars
    PROVE  FreshInv'
<1> USE DEF FreshInv, routeDisk, diskVars
<1>1. ASSUME UNCHANGED <<master, running, reading, hup, missed>>,
             manager' = "new" => manager = "new",
             UNCHANGED Files, Reloaded' => Reloaded
      PROVE  FreshInv'
  BY <1>1, SameReads
<1>2. ASSUME UNCHANGED nginxVars, manager # "new", ~Reloaded'
      PROVE  FreshInv'
  BY <1>2 DEF nginxVars
<1>3. CASE AddressBegins \/ AddressChanges \/ AddressPanics \/ AddressNotified
           \/ \E k \in ServiceKey : OnServiceAvailable(k)
  <2>1. UNCHANGED <<Files, master, running, reading, hup, missed>>
    BY <1>3 DEF AddressBegins, AddressChanges, AddressPanics, AddressNotified,
       OnServiceAvailable, Endpoints!Begins, Endpoints!Changes, Endpoints!Panics,
       Endpoints!Notified, Endpoints!Notifies, Endpoints!files, Files, nginxVars, resourceVars
  <2>2. /\ manager' # "new" /\ phase # "locked" /\ pc = "idle"
        /\ needsReload => needsReload'
    BY <1>3 DEF AddressBegins, AddressChanges, AddressPanics, AddressNotified, Alive,
       OnServiceAvailable, Endpoints!Begins, Endpoints!Changes, Endpoints!Panics,
       Endpoints!Notified, Endpoints!Notifies, nginxVars, HandlerInv
  <2>3. Reloaded' => Reloaded
    BY <2>1, <2>2, SameDisk DEF Reloaded
  <2>4. QED BY <1>1, <2>1, <2>2, <2>3
<1>4. ASSUME NEW k \in ServiceKey, AddressWrites(k) \/ AddressWithdraws(k)
      PROVE  FreshInv'
  <2>1. CASE needsReload' \/ CutShort'
    BY <1>2, <1>4, <2>1 DEF AddressWrites, AddressWithdraws, Reloaded, Loadable, Alive
  <2>2. CASE Endpoints!Opens(k)
    <3>1. [servers |-> {}] # NoFile
      BY GatewayAssumption
    <3>2. published'[k] = [servers |-> {}]
      BY <2>2, TypeParts DEF Endpoints!Opens, Endpoints!Truncated, Endpoints!EndpointTypeOK
    <3>3. CutShort'
      BY <3>1, <3>2 DEF CutShort
    <3>4. QED BY <2>1, <3>3
  <2>3. CASE Endpoints!PublishFails(k)
    <3>1. /\ UNCHANGED <<Files, master, running, reading, hup, missed, manager, pc>>
          /\ UNCHANGED <<needsReload, phase>>
      BY <1>4, <2>3 DEF AddressWrites, AddressWithdraws, Endpoints!PublishFails,
         Endpoints!NotFilled, Files, nginxVars, resourceVars
    <3>2. Reloaded' => Reloaded
      BY <3>1, SameDisk DEF Reloaded
    <3>3. QED BY <1>1, <3>1, <3>2
  <2>4. QED
    BY <1>4, <2>1, <2>2, <2>3 DEF AddressWrites, AddressWithdraws, Endpoints!Publishes,
       Endpoints!Skips, Endpoints!Withdraws
<1>5. CASE AddressReturns \/ AddressLocks \/ ResourceReturns
  <2>1. UNCHANGED Files /\ manager # "new" /\ manager' = manager
    BY <1>5 DEF AddressReturns, AddressLocks, ResourceReturns, Alive, Endpoints!Returns,
       Endpoints!Locks, Endpoints!files, endpointVars, resourceVars, Files, nginxVars,
       Nginx!ReloadSucceeds, ReloadFails, Nginx!ReloadFails, Nginx!ReloadBreaks
  <2>2. CASE Nginx!ReloadSucceeds(Directory)
    BY <2>1, <2>2 DEF Nginx!ReloadSucceeds, Reads
  <2>3. CASE ReloadFails
    BY <2>1, <2>3, SameDisk
    DEF ReloadFails, Nginx!ReloadFails, Nginx!ReloadBreaks, Reloaded, Loadable, Disk
  <2>4. CASE AddressReturns /\ ~needsReload /\ UNCHANGED nginxVars
    <3>1. Reloaded' => Reloaded
      BY <2>1, <2>4, SameDisk DEF AddressReturns, Endpoints!Returns, Reloaded, nginxVars
    <3>2. QED BY <1>1, <2>1, <2>4, <3>1 DEF nginxVars
  <2>5. QED
    BY <1>5, <2>2, <2>3, <2>4 DEF AddressReturns, AddressLocks, ResourceReturns
<1>6. ASSUME \/ OpenServerFile \/ WriteServerFile \/ OpenRouteFile \/ WriteRouteFile
             \/ \E batch \in SUBSET RouteKey :
                   \/ \E backends \in [batch -> Backends] : UpdateRoutes(batch, backends)
                   \/ RemoveRoutes(batch)
             \/ \E r \in RouteKey : GenerateRouteFile(r)
             \/ \E k \in ServiceKey : OpenBackend(k) \/ CheckBackend(k)
      PROVE  FreshInv'
  <2>1. pc' # "idle" /\ UNCHANGED nginxVars /\ manager # "new"
    BY <1>6 DEF OpenServerFile, WriteServerFile, OpenRouteFile, WriteRouteFile,
       RouteFileEnds, UpdateRoutes, RemoveRoutes, GenerateRouteFile, OpenBackend,
       CheckBackend, ResourceBegins, Alive, HandlerInv, resourceVars
  <2>2. QED BY <1>2, <2>1 DEF Reloaded
<1>7. CASE StartStep \/ MasterStep \/ ManagerPanicStep
  <2>1. UNCHANGED <<Files, pc, needsReload, phase>>
    BY <1>7 DEF StartStep, MasterStep, ManagerPanicStep, endpointVars, resourceVars, Files
  <2>2. CASE Nginx!Start(Directory, CutShort) \/ Nginx!StartFails
    BY <2>1, <2>2 DEF Nginx!Start, Nginx!StartFails, Reads, Reloaded
  <2>3. CASE Nginx!StartReturns \/ Nginx!WaitPanics
    <3>1. Reloaded' => Reloaded
      BY <2>1, <2>3, SameDisk DEF Nginx!StartReturns, Nginx!WaitPanics, Reloaded
    <3>2. QED BY <1>1, <2>1, <2>3, <3>1 DEF Nginx!StartReturns, Nginx!WaitPanics
  <2>4. CASE MasterReads
    <3>1. /\ manager' = manager /\ missed' = missed
          /\ reading' # NotRead => master' \in {"starting", "running"}
          /\ manager = "new" => FALSE
          /\ master' = "running" => master \in {"starting", "running"}
          /\ master' = "starting" => master = "starting"
      BY <2>4 DEF MasterReads, Nginx!ReadBegins, Nginx!ReadUpstream, Nginx!ReadServer,
         Nginx!ReadRoute, Nginx!Adopts, Nginx!Rejects, Nginx!AllRead, Nginx!ServerRead,
         Nginx!UpstreamsRead
    <3>2. Reloaded' => Reloaded
      BY <2>1, <3>1, SameDisk DEF Reloaded
    <3>3. Reloaded => Reads'
      BY <2>1, <2>4, ReadsOn DEF Reloaded
    <3>4. QED BY <3>1, <3>2, <3>3
  <2>5. QED
    BY <1>7, <2>2, <2>3, <2>4
    DEF StartStep, Starts, MasterStep, ManagerPanicStep, ManagerPanics
<1>8. CASE MasterEnds \/ Restarts
  BY <1>8 DEF MasterEnds, Nginx!Ends, Restarts, Nginx!NginxRestarts, Reloaded
<1>9. CASE UNCHANGED vars
  <2>1. Reloaded' => Reloaded
    BY <1>9, SameDisk
    DEF vars, endpointVars, nginxVars, resourceVars, Files, Reloaded
  <2>2. QED BY <1>1, <1>9, <2>1 DEF vars, endpointVars, nginxVars, resourceVars, Files
<1>10. QED
  BY <1>3, <1>4, <1>5, <1>6, <1>7, <1>8, <1>9 DEF Next, HandlerSteps

-----------------------------------------------------------------------------
(* References between files *)

\* NGINX finds the upstream, or the AddressStore has not kept it.
Defined(k) == k \in orphans \/ HasServers(published[k])

\* Location files and their backends refer to what is there or is being written.
ResolvedInv ==
    /\ \A k \in ServiceKey : published[k] # NoFile => Defined(k)
    /\ \A k \in valid : Defined(k)
    /\ \A r \in RouteKey :
          routeConf[r] # NoFile => \A k \in routeConf[r].backends : Defined(k)
    /\ manager \in {"started", "ready"} =>
          \A r \in Stored \cup served :
              routeConf[r] # NoFile \/ r \in affectedRoutes \/ r = writing \/ r \in damaged
    /\ pc = "routefile" => routeConf[writing] # NoFile

\* A call that touches an upstream file leaves the upstream defined, or an orphan.
LEMMA UpstreamStep ==
    ASSUME TypeOK, NEW k \in ServiceKey,
           AddressWrites(k) \/ AddressWithdraws(k) \/ OpenBackend(k) \/ CheckBackend(k)
    PROVE  /\ \A s \in ServiceKey : s # k =>
                 Defined(s)' = Defined(s) /\ published'[s] = published[s]
           /\ Defined(k)' \/ UNCHANGED <<published, orphans, valid>>
<1>0. Endpoints!EndpointTypeOK BY TypeParts
<1>1. \A s \in ServiceKey : s # k =>
          published'[s] = published[s] /\ (s \in orphans' <=> s \in orphans)
  <2>1. \/ UNCHANGED published
        \/ \E file : published' = [published EXCEPT ![k] = file]
    BY DEF AddressWrites, AddressWithdraws, OpenBackend, CheckBackend, Endpoints!Opens,
       Endpoints!Publishes, Endpoints!Skips, Endpoints!PublishFails, Endpoints!Withdraws,
       Endpoints!EnsureOpens, Endpoints!Ensures, Endpoints!EnsurePends,
       Endpoints!EnsureFails, Endpoints!Truncated, Endpoints!Filled, Endpoints!NotFilled,
       Endpoints!Deleted, Endpoints!files
  <2>2. orphans' \in {orphans, orphans \cup {k}, orphans \ {k}}
    BY DEF AddressWrites, AddressWithdraws, OpenBackend, CheckBackend, Notes
  <2>3. QED BY <1>0, <2>1, <2>2 DEF Endpoints!EndpointTypeOK
<1>2. \A s \in ServiceKey : s # k => Defined(s)' = Defined(s)
  BY <1>1 DEF Defined, HasServers
<1>3. Notes(k) => Defined(k)'
  BY DEF Notes, Defined
<1>4. Notes(k) \/ UNCHANGED <<published, orphans, valid>>
  BY DEF AddressWrites, AddressWithdraws, OpenBackend, CheckBackend, Endpoints!Skips,
     Endpoints!EnsurePends, Endpoints!files, resourceVars, routeFile
<1>5. QED BY <1>1, <1>2, <1>3, <1>4

LEMMA ResolvedStep ==
    ASSUME TypeOK, HandlerInv, ResolvedInv, [Next]_vars
    PROVE  ResolvedInv'
<1> USE DEF routeDisk, diskVars
<1>0. Endpoints!EndpointTypeOK /\ ResourceTypeOK BY TypeParts
<1>1. ASSUME UNCHANGED <<published, orphans>>
      PROVE  \A k : Defined(k)' = Defined(k)
  BY <1>1 DEF Defined, HasServers
<1>2. ASSUME UNCHANGED <<published, orphans, valid, routeConf, damaged, served, routes>>,
             UNCHANGED <<affectedRoutes, writing>>, pc' = "routefile" => pc = "routefile",
             manager' \in {"started", "ready"} => manager \in {"started", "ready"}
      PROVE  ResolvedInv'
  <2>1. Stored' = Stored
    BY <1>2 DEF Stored
  <2>2. QED BY <1>1, <1>2, <2>1 DEF ResolvedInv
<1>3. CASE AddressBegins \/ AddressChanges \/ AddressPanics \/ AddressReturns
           \/ AddressLocks \/ AddressNotified
  BY <1>2, <1>3 DEF AddressBegins, AddressChanges, AddressPanics, AddressReturns,
     AddressLocks, AddressNotified, resourceVars, routeFile, nginxVars,
     Endpoints!Begins, Endpoints!Changes, Endpoints!Panics, Endpoints!Returns,
     Endpoints!Locks, Endpoints!Notified, Endpoints!files,
     Nginx!ReloadSucceeds, ReloadFails, Nginx!ReloadFails, Nginx!ReloadBreaks
<1>4. ASSUME NEW k \in ServiceKey,
             AddressWrites(k) \/ AddressWithdraws(k) \/ OpenBackend(k) \/ CheckBackend(k)
      PROVE  ResolvedInv'
  <2>1. \A s \in ServiceKey : Defined(s) => Defined(s)'
    BY <1>1, <1>4, UpstreamStep
  <2>2. \A s \in ServiceKey : published'[s] # NoFile => Defined(s)'
    BY <2>1, <1>4, UpstreamStep DEF ResolvedInv
  <2>3. valid' \subseteq valid \cup {k} /\ valid \subseteq ServiceKey
    BY <1>0, <1>4 DEF AddressWrites, AddressWithdraws, OpenBackend, CheckBackend,
       resourceVars, routeFile, ResourceTypeOK
  <2>4. \A s \in valid' : Defined(s)'
    BY <2>1, <2>3, <1>4, UpstreamStep DEF ResolvedInv
  <2>5. /\ UNCHANGED <<routeConf, damaged, served, routes, affectedRoutes, writing, manager, pc>>
        /\ Stored' = Stored
    BY <1>4 DEF AddressWrites, AddressWithdraws, OpenBackend, CheckBackend, resourceVars,
       routeFile, nginxVars, Stored
  <2>6. \A r \in RouteKey : routeConf[r] # NoFile => routeConf[r].backends \subseteq ServiceKey
    BY <1>0 DEF ResourceTypeOK, RouteFile, Backends
  <2>7. QED BY <2>1, <2>2, <2>4, <2>5, <2>6 DEF ResolvedInv
<1>5. ASSUME NEW batch \in SUBSET RouteKey,
             \/ \E backends \in [batch -> Backends] : UpdateRoutes(batch, backends)
             \/ RemoveRoutes(batch)
      PROVE  ResolvedInv'
  <2>1. /\ UNCHANGED <<published, orphans, valid, routeConf, damaged, served, writing, manager>>
        /\ pc' = "server"
    BY <1>5 DEF UpdateRoutes, RemoveRoutes, endpointVars, nginxVars, routeFile
  <2>2. affectedRoutes = {} /\ Stored' \ affectedRoutes' \subseteq Stored
    BY <1>5 DEF UpdateRoutes, RemoveRoutes, ResourceBegins, HandlerInv, Stored
  <2>3. QED BY <1>1, <2>1, <2>2 DEF ResolvedInv
<1>6. CASE OpenServerFile \/ WriteServerFile
  <2>1. /\ UNCHANGED <<published, orphans, valid, routeConf, damaged, affectedRoutes, writing>>
        /\ UNCHANGED manager /\ Stored' = Stored /\ pc' # "routefile"
        /\ served' \subseteq served \cup Stored
    BY <1>6 DEF OpenServerFile, WriteServerFile, endpointVars, nginxVars, routeFile,
       RoutesIncluded, Stored
  <2>2. QED BY <1>1, <2>1 DEF ResolvedInv
<1>7. ASSUME NEW r \in RouteKey, GenerateRouteFile(r)
      PROVE  ResolvedInv'
  <2>1. /\ UNCHANGED <<published, orphans, routeConf, served, damaged, manager, pc>>
        /\ Stored' = Stored /\ valid' = {} /\ pc = "routes"
        /\ affectedRoutes' = affectedRoutes \ {r} /\ writing' = r /\ writing = NoRoute
    BY <1>7 DEF GenerateRouteFile, endpointVars, nginxVars, Stored
  <2>2. \A q \in Stored \cup served : q # NoRoute
    BY <1>0, GatewayAssumption DEF Stored, ResourceTypeOK
  <2>3. QED BY <1>1, <2>1, <2>2 DEF ResolvedInv
<1>8. CASE OpenRouteFile \/ WriteRouteFile
  <2>1. /\ UNCHANGED <<published, orphans, served, affectedRoutes, manager>>
        /\ Stored' = Stored /\ valid' \subseteq valid
        /\ writing \in RouteKey /\ writing # NoRoute
        /\ writing' = writing \/ (writing' = NoRoute /\ pc' # "routefile")
    BY <1>0, <1>8, GatewayAssumption
    DEF OpenRouteFile, WriteRouteFile, RouteFileEnds, endpointVars, nginxVars, Stored,
       HandlerInv
  <2>2. \A backends \in SUBSET ServiceKey : [backends |-> backends] # NoFile
    BY GatewayAssumption DEF Backends
  <2>3. \/ routeConf' = routeConf
        \/ \E backends \in SUBSET valid :
              routeConf' = [routeConf EXCEPT ![writing] = [backends |-> backends]]
    BY <1>8 DEF OpenRouteFile, WriteRouteFile
  <2>4. /\ \A r \in RouteKey : r # writing => routeConf'[r] = routeConf[r]
        /\ \/ routeConf' = routeConf
           \/ /\ routeConf'[writing] # NoFile
              /\ routeConf'[writing].backends \subseteq valid
    BY <1>0, <2>1, <2>2, <2>3 DEF ResourceTypeOK
  <2>5. /\ \A r \in damaged : r # writing => r \in damaged'
        /\ routeConf'[writing] # NoFile \/ writing \in damaged'
        /\ pc' = "routefile" => routeConf'[writing] # NoFile
    <3>1. CASE routeConf' = routeConf
      BY <1>8, <3>1, <2>1, <2>2, <1>0
      DEF OpenRouteFile, WriteRouteFile, RouteFileEnds, ResolvedInv, ResourceTypeOK
    <3>2. CASE routeConf' # routeConf
      BY <1>8, <2>4, <3>2 DEF OpenRouteFile, WriteRouteFile
    <3>3. QED BY <3>1, <3>2
  <2>6. \A r \in Stored \cup served : r \in RouteKey
    BY <1>0 DEF Stored, ResourceTypeOK
  <2>7. \A r \in RouteKey : routeConf'[r] # NoFile =>
            \A k \in routeConf'[r].backends : Defined(k)'
    BY <1>1, <2>1, <2>4 DEF ResolvedInv
  <2>8. manager' \in {"started", "ready"} =>
            \A r \in Stored' \cup served' :
                \/ routeConf'[r] # NoFile \/ r \in affectedRoutes'
                \/ r = writing' \/ r \in damaged'
    BY <2>1, <2>4, <2>5, <2>6 DEF ResolvedInv
  <2>9. pc' = "routefile" => routeConf'[writing'] # NoFile
    BY <2>1, <2>5
  <2>10. QED BY <1>1, <2>1, <2>7, <2>8, <2>9 DEF ResolvedInv
<1>9. ASSUME NEW k \in ServiceKey, OnServiceAvailable(k)
      PROVE  ResolvedInv'
  <2>1. /\ UNCHANGED <<published, orphans, valid, routeConf, damaged, served, writing, manager>>
        /\ Stored' = Stored /\ affectedRoutes = {} /\ pc' # "routefile"
    BY <1>9 DEF OnServiceAvailable, Endpoints!Notifies, Endpoints!files, nginxVars,
       routeFile, Stored, HandlerInv
  <2>2. QED BY <1>1, <2>1 DEF ResolvedInv
<1>10. CASE ResourceReturns
  BY <1>2, <1>10 DEF ResourceReturns, endpointVars, routeFile,
     Nginx!ReloadSucceeds, ReloadFails, Nginx!ReloadFails, Nginx!ReloadBreaks
<1>11. CASE StartStep \/ MasterStep \/ ManagerPanicStep \/ MasterEnds
  <2>1. UNCHANGED <<endpointVars, resourceVars, orphans>>
    BY <1>11 DEF StartStep, MasterStep, ManagerPanicStep, MasterEnds
  <2>2. CASE manager' = "started" /\ manager = "new"
    <3>1. Stored = {} /\ Accepted(Disk)
      BY <1>11, <2>2 DEF StartStep, Starts, MasterStep, MasterReads, ManagerPanicStep,
         ManagerPanics, MasterEnds, Nginx!Start, Nginx!StartFails, Nginx!StartReturns,
         Nginx!ReadBegins, Nginx!ReadUpstream, Nginx!ReadServer, Nginx!ReadRoute,
         Nginx!Adopts, Nginx!Rejects, Nginx!WaitPanics, Nginx!Ends, Disk, HandlerInv, Empty
    <3>2. \A r \in served : routeConf[r] # NoFile
      BY <3>1 DEF Accepted, Disk, Directory, Nginx!Configuration
    <3>3. UNCHANGED <<published, orphans, valid, routeConf, damaged, served, affectedRoutes,
                      writing, pc>> /\ Stored' = Stored
      BY <2>1 DEF endpointVars, resourceVars, routeFile, Stored
    <3>4. QED BY <1>1, <3>1, <3>2, <3>3 DEF ResolvedInv
  <2>3. CASE ~(manager' = "started" /\ manager = "new")
    <3>1. manager' \in {"started", "ready"} => manager \in {"started", "ready"}
      BY <1>11, <2>3 DEF StartStep, Starts, MasterStep, MasterReads, ManagerPanicStep,
         ManagerPanics, MasterEnds, Nginx!Start, Nginx!StartFails, Nginx!StartReturns,
         Nginx!ReadBegins, Nginx!ReadUpstream, Nginx!ReadServer, Nginx!ReadRoute,
         Nginx!Adopts, Nginx!Rejects, Nginx!WaitPanics, Nginx!Ends
    <3>2. QED BY <1>2, <2>1, <3>1 DEF endpointVars, resourceVars, routeFile
  <2>4. QED BY <2>2, <2>3
<1>12. CASE Restarts
  <2>1. manager' = "new" /\ valid' = {} /\ pc' = "idle"
    BY <1>12 DEF Restarts, Nginx!NginxRestarts
  <2>2. CASE UNCHANGED <<published, diskVars>>
    BY <1>1, <2>1, <2>2 DEF ResolvedInv
  <2>3. CASE /\ published' = [k \in ServiceKey |-> NoFile]
             /\ routeConf' = [r \in RouteKey |-> NoFile]
    BY <2>1, <2>3 DEF ResolvedInv
  <2>4. QED BY <1>12, <2>2, <2>3 DEF Restarts
<1>13. CASE UNCHANGED vars
  BY <1>2, <1>13 DEF vars, endpointVars, resourceVars, routeFile, nginxVars
<1>14. QED
  BY <1>3, <1>4, <1>5, <1>6, <1>7, <1>8, <1>9, <1>10, <1>11, <1>12, <1>13
  DEF Next, HandlerSteps

-----------------------------------------------------------------------------
(* What the AddressStore owes its callers between its calls *)

EndpointInv ==
    /\ \A k \in ServiceKey : live[k] # {} => k \in listed
    /\ phase \in {"rest", "notify", "locked"} => Endpoints!Settled
    /\ phase # "remove" => lost = {}

LEMMA EndpointInvStep ==
    ASSUME Endpoints!EndpointTypeOK, EndpointInv, [Endpoints!EndpointNext]_endpointVars
    PROVE  EndpointInv'
<1> USE DEF EndpointInv, Endpoints!Settled, Endpoints!Current
<1>1. CASE UNCHANGED endpointVars
  BY <1>1 DEF endpointVars
<1>2. CASE Endpoints!Begins \/ Endpoints!Changes \/ Endpoints!Panics
  BY <1>2 DEF Endpoints!Begins, Endpoints!Changes, Endpoints!Panics
<1>3. CASE Endpoints!Returns \/ Endpoints!Locks \/ Endpoints!Notified
  BY <1>3 DEF Endpoints!Returns, Endpoints!Locks, Endpoints!Notified, Endpoints!files
<1>4. ASSUME NEW k \in ServiceKey,
             \/ Endpoints!Opens(k) \/ Endpoints!Publishes(k) \/ Endpoints!Skips(k)
             \/ Endpoints!PublishFails(k) \/ Endpoints!Withdraws(k)
      PROVE  EndpointInv'
  BY <1>4 DEF Endpoints!Opens, Endpoints!Publishes, Endpoints!Skips,
     Endpoints!PublishFails, Endpoints!Withdraws
<1>5. ASSUME NEW k \in ServiceKey, Endpoints!Notifies(k) \/ Endpoints!EnsurePends(k)
      PROVE  EndpointInv'
  BY <1>5 DEF Endpoints!Notifies, Endpoints!EnsurePends, Endpoints!files
<1>6. ASSUME NEW k \in ServiceKey,
             Endpoints!EnsureOpens(k) \/ Endpoints!Ensures(k) \/ Endpoints!EnsureFails(k)
      PROVE  EndpointInv'
  <2>1. UNCHANGED <<phase, live, listed, lost>> /\ used' = used \cup {k}
    BY <1>6 DEF Endpoints!EnsureOpens, Endpoints!Ensures, Endpoints!EnsureFails
  <2>2. /\ phase \in {"rest", "notify"}
        /\ \A s \in ServiceKey : s # k =>
              published'[s] = published[s] /\ (s \in failed' <=> s \in failed)
    BY <1>6 DEF Endpoints!EnsureOpens, Endpoints!Ensures, Endpoints!EnsureFails,
       Endpoints!Unlocked, Endpoints!Truncated, Endpoints!Filled, Endpoints!NotFilled,
       Endpoints!files, Endpoints!EndpointTypeOK
  <2>3. k \in failed' \/ Endpoints!Current(k)'
    <3>1. CASE Endpoints!Filled(k)
      <4>1. PICK servers \in (SUBSET Endpoint) \ {{}} :
                /\ live[k] \subseteq servers
                /\ published' = [published EXCEPT ![k] = [servers |-> servers]]
        BY <3>1 DEF Endpoints!Filled
      <4>2. published'[k] = [servers |-> servers]
        BY <4>1 DEF Endpoints!EndpointTypeOK
      <4>3. [servers |-> servers] \in [servers : SUBSET Endpoint]
        OBVIOUS
      <4>4. QED BY <2>1, <4>1, <4>2, <4>3, GatewayAssumption
    <3>2. CASE ~Endpoints!Filled(k)
      BY <1>6, <2>1, <3>2 DEF Endpoints!EnsureOpens, Endpoints!Ensures, Endpoints!EnsureFails,
         Endpoints!Truncated, Endpoints!NotFilled
    <3>3. QED BY <3>1, <3>2
  <2>4. \A s \in used' : s \in ServiceKey
    BY <2>1 DEF Endpoints!EndpointTypeOK
  <2>5. QED BY <2>1, <2>2, <2>3, <2>4
<1>7. QED BY <1>1, <1>2, <1>3, <1>4, <1>5, <1>6 DEF Endpoints!EndpointNext

-----------------------------------------------------------------------------
(* What the server file includes while nothing failed *)

\* The routes that the server file is to include: not those that Update has just
\* stored, before it generates the file, and none while it is being written.
Included ==
    IF pc = "server" THEN Stored \ affectedRoutes
    ELSE IF pc = "serverfile" THEN {} ELSE Stored

IncludedInv ==
    /\ failures \in Nat
    /\ failures = 0 => failed \subseteq opened
    /\ (failures = 0 /\ manager = "ready") => Included \subseteq served

LEMMA IncludedStep ==
    ASSUME TypeOK, HandlerInv, IncludedInv, [Next]_vars
    PROVE  IncludedInv'
<1> USE DEF IncludedInv, routeDisk, diskVars
<1>1. ASSUME UNCHANGED <<failures, served>>, failed' \subseteq opened' \/ UNCHANGED <<failed, opened>>,
             Included' \subseteq Included,
             manager' = "ready" => manager = "ready" \/ Included = {}
      PROVE  IncludedInv'
  BY <1>1
<1>2. CASE AddressBegins \/ AddressChanges \/ AddressPanics \/ AddressReturns
           \/ AddressLocks \/ AddressNotified
  BY <1>1, <1>2 DEF AddressBegins, AddressChanges, AddressPanics, AddressReturns,
     AddressLocks, AddressNotified, resourceVars, bounds, nginxVars, Stored, Included, Event, Ends,
     Endpoints!Begins, Endpoints!Changes, Endpoints!Panics, Endpoints!Returns,
     Endpoints!Locks, Endpoints!Notified, Endpoints!files,
     Nginx!ReloadSucceeds, ReloadFails, Nginx!ReloadFails, Nginx!ReloadBreaks
<1>3. ASSUME NEW k \in ServiceKey,
             \/ AddressWrites(k) \/ AddressWithdraws(k) \/ OnServiceAvailable(k)
             \/ OpenBackend(k) \/ CheckBackend(k)
      PROVE  IncludedInv'
  <2>1. UNCHANGED <<manager, served>> /\ Included' = Included
    BY <1>3 DEF AddressWrites, AddressWithdraws, OpenBackend, CheckBackend,
       OnServiceAvailable, resourceVars, nginxVars, Stored, Included, HandlerInv
  <2>2. \/ failures' = failures + 1
        \/ failures' = failures /\ (failed \subseteq opened => failed' \subseteq opened')
    BY <1>3 DEF AddressWrites, AddressWithdraws, OpenBackend, CheckBackend,
       OnServiceAvailable, Fails, bounds, Endpoints!Opens, Endpoints!Publishes,
       Endpoints!Skips, Endpoints!PublishFails, Endpoints!Withdraws, Endpoints!Notifies,
       Endpoints!EnsureOpens, Endpoints!Ensures, Endpoints!EnsurePends,
       Endpoints!EnsureFails, Endpoints!Truncated, Endpoints!Filled, Endpoints!Deleted,
       Endpoints!NotWriting, Endpoints!files
  <2>3. failures' \in Nat /\ (failures' = 0 => failures = 0 /\ failed' \subseteq opened')
    BY <2>2
  <2>4. QED BY <2>1, <2>3
<1>4. CASE \/ \E batch \in SUBSET RouteKey :
                 \/ \E backends \in [batch -> Backends] : UpdateRoutes(batch, backends)
                 \/ RemoveRoutes(batch)
           \/ \E r \in RouteKey : GenerateRouteFile(r)
  <2>1. UNCHANGED <<failures, served, failed, opened, manager>>
    BY <1>4 DEF UpdateRoutes, RemoveRoutes, GenerateRouteFile, ResourceBegins, Event,
       endpointVars, nginxVars, bounds
  <2>2. ASSUME NEW batch \in SUBSET RouteKey,
               \/ \E backends \in [batch -> Backends] : UpdateRoutes(batch, backends)
               \/ RemoveRoutes(batch)
        PROVE  Included' \subseteq Included
    <3>1. pc = "idle" /\ Included = Stored /\ Included' = Stored' \ affectedRoutes'
      BY <2>2 DEF UpdateRoutes, RemoveRoutes, ResourceBegins, Included
    <3>2. \A r \in Stored' \ affectedRoutes' : r \in Stored
      BY <2>2 DEF UpdateRoutes, RemoveRoutes, Stored
    <3>3. QED BY <3>1, <3>2
  <2>3. ASSUME NEW r \in RouteKey, GenerateRouteFile(r)
        PROVE  Included' \subseteq Included
    BY <2>3 DEF GenerateRouteFile, Included, Stored
  <2>4. QED BY <1>1, <1>4, <2>1, <2>2, <2>3
<1>5. CASE OpenServerFile \/ WriteServerFile \/ OpenRouteFile \/ WriteRouteFile
  <2>1. /\ UNCHANGED <<failed, opened, manager>>
        /\ \/ failures' = failures + 1
           \/ /\ UNCHANGED failures
              /\ \/ Included' \subseteq served'
                 \/ Included' = Included /\ served' = served
    BY <1>5 DEF OpenServerFile, WriteServerFile, OpenRouteFile, WriteRouteFile,
       RouteFileEnds, RoutesIncluded, Fails, bounds, endpointVars, nginxVars, Stored,
       Included, HandlerInv
  <2>2. failures' \in Nat /\ (failures' = 0 => failures = 0)
    BY <2>1
  <2>3. QED BY <2>1, <2>2
<1>6. CASE ResourceReturns
  <2>1. /\ UNCHANGED <<failures, served, failed, opened, manager>>
        /\ Included' \subseteq Included
    BY <1>6 DEF ResourceReturns, endpointVars, bounds, Stored, Included, Ends,
       Nginx!ReloadSucceeds, ReloadFails, Nginx!ReloadFails, Nginx!ReloadBreaks
  <2>2. QED BY <1>1, <2>1
<1>7. CASE StartStep \/ MasterStep \/ ManagerPanicStep \/ MasterEnds
  <2>1. UNCHANGED <<failures, served, failed, opened>> /\ Included' = Included
    BY <1>7 DEF StartStep, Starts, MasterStep, ManagerPanicStep, MasterEnds, Ends,
       endpointVars, resourceVars, bounds, Stored, Included
  <2>2. manager' = "ready" => manager = "ready" \/ Included = {}
    BY <1>7 DEF StartStep, MasterStep, ManagerPanicStep, MasterEnds, Starts, MasterReads,
       ManagerPanics, Nginx!Start, Nginx!StartFails, Nginx!StartReturns, Nginx!ReadBegins,
       Nginx!ReadUpstream, Nginx!ReadServer, Nginx!ReadRoute, Nginx!Adopts, Nginx!Rejects,
       Nginx!WaitPanics, Nginx!Ends, HandlerInv, Empty, Included
  <2>3. QED BY <1>1, <2>1, <2>2
<1>8. CASE Restarts
  BY <1>8 DEF Restarts, Nginx!NginxRestarts, Event
<1>9. CASE UNCHANGED vars
  BY <1>1, <1>9 DEF vars, endpointVars, resourceVars, nginxVars, bounds, Stored, Included
<1>10. QED
  BY <1>2, <1>3, <1>4, <1>5, <1>6, <1>7, <1>8, <1>9 DEF Next, HandlerSteps

-----------------------------------------------------------------------------
(* Where each stored route finds each of its backends while nothing failed *)

\* The route file that is there, or is being put together, has the backend.
Holds(r, k) ==
    IF r = writing THEN k \in valid
    ELSE routeConf[r] # NoFile /\ k \in routeConf[r].backends

\* The handler that runs is still going to look at it.
Regenerates(r, k) == r \in affectedRoutes \/ (r = writing /\ k \in unchecked)

\* The AddressStore calls back for k, or never does again: its lock has leaked, or its
\* handler has panicked.
Calls(k) ==
    \/ phase \in {"locked", "crashed"}
    \/ k \in announced /\ phase \in {"update", "notify"}

\* What Remove takes from a service leaves the routes that have it their backend; a
\* service that is not held may only be missing until the store calls back.
Placed(r, k) ==
    /\ k \in lost => Holds(r, k)
    /\ \/ Regenerates(r, k)
       \/ /\ r \in serviceToRoutes[k]
          /\ Holds(r, k) \/ (k \in used /\ (k \in listed => Calls(k)))

PlacedInv == failures = 0 => \A r \in Stored : \A k \in routes[r].backends : Placed(r, k)

LEMMA PlacedStep ==
    ASSUME TypeOK, HandlerInv, EndpointInv, IncludedInv, PlacedInv, [Next]_vars
    PROVE  PlacedInv'
<1> USE DEF routeDisk, diskVars
<1>0. ResourceTypeOK /\ Endpoints!EndpointTypeOK BY TypeParts
<1>a. \A r \in Stored : r \in RouteKey /\ \A k \in routes[r].backends : k \in ServiceKey
  BY <1>0 DEF ResourceTypeOK, Stored, Backends
<1>b. \A r \in Stored : r # NoRoute
  BY <1>a, GatewayAssumption
<1>c. phase # "remove" => lost = {}
  BY DEF EndpointInv
<1>1. ASSUME UNCHANGED <<failures, resourceVars, used>>, pc = "idle",
             \A k \in ServiceKey :
                 /\ k \in lost' => k \in lost \/ (phase = "remove" /\ k \in listed)
                 /\ (k \in listed => Calls(k)) => (k \in listed' /\ k \in used => Calls(k)')
      PROVE  PlacedInv'
  <2>1. ASSUME NEW r \in Stored, NEW k \in routes[r].backends, Placed(r, k)
        PROVE  Placed(r, k)'
    <3>1. ~Regenerates(r, k)
      BY <1>1, <1>b DEF HandlerInv, Regenerates
    <3>2. Holds(r, k)' <=> Holds(r, k)
      BY <1>1 DEF Holds, resourceVars, routeFile
    <3>3. k \in lost' => Holds(r, k)'
      BY <1>1, <1>a, <2>1, <3>1, <3>2 DEF Placed, Calls
    <3>4. QED BY <1>1, <1>a, <2>1, <3>1, <3>2, <3>3 DEF Placed, resourceVars
  <2>2. QED BY <1>1, <2>1 DEF PlacedInv, resourceVars, Stored
<1>2. CASE AddressBegins \/ AddressChanges \/ AddressPanics \/ AddressReturns
           \/ AddressLocks \/ AddressNotified
  <2>1. UNCHANGED <<failures, resourceVars, used>> /\ pc = "idle"
    BY <1>2 DEF AddressBegins, AddressChanges, AddressPanics, AddressReturns,
       AddressLocks, AddressNotified, bounds, Event, Ends, ReloadFails,
       Endpoints!Begins, Endpoints!Changes, Endpoints!Panics, Endpoints!Returns,
       Endpoints!Locks, Endpoints!Notified
  <2>2. ASSUME NEW k \in ServiceKey, k \in listed => Calls(k)
        PROVE  k \in listed' /\ k \in used => Calls(k)'
    BY <1>2, <2>2 DEF Calls, AddressBegins, AddressChanges, AddressPanics, AddressReturns,
       AddressLocks, AddressNotified, Endpoints!Begins, Endpoints!Changes,
       Endpoints!Panics, Endpoints!Returns, Endpoints!Locks, Endpoints!Notified
  <2>3. ASSUME NEW k \in ServiceKey, k \in lost'
        PROVE  k \in lost \/ (phase = "remove" /\ k \in listed)
    BY <1>2, <2>3 DEF AddressBegins, AddressChanges, AddressPanics, AddressReturns,
       AddressLocks, AddressNotified, Endpoints!Begins, Endpoints!Changes,
       Endpoints!Panics, Endpoints!Returns, Endpoints!Locks, Endpoints!Notified
  <2>4. QED BY <1>1, <2>1, <2>2, <2>3
<1>3. ASSUME NEW k \in ServiceKey, AddressWrites(k)
      PROVE  PlacedInv'
  <2>1. /\ UNCHANGED <<resourceVars, used, listed, phase, announced, lost>>
        /\ pc = "idle"
    BY <1>3 DEF AddressWrites, Endpoints!Opens, Endpoints!Publishes, Endpoints!Skips,
       Endpoints!PublishFails
  <2>2. UNCHANGED failures \/ failures' # 0
    BY <1>3 DEF AddressWrites, Fails, bounds, IncludedInv
  <2>3. QED BY <1>1, <2>1, <2>2 DEF Calls, PlacedInv
<1>4. ASSUME NEW k \in ServiceKey, AddressWithdraws(k)
      PROVE  PlacedInv'
  <2>1. /\ UNCHANGED <<resourceVars, listed, phase, announced>>
        /\ used' = used \ {k} /\ k \in lost /\ lost' = lost \ {k}
    BY <1>4 DEF AddressWithdraws, Endpoints!Withdraws
  <2>2. UNCHANGED failures \/ failures' # 0
    BY <1>4 DEF AddressWithdraws, Fails, bounds, IncludedInv
  <2>3. ASSUME NEW r \in Stored, NEW s \in routes[r].backends, Placed(r, s)
        PROVE  Placed(r, s)'
    <3>1. s \in ServiceKey BY <1>a
    <3>2. QED BY <2>1, <2>3, <3>1 DEF Placed, Holds, Regenerates, Calls, resourceVars, routeFile
  <2>4. Stored' = Stored /\ routes' = routes
    BY <2>1 DEF resourceVars, Stored
  <2>5. QED BY <2>2, <2>3, <2>4 DEF PlacedInv
<1>5. ASSUME NEW batch \in SUBSET RouteKey, NEW backends \in [batch -> Backends],
             UpdateRoutes(batch, backends)
      PROVE  PlacedInv'
  <2>1. /\ UNCHANGED <<failures, endpointVars, writing, unchecked, valid, routeConf>>
        /\ affectedRoutes = {} /\ affectedRoutes' = batch
        /\ writing = NoRoute /\ lost = {}
    BY <1>5, <1>c DEF UpdateRoutes, ResourceBegins, Event, routeFile, HandlerInv
  <2>2. ASSUME NEW r \in Stored', r \notin batch, NEW k \in routes'[r].backends
        PROVE  /\ r \in Stored /\ k \in ServiceKey /\ k \in routes[r].backends
               /\ r \in serviceToRoutes[k] => r \in serviceToRoutes'[k]
    <3>1. r \in Stored /\ k \in routes[r].backends
      BY <1>5, <2>2 DEF UpdateRoutes, Stored
    <3>2. QED BY <1>5, <1>a, <2>2, <3>1 DEF UpdateRoutes
  <2>3. ASSUME NEW r \in Stored', r \notin batch, NEW k \in routes'[r].backends, failures = 0
        PROVE  Placed(r, k)'
    <3>1. Placed(r, k) /\ ~Regenerates(r, k)
      BY <1>b, <2>1, <2>2, <2>3 DEF PlacedInv, Regenerates
    <3>2. QED BY <2>1, <2>2, <2>3, <3>1 DEF Placed, Holds, Calls, endpointVars
  <2>4. QED BY <2>1, <2>3 DEF PlacedInv, Placed, Regenerates, endpointVars
<1>6. ASSUME NEW batch \in SUBSET RouteKey, RemoveRoutes(batch)
      PROVE  PlacedInv'
  <2>1. /\ UNCHANGED <<failures, endpointVars, writing, unchecked, valid, routeConf>>
        /\ affectedRoutes = {} /\ writing = NoRoute
    BY <1>6 DEF RemoveRoutes, ResourceBegins, Event, routeFile, HandlerInv
  <2>2. ASSUME NEW r \in Stored', NEW k \in routes'[r].backends
        PROVE  /\ r \in Stored /\ k \in ServiceKey /\ k \in routes[r].backends
               /\ r \in serviceToRoutes[k] => r \in serviceToRoutes'[k]
    <3>1. r \in Stored /\ r \notin batch /\ k \in routes[r].backends
      BY <1>6, <2>2 DEF RemoveRoutes, Stored
    <3>2. QED BY <1>6, <1>a, <2>2, <3>1 DEF RemoveRoutes
  <2>3. ASSUME NEW r \in Stored', NEW k \in routes'[r].backends, failures = 0
        PROVE  Placed(r, k)'
    <3>1. Placed(r, k) /\ ~Regenerates(r, k)
      BY <1>b, <2>1, <2>2, <2>3 DEF PlacedInv, Regenerates
    <3>2. QED BY <2>1, <2>2, <2>3, <3>1 DEF Placed, Holds, Calls, endpointVars
  <2>4. QED BY <2>1, <2>3 DEF PlacedInv
<1>7. ASSUME UNCHANGED <<endpointVars, routes, serviceToRoutes, affectedRoutes, routeFile,
                         routeConf>>,
             UNCHANGED failures \/ failures' # 0
      PROVE  PlacedInv'
  BY <1>7 DEF PlacedInv, Placed, Holds, Regenerates, Calls, endpointVars, routeFile, Stored
<1>8. CASE OpenServerFile \/ WriteServerFile \/ ResourceReturns
  BY <1>7, <1>8 DEF OpenServerFile, WriteServerFile, ResourceReturns, ReloadFails, Fails,
     Ends, bounds, IncludedInv
<1>9. ASSUME NEW q \in RouteKey, GenerateRouteFile(q)
      PROVE  PlacedInv'
  <2>1. /\ UNCHANGED <<failures, endpointVars, routes, serviceToRoutes, routeConf>>
        /\ writing = NoRoute /\ writing' = q /\ unchecked' = routes[q].backends /\ lost = {}
        /\ affectedRoutes' = affectedRoutes \ {q} /\ Stored' = Stored
    BY <1>9, <1>c DEF GenerateRouteFile, HandlerInv, bounds, Stored
  <2>2. ASSUME NEW r \in Stored, NEW k \in routes[r].backends, Placed(r, k)
        PROVE  Placed(r, k)'
    <3>1. CASE r = q
      BY <2>1, <3>1 DEF Placed, Regenerates, endpointVars
    <3>2. CASE r # q
      BY <1>b, <2>1, <2>2, <3>2 DEF Placed, Holds, Regenerates, Calls, endpointVars
    <3>3. QED BY <3>1, <3>2
  <2>3. QED BY <2>1, <2>2 DEF PlacedInv
<1>10. ASSUME NEW b \in ServiceKey, CheckBackend(b)
       PROVE  PlacedInv'
  <2>1. /\ UNCHANGED <<phase, listed, announced, lost, routes, affectedRoutes, writing>>
        /\ UNCHANGED routeConf /\ lost = {}
        /\ used' = used \cup {b} /\ unchecked' = unchecked \ {b}
        /\ Stored' = Stored
    BY <1>10, <1>c DEF CheckBackend, Endpoints!Ensures, Endpoints!EnsurePends,
       Endpoints!EnsureFails, Endpoints!Unlocked, Stored
  <2>2. /\ failures' # 0
        \/ /\ UNCHANGED failures
           /\ valid' = valid \cup {b} \/ (valid' = valid /\ b \notin listed)
    BY <1>10 DEF CheckBackend, Fails, bounds, IncludedInv, Endpoints!EnsurePends
  <2>3. \A k \in ServiceKey :
            /\ serviceToRoutes'[k] =
                  IF k = b THEN serviceToRoutes[k] \cup {writing} ELSE serviceToRoutes[k]
    BY <1>0, <1>10 DEF CheckBackend, ResourceTypeOK
  <2>4. ASSUME NEW r \in Stored, NEW k \in routes[r].backends, Placed(r, k), failures' = 0
        PROVE  Placed(r, k)'
    <3>1. CASE r = writing /\ k = b
      BY <2>1, <2>2, <2>3, <2>4, <3>1, <1>a DEF Placed, Holds
    <3>2. CASE ~(r = writing /\ k = b)
      <4>1. Regenerates(r, k) => Regenerates(r, k)'
        BY <2>1, <3>2 DEF Regenerates
      <4>2. Holds(r, k) => Holds(r, k)'
        BY <2>1, <2>2, <2>4 DEF Holds
      <4>3. Calls(k) => Calls(k)'
        BY <2>1 DEF Calls
      <4>4. r \in serviceToRoutes[k] => r \in serviceToRoutes'[k]
        BY <2>3, <3>2, <1>a
      <4>5. QED BY <2>1, <2>4, <4>1, <4>2, <4>3, <4>4 DEF Placed
    <3>3. QED BY <3>1, <3>2
  <2>5. QED BY <2>1, <2>2, <2>4 DEF PlacedInv
<1>11. CASE OpenRouteFile \/ WriteRouteFile
  <2>1. /\ UNCHANGED <<endpointVars, routes, serviceToRoutes, affectedRoutes>>
        /\ unchecked' = {} /\ unchecked = {} /\ writing # NoRoute /\ Stored' = Stored
    BY <1>11 DEF OpenRouteFile, WriteRouteFile, HandlerInv, Stored
  <2>2. \/ failures' # 0
        \/ /\ UNCHANGED failures
           /\ \/ writing' = writing /\ valid' = valid
              \/ writing' = NoRoute /\ routeConf'[writing] = [backends |-> valid]
           /\ \A r \in RouteKey : r # writing => routeConf'[r] = routeConf[r]
    <3>1. writing \in RouteKey /\ routeConf \in [RouteKey -> RouteFile]
      BY <1>0, <2>1 DEF ResourceTypeOK
    <3>2. Fails => failures' # 0
      BY DEF Fails, IncludedInv
    <3>3. CASE OpenRouteFile
      BY <3>1, <3>2, <3>3 DEF OpenRouteFile, bounds
    <3>4. CASE WriteRouteFile
      BY <3>1, <3>2, <3>4 DEF WriteRouteFile, RouteFileEnds, bounds
    <3>5. QED BY <1>11, <3>3, <3>4
  <2>3. [backends |-> valid] # NoFile
    <3>1. [backends |-> valid] \in Backends
      BY <1>0 DEF ResourceTypeOK, Backends
    <3>2. QED BY <3>1, GatewayAssumption
  <2>4. ASSUME NEW r \in Stored, NEW k \in routes[r].backends, Placed(r, k), failures' = 0
        PROVE  Placed(r, k)'
    <3>1. Regenerates(r, k) => Regenerates(r, k)'
      BY <2>1 DEF Regenerates
    <3>2. Holds(r, k) => Holds(r, k)'
      BY <1>a, <1>b, <2>2, <2>3, <2>4 DEF Holds
    <3>3. QED BY <2>1, <2>4, <3>1, <3>2 DEF Placed, Calls, endpointVars
  <2>5. QED BY <2>1, <2>2, <2>4 DEF PlacedInv
<1>16. ASSUME NEW b \in ServiceKey, OpenBackend(b)
       PROVE  PlacedInv'
  <2>1. /\ UNCHANGED <<failures, resourceVars, phase, listed, announced, lost>>
        /\ used' = used \cup {b}
    BY <1>16 DEF OpenBackend, Endpoints!EnsureOpens, bounds
  <2>2. QED
    BY <2>1 DEF PlacedInv, Placed, Holds, Regenerates, Calls, resourceVars, routeFile, Stored
<1>12. ASSUME NEW s \in ServiceKey, OnServiceAvailable(s)
       PROVE  PlacedInv'
  <2>1. /\ UNCHANGED <<failures, phase, listed, used, routes, serviceToRoutes, routeFile>>
        /\ UNCHANGED <<routeConf, lost>>
        /\ announced' = announced \ {s} /\ Stored' = Stored
        /\ affectedRoutes = {} /\ affectedRoutes' = serviceToRoutes[s] /\ writing = NoRoute
        /\ phase = "notify"
    BY <1>12 DEF OnServiceAvailable, Endpoints!Notifies, bounds, Stored, HandlerInv
  <2>2. ASSUME NEW r \in Stored, NEW k \in routes[r].backends, Placed(r, k)
        PROVE  Placed(r, k)'
    <3>1. ~Regenerates(r, k)
      BY <1>b, <2>1 DEF Regenerates
    <3>2. CASE k = s
      BY <1>c, <2>1, <2>2, <3>1, <3>2 DEF Placed, Regenerates
    <3>3. CASE k # s
      BY <2>1, <2>2, <3>1, <3>3 DEF Placed, Holds, Calls, routeFile
    <3>4. QED BY <3>2, <3>3
  <2>3. QED BY <2>1, <2>2 DEF PlacedInv
<1>13. CASE StartStep \/ MasterStep \/ ManagerPanicStep \/ MasterEnds \/ UNCHANGED vars
  BY <1>7, <1>13 DEF StartStep, Starts, MasterStep, ManagerPanicStep, MasterEnds, Ends,
     vars, resourceVars, bounds
<1>14. CASE Restarts
  <2>1. Stored' = {}
    BY <1>14 DEF Restarts, Stored
  <2>2. QED BY <2>1 DEF PlacedInv
<1>15. QED
  BY <1>2, <1>3, <1>4, <1>5, <1>6, <1>8, <1>9, <1>10, <1>11, <1>12, <1>13, <1>14,
     <1>16
  DEF Next, HandlerSteps

-----------------------------------------------------------------------------
(* The theorems *)

GatewayInv ==
    /\ TypeOK
    /\ HandlerInv
    /\ FreshInv
    /\ ResolvedInv
    /\ EndpointInv
    /\ IncludedInv
    /\ PlacedInv

LEMMA InitGateway == Init => GatewayInv
<1> SUFFICES ASSUME Init PROVE GatewayInv
  OBVIOUS
<1> USE DEF Init, Endpoints!EndpointInit, Nginx!NginxInit
<1>1. Stored = {}
  BY DEF Stored
<1>2. TypeOK
  <2>1. Endpoints!EndpointTypeOK
    BY DEF Endpoints!EndpointTypeOK
  <2>2. Nginx!NginxTypeOK(ServiceKey, UpstreamFile, RouteKey, RouteFile)
    BY DEF Nginx!NginxTypeOK
  <2>3. ResourceTypeOK
    BY <1>1 DEF ResourceTypeOK, RouteFile
  <2>4. QED BY <2>1, <2>2, <2>3, TypeParts
<1>3. HandlerInv
  BY <1>1 DEF HandlerInv, Empty
<1>4. FreshInv
  BY DEF FreshInv, Reloaded
<1>5. ResolvedInv
  BY <1>1 DEF ResolvedInv
<1>6. EndpointInv
  BY DEF EndpointInv, Endpoints!Settled
<1>7. IncludedInv /\ PlacedInv
  BY <1>1 DEF IncludedInv, PlacedInv
<1>8. QED BY <1>2, <1>3, <1>4, <1>5, <1>6, <1>7 DEF GatewayInv

LEMMA GatewayStep == GatewayInv /\ [Next]_vars => GatewayInv'
<1> SUFFICES ASSUME GatewayInv, [Next]_vars PROVE GatewayInv'
  OBVIOUS
<1> USE DEF GatewayInv
<1>0. Endpoints!EndpointTypeOK BY TypeParts
<1>1. TypeOK'
  <2>1. Endpoints!EndpointTypeOK'
    <3>1. CASE Restarts
      BY <1>0, <3>1 DEF Restarts, Endpoints!EndpointTypeOK
    <3>2. QED BY <1>0, <3>1, EndpointStep, EndpointType
  <2>2. /\ Nginx!NginxTypeOK(ServiceKey, UpstreamFile, RouteKey, RouteFile)'
        /\ ResourceTypeOK'
    BY NginxType, ResourceType
  <2>3. QED BY <2>1, <2>2 DEF TypeOK, ResourceTypeOK
<1>2. EndpointInv'
  <2>1. CASE Restarts
    BY <2>1 DEF Restarts, EndpointInv, Endpoints!Settled
  <2>2. QED BY <1>0, <2>1, EndpointStep, EndpointInvStep
<1>3. HandlerInv' /\ FreshInv' /\ ResolvedInv' /\ IncludedInv' /\ PlacedInv'
  BY HandlerStep, FreshStep, ResolvedStep, IncludedStep, PlacedStep
<1>4. QED BY <1>1, <1>2, <1>3

LEMMA GatewayInvariant == Spec => []GatewayInv
BY InitGateway, GatewayStep, PTL DEF Spec

\* The variables of the composition hold values of their kinds: what one component keeps
\* of another (routes in the index of services, files that NGINX reads) is there.
THEOREM TypeCorrect == Spec => []TypeOK
<1>1. GatewayInv => TypeOK
  BY DEF GatewayInv
<1>2. QED BY <1>1, GatewayInvariant, PTL

LEMMA FreshServes == GatewayInv => RunsDisk
<1> SUFFICES ASSUME GatewayInv, Quiet, ~missed, Loadable
             PROVE  running = Disk
  BY DEF RunsDisk
<1>1. Reloaded
  BY DEF GatewayInv, HandlerInv, Quiet, AtRest, Reloaded
<1>2. QED
  BY <1>1 DEF GatewayInv, FreshInv, Reads, Agrees, Quiet

\* Once no handler runs and no reload is pending, NGINX runs the files that are there, if
\* it can, however its reads fell between the steps of the handlers' writes and whatever
\* it rejected.
THEOREM DiskCorrect == Spec => []RunsDisk
BY FreshServes, GatewayInvariant, PTL

\* Between handler calls every file that is included is there, and every upstream that
\* a route file names is defined, unless it is a known orphan; restarts over the files
\* of the previous process included.
THEOREM ReferencesCorrect == Spec => []ReferencesResolve
<1>1. GatewayInv => ReferencesResolve
  <2> SUFFICES ASSUME GatewayInv, AtRest, NEW r \in served
               PROVE  IF routeConf[r] = NoFile
                      THEN r \in damaged
                      ELSE \A k \in routeConf[r].backends : Defined(k)
    BY DEF ReferencesResolve, Defined
  <2>1. ResourceTypeOK
    BY TypeParts DEF GatewayInv
  <2>2. r \in RouteKey /\ r # NoRoute
    BY <2>1, GatewayAssumption DEF ResourceTypeOK
  <2>3. QED
    BY <2>2 DEF GatewayInv, HandlerInv, ResolvedInv, AtRest, Alive
<1>2. QED BY <1>1, GatewayInvariant, PTL

\* End to end: in a quiet system every stored route reaches every live endpoint of its
\* backends. The other invariants meet here: the route is included (IncludedInv), its
\* file has the backend (PlacedInv), the upstream its endpoints (EndpointInv), and NGINX
\* runs these files (RunsDisk).
THEOREM ServesCorrect == Spec => []ServesLive
<1>1. GatewayInv => ServesLive
  <2> SUFFICES ASSUME GatewayInv, Quiet, ~missed, failures = 0, Loadable, NEW r \in Stored
               PROVE  /\ r \in DOMAIN running.locations
                      /\ \A k \in routes[r].backends : live[k] # {} =>
                            /\ k \in running.locations[r].backends
                            /\ k \in used =>
                                  /\ HasServers(running.upstreams[k])
                                  /\ live[k] \subseteq running.upstreams[k].servers
    BY DEF ServesLive
  <2>1. ResourceTypeOK /\ Endpoints!EndpointTypeOK
    BY TypeParts DEF GatewayInv
  <2>2. AtRest /\ failed = {}
    BY DEF GatewayInv, HandlerInv, IncludedInv, Quiet, AtRest
  <2>3. running = Disk
    BY FreshServes DEF RunsDisk
  <2>4. r \in served
    BY <2>2 DEF GatewayInv, IncludedInv, Included, AtRest, Alive
  <2>5. r \in DOMAIN running.locations /\ running.locations[r] = routeConf[r]
    BY <2>3, <2>4 DEF Disk, Directory, Nginx!Configuration
  <2>6. ASSUME NEW k \in routes[r].backends, live[k] # {}
        PROVE  /\ k \in running.locations[r].backends
               /\ k \in used => /\ HasServers(running.upstreams[k])
                                /\ live[k] \subseteq running.upstreams[k].servers
    <3>1. k \in ServiceKey /\ r # NoRoute
      BY <2>1, GatewayAssumption DEF ResourceTypeOK, Stored, Backends
    <3>2. writing = NoRoute /\ affectedRoutes = {}
      BY <2>2 DEF GatewayInv, HandlerInv, AtRest
    <3>3. k \in listed
      BY <2>6, <3>1 DEF GatewayInv, EndpointInv
    <3>4. Placed(r, k) /\ ~Regenerates(r, k) /\ ~Calls(k)
      BY <2>2, <3>1, <3>2 DEF GatewayInv, PlacedInv, Regenerates, Calls, AtRest
    <3>5. Holds(r, k)
      BY <2>6, <3>3, <3>4 DEF Placed
    <3>6. k \in running.locations[r].backends
      BY <2>5, <3>1, <3>2, <3>5 DEF Holds
    <3>7. k \in used => published[k] # NoFile /\ live[k] \subseteq published[k].servers
      BY <2>2, <2>6 DEF GatewayInv, EndpointInv, AtRest, Endpoints!Settled,
         Endpoints!Current
    <3>8. running.upstreams[k] = published[k]
      BY <2>3, <3>1 DEF Disk, Directory, Nginx!Configuration
    <3>9. QED BY <2>6, <3>6, <3>7, <3>8 DEF HasServers
  <2>7. QED BY <2>5, <2>6
<1>2. QED BY <1>1, GatewayInvariant, PTL

=============================================================================
