------------------------------ MODULE Gateway ------------------------------
(***************************************************************************)
(* The NGINX backend: AddressStore, ResourceStore, the NGINX manager and   *)
(* NGINX over one configuration directory (nginxbackend/main.go).          *)
(*                                                                         *)
(* The AddressStore is what EndpointStore says of it, the manager and      *)
(* NGINX are NginxManager.  Of the ResourceStore this module has the       *)
(* routes of one listener and bind that are stored before, so that there   *)
(* is one server file.  A write truncates a file in one step and fills it  *)
(* in the next; NGINX reads file by file, at any time.  All handlers run   *)
(* on the client's goroutine.                                              *)
(***************************************************************************)
EXTENDS Naturals, FiniteSets

CONSTANTS
    ServiceKey, Endpoint, RouteKey,
    NoFile, NoRoute, NotRead,
    \* Bounds
    MaxEvents,      \* handler calls, batch iterations and restarts
    FaultCost       \* a fault counts for that many events

Backends == [backends : SUBSET ServiceKey]
UpstreamFile == [servers : SUBSET Endpoint] \cup {NoFile}
RouteFile == Backends \cup {NoFile}

VARIABLES
    phase, live, listed, used, published, opened, failed, announced, lost, needsReload,
    manager, master, running, reading, hup, missed,
    pc,                 \* the ResourceStore: "idle", "server", "serverfile" (which is
                        \* truncated), "routes" or "routefile" (likewise)
    routes,             \* backends of each route
    serviceToRoutes,
    affectedRoutes,     \* local to Update and onServiceAvailable
    writing,            \* generateRouteFile: its route, the backends it has not
    unchecked,          \* looked at yet, and validBackends
    valid,
    served,             \* on disk: the routes that the server file includes
    routeConf,          \* on disk: routes/*.conf
    orphans,            \* history: services whose upstream file is missing, or cut short,
                        \* after a call that routes rely on
    serverCut,          \* history: the server file is cut short, and the routes whose file
    damaged,            \* is missing or cut short, by a write under way or one that failed
    events, failures, ends

Endpoints == INSTANCE EndpointStore

endpointVars ==
    <<phase, live, listed, used, published, opened, failed, announced, lost, needsReload>>
nginxVars == <<manager, master, running, reading, hup, missed>>
routeFile == <<writing, unchecked, valid>>
resourceVars == <<pc, routes, serviceToRoutes, affectedRoutes, routeFile, served,
                  routeConf, serverCut, damaged>>
routeDisk == <<served, routeConf, serverCut, damaged>>
diskVars == <<routeDisk, orphans>>
bounds == <<events, failures, ends>>
vars == <<endpointVars, nginxVars, resourceVars, orphans, bounds>>

-----------------------------------------------------------------------------
(* The configuration *)

Stored == {r \in RouteKey : routes[r] # NoRoute}

Directory == [upstreams |-> published, included |-> served, routes |-> routeConf]

HasServers(file) == file # NoFile /\ file.servers # {}

\* A location with several backends has a split_clients block, which NGINX allows
\* beside servers only.
Weighted(c) ==
    \E r \in DOMAIN c.locations :
        c.locations[r] # NoFile /\ Cardinality(c.locations[r].backends) > 1

\* NGINX's judgement: include files exist, proxied hosts are defined upstreams.
Accepted(c) ==
    /\ ~Weighted(c)
    /\ \A r \in DOMAIN c.locations :
          /\ c.locations[r] # NoFile
          /\ \A k \in c.locations[r].backends : HasServers(c.upstreams[k])

\* A write is under way, or has failed or was interrupted halfway: no upstream file is
\* written without servers.
CutShort ==
    \/ serverCut
    \/ \E r \in damaged : routeConf[r] # NoFile
    \/ \E k \in ServiceKey : published[k] # NoFile /\ published[k].servers = {}

Nginx == INSTANCE NginxManager

ASSUME GatewayAssumption ==
    /\ NoFile \notin [servers : SUBSET Endpoint] \cup Backends
    /\ NoRoute \notin Backends \cup RouteKey
    /\ NotRead \notin UpstreamFile \cup RouteFile
    /\ NotRead \notin Nginx!LocationsOf(RouteKey, RouteFile \cup {NotRead})
    /\ NotRead \notin Nginx!PartsOf(ServiceKey, UpstreamFile, RouteKey, RouteFile)
    /\ MaxEvents \in Nat /\ FaultCost \in Nat

Disk == Nginx!Configuration(Directory)

Alive == manager = "ready"

\* What NGINX accepts for sure.
Loadable == Accepted(Disk) /\ ~CutShort

\* Bounds: events, writes and deletes that fail, and processes that end (panics, masters
\* that quit or fail, an NGINX that is not executed).
Affordable(cost) == events + FaultCost * (failures + ends) + cost <= MaxEvents
Event == Affordable(1) /\ events' = events + 1 /\ UNCHANGED <<failures, ends>>
Fails == Affordable(FaultCost) /\ failures' = failures + 1 /\ UNCHANGED <<events, ends>>
Ends == Affordable(FaultCost) /\ ends' = ends + 1 /\ UNCHANGED <<events, failures>>

\* What is on disk for k is noted after a call that routes rely on.
Notes(k) == orphans' = IF HasServers(published'[k]) THEN orphans \ {k} ELSE orphans \cup {k}

ReloadFails ==
    \/ Nginx!ReloadFails(Directory, CutShort) /\ UNCHANGED bounds
    \/ Nginx!ReloadBreaks(Directory) /\ Ends

-----------------------------------------------------------------------------
(* Handler calls of the AddressStore *)

AddressBegins ==
    /\ Alive /\ pc = "idle" /\ Event
    /\ Endpoints!Begins
    /\ UNCHANGED <<nginxVars, resourceVars, orphans>>

AddressChanges ==
    /\ Alive /\ pc = "idle" /\ Event
    /\ Endpoints!Changes
    /\ UNCHANGED <<nginxVars, resourceVars, orphans>>

AddressWrites(k) ==
    /\ Alive /\ pc = "idle"
    /\ \/ (Endpoints!Opens(k) \/ Endpoints!Publishes(k)) /\ Notes(k) /\ UNCHANGED bounds
       \/ Endpoints!Skips(k) /\ UNCHANGED <<bounds, orphans>>
       \/ Endpoints!PublishFails(k) /\ Notes(k) /\ Fails
    /\ UNCHANGED <<nginxVars, resourceVars>>

\* Remove deletes the upstream of a service under the routes that name it.
AddressWithdraws(k) ==
    /\ Alive /\ pc = "idle"
    /\ Endpoints!Withdraws(k) /\ Notes(k)
    /\ IF k \in failed' THEN Fails ELSE UNCHANGED bounds
    /\ UNCHANGED <<nginxVars, resourceVars>>

\* The mutant reloads in Update only.
AddressReturnsUnloaded ==
    /\ Alive /\ pc = "idle"
    /\ Endpoints!Returns
    /\ IF needsReload /\ phase = "update"
       THEN Nginx!ReloadSucceeds(Directory)
       ELSE UNCHANGED nginxVars
    /\ UNCHANGED <<resourceVars, orphans, bounds>>

\* The end of Update or Remove, with the reload that the call needs.
AddressReturns ==
    /\ Alive /\ pc = "idle"
    /\ Endpoints!Returns
    /\ \/ UNCHANGED <<nginxVars, bounds>> /\ ~needsReload
       \/ Nginx!ReloadSucceeds(Directory) /\ UNCHANGED bounds /\ needsReload
       \/ ReloadFails /\ needsReload /\ phase = "remove"
    /\ UNCHANGED <<resourceVars, orphans>>

AddressLocks ==
    /\ Alive /\ pc = "idle"
    /\ Endpoints!Locks
    /\ ReloadFails
    /\ UNCHANGED <<resourceVars, orphans>>

AddressNotified ==
    /\ Alive /\ pc = "idle"
    /\ Endpoints!Notified
    /\ UNCHANGED <<nginxVars, resourceVars, orphans, bounds>>

\* Nothing recovers a panic of the handler.
AddressPanics ==
    /\ Alive /\ pc = "idle" /\ Ends
    /\ Endpoints!Panics
    /\ manager' = "panicked"
    /\ UNCHANGED <<master, running, reading, hup, missed, resourceVars, orphans>>

-----------------------------------------------------------------------------
(* The ResourceStore *)

\* A handler call between those of the AddressStore, whose lock may have leaked.
ResourceBegins == Alive /\ pc = "idle" /\ phase \in {"rest", "locked"} /\ Event

\* Phases 1 to 4 of Update: the batch is stored.
UpdateRoutes(batch, backends) ==
    /\ ResourceBegins /\ batch # {}
    /\ pc' = "server"
    /\ routes' = [r \in RouteKey |-> IF r \in batch THEN backends[r] ELSE routes[r]]
    /\ serviceToRoutes' =
          [k \in ServiceKey |->
              {r \in serviceToRoutes[k] : r \in batch => k \notin routes[r].backends}]
    /\ affectedRoutes' = batch
    /\ UNCHANGED <<endpointVars, nginxVars, routeFile, diskVars>>

\* The mutant leaves the routes in the index of their services.
RemoveRoutesIndexed(batch) ==
    /\ ResourceBegins /\ batch # {} /\ batch \subseteq Stored
    /\ pc' = "server"
    /\ routes' = [r \in RouteKey |-> IF r \in batch THEN NoRoute ELSE routes[r]]
    /\ affectedRoutes' = {}
    /\ UNCHANGED <<endpointVars, nginxVars, serviceToRoutes, routeFile, diskVars>>

\* Remove: the routes leave the store, their files stay.
RemoveRoutes(batch) ==
    /\ ResourceBegins /\ batch # {} /\ batch \subseteq Stored
    /\ pc' = "server"
    /\ routes' = [r \in RouteKey |-> IF r \in batch THEN NoRoute ELSE routes[r]]
    /\ serviceToRoutes' =
          [k \in ServiceKey |->
              {r \in serviceToRoutes[k] : r \in batch => k \notin routes[r].backends}]
    /\ affectedRoutes' = {}
    /\ UNCHANGED <<endpointVars, nginxVars, routeFile, diskVars>>

\* The mutant leaves routes without workloads out.
RoutesServed == {r \in Stored : routes[r].backends \cap listed # {}}

\* generateServerFile includes every route of the listener.
RoutesIncluded == Stored

OpenServerFile ==
    /\ Alive /\ pc = "server"
    /\ \/ pc' = "serverfile" /\ served' = {} /\ serverCut' = TRUE /\ UNCHANGED bounds
       \/ pc' = "routes" /\ Fails /\ UNCHANGED <<served, serverCut>>
    /\ UNCHANGED <<endpointVars, nginxVars, routes, serviceToRoutes, affectedRoutes,
                   routeFile, routeConf, damaged, orphans>>

WriteServerFile ==
    /\ Alive /\ pc = "serverfile"
    /\ pc' = "routes"
    /\ \/ served' = RoutesIncluded /\ serverCut' = FALSE /\ UNCHANGED bounds
       \/ Fails /\ UNCHANGED <<served, serverCut>>
    /\ UNCHANGED <<endpointVars, nginxVars, routes, serviceToRoutes, affectedRoutes,
                   routeFile, routeConf, damaged, orphans>>

GenerateRouteFile(r) ==
    /\ Alive /\ pc = "routes" /\ writing = NoRoute
    /\ r \in affectedRoutes /\ routes[r] # NoRoute
    /\ affectedRoutes' = affectedRoutes \ {r}
    /\ writing' = r /\ unchecked' = routes[r].backends /\ valid' = {}
    /\ UNCHANGED <<endpointVars, nginxVars, pc, routes, serviceToRoutes, diskVars, bounds>>

\* The mutant keeps a backend whose service is not there yet.
CheckBackendAnyway(k) ==
    /\ Alive /\ writing # NoRoute /\ k \in unchecked
    /\ unchecked' = unchecked \ {k}
    /\ serviceToRoutes' = [serviceToRoutes EXCEPT ![k] = @ \cup {writing}]
    /\ valid' = valid \cup {k}
    /\ UNCHANGED <<bounds, orphans>>
    /\ Endpoints!Ensures(k) \/ Endpoints!EnsurePends(k)
    /\ UNCHANGED <<nginxVars, pc, routes, affectedRoutes, writing, routeDisk>>

\* One backend of generateLocationDirectives: the AddressStore is asked for the
\* upstream file, and truncates it...
OpenBackend(k) ==
    /\ Alive /\ writing # NoRoute /\ k \in unchecked
    /\ Endpoints!EnsureOpens(k) /\ Notes(k)
    /\ UNCHANGED <<nginxVars, resourceVars, bounds>>

\* ... and answers: it may say that a file is there that it has not written.
CheckBackend(k) ==
    /\ Alive /\ writing # NoRoute /\ k \in unchecked
    /\ unchecked' = unchecked \ {k}
    /\ serviceToRoutes' = [serviceToRoutes EXCEPT ![k] = @ \cup {writing}]
    /\ \/ /\ Endpoints!Ensures(k) /\ Notes(k)
          /\ valid' = valid \cup {k}
          /\ UNCHANGED bounds
       \/ /\ Endpoints!EnsurePends(k)
          /\ UNCHANGED <<valid, orphans, bounds>>
       \/ /\ Endpoints!EnsureFails(k) /\ Notes(k) /\ Fails
          /\ UNCHANGED valid
    /\ UNCHANGED <<nginxVars, pc, routes, affectedRoutes, writing, routeDisk>>

RouteFileEnds == writing' = NoRoute /\ valid' = {} /\ pc' = "routes"

OpenRouteFile ==
    /\ Alive /\ pc = "routes" /\ writing # NoRoute /\ unchecked = {}
    /\ \/ /\ pc' = "routefile"
          /\ routeConf' = [routeConf EXCEPT ![writing] = [backends |-> {}]]
          /\ damaged' = damaged \cup {writing}
          /\ UNCHANGED <<writing, valid, bounds>>
       \/ /\ RouteFileEnds /\ Fails
          /\ damaged' = IF routeConf[writing] = NoFile THEN damaged \cup {writing} ELSE damaged
          /\ UNCHANGED routeConf
    /\ UNCHANGED <<endpointVars, nginxVars, routes, serviceToRoutes, affectedRoutes,
                   unchecked, served, serverCut, orphans>>

WriteRouteFile ==
    /\ Alive /\ pc = "routefile"
    /\ RouteFileEnds
    /\ \/ /\ routeConf' = [routeConf EXCEPT ![writing] = [backends |-> valid]]
          /\ damaged' = damaged \ {writing} /\ UNCHANGED bounds
       \/ Fails /\ UNCHANGED <<routeConf, damaged>>
    /\ UNCHANGED <<endpointVars, nginxVars, routes, serviceToRoutes, affectedRoutes,
                   unchecked, served, serverCut, orphans>>

\* The end of Update, Remove and onServiceAvailable; a reload's error is logged.
ResourceReturns ==
    /\ Alive /\ pc = "routes" /\ affectedRoutes = {} /\ writing = NoRoute
    /\ pc' = "idle"
    /\ ReloadFails \/ (Nginx!ReloadSucceeds(Directory) /\ UNCHANGED bounds)
    /\ UNCHANGED <<endpointVars, routes, serviceToRoutes, affectedRoutes, routeFile, diskVars>>

\* The mutant calls back before Update has unlocked.
OnServiceAvailableLocked(k) ==
    /\ Alive /\ pc = "idle"
    /\ phase = "update" /\ k \in announced
    /\ announced' = announced \ {k}
    /\ affectedRoutes' = serviceToRoutes[k]
    /\ pc' = IF serviceToRoutes[k] = {} THEN "idle" ELSE "routes"
    /\ UNCHANGED <<phase, live, listed, used, published, opened, failed, lost,
                   needsReload>>
    /\ UNCHANGED <<nginxVars, routes, serviceToRoutes, routeFile, diskVars, bounds>>

\* serviceAvailableCallback, after Update has unlocked.
OnServiceAvailable(k) ==
    /\ Alive /\ pc = "idle"
    /\ Endpoints!Notifies(k)
    /\ affectedRoutes' = serviceToRoutes[k]
    /\ pc' = IF serviceToRoutes[k] = {} THEN "idle" ELSE "routes"
    /\ UNCHANGED <<nginxVars, routes, serviceToRoutes, routeFile, diskVars, bounds>>

-----------------------------------------------------------------------------
(* The processes *)

Starts ==
    \/ Nginx!Start(Directory, CutShort) /\ UNCHANGED bounds
    \/ Nginx!StartReturns /\ UNCHANGED bounds
    \/ Nginx!StartFails /\ Ends

MasterReads ==
    \/ Nginx!ReadBegins(Directory)
    \/ \E k \in ServiceKey : Nginx!ReadUpstream(Directory, k)
    \/ Nginx!ReadServer(Directory)
    \/ \E r \in RouteKey : Nginx!ReadRoute(Directory, r)
    \/ Nginx!Adopts
    \/ Nginx!Rejects(Directory, CutShort)

ManagerPanics == Nginx!WaitPanics

StartStep ==
    Starts /\ UNCHANGED <<endpointVars, resourceVars, orphans>>
MasterStep ==
    MasterReads /\ UNCHANGED <<endpointVars, resourceVars, orphans, bounds>>
ManagerPanicStep ==
    ManagerPanics /\ UNCHANGED <<endpointVars, resourceVars, orphans, bounds>>
MasterEnds ==
    Nginx!Ends /\ Ends /\ UNCHANGED <<endpointVars, resourceVars, orphans>>

\* A new process with empty stores, over the directory of the old one or, in a new
\* container, over an empty one.
Restarts ==
    /\ Nginx!NginxRestarts /\ Event
    /\ phase' = "rest"
    /\ live' = [k \in ServiceKey |-> {}]
    /\ listed' = {} /\ used' = {} /\ opened' = {} /\ failed' = {} /\ announced' = {}
    /\ lost' = {} /\ needsReload' = FALSE
    /\ pc' = "idle"
    /\ routes' = [r \in RouteKey |-> NoRoute]
    /\ serviceToRoutes' = [k \in ServiceKey |-> {}]
    /\ affectedRoutes' = {} /\ writing' = NoRoute /\ unchecked' = {} /\ valid' = {}
    /\ \/ UNCHANGED <<published, diskVars>>
       \/ /\ published' = [k \in ServiceKey |-> NoFile]
          /\ served' = {}
          /\ routeConf' = [r \in RouteKey |-> NoFile]
          /\ serverCut' = FALSE /\ damaged' = {} /\ orphans' = {}

Init ==
    /\ Endpoints!EndpointInit
    /\ Nginx!NginxInit
    /\ pc = "idle"
    /\ routes = [r \in RouteKey |-> NoRoute]
    /\ serviceToRoutes = [k \in ServiceKey |-> {}]
    /\ affectedRoutes = {} /\ writing = NoRoute /\ unchecked = {} /\ valid = {}
    /\ served = {} /\ routeConf = [r \in RouteKey |-> NoFile]
    /\ serverCut = FALSE /\ damaged = {} /\ orphans = {}
    /\ events = 0 /\ failures = 0 /\ ends = 0

HandlerSteps ==
    \/ \E k \in ServiceKey :
          \/ AddressWrites(k) \/ AddressWithdraws(k) \/ OnServiceAvailable(k)
          \/ OpenBackend(k) \/ CheckBackend(k)
    \/ AddressReturns \/ AddressLocks \/ AddressNotified
    \/ OpenServerFile \/ WriteServerFile \/ OpenRouteFile \/ WriteRouteFile
    \/ ResourceReturns
    \/ \E r \in RouteKey : GenerateRouteFile(r)

Next ==
    \/ AddressBegins \/ AddressChanges \/ AddressPanics
    \/ \E batch \in SUBSET RouteKey :
          \/ \E backends \in [batch -> Backends] : UpdateRoutes(batch, backends)
          \/ RemoveRoutes(batch)
    \/ HandlerSteps
    \/ StartStep \/ MasterStep \/ ManagerPanicStep \/ MasterEnds \/ Restarts

Spec == Init /\ [][Next]_vars

\* The backend and the master are scheduled, and a handler that could return does not
\* go on writing upstream files for ever: Update and Remove write each file once.
FairSpec ==
    /\ Spec
    /\ WF_vars(HandlerSteps) /\ SF_vars(AddressReturns \/ AddressLocks)
    /\ WF_vars(StartStep) /\ WF_vars(MasterStep) /\ WF_vars(ManagerPanicStep)

-----------------------------------------------------------------------------
(* Properties *)

\* The variables hold values of the kinds the Go declarations give them, and the index
\* of services and the routes to regenerate name stored routes only.
TypeOK ==
    /\ Endpoints!EndpointTypeOK
    /\ Nginx!NginxTypeOK(ServiceKey, UpstreamFile, RouteKey, RouteFile)
    /\ pc \in {"idle", "server", "serverfile", "routes", "routefile"}
    /\ routes \in [RouteKey -> Backends \cup {NoRoute}]
    /\ serviceToRoutes \in [ServiceKey -> SUBSET Stored]
    /\ affectedRoutes \in SUBSET Stored
    /\ writing \in RouteKey \cup {NoRoute}
    /\ unchecked \in SUBSET ServiceKey /\ valid \in SUBSET ServiceKey
    /\ served \in SUBSET RouteKey
    /\ routeConf \in [RouteKey -> RouteFile]
    /\ serverCut \in BOOLEAN /\ damaged \in SUBSET RouteKey
    /\ orphans \in SUBSET ServiceKey

AtRest == Alive /\ pc = "idle" /\ phase = "rest"
Quiet == AtRest /\ master = "running" /\ ~hup /\ reading = NotRead

\* Once no handler runs and no reload is pending, NGINX runs the files that are there,
\* if it accepts them and none is cut short: a master that read file by file while a
\* handler wrote, or found a truncated one, has read again since, and no accepted state
\* of the directory was left without a reload.
RunsDisk == (Quiet /\ ~missed /\ Loadable) => running = Disk

\* Between handler calls the server file includes files that are there, unless writing
\* them failed, and these proxy to upstreams that are there, unless Remove deleted an
\* upstream in use, the AddressStore said that a file was there that it had not written,
\* or writing it failed.
ReferencesResolve ==
    AtRest =>
        \A r \in served :
            IF routeConf[r] = NoFile
            THEN r \in damaged
            ELSE \A k \in routeConf[r].backends : k \in orphans \/ HasServers(published[k])

\* End to end: once all is quiet, NGINX routes every stored route to every backend with
\* workloads, and to all of its live endpoints unless Remove has forgotten that routes
\* use it, in whatever order routes, services and reloads came.
ServesLive ==
    (Quiet /\ ~missed /\ failures = 0 /\ Loadable) =>
        \A r \in Stored :
            /\ r \in DOMAIN running.locations
            /\ \A k \in routes[r].backends : live[k] # {} =>
                  /\ k \in running.locations[r].backends
                  /\ k \in used => /\ HasServers(running.upstreams[k])
                                   /\ live[k] \subseteq running.upstreams[k].servers

\* It comes to that by itself: callbacks, regeneration and reloads end, and no handler
\* waits for a lock that its caller holds. Excepted are a process or an NGINX that has
\* ended, files that NGINX rejects, and the lock that a failed reload leaves locked.
EventuallyServes ==
    <>[](\/ Quiet /\ ServesLive
         \/ phase = "locked" \/ ~Alive \/ master # "running" \/ ~Loadable)

\* An NGINX that fails takes the backend with it, however early it fails: Start itself
\* does not notice.
FailureEndsProcess == (master = "failed") ~> (manager \in {"panicked", "exited"})

=============================================================================
