--------------------------- MODULE ResourceStore ---------------------------
(***************************************************************************)
(* The Gateway API store of the NGINX backend                              *)
(* (nginxbackend/pkg/store/resource.go).                                   *)
(*                                                                         *)
(* Binds (ports), listeners (hostnames of a bind) and routes (hostnames    *)
(* and backends of a listener) arrive in batches of any order.  Update     *)
(* sorts a batch by kind, stores it, and writes a server file for each     *)
(* listener and hostname and a route file for each route that it touched.  *)
(* Server files include route files by name.  All handlers run under one   *)
(* lock on one goroutine, each iteration of their loops is an action.      *)
(*                                                                         *)
(* What the AddressStore tells this store is here too: which services have *)
(* workloads, which it tracks for routes, and the callback for a tracked   *)
(* service that gets its first workload.                                   *)
(***************************************************************************)
EXTENDS Naturals, FiniteSets

CONSTANTS
    BindKey, ListenerKey, RouteKey, ServiceKey,
    Host,           \* hostnames; "" of a listener is one like the others
    Wildcard,       \* the hostname "*"
    Port,
    TlsListener,    \* listeners with a certificate
    NoBind, NoListener, NoRoute, NoServer, NoFile,
    \* Bounds
    MaxEvents,      \* resources in all the batches, calls of the AddressStore's
                    \* handlers, and writes that fail
    MaxFailures     \* writes that fail

ServerKey == ListenerKey \X Host
Listener == [bind : BindKey, hostname : Host]
Route == [listener : ListenerKey, hostnames : SUBSET Host, backends : SUBSET ServiceKey]

ASSUME ResourceAssumption ==
    /\ TlsListener \subseteq ListenerKey
    /\ NoBind \notin Port /\ NoListener \notin Listener /\ NoRoute \notin Route
    /\ NoServer \notin [routeKeys : SUBSET RouteKey]
    /\ NoFile \notin [port : Port, includes : SUBSET RouteKey]
    /\ NoFile \notin [backends : SUBSET ServiceKey]
    /\ MaxEvents \in Nat /\ MaxFailures \in Nat

VARIABLES
    pc,                 \* "idle", a phase of a handler, or "crashed"
    binds, listeners, routes,
    bindToListeners, listenerToRoutes, serviceToRoutes,
    serverFiles,        \* the routes of each server file written
    affectedServers,    \* local to Update and Remove: keys of server files
    affectedRoutes,     \* local to Update and onServiceAvailable: keys of routes;
                        \* to Remove: deletedRoutes
    openCerts,          \* server files for which the certificate is being written
    openServers,        \* server files truncated and not yet filled
    openRoutes,         \* route files truncated and not yet filled
    changed,            \* local to Update and Remove: there is something to reload
    serverConf,         \* on disk: servers/*.conf
    routeConf,          \* on disk: routes/*.conf, no backend means "return 404"
    certs,              \* on disk: certs/*.crt and *.key, "torn" by a write that has
                        \* not ended or has failed
    available,          \* AddressStore: services with workloads
    active,             \* AddressStore: activeServices
    pending,            \* AddressStore: callbacks to make
    dirty,              \* history: files changed since the last Reload
    excused,            \* history: routes that nothing promises a server file
    unsynced,           \* history: route files not written as generated
    resources, failures \* how much of the bounds is used

maps == <<binds, listeners, routes, bindToListeners, listenerToRoutes>>
disk == <<serverConf, routeConf, certs>>
addressStore == <<available, active, pending>>
opened == <<openCerts, openServers, openRoutes>>
locals == <<affectedServers, affectedRoutes, opened, changed>>
history == <<excused, unsynced>>
vars == <<pc, maps, serviceToRoutes, serverFiles, locals, disk, addressStore, dirty,
          history, resources, failures>>

-----------------------------------------------------------------------------
(* Operators *)

\* addToReverseMap, removeFromReverseMap.
Add(m, key, value) == [m EXCEPT ![key] = @ \cup {value}]
Drop(m, keys, value) == [k \in DOMAIN m |-> IF k \in keys THEN m[k] \ {value} ELSE m[k]]

\* The mutant lets a route without hostnames match nothing.
RouteMatchesExactly(route, hostname) == route.hostnames \cap {hostname, Wildcard} # {}

RouteMatchesHostname(route, hostname) ==
    route.hostnames = {} \/ route.hostnames \cap {hostname, Wildcard} # {}

\* Server files a route asks for, at the listener it names.
ServersOf(route) ==
    IF route.hostnames # {}
    THEN {<<route.listener, h>> : h \in route.hostnames}
    ELSE {<<route.listener, listeners[route.listener].hostname>>}

\* The server files of the listeners of a bind: those with the listener's hostname.
BindServers(b) ==
    {<<l, listeners[l].hostname>> :
        l \in {m \in bindToListeners[b] : listeners[m] # NoListener}}

\* A listenerToRoutes entry whose route is gone: generateServerFile dereferences nil.
Dangling(l) == \E r \in listenerToRoutes[l] : routes[r] = NoRoute

Matching(s) == {r \in listenerToRoutes[s[1]] : RouteMatchesHostname(routes[r], s[2])}

\* The mutant forgets that a listener may come before its bind.
GeneratesUnbound(s) == listeners[s[1]] # NoListener

\* generateServerFile gets past its early returns.
Generates(s) ==
    /\ listeners[s[1]] # NoListener
    /\ binds[listeners[s[1]].bind] # NoBind

\* The mutant takes the route out of the entry of its old listener, last.
IndexedOnce(r, route) ==
    LET added == Add(listenerToRoutes, route.listener, r)
    IN IF routes[r] # NoRoute THEN Drop(added, {routes[r].listener}, r) ELSE added

\* The route stays in the entry of a listener it has left.
Indexed(r, route) == Add(listenerToRoutes, route.listener, r)

\* The mutant tracks a backend once its upstream is there.
TrackedPresent(r) ==
    [k \in ServiceKey |-> serviceToRoutes[k] \cup
        (IF k \in routes[r].backends \cap available THEN {r} ELSE {})]

\* generateLocationDirectives records each backend of a route, EnsureUpstreamFile
\* asks the AddressStore to call back for it: with workloads or without.
Tracked(r) ==
    [k \in ServiceKey |-> serviceToRoutes[k] \cup
        (IF k \in routes[r].backends THEN {r} ELSE {})]

\* The mutant's EnsureUpstreamFile returns early for a service without workloads.
AwaitedPresent(r) == active \cup (routes[r].backends \cap available)

Awaited(r) == active \cup routes[r].backends

\* The mutant deletes the files that bear the route's name.
RouteFilesNamed(r) == {r} \X ListenerKey

\* What deleteRouteFile deletes: it looks the route up first.
RouteFilesOf(r) == IF routes[r] = NoRoute THEN {} ELSE {<<r, routes[r].listener>>}

\* The mutant's deleteTLSFiles is given the listener's key.
CertificatesOfListener(s) == {s[1]}

\* What deleteTLSFiles deletes: no certificate is named after a server file.
CertificatesOf(s) == {}

\* The mutant looks at server files only.
TouchedServers == affectedServers # {}

\* Update and Remove have something to reload.
Touched == affectedServers # {} \/ affectedRoutes # {}

\* A handler does nothing else while it writes a file.
NotWriting == openCerts = {} /\ openServers = {} /\ openRoutes = {}

TakesResource == resources + failures < MaxEvents /\ resources' = resources + 1
Fails ==
    failures < MaxFailures /\ resources + failures < MaxEvents /\ failures' = failures + 1

-----------------------------------------------------------------------------
(* Update: phases 2 to 4 store the resources *)

UpdateBegin ==
    /\ pc = "idle" /\ pending = {}
    /\ pc' = "binds"
    /\ affectedServers' = {} /\ affectedRoutes' = {} /\ changed' = FALSE
    /\ UNCHANGED <<maps, serviceToRoutes, serverFiles, opened, disk, addressStore, dirty,
                   history, resources, failures>>

UpdateBind(b, port) ==
    /\ pc = "binds" /\ TakesResource
    /\ binds' = [binds EXCEPT ![b] = port]
    /\ affectedServers' = affectedServers \cup BindServers(b)
    /\ UNCHANGED <<pc, listeners, routes, bindToListeners, listenerToRoutes,
                   serviceToRoutes, serverFiles, affectedRoutes, opened, changed,
                   disk, addressStore, dirty, history, failures>>

\* A change of hostname or bind deletes the server file of the old hostname, also
\* under routes that ask for that hostname; the delete's error is ignored.
UpdateListener(l, listener) ==
    /\ pc = "listeners" /\ TakesResource
    /\ listeners' = [listeners EXCEPT ![l] = listener]
    /\ bindToListeners' = Add(bindToListeners, listener.bind, l)
    /\ affectedServers' = affectedServers \cup {<<l, listener.hostname>>}
    /\ LET old == <<l, listeners[l].hostname>> IN
       IF listeners[l] \notin {NoListener, listener}
       THEN /\ serverFiles' = [serverFiles EXCEPT ![old] = NoServer]
            /\ \/ /\ serverConf' = [serverConf EXCEPT ![old] = NoFile]
                  /\ UNCHANGED failures
               \/ serverConf[old] # NoFile /\ Fails /\ UNCHANGED serverConf
            /\ dirty' = TRUE
            /\ excused' = excused \cup
                  {r \in RouteKey : routes[r] # NoRoute /\ routes[r].listener = l}
       ELSE UNCHANGED <<serverFiles, serverConf, dirty, excused, failures>>
    /\ UNCHANGED <<pc, binds, routes, listenerToRoutes, serviceToRoutes, affectedRoutes,
                   opened, changed, routeConf, certs, addressStore, unsynced>>

UpdateRoute(r, route) ==
    /\ pc = "routes" /\ TakesResource
    /\ LET old == routes[r]
           existed == old # NoRoute
           placed == listeners[route.listener] # NoListener
       IN /\ serviceToRoutes' =
                IF existed THEN Drop(serviceToRoutes, old.backends, r) ELSE serviceToRoutes
          /\ affectedServers' = affectedServers
                \cup (IF existed /\ old.hostnames # route.hostnames
                      THEN {<<route.listener, h>> : h \in old.hostnames} ELSE {})
                \cup (IF placed THEN ServersOf(route) ELSE {})
          /\ excused' =
                IF placed /\ binds[listeners[route.listener].bind] # NoBind
                THEN excused \ {r} ELSE excused \cup {r}
    /\ routes' = [routes EXCEPT ![r] = route]
    /\ listenerToRoutes' = Indexed(r, route)
    /\ affectedRoutes' = affectedRoutes \cup {r}
    /\ UNCHANGED <<pc, binds, listeners, bindToListeners, serverFiles, opened, changed,
                   disk, addressStore, dirty, unsynced, failures>>

\* Phase 1 has sorted the batch: binds, then listeners, then routes.
NextKind ==
    /\ \/ pc = "binds" /\ pc' = "listeners" /\ UNCHANGED changed
       \/ pc = "listeners" /\ pc' = "routes" /\ UNCHANGED changed
       \/ /\ pc = "routes" /\ pc' = "servers"
          /\ changed' = Touched
    /\ UNCHANGED <<maps, serviceToRoutes, serverFiles, affectedServers, affectedRoutes,
                   opened, disk, addressStore, dirty, history, resources, failures>>

-----------------------------------------------------------------------------
(* Generating files.  Opening a file truncates it, filling it is another step, and *)
(* either may fail.  An empty server file is as good as none, an empty route file  *)
(* has no backend.                                                                 *)

\* What is served under s may be anything from here on.
ServerFails(s) == Fails /\ excused' = excused \cup Matching(s)

OpenServerFile(s) ==
    \/ /\ serverConf' = [serverConf EXCEPT ![s] = NoFile] /\ openServers' = {s}
       /\ UNCHANGED <<excused, failures>>
    \/ ServerFails(s) /\ UNCHANGED <<serverConf, openServers>>

\* generateTLSFiles first has WriteConfig write an empty certificate.
OpenCertificate(s) ==
    /\ \/ /\ certs' = [certs EXCEPT ![s[1]] = "torn"] /\ openCerts' = {s}
          /\ UNCHANGED <<excused, failures>>
       \/ ServerFails(s) /\ UNCHANGED <<certs, openCerts>>
    /\ UNCHANGED <<serverConf, openServers>>

\* generateServerFile past its early returns, up to the first file opened.
BeginServer(s) ==
    /\ ~Dangling(s[1])
    /\ serverFiles' = [serverFiles EXCEPT ![s] = [routeKeys |-> Matching(s)]]
    /\ dirty' = TRUE
    /\ \/ s[1] \in TlsListener /\ OpenCertificate(s)
       \/ s[1] \notin TlsListener /\ OpenServerFile(s) /\ UNCHANGED <<certs, openCerts>>

GenerateServerFile(s) ==
    \/ Generates(s) /\ BeginServer(s)
    \/ /\ ~Generates(s)
       /\ UNCHANGED <<serverFiles, openCerts, openServers, serverConf, certs, dirty,
                      excused, failures>>

\* The rest of generateServerFile, in Update or in Remove: the certificate and its key
\* are written, or not, and then the server file.
WriteCertificate(s) ==
    /\ s \in openCerts /\ openCerts' = {}
    /\ \/ certs' = [certs EXCEPT ![s[1]] = "whole"] /\ OpenServerFile(s)
       \/ ServerFails(s) /\ UNCHANGED <<certs, serverConf, openServers>>
    /\ UNCHANGED <<pc, maps, serviceToRoutes, serverFiles, affectedServers, affectedRoutes,
                   openRoutes, changed, routeConf, addressStore, dirty, unsynced, resources>>

WriteServer(s) ==
    /\ s \in openServers /\ openServers' = {}
    /\ \/ /\ serverConf' = [serverConf EXCEPT ![s] =
                 [port |-> binds[listeners[s[1]].bind], includes |-> Matching(s)]]
          /\ UNCHANGED <<excused, failures>>
       \/ ServerFails(s) /\ UNCHANGED serverConf
    /\ UNCHANGED <<pc, maps, serviceToRoutes, serverFiles, affectedServers, affectedRoutes,
                   openCerts, openRoutes, changed, routeConf, certs, addressStore, dirty,
                   unsynced, resources>>

RegenerateServer(s) ==
    /\ pc = "servers" /\ s \in affectedServers /\ NotWriting
    /\ affectedServers' = affectedServers \ {s}
    /\ GenerateServerFile(s)
    /\ UNCHANGED <<pc, maps, serviceToRoutes, affectedRoutes, openRoutes, changed,
                   routeConf, addressStore, unsynced, resources>>

ServersDone ==
    /\ pc = "servers" /\ affectedServers = {} /\ NotWriting
    /\ pc' = "routefiles"
    /\ UNCHANGED <<maps, serviceToRoutes, serverFiles, locals, disk, addressStore, dirty,
                   history, resources, failures>>

\* generateRouteFile up to the open file.  Every backend is tracked.
OpenRoute(r) ==
    LET file == <<r, routes[r].listener>>
    IN /\ serviceToRoutes' = Tracked(r)
       /\ active' = Awaited(r)
       /\ \/ /\ routeConf' = [routeConf EXCEPT ![file] = [backends |-> {}]]
             /\ openRoutes' = {file}
             /\ UNCHANGED failures
          \/ Fails /\ UNCHANGED <<routeConf, openRoutes>>
       /\ unsynced' = unsynced \cup {file}
       /\ dirty' = TRUE

\* Its end, in Update or in onServiceAvailable.  Backends without workloads are left out
\* of the location, and so are those whose upstream file could not be written.
WriteRoute(file) ==
    /\ file \in openRoutes /\ openRoutes' = {}
    /\ LET present == routes[file[1]].backends \cap available
       IN \/ /\ routeConf' = [routeConf EXCEPT ![file] = [backends |-> present]]
             /\ unsynced' = unsynced \ {file}
             /\ UNCHANGED failures
          \/ /\ Fails
             /\ \E valid \in SUBSET present :
                   routeConf' = [routeConf EXCEPT ![file] = [backends |-> valid]]
             /\ UNCHANGED unsynced
    /\ UNCHANGED <<pc, maps, serviceToRoutes, serverFiles, affectedServers, affectedRoutes,
                   openCerts, openServers, changed, serverConf, certs, addressStore, dirty,
                   excused, resources>>

RegenerateRoute(r) ==
    /\ pc = "routefiles" /\ r \in affectedRoutes /\ NotWriting
    /\ affectedRoutes' = affectedRoutes \ {r}
    /\ OpenRoute(r)
    /\ UNCHANGED <<pc, maps, serverFiles, affectedServers, openCerts, openServers, changed,
                   serverConf, certs, available, pending, excused, resources>>

\* Reload, whose error is only logged.
UpdateReturns ==
    /\ pc = "routefiles" /\ affectedRoutes = {} /\ NotWriting
    /\ pc' = "idle"
    /\ dirty' = (dirty /\ ~changed)
    /\ changed' = FALSE
    /\ UNCHANGED <<maps, serviceToRoutes, serverFiles, affectedServers, affectedRoutes,
                   opened, disk, addressStore, history, resources, failures>>

-----------------------------------------------------------------------------
(* Remove *)

RemoveBegin ==
    /\ pc = "idle" /\ pending = {}
    /\ pc' = "remove"
    /\ affectedServers' = {} /\ affectedRoutes' = {} /\ changed' = FALSE
    /\ UNCHANGED <<maps, serviceToRoutes, serverFiles, opened, disk, addressStore, dirty,
                   history, resources, failures>>

RemoveBind(b) ==
    /\ pc = "remove" /\ TakesResource /\ binds[b] # NoBind
    /\ affectedServers' = affectedServers \cup BindServers(b)
    /\ binds' = [binds EXCEPT ![b] = NoBind]
    /\ bindToListeners' = [bindToListeners EXCEPT ![b] = {}]
    /\ UNCHANGED <<pc, listeners, routes, listenerToRoutes, serviceToRoutes, serverFiles,
                   affectedRoutes, opened, changed, disk, addressStore, dirty, history,
                   failures>>

\* Every route that ever named the listener goes with it; serviceToRoutes keeps them.
RemoveListener(l) ==
    /\ pc = "remove" /\ TakesResource /\ listeners[l] # NoListener
    /\ LET removed == {r \in listenerToRoutes[l] : routes[r] # NoRoute}
           key == <<l, listeners[l].hostname>>
       IN /\ affectedServers' = affectedServers \cup {key} \cup
                UNION {{<<l, h>> : h \in routes[r].hostnames} : r \in removed}
          /\ routes' = [r \in RouteKey |-> IF r \in removed THEN NoRoute ELSE routes[r]]
          /\ affectedRoutes' = affectedRoutes \cup removed
          /\ serverFiles' = [serverFiles EXCEPT ![key] = NoServer]
          /\ bindToListeners' = Drop(bindToListeners, {listeners[l].bind}, l)
    /\ listeners' = [listeners EXCEPT ![l] = NoListener]
    /\ listenerToRoutes' = [listenerToRoutes EXCEPT ![l] = {}]
    /\ UNCHANGED <<pc, binds, serviceToRoutes, opened, changed, disk, addressStore, dirty,
                   history, failures>>

RemoveRoute(r) ==
    /\ pc = "remove" /\ TakesResource /\ routes[r] # NoRoute
    /\ affectedServers' = affectedServers \cup
          (IF listeners[routes[r].listener] # NoListener THEN ServersOf(routes[r]) ELSE {})
    /\ serviceToRoutes' = Drop(serviceToRoutes, routes[r].backends, r)
    /\ routes' = [routes EXCEPT ![r] = NoRoute]
    /\ listenerToRoutes' = Drop(listenerToRoutes, {routes[r].listener}, r)
    /\ affectedRoutes' = affectedRoutes \cup {r}
    /\ UNCHANGED <<pc, binds, listeners, bindToListeners, serverFiles, opened, changed,
                   disk, addressStore, dirty, history, failures>>

RemoveLoopEnds ==
    /\ pc = "remove"
    /\ pc' = "cleanup"
    /\ changed' = Touched
    /\ UNCHANGED <<maps, serviceToRoutes, serverFiles, affectedServers, affectedRoutes,
                   opened, disk, addressStore, dirty, history, resources, failures>>

\* "Check if server still has routes", by what serverFiles says it had.
StillServes(s) == serverFiles[s] # NoServer /\ serverFiles[s].routeKeys # {}

CleanUpServer(s) ==
    /\ pc = "cleanup" /\ s \in affectedServers /\ NotWriting
    /\ affectedServers' = affectedServers \ {s}
    /\ \/ StillServes(s) /\ GenerateServerFile(s)
       \/ /\ ~StillServes(s)
          /\ serverFiles' = [serverFiles EXCEPT ![s] = NoServer]
          /\ \/ serverConf' = [serverConf EXCEPT ![s] = NoFile] /\ UNCHANGED failures
             \/ serverConf[s] # NoFile /\ Fails /\ UNCHANGED serverConf
          /\ certs' = [l \in ListenerKey |->
                IF l \in CertificatesOf(s) THEN "none" ELSE certs[l]]
          /\ dirty' = TRUE
          /\ UNCHANGED <<openCerts, openServers, excused>>
    /\ UNCHANGED <<pc, maps, serviceToRoutes, affectedRoutes, openRoutes, changed,
                   routeConf, addressStore, unsynced, resources>>

\* The routes to delete have left the store: no route file goes.
RemoveReturns ==
    /\ pc = "cleanup" /\ affectedServers = {} /\ NotWriting
    /\ pc' = "idle"
    /\ LET deleted == UNION {RouteFilesOf(r) : r \in affectedRoutes} IN
       routeConf' = [f \in DOMAIN routeConf |-> IF f \in deleted THEN NoFile ELSE routeConf[f]]
    /\ affectedRoutes' = {}
    /\ dirty' = (dirty /\ ~changed)
    /\ changed' = FALSE
    /\ UNCHANGED <<maps, serviceToRoutes, serverFiles, affectedServers, opened, serverConf,
                   certs, addressStore, history, resources, failures>>

\* A server file of a listener with a dangling route is to be generated.
Panic(s) ==
    /\ \/ pc = "servers"
       \/ pc = "cleanup" /\ StillServes(s)
    /\ s \in affectedServers /\ NotWriting /\ Generates(s) /\ Dangling(s[1])
    /\ pc' = "crashed"
    /\ UNCHANGED <<maps, serviceToRoutes, serverFiles, locals, disk, addressStore, dirty,
                   history, resources, failures>>

-----------------------------------------------------------------------------
(* onServiceAvailable, and the AddressStore that calls it *)

CallbackBegins(k) ==
    /\ pc = "idle" /\ k \in pending
    /\ pending' = pending \ {k}
    /\ affectedRoutes' = serviceToRoutes[k]
    /\ pc' = IF serviceToRoutes[k] = {} THEN "idle" ELSE "callback"
    /\ UNCHANGED <<maps, serviceToRoutes, serverFiles, affectedServers, opened, changed,
                   disk, available, active, dirty, history, resources, failures>>

\* A route of a removed listener is still in serviceToRoutes: it is not found.
CallbackRoute(r) ==
    /\ pc = "callback" /\ r \in affectedRoutes /\ NotWriting
    /\ affectedRoutes' = affectedRoutes \ {r}
    /\ \/ routes[r] # NoRoute /\ OpenRoute(r)
       \/ /\ routes[r] = NoRoute
          /\ UNCHANGED <<serviceToRoutes, active, routeConf, openRoutes, unsynced, dirty,
                         failures>>
    /\ UNCHANGED <<pc, maps, serverFiles, affectedServers, openCerts, openServers, changed,
                   serverConf, certs, available, pending, excused, resources>>

CallbackReturns ==
    /\ pc = "callback" /\ affectedRoutes = {} /\ NotWriting
    /\ pc' = "idle"
    /\ dirty' = FALSE
    /\ UNCHANGED <<maps, serviceToRoutes, serverFiles, locals, disk, addressStore, history,
                   resources, failures>>

\* AddressStore.Update: services get and lose workloads.  It calls back for the tracked
\* ones that got a first workload, and for some more: a service that has lost it again,
\* or one whose only workload was sent again.
ServicesUpdated ==
    /\ pc = "idle" /\ pending = {} /\ TakesResource
    /\ available' \in SUBSET ServiceKey
    /\ pending' \in SUBSET active /\ active \cap (available' \ available) \subseteq pending'
    /\ UNCHANGED <<pc, maps, serviceToRoutes, serverFiles, locals, disk, active, dirty,
                   history, failures>>

\* AddressStore.Remove: it stops tracking the services that lose their last workload.
ServicesRemoved ==
    /\ pc = "idle" /\ pending = {} /\ TakesResource
    /\ available' \in SUBSET available
    /\ active' = active \ (available \ available')
    /\ UNCHANGED <<pc, maps, serviceToRoutes, serverFiles, locals, disk, pending, dirty,
                   history, failures>>

-----------------------------------------------------------------------------
Init ==
    /\ pc = "idle"
    /\ binds = [b \in BindKey |-> NoBind]
    /\ listeners = [l \in ListenerKey |-> NoListener]
    /\ routes = [r \in RouteKey |-> NoRoute]
    /\ bindToListeners = [b \in BindKey |-> {}]
    /\ listenerToRoutes = [l \in ListenerKey |-> {}]
    /\ serviceToRoutes = [k \in ServiceKey |-> {}]
    /\ serverFiles = [s \in ServerKey |-> NoServer]
    /\ affectedServers = {} /\ affectedRoutes = {} /\ changed = FALSE
    /\ openCerts = {} /\ openServers = {} /\ openRoutes = {}
    /\ serverConf = [s \in ServerKey |-> NoFile]
    /\ routeConf = [f \in RouteKey \X ListenerKey |-> NoFile]
    /\ certs = [l \in ListenerKey |-> "none"]
    /\ available = {} /\ active = {} /\ pending = {}
    /\ dirty = FALSE /\ excused = {} /\ unsynced = {}
    /\ resources = 0 /\ failures = 0

\* The server's side of the protocol: a delta response names a resource once, so a batch
\* has no second version of a route.  (With one that moves the route to another listener
\* a server file could include a route file that is not written.)
Update ==
    \/ UpdateBegin
    \/ \E b \in BindKey, port \in Port : UpdateBind(b, port)
    \/ \E l \in ListenerKey, listener \in Listener : UpdateListener(l, listener)
    \/ \E r \in RouteKey \ affectedRoutes, route \in Route : UpdateRoute(r, route)
    \/ NextKind
    \/ \E s \in ServerKey : RegenerateServer(s)
    \/ ServersDone
    \/ \E r \in RouteKey : RegenerateRoute(r)
    \/ UpdateReturns

Remove ==
    \/ RemoveBegin
    \/ \E b \in BindKey : RemoveBind(b)
    \/ \E l \in ListenerKey : RemoveListener(l)
    \/ \E r \in RouteKey : RemoveRoute(r)
    \/ RemoveLoopEnds
    \/ \E s \in ServerKey : CleanUpServer(s)
    \/ RemoveReturns

OnServiceAvailable ==
    \/ \E k \in ServiceKey : CallbackBegins(k)
    \/ \E r \in RouteKey : CallbackRoute(r)
    \/ CallbackReturns

AddressStore == ServicesUpdated \/ ServicesRemoved

Next ==
    \/ Update
    \/ Remove
    \/ \E s \in ServerKey : WriteCertificate(s) \/ WriteServer(s) \/ Panic(s)
    \/ \E file \in RouteKey \X ListenerKey : WriteRoute(file)
    \/ OnServiceAvailable
    \/ AddressStore

Spec == Init /\ [][Next]_vars

-----------------------------------------------------------------------------
(* Properties *)

\* The variables hold values of the kinds the Go declarations give them.
TypeOK ==
    /\ pc \in {"idle", "binds", "listeners", "routes", "servers", "routefiles", "remove",
               "cleanup", "callback", "crashed"}
    /\ binds \in [BindKey -> Port \cup {NoBind}]
    /\ listeners \in [ListenerKey -> Listener \cup {NoListener}]
    /\ routes \in [RouteKey -> Route \cup {NoRoute}]
    /\ bindToListeners \in [BindKey -> SUBSET ListenerKey]
    /\ listenerToRoutes \in [ListenerKey -> SUBSET RouteKey]
    /\ serviceToRoutes \in [ServiceKey -> SUBSET RouteKey]
    /\ serverFiles \in [ServerKey -> [routeKeys : SUBSET RouteKey] \cup {NoServer}]
    /\ affectedServers \in SUBSET ServerKey
    /\ affectedRoutes \in SUBSET RouteKey
    /\ openCerts \in SUBSET ServerKey /\ openServers \in SUBSET ServerKey
    /\ openRoutes \in SUBSET (RouteKey \X ListenerKey)
    /\ changed \in BOOLEAN /\ dirty \in BOOLEAN
    /\ serverConf \in
          [ServerKey -> [port : Port, includes : SUBSET RouteKey] \cup {NoFile}]
    /\ routeConf \in
          [RouteKey \X ListenerKey -> [backends : SUBSET ServiceKey] \cup {NoFile}]
    /\ certs \in [ListenerKey -> {"none", "whole", "torn"}]
    /\ available \in SUBSET ServiceKey /\ active \in SUBSET ServiceKey
    /\ pending \in SUBSET ServiceKey
    /\ excused \in SUBSET RouteKey
    /\ unsynced \in SUBSET (RouteKey \X ListenerKey)
    /\ resources \in 0 .. MaxEvents /\ failures \in 0 .. MaxFailures

Stored == {r \in RouteKey : routes[r] # NoRoute}
FileOf(r) == <<r, routes[r].listener>>

\* Every stored route is in the index of the listener it names, however it moved
\* between listeners that came and went: generateServerFile finds routes only there.
RoutesIndexed == \A r \in Stored : r \in listenerToRoutes[routes[r].listener]

\* Between calls every backend of a stored route leads back to the route, also after
\* other routes with that backend were updated or removed: this is how
\* onServiceAvailable finds what to regenerate.
BackendsTracked ==
    pc = "idle" =>
        \A r \in Stored, k \in ServiceKey :
            k \in routes[r].backends => r \in serviceToRoutes[k]

\* Between calls, once the callbacks are made, the location of a stored route proxies
\* to each of its backends that has workloads: whichever of route and service came
\* first, and however often the service went away and came back.
RouteServesAvailable ==
    (pc = "idle" /\ pending = {}) =>
        \A r \in Stored :
            FileOf(r) \in unsynced
                \/ /\ routeConf[FileOf(r)] # NoFile
                   /\ routes[r].backends \cap available \subseteq routeConf[FileOf(r)].backends

\* Between calls no server file includes a route file that is not there, which NGINX
\* rejects with the whole configuration.
IncludesResolve ==
    pc = "idle" =>
        \A s \in ServerKey :
            serverConf[s] # NoFile =>
                \A r \in serverConf[s].includes :
                    routeConf[<<r, s[1]>>] # NoFile \/ <<r, s[1]>> \in unsynced

\* Between calls a route that was stored when its listener and bind were there is
\* included under every hostname it asks for, until its listener moves or changes
\* hostname: no update or removal of anything else takes it away.
RouteStaysServed ==
    pc = "idle" =>
        \A r \in Stored \ excused :
            /\ listeners[routes[r].listener] # NoListener
            /\ \A s \in ServersOf(routes[r]) :
                  serverConf[s] # NoFile /\ r \in serverConf[s].includes

\* No handler returns with changed files and no reload after the change.
ChangesLoaded == pc = "idle" => ~dirty

\* A server file of a TLS listener never lacks the certificate files it names: not
\* when another server file of the listener is deleted, nor when the listener is.
CertificatePresent ==
    \A s \in ServerKey :
        (serverConf[s] # NoFile /\ s[1] \in TlsListener) => certs[s[1]] # "none"

(* What comments say of the store, and the code does not do *)

\* "activeServices tracks which services are currently used by routes" (address.go:93),
\* and DeleteUpstreamFile "is called by ResourceStore when no routes reference a backend
\* anymore" (address.go:589): between calls every tracked service is a backend of a
\* stored route.
UntrackedWhenUnused ==
    (pc = "idle" /\ pending = {}) => active \subseteq UNION {routes[r].backends : r \in Stored}

=============================================================================
