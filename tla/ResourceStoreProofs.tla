------------------------ MODULE ResourceStoreProofs ------------------------
(***************************************************************************)
(* Proofs about ResourceStore, for any sets of binds, listeners, routes,   *)
(* services, hostnames and ports.                                          *)
(***************************************************************************)
EXTENDS ResourceStore, TLAPS

\* The routes to regenerate are stored ones; those to delete are not.
StoredInv ==
    /\ pc \in {"binds", "listeners", "routes", "servers", "routefiles"} =>
          affectedRoutes \subseteq Stored
    /\ pc \in {"remove", "cleanup"} => affectedRoutes \cap Stored = {}

\* A handler writes one file after the other, and what it writes rests on does not change
\* under it.
OpenInv ==
    /\ (openCerts # {} \/ openServers # {}) => pc \in {"servers", "cleanup"}
    /\ openRoutes # {} => pc \in {"routefiles", "callback"}
    /\ \A s \in openCerts \cup openServers :
          Generates(s) /\ serverFiles[s] = [routeKeys |-> Matching(s)]
    /\ \A s, other \in openCerts \cup openServers : s = other
    /\ \A s \in openServers : s[1] \in TlsListener => certs[s[1]] # "none"
    /\ \A file \in openRoutes :
          /\ file[1] \in Stored /\ file = FileOf(file[1]) /\ file \in unsynced
          /\ routes[file[1]].backends \subseteq active

TypeInv == TypeOK /\ StoredInv /\ OpenInv

-----------------------------------------------------------------------------
(* The helpers return values of the right kind *)

LEMMA RouteFields ==
    ASSUME TypeOK, NEW r \in Stored
    PROVE  /\ routes[r] \in Route
           /\ r \in RouteKey
           /\ routes[r].listener \in ListenerKey
           /\ routes[r].hostnames \in SUBSET Host
           /\ routes[r].backends \in SUBSET ServiceKey
           /\ FileOf(r) \in RouteKey \X ListenerKey
BY DEF TypeOK, Stored, Route, FileOf

LEMMA ListenerFields ==
    ASSUME TypeOK, NEW l \in ListenerKey, listeners[l] # NoListener
    PROVE  /\ listeners[l].bind \in BindKey
           /\ listeners[l].hostname \in Host
           /\ <<l, listeners[l].hostname>> \in ServerKey
BY DEF TypeOK, Listener, ServerKey

LEMMA ServerFields ==
    ASSUME NEW s \in ServerKey
    PROVE  s[1] \in ListenerKey /\ s[2] \in Host /\ s = <<s[1], s[2]>>
BY DEF ServerKey

LEMMA ServersOfType ==
    ASSUME TypeOK, NEW route \in Route, listeners[route.listener] # NoListener
    PROVE  /\ ServersOf(route) \in SUBSET ServerKey
           /\ \A s \in ServersOf(route) :
                 s[1] = route.listener /\ RouteMatchesHostname(route, s[2])
<1>1. route.listener \in ListenerKey /\ route.hostnames \in SUBSET Host
  BY DEF Route
<1>2. <<route.listener, listeners[route.listener].hostname>> \in ServerKey
  BY <1>1, ListenerFields
<1> QED
  BY <1>1, <1>2 DEF ServersOf, ServerKey, RouteMatchesHostname

LEMMA BindServersType ==
    ASSUME TypeOK, NEW b \in BindKey
    PROVE  BindServers(b) \in SUBSET ServerKey
BY ListenerFields DEF BindServers, TypeOK

LEMMA MatchingType ==
    ASSUME TypeOK, NEW s \in ServerKey
    PROVE  Matching(s) \in SUBSET listenerToRoutes[s[1]] /\ Matching(s) \in SUBSET RouteKey
BY ServerFields DEF TypeOK, Matching

LEMMA AddType ==
    ASSUME NEW Key, NEW Value, NEW m \in [Key -> SUBSET Value],
           NEW key \in Key, NEW value \in Value
    PROVE  /\ Add(m, key, value) \in [Key -> SUBSET Value]
           /\ \A k \in Key : m[k] \subseteq Add(m, key, value)[k]
           /\ value \in Add(m, key, value)[key]
BY DEF Add

LEMMA DropType ==
    ASSUME NEW Key, NEW Value, NEW m \in [Key -> SUBSET Value], NEW keys, NEW value
    PROVE  /\ Drop(m, keys, value) \in [Key -> SUBSET Value]
           /\ \A k \in Key : /\ m[k] \ {value} \subseteq Drop(m, keys, value)[k]
                             /\ Drop(m, keys, value)[k] \subseteq m[k]
BY DEF Drop

LEMMA ExceptType ==
    ASSUME NEW Key, NEW Value, NEW m \in [Key -> Value], NEW key, NEW value \in Value
    PROVE  [m EXCEPT ![key] = value] \in [Key -> Value]
OBVIOUS

\* What the steps of writing a server file leave, if it is written at all.
LEMMA FailsType ==
    ASSUME TypeOK, Fails \/ UNCHANGED failures
    PROVE  failures' \in 0 .. MaxFailures
BY ResourceAssumption DEF Fails, TypeOK

LEMMA ServerFailsType ==
    ASSUME TypeOK, NEW s \in ServerKey, ServerFails(s) \/ UNCHANGED <<excused, failures>>
    PROVE  /\ failures' \in 0 .. MaxFailures
           /\ excused' \in SUBSET RouteKey
           /\ excused \subseteq excused'
BY FailsType, MatchingType DEF ServerFails, TypeOK

LEMMA OpenServerFileType ==
    ASSUME TypeOK, NEW s \in ServerKey, OpenServerFile(s)
    PROVE  /\ serverConf' \in
                 [ServerKey -> [port : Port, includes : SUBSET RouteKey] \cup {NoFile}]
           /\ openServers' \in SUBSET ServerKey
           /\ excused' \in SUBSET RouteKey
           /\ failures' \in 0 .. MaxFailures
BY ServerFailsType, ExceptType DEF OpenServerFile, TypeOK

LEMMA GenerateServerFileType ==
    ASSUME TypeOK, NEW s \in ServerKey, GenerateServerFile(s)
    PROVE  /\ serverFiles' \in [ServerKey -> [routeKeys : SUBSET RouteKey] \cup {NoServer}]
           /\ serverConf' \in
                 [ServerKey -> [port : Port, includes : SUBSET RouteKey] \cup {NoFile}]
           /\ certs' \in [ListenerKey -> {"none", "whole", "torn"}]
           /\ openCerts' \in SUBSET ServerKey /\ openServers' \in SUBSET ServerKey
           /\ dirty' \in BOOLEAN
           /\ excused' \in SUBSET RouteKey
           /\ failures' \in 0 .. MaxFailures
<1>1. CASE ~Generates(s)
  BY <1>1, ServerFailsType DEF GenerateServerFile, TypeOK
<1>2. CASE BeginServer(s)
  <2>1. serverFiles' \in [ServerKey -> [routeKeys : SUBSET RouteKey] \cup {NoServer}]
    BY <1>2, MatchingType DEF BeginServer, TypeOK
  <2>2. CASE OpenCertificate(s)
    BY <1>2, <2>1, <2>2, ServerFailsType DEF BeginServer, OpenCertificate, TypeOK
  <2>3. CASE OpenServerFile(s) /\ UNCHANGED <<certs, openCerts>>
    BY <1>2, <2>1, <2>3, OpenServerFileType DEF BeginServer, TypeOK
  <2> QED
    BY <1>2, <2>2, <2>3 DEF BeginServer
<1> QED
  BY <1>1, <1>2 DEF GenerateServerFile

LEMMA OpenRouteType ==
    ASSUME TypeOK, NEW r \in Stored, OpenRoute(r)
    PROVE  /\ serviceToRoutes' \in [ServiceKey -> SUBSET RouteKey]
           /\ active' \in SUBSET ServiceKey
           /\ routeConf' \in
                 [RouteKey \X ListenerKey -> [backends : SUBSET ServiceKey] \cup {NoFile}]
           /\ openRoutes' \in SUBSET (RouteKey \X ListenerKey)
           /\ unsynced' \in SUBSET (RouteKey \X ListenerKey)
           /\ dirty' \in BOOLEAN
           /\ failures' \in 0 .. MaxFailures
<1>1. /\ r \in RouteKey /\ routes[r].backends \in SUBSET ServiceKey
      /\ <<r, routes[r].listener>> \in RouteKey \X ListenerKey
  BY RouteFields DEF FileOf
<1>2. failures' \in 0 .. MaxFailures
  BY FailsType DEF OpenRoute
<1>3. /\ serviceToRoutes' \in [ServiceKey -> SUBSET RouteKey]
      /\ active' \in SUBSET ServiceKey
  BY <1>1 DEF OpenRoute, Tracked, Awaited, TypeOK
<1>4. /\ unsynced' \in SUBSET (RouteKey \X ListenerKey)
      /\ openRoutes' \in SUBSET (RouteKey \X ListenerKey)
  BY <1>1 DEF OpenRoute, TypeOK
<1>5. routeConf' \in
         [RouteKey \X ListenerKey -> [backends : SUBSET ServiceKey] \cup {NoFile}]
  <2> DEFINE Conf == [backends : SUBSET ServiceKey] \cup {NoFile}
  <2>1. routeConf \in [RouteKey \X ListenerKey -> Conf] /\ [backends |-> {}] \in Conf
    BY DEF TypeOK
  <2> HIDE DEF Conf
  <2>2. \/ routeConf' = routeConf
        \/ routeConf' = [routeConf EXCEPT ![<<r, routes[r].listener>>] = [backends |-> {}]]
    BY DEF OpenRoute
  <2>3. routeConf' \in [RouteKey \X ListenerKey -> Conf]
    BY <2>1, <2>2
  <2> QED
    BY <2>3 DEF Conf
<1> QED
  BY <1>2, <1>3, <1>4, <1>5 DEF OpenRoute

LEMMA WriteRouteType ==
    ASSUME TypeInv, NEW file \in RouteKey \X ListenerKey, WriteRoute(file)
    PROVE  /\ routeConf' \in
                 [RouteKey \X ListenerKey -> [backends : SUBSET ServiceKey] \cup {NoFile}]
           /\ unsynced' \in SUBSET (RouteKey \X ListenerKey)
           /\ failures' \in 0 .. MaxFailures
<1>1. routes[file[1]].backends \in SUBSET ServiceKey
  BY RouteFields DEF WriteRoute, TypeInv, OpenInv
<1>2. PICK valid \in SUBSET ServiceKey :
         routeConf' = [routeConf EXCEPT ![file] = [backends |-> valid]]
  BY <1>1 DEF WriteRoute
<1>3. routeConf' \in
         [RouteKey \X ListenerKey -> [backends : SUBSET ServiceKey] \cup {NoFile}]
  BY <1>2, ExceptType DEF TypeInv, TypeOK
<1>4. failures' \in 0 .. MaxFailures
  BY FailsType DEF WriteRoute, TypeInv
<1> QED
  BY <1>3, <1>4 DEF WriteRoute, TypeInv, TypeOK

-----------------------------------------------------------------------------
(* Type correctness *)

LEMMA TypeInit == Init => TypeInv
<1> SUFFICES ASSUME Init
             PROVE  TypeInv
  OBVIOUS
<1>1. routeConf \in
         [RouteKey \X ListenerKey -> [backends : SUBSET ServiceKey] \cup {NoFile}]
  BY DEF Init
<1>2. /\ resources \in 0 .. MaxEvents /\ failures \in 0 .. MaxFailures
      /\ StoredInv /\ OpenInv
  BY ResourceAssumption DEF Init, StoredInv, OpenInv
<1> QED
  BY <1>1, <1>2 DEF Init, TypeInv, TypeOK

LEMMA UpdateListenerType ==
    ASSUME TypeInv, NEW l \in ListenerKey, NEW listener \in Listener,
           UpdateListener(l, listener)
    PROVE  TypeOK' /\ StoredInv'
<1>1. listener.bind \in BindKey /\ <<l, listener.hostname>> \in ServerKey
  BY DEF Listener, ServerKey
<1>2. bindToListeners' \in [BindKey -> SUBSET ListenerKey]
  BY <1>1, AddType DEF UpdateListener, TypeInv, TypeOK
<1>3. failures' \in 0 .. MaxFailures /\ resources' \in 0 .. MaxEvents
  BY ResourceAssumption DEF UpdateListener, TakesResource, Fails, TypeInv, TypeOK
<1>4. serverFiles' \in [ServerKey -> [routeKeys : SUBSET RouteKey] \cup {NoServer}]
  BY DEF UpdateListener, TypeInv, TypeOK
<1>5. serverConf' \in
         [ServerKey -> [port : Port, includes : SUBSET RouteKey] \cup {NoFile}]
  BY DEF UpdateListener, TypeInv, TypeOK
<1>6. /\ listeners' \in [ListenerKey -> Listener \cup {NoListener}]
      /\ affectedServers' \in SUBSET ServerKey
      /\ dirty' \in BOOLEAN
      /\ excused' \in SUBSET RouteKey
  BY <1>1 DEF UpdateListener, TypeInv, TypeOK
<1>7. StoredInv'
  BY DEF UpdateListener, TypeInv, StoredInv, Stored
<1> QED
  BY <1>2, <1>3, <1>4, <1>5, <1>6, <1>7 DEF UpdateListener, opened, addressStore, TypeInv, TypeOK

LEMMA UpdateRouteType ==
    ASSUME TypeInv, NEW r \in RouteKey, NEW route \in Route, UpdateRoute(r, route)
    PROVE  TypeOK' /\ StoredInv'
<1>1. route.listener \in ListenerKey
  BY DEF Route
<1>2. listenerToRoutes' \in [ListenerKey -> SUBSET RouteKey]
  BY <1>1, AddType DEF UpdateRoute, Indexed, TypeInv, TypeOK
<1>3. serviceToRoutes' \in [ServiceKey -> SUBSET RouteKey]
  BY DropType DEF UpdateRoute, TypeInv, TypeOK
<1>4. affectedServers' \in SUBSET ServerKey
  <2>1. routes[r] # NoRoute =>
           {<<route.listener, h>> : h \in routes[r].hostnames} \in SUBSET ServerKey
    BY <1>1, RouteFields DEF Stored, ServerKey, TypeInv
  <2>2. listeners[route.listener] # NoListener => ServersOf(route) \in SUBSET ServerKey
    BY ServersOfType DEF TypeInv
  <2> QED
    BY <2>1, <2>2 DEF UpdateRoute, TypeInv, TypeOK
<1>5. resources' \in 0 .. MaxEvents
  BY ResourceAssumption DEF UpdateRoute, TakesResource, TypeInv, TypeOK
<1>6. /\ routes' \in [RouteKey -> Route \cup {NoRoute}]
      /\ affectedRoutes' \in SUBSET RouteKey
      /\ excused' \in SUBSET RouteKey
  BY DEF UpdateRoute, TypeInv, TypeOK
<1>7. StoredInv'
  BY ResourceAssumption DEF UpdateRoute, TypeInv, TypeOK, StoredInv, Stored
<1> QED
  BY <1>2, <1>3, <1>4, <1>5, <1>6, <1>7
  DEF UpdateRoute, opened, disk, addressStore, TypeInv, TypeOK

LEMMA RemoveListenerType ==
    ASSUME TypeInv, NEW l \in ListenerKey, RemoveListener(l)
    PROVE  TypeOK' /\ StoredInv'
<1>1. <<l, listeners[l].hostname>> \in ServerKey
  BY ListenerFields DEF RemoveListener, TypeInv
<1>2. bindToListeners' \in [BindKey -> SUBSET ListenerKey]
  BY DropType DEF RemoveListener, TypeInv, TypeOK
<1>3. affectedServers' \in SUBSET ServerKey
  <2>1. \A r \in listenerToRoutes[l] : routes[r] # NoRoute =>
           {<<l, h>> : h \in routes[r].hostnames} \in SUBSET ServerKey
    BY RouteFields DEF Stored, ServerKey, TypeInv, TypeOK
  <2>2. affectedServers' =
           affectedServers \cup {<<l, listeners[l].hostname>>} \cup
              UNION {{<<l, h>> : h \in routes[r].hostnames} :
                        r \in {q \in listenerToRoutes[l] : routes[q] # NoRoute}}
    BY DEF RemoveListener
  <2>3. UNION {{<<l, h>> : h \in routes[r].hostnames} :
                  r \in {q \in listenerToRoutes[l] : routes[q] # NoRoute}}
           \in SUBSET ServerKey
    BY <2>1
  <2> QED
    BY <1>1, <2>2, <2>3 DEF TypeInv, TypeOK
<1>4. resources' \in 0 .. MaxEvents
  BY ResourceAssumption DEF RemoveListener, TakesResource, TypeInv, TypeOK
<1>5. serverFiles' \in [ServerKey -> [routeKeys : SUBSET RouteKey] \cup {NoServer}]
  BY ExceptType DEF RemoveListener, TypeInv, TypeOK
<1>6. /\ listeners' \in [ListenerKey -> Listener \cup {NoListener}]
      /\ listenerToRoutes' \in [ListenerKey -> SUBSET RouteKey]
      /\ routes' \in [RouteKey -> Route \cup {NoRoute}]
      /\ affectedRoutes' \in SUBSET RouteKey
  BY DEF RemoveListener, TypeInv, TypeOK
<1>7. StoredInv'
  BY DEF RemoveListener, TypeInv, TypeOK, StoredInv, Stored
<1> QED
  BY <1>2, <1>3, <1>4, <1>5, <1>6, <1>7
  DEF RemoveListener, disk, addressStore, opened, history, TypeInv, TypeOK

LEMMA RemoveRouteType ==
    ASSUME TypeInv, NEW r \in RouteKey, RemoveRoute(r)
    PROVE  TypeOK' /\ StoredInv'
<1>1. /\ listenerToRoutes' \in [ListenerKey -> SUBSET RouteKey]
      /\ serviceToRoutes' \in [ServiceKey -> SUBSET RouteKey]
  BY DropType DEF RemoveRoute, TypeInv, TypeOK
<1>2. affectedServers' \in SUBSET ServerKey
  BY RouteFields, ServersOfType DEF RemoveRoute, Stored, TypeInv, TypeOK
<1>3. resources' \in 0 .. MaxEvents
  BY ResourceAssumption DEF RemoveRoute, TakesResource, TypeInv, TypeOK
<1>4. StoredInv'
  BY DEF RemoveRoute, TypeInv, TypeOK, StoredInv, Stored
<1> QED
  BY <1>1, <1>2, <1>3, <1>4
  DEF RemoveRoute, disk, addressStore, opened, history, TypeInv, TypeOK

LEMMA CleanUpServerType ==
    ASSUME TypeInv, NEW s \in ServerKey, CleanUpServer(s)
    PROVE  TypeOK' /\ StoredInv'
<1>1. StoredInv'
  BY DEF CleanUpServer, maps, TypeInv, StoredInv, Stored
<1>2. CASE GenerateServerFile(s)
  BY <1>1, <1>2, GenerateServerFileType
  DEF CleanUpServer, maps, addressStore, TypeInv, TypeOK
<1>3. CASE ~GenerateServerFile(s)
  <2>1. failures' \in 0 .. MaxFailures
    BY <1>3, ResourceAssumption DEF CleanUpServer, Fails, TypeInv, TypeOK
  <2>2. serverFiles' \in [ServerKey -> [routeKeys : SUBSET RouteKey] \cup {NoServer}]
    BY <1>3, ExceptType DEF CleanUpServer, TypeInv, TypeOK
  <2>3. serverConf' \in
           [ServerKey -> [port : Port, includes : SUBSET RouteKey] \cup {NoFile}]
    BY <1>3, ExceptType DEF CleanUpServer, TypeInv, TypeOK
  <2>4. certs' \in [ListenerKey -> {"none", "whole", "torn"}]
    BY <1>3 DEF CleanUpServer, TypeInv, TypeOK
  <2> QED
    BY <1>1, <1>3, <2>1, <2>2, <2>3, <2>4
    DEF CleanUpServer, maps, addressStore, TypeInv, TypeOK
<1> QED
  BY <1>2, <1>3

LEMMA TypeNext == TypeInv /\ [Next]_vars => TypeOK' /\ StoredInv'
<1> SUFFICES ASSUME TypeInv, [Next]_vars
             PROVE  TypeOK' /\ StoredInv'
  OBVIOUS
<1> USE DEF maps, disk, addressStore, locals, opened, history
<1>1. CASE UpdateBegin \/ NextKind \/ ServersDone \/ UpdateReturns \/ RemoveBegin
           \/ RemoveLoopEnds
  BY <1>1
  DEF UpdateBegin, NextKind, ServersDone, UpdateReturns, RemoveBegin, RemoveLoopEnds,
      Touched, TypeInv, TypeOK, StoredInv, Stored
<1>2. ASSUME NEW b \in BindKey, NEW port \in Port, UpdateBind(b, port)
      PROVE  TypeOK' /\ StoredInv'
  BY <1>2, BindServersType, ResourceAssumption
  DEF UpdateBind, TakesResource, TypeInv, TypeOK, StoredInv, Stored
<1>3. ASSUME NEW l \in ListenerKey, NEW listener \in Listener, UpdateListener(l, listener)
      PROVE  TypeOK' /\ StoredInv'
  BY <1>3, UpdateListenerType
<1>4. ASSUME NEW r \in RouteKey, NEW route \in Route, UpdateRoute(r, route)
      PROVE  TypeOK' /\ StoredInv'
  BY <1>4, UpdateRouteType
<1>5. ASSUME NEW s \in ServerKey, RegenerateServer(s)
      PROVE  TypeOK' /\ StoredInv'
  BY <1>5, GenerateServerFileType DEF RegenerateServer, TypeInv, TypeOK, StoredInv, Stored
<1>6. ASSUME NEW r \in RouteKey, RegenerateRoute(r)
      PROVE  TypeOK' /\ StoredInv'
  <2>1. r \in Stored
    BY <1>6 DEF RegenerateRoute, TypeInv, StoredInv
  <2> QED
    BY <1>6, <2>1, OpenRouteType DEF RegenerateRoute, TypeInv, TypeOK, StoredInv, Stored
<1>7. ASSUME NEW b \in BindKey, RemoveBind(b)
      PROVE  TypeOK' /\ StoredInv'
  BY <1>7, BindServersType, ResourceAssumption
  DEF RemoveBind, TakesResource, TypeInv, TypeOK, StoredInv, Stored
<1>8. ASSUME NEW l \in ListenerKey, RemoveListener(l)
      PROVE  TypeOK' /\ StoredInv'
  BY <1>8, RemoveListenerType
<1>9. ASSUME NEW r \in RouteKey, RemoveRoute(r)
      PROVE  TypeOK' /\ StoredInv'
  BY <1>9, RemoveRouteType
<1>10. ASSUME NEW s \in ServerKey, CleanUpServer(s)
       PROVE  TypeOK' /\ StoredInv'
  BY <1>10, CleanUpServerType
<1>11. CASE RemoveReturns
  BY <1>11 DEF RemoveReturns, TypeInv, TypeOK, StoredInv, Stored
<1>12. CASE CallbackReturns
  BY <1>12 DEF CallbackReturns, TypeInv, TypeOK, StoredInv, Stored
<1>13. ASSUME NEW s \in ServerKey, Panic(s)
       PROVE  TypeOK' /\ StoredInv'
  BY <1>13 DEF Panic, TypeInv, TypeOK, StoredInv, Stored
<1>14. ASSUME NEW k \in ServiceKey, CallbackBegins(k)
       PROVE  TypeOK' /\ StoredInv'
  BY <1>14 DEF CallbackBegins, TypeInv, TypeOK, StoredInv, Stored
<1>15. ASSUME NEW r \in RouteKey, CallbackRoute(r)
       PROVE  TypeOK' /\ StoredInv'
  <2>1. CASE r \in Stored
    BY <1>15, <2>1, OpenRouteType
    DEF CallbackRoute, TypeInv, TypeOK, StoredInv, Stored
  <2>2. CASE r \notin Stored
    BY <1>15, <2>2 DEF CallbackRoute, TypeInv, TypeOK, StoredInv, Stored
  <2> QED
    BY <2>1, <2>2
<1>16. ASSUME ServicesUpdated \/ ServicesRemoved
       PROVE  TypeOK' /\ StoredInv'
  BY <1>16, ResourceAssumption
  DEF ServicesUpdated, ServicesRemoved, TakesResource, TypeInv, TypeOK, StoredInv, Stored
<1>17. ASSUME NEW s \in ServerKey, WriteCertificate(s)
       PROVE  TypeOK' /\ StoredInv'
  <2>1. certs' \in [ListenerKey -> {"none", "whole", "torn"}]
    BY <1>17, ServerFields DEF WriteCertificate, TypeInv, TypeOK
  <2> QED
    BY <1>17, <2>1, OpenServerFileType, ServerFailsType
    DEF WriteCertificate, TypeInv, TypeOK, StoredInv, Stored
<1>18. ASSUME NEW s \in ServerKey, WriteServer(s)
       PROVE  TypeOK' /\ StoredInv'
  <2>1. s[1] \in ListenerKey /\ Matching(s) \in SUBSET RouteKey
    BY ServerFields, MatchingType DEF TypeInv
  <2>2. Generates(s)
    BY <1>18 DEF WriteServer, TypeInv, OpenInv
  <2>3. binds[listeners[s[1]].bind] \in Port
    BY <2>1, <2>2, ListenerFields DEF Generates, TypeInv, TypeOK
  <2>4. serverConf' \in
           [ServerKey -> [port : Port, includes : SUBSET RouteKey] \cup {NoFile}]
    BY <1>18, <2>1, <2>3, ExceptType DEF WriteServer, TypeInv, TypeOK
  <2> QED
    BY <1>18, <2>4, ServerFailsType DEF WriteServer, TypeInv, TypeOK, StoredInv, Stored
<1>19. ASSUME NEW file \in RouteKey \X ListenerKey, WriteRoute(file)
       PROVE  TypeOK' /\ StoredInv'
  <2>1. /\ routeConf' \in
              [RouteKey \X ListenerKey -> [backends : SUBSET ServiceKey] \cup {NoFile}]
        /\ unsynced' \in SUBSET (RouteKey \X ListenerKey)
        /\ failures' \in 0 .. MaxFailures
    BY <1>19, WriteRouteType
  <2>2. /\ openRoutes' = {}
        /\ UNCHANGED <<pc, maps, serviceToRoutes, serverFiles, affectedServers,
                       affectedRoutes, openCerts, openServers, changed, serverConf, certs,
                       addressStore, dirty, excused, resources>>
    BY <1>19 DEF WriteRoute
  <2> QED
    BY <2>1, <2>2 DEF TypeInv, TypeOK, StoredInv, Stored
<1>20. CASE UNCHANGED vars
  BY <1>20 DEF vars, TypeInv, TypeOK, StoredInv, Stored
<1>21. CASE Update
  BY <1>1, <1>2, <1>3, <1>4, <1>5, <1>6, <1>21 DEF Update
<1>22. CASE Remove
  BY <1>1, <1>7, <1>8, <1>9, <1>10, <1>11, <1>22 DEF Remove
<1>23. CASE OnServiceAvailable
  BY <1>12, <1>14, <1>15, <1>23 DEF OnServiceAvailable
<1> QED
  BY <1>13, <1>16, <1>17, <1>18, <1>19, <1>20, <1>21, <1>22, <1>23 DEF Next, AddressStore

\* The steps with a file open are those that go on writing it.
LEMMA ClosedStays ==
    ASSUME NotWriting, UNCHANGED opened
    PROVE  OpenInv'
BY DEF NotWriting, opened, OpenInv

LEMMA OpenNext == TypeInv /\ [Next]_vars => OpenInv'
<1> SUFFICES ASSUME TypeInv, [Next]_vars
             PROVE  OpenInv'
  OBVIOUS
<1> USE DEF TypeInv, maps, disk, addressStore, locals, opened, history
<1>1. pc \notin {"servers", "cleanup", "routefiles", "callback"} => NotWriting
  BY DEF OpenInv, NotWriting
<1>2. CASE \/ UpdateBegin \/ NextKind \/ ServersDone \/ UpdateReturns \/ RemoveBegin
           \/ RemoveLoopEnds \/ RemoveReturns \/ CallbackReturns
           \/ ServicesUpdated \/ ServicesRemoved
  <2>1. NotWriting /\ UNCHANGED opened
    BY <1>1, <1>2
    DEF UpdateBegin, NextKind, ServersDone, UpdateReturns, RemoveBegin, RemoveLoopEnds,
        RemoveReturns, CallbackReturns, ServicesUpdated, ServicesRemoved
  <2> QED
    BY <2>1, ClosedStays
<1>3. ASSUME NEW b \in BindKey, NEW port \in Port, UpdateBind(b, port)
      PROVE  OpenInv'
  BY <1>1, <1>3, ClosedStays DEF UpdateBind
<1>4. ASSUME NEW l \in ListenerKey, NEW listener \in Listener, UpdateListener(l, listener)
      PROVE  OpenInv'
  BY <1>1, <1>4, ClosedStays DEF UpdateListener
<1>5. ASSUME NEW r \in RouteKey, NEW route \in Route, UpdateRoute(r, route)
      PROVE  OpenInv'
  BY <1>1, <1>5, ClosedStays DEF UpdateRoute
<1>6. ASSUME NEW b \in BindKey, RemoveBind(b)
       PROVE  OpenInv'
  BY <1>1, <1>6, ClosedStays DEF RemoveBind
<1>7. ASSUME NEW l \in ListenerKey, RemoveListener(l)
       PROVE  OpenInv'
  BY <1>1, <1>7, ClosedStays DEF RemoveListener
<1>8. ASSUME NEW r \in RouteKey, RemoveRoute(r)
       PROVE  OpenInv'
  BY <1>1, <1>8, ClosedStays DEF RemoveRoute
<1>9. ASSUME NEW k \in ServiceKey, CallbackBegins(k)
       PROVE  OpenInv'
  BY <1>1, <1>9, ClosedStays DEF CallbackBegins
<1>10. ASSUME NEW s \in ServerKey, Panic(s)
       PROVE  OpenInv'
  BY <1>1, <1>10, ClosedStays DEF Panic
<1>11. ASSUME NEW s \in ServerKey, NotWriting, UNCHANGED <<maps, openRoutes>>,
             pc \in {"servers", "cleanup"}, pc' = pc, GenerateServerFile(s)
      PROVE  OpenInv'
  <2>1. CASE ~Generates(s)
    BY <1>11, <2>1, ClosedStays DEF GenerateServerFile
  <2>2. CASE BeginServer(s) /\ Generates(s)
    <3>1. /\ openCerts' \cup openServers' \subseteq {s}
          /\ openServers' # {} => s[1] \notin TlsListener
          /\ openRoutes' = {}
      BY <1>11, <2>2
      DEF NotWriting, BeginServer, OpenCertificate, OpenServerFile
    <3>2. serverFiles'[s] = [routeKeys |-> Matching(s)]
      BY <2>2 DEF BeginServer, TypeOK
    <3>3. Generates(s)' /\ Matching(s)' = Matching(s)
      BY <1>11, <2>2 DEF Generates, Matching
    <3> QED
      BY <1>11, <3>1, <3>2, <3>3 DEF OpenInv
  <2> QED
    BY <1>11, <2>1, <2>2 DEF GenerateServerFile
<1>12. ASSUME NEW s \in ServerKey, RegenerateServer(s) \/ CleanUpServer(s)
      PROVE  OpenInv'
  <2>1. CASE GenerateServerFile(s)
    BY <1>11, <1>12, <2>1 DEF RegenerateServer, CleanUpServer
  <2>2. CASE ~GenerateServerFile(s)
    BY <1>12, <2>2, ClosedStays DEF RegenerateServer, CleanUpServer
  <2> QED
    BY <2>1, <2>2
<1>13. ASSUME NEW s \in ServerKey, WriteCertificate(s) \/ WriteServer(s)
      PROVE  OpenInv'
  <2>1. /\ UNCHANGED <<pc, maps, serverFiles, openRoutes, active, unsynced>>
        /\ openCerts' = {} \/ openCerts' = openCerts
        /\ openServers' \subseteq openServers \cup openCerts
    BY <1>13 DEF WriteCertificate, OpenServerFile, WriteServer
  <2>2. \A other \in openServers' : other[1] \in TlsListener => certs'[other[1]] # "none"
    BY <1>13, ServerFields DEF WriteCertificate, OpenServerFile, WriteServer, OpenInv, TypeOK
  <2>3. \A other : /\ Generates(other)' <=> Generates(other)
                   /\ Matching(other)' = Matching(other)
    BY <2>1 DEF Generates, Matching
  <2>4. Stored' = Stored /\ \A r : FileOf(r)' = FileOf(r)
    BY <2>1 DEF Stored, FileOf
  <2> QED
    BY <2>1, <2>2, <2>3, <2>4 DEF OpenInv
<1>14. ASSUME NEW r \in RouteKey, RegenerateRoute(r) \/ CallbackRoute(r)
      PROVE  OpenInv'
  <2>1. CASE OpenRoute(r) /\ r \in Stored
    <3>1. /\ openCerts' = {} /\ openServers' = {} /\ openRoutes' \subseteq {FileOf(r)}
          /\ pc' = pc /\ pc \in {"routefiles", "callback"} /\ routes' = routes
          /\ FileOf(r) \in unsynced' /\ routes[r].backends \subseteq active'
      BY <1>14, <2>1
      DEF RegenerateRoute, CallbackRoute, NotWriting, OpenRoute, Awaited, FileOf
    <3>2. r \in Stored' /\ FileOf(r)' = FileOf(r) /\ FileOf(r)[1] = r
      BY <2>1, <3>1 DEF Stored, FileOf
    <3> QED
      BY <3>1, <3>2 DEF OpenInv
  <2>2. CASE r \notin Stored
    BY <1>14, <2>2, ClosedStays DEF RegenerateRoute, CallbackRoute, StoredInv, Stored
  <2> QED
    BY <1>14, <2>1, <2>2 DEF RegenerateRoute, CallbackRoute, Stored
<1>15. ASSUME NEW file \in RouteKey \X ListenerKey, WriteRoute(file)
      PROVE  OpenInv'
  <2>1. openRoutes' = {} /\ UNCHANGED <<pc, maps, serverFiles, openCerts, openServers, certs>>
    BY <1>15 DEF WriteRoute
  <2>2. \A s : (Generates(s)' <=> Generates(s)) /\ Matching(s)' = Matching(s)
    BY <2>1 DEF Generates, Matching
  <2> QED
    BY <2>1, <2>2 DEF OpenInv
<1>16. CASE UNCHANGED vars
  BY <1>16 DEF vars, OpenInv, Generates, Matching, Stored, FileOf
<1>17. CASE Update
  BY <1>2, <1>3, <1>4, <1>5, <1>12, <1>14, <1>17 DEF Update
<1>18. CASE Remove
  BY <1>2, <1>6, <1>7, <1>8, <1>12, <1>18 DEF Remove
<1>19. CASE OnServiceAvailable
  BY <1>2, <1>9, <1>14, <1>19 DEF OnServiceAvailable
<1> QED
  BY <1>2, <1>10, <1>13, <1>15, <1>16, <1>17, <1>18, <1>19 DEF Next, AddressStore

LEMMA TypeAlways == Spec => []TypeInv
<1>1. TypeInv /\ [Next]_vars => TypeInv'
  BY TypeNext, OpenNext DEF TypeInv
<1> QED
  BY <1>1, TypeInit, PTL DEF Spec

\* The variables of the resource store keep their types, whatever arrives and fails.
THEOREM TypeCorrect == Spec => []TypeOK
BY TypeAlways, PTL DEF TypeInv

-----------------------------------------------------------------------------
(* Indexes *)

\* The steps that leave the routes and the index of the listeners alone.
Steady ==
    \/ UpdateBegin \/ NextKind \/ ServersDone \/ UpdateReturns
    \/ RemoveBegin \/ RemoveLoopEnds \/ RemoveReturns \/ CallbackReturns
    \/ \E b \in BindKey, port \in Port : UpdateBind(b, port)
    \/ \E l \in ListenerKey, listener \in Listener : UpdateListener(l, listener)
    \/ \E s \in ServerKey : RegenerateServer(s) \/ CleanUpServer(s) \/ Panic(s)
    \/ \E r \in RouteKey : RegenerateRoute(r) \/ CallbackRoute(r)
    \/ \E s \in ServerKey : WriteCertificate(s) \/ WriteServer(s)
    \/ \E file \in RouteKey \X ListenerKey : WriteRoute(file)
    \/ \E b \in BindKey : RemoveBind(b)
    \/ \E k \in ServiceKey : CallbackBegins(k)
    \/ ServicesUpdated \/ ServicesRemoved
    \/ UNCHANGED vars

LEMMA Steps ==
    [Next]_vars =>
       \/ Steady
       \/ \E r \in RouteKey, route \in Route : UpdateRoute(r, route)
       \/ \E l \in ListenerKey : RemoveListener(l)
       \/ \E r \in RouteKey : RemoveRoute(r)
BY DEF Next, Update, Remove, OnServiceAvailable, AddressStore, Steady

LEMMA SteadyRoutes ==
    ASSUME Steady
    PROVE  routes' = routes /\ listenerToRoutes' = listenerToRoutes /\ Stored' = Stored
BY DEF Steady, Stored, vars, maps, disk, addressStore, locals, history, UpdateBegin,
       NextKind, ServersDone, UpdateReturns, RemoveBegin, RemoveLoopEnds, RemoveReturns,
       CallbackReturns, UpdateBind, UpdateListener, RegenerateServer, CleanUpServer, Panic,
       RegenerateRoute, CallbackRoute, WriteCertificate, WriteServer, WriteRoute,
       RemoveBind, CallbackBegins, ServicesUpdated, ServicesRemoved

\* What the three other steps do to the stored routes.
LEMMA UpdateRouteStored ==
    ASSUME TypeOK, NEW r \in RouteKey, NEW route \in Route, UpdateRoute(r, route)
    PROVE  /\ Stored' = Stored \cup {r}
           /\ routes'[r] = route
           /\ \A other \in RouteKey \ {r} : routes'[other] = routes[other]
BY ResourceAssumption DEF UpdateRoute, TypeOK, Stored

LEMMA RemoveListenerStored ==
    ASSUME TypeOK, NEW l \in ListenerKey, RemoveListener(l)
    PROVE  /\ Stored' = Stored \ listenerToRoutes[l]
           /\ \A r \in Stored' : routes'[r] = routes[r]
BY DEF RemoveListener, TypeOK, Stored

LEMMA RemoveRouteStored ==
    ASSUME TypeOK, NEW r \in RouteKey, RemoveRoute(r)
    PROVE  /\ Stored' = Stored \ {r}
           /\ \A other \in Stored' : routes'[other] = routes[other]
BY DEF RemoveRoute, TypeOK, Stored

LEMMA IndexedInit == Init => RoutesIndexed
BY DEF Init, RoutesIndexed, Stored

LEMMA IndexedNext == TypeInv /\ RoutesIndexed /\ [Next]_vars => RoutesIndexed'
<1> SUFFICES ASSUME TypeInv, RoutesIndexed, [Next]_vars
             PROVE  RoutesIndexed'
  OBVIOUS
<1> USE DEF TypeInv
<1>1. CASE Steady
  BY <1>1, SteadyRoutes DEF RoutesIndexed
<1>2. ASSUME NEW r \in RouteKey, NEW route \in Route, UpdateRoute(r, route)
      PROVE  RoutesIndexed'
  <2>1. route.listener \in ListenerKey
    BY DEF Route
  <2>2. /\ r \in listenerToRoutes'[route.listener]
        /\ \A l \in ListenerKey : listenerToRoutes[l] \subseteq listenerToRoutes'[l]
    BY <1>2, <2>1, AddType DEF UpdateRoute, Indexed, Add, TypeOK
  <2> QED
    BY <1>2, <2>2, UpdateRouteStored, RouteFields DEF RoutesIndexed, Stored
<1>3. ASSUME NEW l \in ListenerKey, RemoveListener(l)
      PROVE  RoutesIndexed'
  <2>1. ASSUME NEW r \in Stored'
        PROVE  r \in listenerToRoutes'[routes'[r].listener]
    <3>1. /\ r \in Stored /\ routes'[r] = routes[r] /\ r \notin listenerToRoutes[l]
          /\ r \in listenerToRoutes[routes[r].listener]
      BY <1>3, RemoveListenerStored DEF RoutesIndexed
    <3>2. routes[r].listener \in ListenerKey \ {l}
      BY <3>1, RouteFields
    <3> QED
      BY <1>3, <3>1, <3>2 DEF RemoveListener, TypeOK
  <2> QED
    BY <2>1 DEF RoutesIndexed
<1>4. ASSUME NEW r \in RouteKey, RemoveRoute(r)
      PROVE  RoutesIndexed'
  <2>1. ASSUME NEW other \in Stored'
        PROVE  other \in listenerToRoutes'[routes'[other].listener]
    <3>1. /\ other \in Stored \ {r} /\ routes'[other] = routes[other]
          /\ other \in listenerToRoutes[routes[other].listener]
      BY <1>4, RemoveRouteStored DEF RoutesIndexed
    <3>2. routes[other].listener \in ListenerKey
      BY <3>1, RouteFields
    <3>3. \A l \in ListenerKey : listenerToRoutes[l] \ {r} \subseteq listenerToRoutes'[l]
      BY <1>4 DEF RemoveRoute, Drop, TypeOK
    <3> QED
      BY <3>1, <3>2, <3>3
  <2> QED
    BY <2>1 DEF RoutesIndexed
<1> QED
  BY <1>1, <1>2, <1>3, <1>4, Steps

LEMMA IndexedAlways == Spec => [](TypeInv /\ RoutesIndexed)
BY TypeAlways, IndexedInit, IndexedNext, PTL DEF Spec

\* However routes move between listeners that come and go, each stored route is in the
\* index of its listener.
THEOREM IndexedCorrect == Spec => []RoutesIndexed
BY IndexedAlways, PTL

-----------------------------------------------------------------------------
(* Backends *)

\* Update has stored routes, and has files to write, which a panic leaves unwritten.
Updating == pc \in {"routes", "servers", "routefiles", "crashed"}

\* In the middle of Update a route to regenerate is not tracked yet.
TrackedInv ==
    \A r \in Stored, k \in ServiceKey :
        k \in routes[r].backends =>
            r \in serviceToRoutes[k] \/ (Updating /\ r \in affectedRoutes)

LEMMA TrackedGrows ==
    ASSUME TypeOK, NEW r \in Stored, OpenRoute(r)
    PROVE  \A k \in ServiceKey :
              /\ serviceToRoutes[k] \subseteq serviceToRoutes'[k]
              /\ k \in routes[r].backends => r \in serviceToRoutes'[k]
BY DEF OpenRoute, Tracked

LEMMA TrackedInit == Init => TrackedInv
BY DEF Init, TrackedInv, Stored

LEMMA TrackedNext == TypeInv /\ TrackedInv /\ [Next]_vars => TrackedInv'
<1> SUFFICES ASSUME TypeInv, TrackedInv, [Next]_vars
             PROVE  TrackedInv'
  OBVIOUS
<1> USE DEF TypeInv, maps, disk, addressStore, locals, history
<1>1. CASE Steady
  <2>1. routes' = routes /\ Stored' = Stored
    BY <1>1, SteadyRoutes
  <2>2. ASSUME NEW r \in RouteKey, RegenerateRoute(r)
        PROVE  TrackedInv'
    <3>1. r \in Stored /\ OpenRoute(r)
      BY <2>2 DEF RegenerateRoute, StoredInv
    <3> QED
      BY <2>1, <2>2, <3>1, TrackedGrows DEF RegenerateRoute, TrackedInv, Updating
  <2>3. ASSUME NEW r \in RouteKey, CallbackRoute(r)
        PROVE  TrackedInv'
    <3>1. CASE r \in Stored
      BY <2>1, <2>3, <3>1, TrackedGrows DEF CallbackRoute, TrackedInv, Updating, Stored
    <3>2. CASE r \notin Stored
      BY <2>1, <2>3, <3>2 DEF CallbackRoute, TrackedInv, Updating, Stored
    <3> QED
      BY <3>1, <3>2
  <2>4. ASSUME NEW s \in ServerKey, RegenerateServer(s) \/ CleanUpServer(s) \/ Panic(s)
        PROVE  TrackedInv'
    BY <2>1, <2>4 DEF RegenerateServer, CleanUpServer, Panic, TrackedInv, Updating
  <2>5. ASSUME NEW b \in BindKey, RemoveBind(b) \/ \E port \in Port : UpdateBind(b, port)
        PROVE  TrackedInv'
    BY <2>1, <2>5 DEF RemoveBind, UpdateBind, TrackedInv, Updating
  <2>6. ASSUME NEW l \in ListenerKey, NEW listener \in Listener, UpdateListener(l, listener)
        PROVE  TrackedInv'
    BY <2>1, <2>6 DEF UpdateListener, TrackedInv, Updating
  <2>7. CASE (\E k \in ServiceKey : CallbackBegins(k)) \/ ServicesUpdated \/ ServicesRemoved
    BY <2>1, <2>7 DEF CallbackBegins, ServicesUpdated, ServicesRemoved, TrackedInv, Updating
  <2>8. CASE \/ UpdateBegin \/ NextKind \/ ServersDone \/ UpdateReturns \/ RemoveBegin
             \/ RemoveLoopEnds \/ RemoveReturns \/ CallbackReturns \/ UNCHANGED vars
    BY <2>1, <2>8
    DEF UpdateBegin, NextKind, ServersDone, UpdateReturns, RemoveBegin, RemoveLoopEnds,
        RemoveReturns, CallbackReturns, vars, TrackedInv, Updating
  <2>9. CASE \/ \E s \in ServerKey : WriteCertificate(s) \/ WriteServer(s)
             \/ \E file \in RouteKey \X ListenerKey : WriteRoute(file)
    BY <2>1, <2>9 DEF WriteCertificate, WriteServer, WriteRoute, TrackedInv, Updating
  <2> QED
    BY <1>1, <2>2, <2>3, <2>4, <2>5, <2>6, <2>7, <2>8, <2>9 DEF Steady
<1>2. ASSUME NEW r \in RouteKey, NEW route \in Route, UpdateRoute(r, route)
      PROVE  TrackedInv'
  <2>1. \A k \in ServiceKey : serviceToRoutes[k] \ {r} \subseteq serviceToRoutes'[k]
    BY <1>2 DEF UpdateRoute, Drop, TypeOK
  <2> QED
    BY <1>2, <2>1, UpdateRouteStored DEF UpdateRoute, TrackedInv, Updating, Stored
<1>3. ASSUME NEW l \in ListenerKey, RemoveListener(l)
      PROVE  TrackedInv'
  BY <1>3, RemoveListenerStored DEF RemoveListener, TrackedInv, Updating
<1>4. ASSUME NEW r \in RouteKey, RemoveRoute(r)
      PROVE  TrackedInv'
  <2>1. \A k \in ServiceKey : serviceToRoutes[k] \ {r} \subseteq serviceToRoutes'[k]
    BY <1>4 DEF RemoveRoute, Drop, TypeOK
  <2> QED
    BY <1>4, <2>1, RemoveRouteStored DEF RemoveRoute, TrackedInv, Updating
<1> QED
  BY <1>1, <1>2, <1>3, <1>4, Steps

LEMMA TrackedAlways == Spec => [](TypeInv /\ RoutesIndexed /\ TrackedInv)
BY IndexedAlways, TrackedInit, TrackedNext, PTL DEF Spec

\* Between calls the backends of every stored route lead back to it.
THEOREM TrackedCorrect == Spec => []BackendsTracked
<1>1. TrackedInv => BackendsTracked
  BY DEF TrackedInv, BackendsTracked, Updating
<1> QED
  BY <1>1, TrackedAlways, PTL

-----------------------------------------------------------------------------
(* Reloads *)

\* Who changes a file has, or had, a key of a file to regenerate, which is what Update
\* and Remove decide to reload by.
DirtyInv ==
    /\ pc \in {"idle", "binds", "remove"} => ~dirty
    /\ (pc \in {"listeners", "routes"} /\ dirty) => affectedServers # {}
    /\ (pc \in {"servers", "routefiles", "cleanup"} /\ (dirty \/ Touched)) => changed

LEMMA DirtyInit == Init => DirtyInv
BY DEF Init, DirtyInv

LEMMA DirtyNext == TypeInv /\ DirtyInv /\ [Next]_vars => DirtyInv'
<1> SUFFICES ASSUME TypeInv, DirtyInv, [Next]_vars
             PROVE  DirtyInv'
  OBVIOUS
<1> USE DEF TypeInv, TypeOK, DirtyInv, Touched, maps, disk, addressStore, locals, history
<1>1. CASE UpdateBegin \/ ServersDone \/ RemoveBegin \/ CallbackReturns
  BY <1>1 DEF UpdateBegin, ServersDone, RemoveBegin, CallbackReturns
<1>2. CASE NextKind \/ RemoveLoopEnds
  <2>1. pc \in {"routes", "remove"} => (Touched => changed')
    <3> HIDE DEF Touched
    <3> QED
      BY <1>2 DEF NextKind, RemoveLoopEnds
  <2> QED
    BY <1>2, <2>1 DEF NextKind, RemoveLoopEnds
<1>3. CASE UpdateReturns \/ RemoveReturns
  BY <1>3 DEF UpdateReturns, RemoveReturns
<1>4. ASSUME NEW b \in BindKey, RemoveBind(b) \/ \E port \in Port : UpdateBind(b, port)
      PROVE  DirtyInv'
  BY <1>4 DEF RemoveBind, UpdateBind
<1>5. ASSUME NEW l \in ListenerKey, NEW listener \in Listener, UpdateListener(l, listener)
      PROVE  DirtyInv'
  BY <1>5 DEF UpdateListener
<1>6. ASSUME NEW r \in RouteKey, NEW route \in Route, UpdateRoute(r, route)
      PROVE  DirtyInv'
  BY <1>6 DEF UpdateRoute
<1>7. ASSUME NEW s \in ServerKey, RegenerateServer(s) \/ CleanUpServer(s)
      PROVE  DirtyInv'
  BY <1>7 DEF RegenerateServer, CleanUpServer
<1>8. ASSUME NEW r \in RouteKey, RegenerateRoute(r) \/ CallbackRoute(r)
      PROVE  DirtyInv'
  BY <1>8 DEF RegenerateRoute, CallbackRoute
<1>9. ASSUME NEW l \in ListenerKey, RemoveListener(l)
      PROVE  DirtyInv'
  BY <1>9 DEF RemoveListener
<1>10. ASSUME NEW r \in RouteKey, RemoveRoute(r)
       PROVE  DirtyInv'
  BY <1>10 DEF RemoveRoute
<1>11. ASSUME NEW s \in ServerKey, Panic(s)
       PROVE  DirtyInv'
  BY <1>11 DEF Panic
<1>12. CASE (\E k \in ServiceKey : CallbackBegins(k)) \/ ServicesUpdated \/ ServicesRemoved
  BY <1>12 DEF CallbackBegins, ServicesUpdated, ServicesRemoved
<1>13. CASE UNCHANGED vars
  BY <1>13 DEF vars
<1>14. CASE \/ \E s \in ServerKey : WriteCertificate(s) \/ WriteServer(s)
            \/ \E file \in RouteKey \X ListenerKey : WriteRoute(file)
  BY <1>14 DEF WriteCertificate, WriteServer, WriteRoute
<1> QED
  BY <1>1, <1>2, <1>3, <1>4, <1>5, <1>6, <1>7, <1>8, <1>9, <1>10, <1>11, <1>12, <1>13,
     <1>14
  DEF Next, Update, Remove, OnServiceAvailable, AddressStore

\* Every handler that changed a file reloads NGINX before it returns.
THEOREM LoadedCorrect == Spec => []ChangesLoaded
<1>1. Spec => [](TypeInv /\ DirtyInv)
  BY TypeAlways, DirtyInit, DirtyNext, PTL DEF Spec
<1>2. DirtyInv => ChangesLoaded
  BY DEF DirtyInv, ChangesLoaded
<1> QED
  BY <1>1, <1>2, PTL

-----------------------------------------------------------------------------
(* Certificates *)

LEMMA CertificateInit == Init => CertificatePresent
BY DEF Init, CertificatePresent

\* What the first step of writing a server file does to the files of all.
LEMMA GenerateFiles ==
    ASSUME TypeOK, NEW s \in ServerKey, GenerateServerFile(s)
    PROVE  /\ \A other \in ServerKey :
                 /\ serverConf'[other] \in {serverConf[other], NoFile}
                 /\ other # s => /\ serverConf'[other] = serverConf[other]
                                /\ serverFiles'[other] = serverFiles[other]
           /\ \A l \in ListenerKey : certs[l] # "none" => certs'[l] # "none"
           /\ excused \subseteq excused'
           /\ ~Generates(s) =>
                 UNCHANGED <<serverConf, serverFiles, openCerts, openServers, excused>>
           /\ Generates(s) => \/ s \in openCerts' \cup openServers'
                              \/ Matching(s) \subseteq excused'
BY DEF GenerateServerFile, BeginServer, OpenCertificate, OpenServerFile, ServerFails, TypeOK

LEMMA CertificateNext ==
    TypeInv /\ CertificatePresent /\ [Next]_vars => CertificatePresent'
<1> SUFFICES ASSUME TypeInv, CertificatePresent, [Next]_vars
             PROVE  CertificatePresent'
  OBVIOUS
<1> USE DEF maps, disk, addressStore, locals, history
<1>1. ASSUME NEW s \in ServerKey, RegenerateServer(s)
      PROVE  CertificatePresent'
  BY <1>1, GenerateFiles, ServerFields DEF RegenerateServer, CertificatePresent, TypeInv
<1>2. ASSUME NEW s \in ServerKey, CleanUpServer(s)
      PROVE  CertificatePresent'
  <2>1. CASE GenerateServerFile(s)
    BY <2>1, GenerateFiles, ServerFields DEF CertificatePresent, TypeInv
  <2>2. CASE ~GenerateServerFile(s)
    <3>1. /\ \A l \in ListenerKey : certs'[l] = certs[l]
          /\ \A other \in ServerKey : serverConf'[other] \in {serverConf[other], NoFile}
      BY <1>2, <2>2 DEF CleanUpServer, CertificatesOf, TypeInv, TypeOK
    <3> QED
      BY <3>1, ServerFields DEF CertificatePresent
  <2> QED
    BY <2>1, <2>2
<1>3. ASSUME NEW l \in ListenerKey, NEW listener \in Listener, UpdateListener(l, listener)
      PROVE  CertificatePresent'
  <2>1. /\ certs' = certs
        /\ \A s \in ServerKey : serverConf'[s] \in {serverConf[s], NoFile}
    BY <1>3 DEF UpdateListener, TypeInv, TypeOK
  <2> QED
    BY <2>1 DEF CertificatePresent
<1>4. CASE UNCHANGED <<serverConf, certs>>
  BY <1>4 DEF CertificatePresent
<1>6. ASSUME NEW s \in ServerKey, WriteCertificate(s)
      PROVE  CertificatePresent'
  <2>1. /\ \A l \in ListenerKey : certs[l] # "none" => certs'[l] # "none"
        /\ \A other \in ServerKey : serverConf'[other] \in {serverConf[other], NoFile}
    BY <1>6 DEF WriteCertificate, OpenServerFile, TypeInv, TypeOK
  <2> QED
    BY <2>1, ServerFields DEF CertificatePresent
<1>7. ASSUME NEW s \in ServerKey, WriteServer(s)
      PROVE  CertificatePresent'
  <2>1. /\ certs' = certs /\ (s[1] \in TlsListener => certs[s[1]] # "none")
        /\ \A other \in ServerKey \ {s} : serverConf'[other] = serverConf[other]
    BY <1>7 DEF WriteServer, TypeInv, TypeOK, OpenInv
  <2> QED
    BY <2>1 DEF CertificatePresent
<1>5. \/ UNCHANGED <<serverConf, certs>>
      \/ \E s \in ServerKey : RegenerateServer(s) \/ CleanUpServer(s)
      \/ \E s \in ServerKey : WriteCertificate(s) \/ WriteServer(s)
      \/ \E l \in ListenerKey, listener \in Listener : UpdateListener(l, listener)
  BY DEF Next, Update, Remove, OnServiceAvailable, AddressStore, vars, UpdateBegin,
         UpdateBind, UpdateRoute, NextKind, ServersDone, RegenerateRoute, UpdateReturns,
         RemoveBegin, RemoveBind, RemoveListener, RemoveRoute, RemoveLoopEnds,
         RemoveReturns, Panic, WriteRoute, CallbackBegins, CallbackRoute, CallbackReturns,
         ServicesUpdated, ServicesRemoved
<1> QED
  BY <1>1, <1>2, <1>3, <1>4, <1>5, <1>6, <1>7

\* No server file of a TLS listener is ever on disk without a certificate.
THEOREM CertificateCorrect == Spec => []CertificatePresent
<1>1. Spec => [](TypeInv /\ CertificatePresent)
  BY TypeAlways, CertificateInit, CertificateNext, PTL DEF Spec
<1> QED
  BY <1>1, PTL

-----------------------------------------------------------------------------
(* Route files *)

Resolves(f) == routeConf[f] # NoFile \/ f \in unsynced

\* A server file includes the file of route r at listener l, or may come to.
Named(r, l) ==
    \/ r \in listenerToRoutes[l]
    \/ \E h \in Host : serverConf[<<l, h>>] # NoFile /\ r \in serverConf[<<l, h>>].includes

Unwritten(r, l) == Updating /\ r \in affectedRoutes /\ routes[r].listener = l

\* Route files are written before anything can rest on them, and stay: also those of
\* routes that have moved, which the old listener's index still names.
FileInv ==
    \A r \in RouteKey, l \in ListenerKey :
        Named(r, l) => Resolves(<<r, l>>) \/ Unwritten(r, l)

\* Remove finds no route file to delete.
LEMMA RemoveKeepsFiles ==
    ASSUME TypeInv, RemoveReturns
    PROVE  routeConf' = routeConf
<1>1. \A r \in affectedRoutes : RouteFilesOf(r) = {}
  BY DEF RemoveReturns, TypeInv, TypeOK, StoredInv, RouteFilesOf, Stored
<1> QED
  BY <1>1 DEF RemoveReturns, TypeInv, TypeOK

\* The effect on the files of opening and writing one.
LEMMA OpenRouteFiles ==
    ASSUME TypeOK, NEW r \in Stored, OpenRoute(r)
    PROVE  /\ \A f \in RouteKey \X ListenerKey : f # FileOf(r) =>
                 routeConf'[f] = routeConf[f] /\ (f \in unsynced' <=> f \in unsynced)
           /\ FileOf(r) \in unsynced'
BY DEF OpenRoute, FileOf, TypeOK

LEMMA WriteRouteFiles ==
    ASSUME TypeInv, NEW file \in RouteKey \X ListenerKey, WriteRoute(file)
    PROVE  /\ \A f \in RouteKey \X ListenerKey : f # file =>
                 routeConf'[f] = routeConf[f] /\ (f \in unsynced' <=> f \in unsynced)
           /\ \/ file \in unsynced'
              \/ /\ routeConf'[file] # NoFile
                 /\ routeConf'[file].backends = routes[file[1]].backends \cap available
<1> DEFINE present == [backends |-> routes[file[1]].backends \cap available]
<1>1. present # NoFile
  <2>1. present \in [backends : SUBSET ServiceKey]
    BY RouteFields DEF WriteRoute, TypeInv, OpenInv
  <2> QED
    BY <2>1, ResourceAssumption
<1>2. \/ routeConf' = [routeConf EXCEPT ![file] = present] /\ unsynced' = unsynced \ {file}
      \/ /\ \E conf : routeConf' = [routeConf EXCEPT ![file] = conf]
         /\ unsynced' = unsynced /\ file \in unsynced
  BY DEF WriteRoute, TypeInv, OpenInv
<1>3. present.backends = routes[file[1]].backends \cap available
  OBVIOUS
<1> HIDE DEF present
<1>4. \A f \in RouteKey \X ListenerKey : f # file =>
         routeConf'[f] = routeConf[f] /\ (f \in unsynced' <=> f \in unsynced)
  BY <1>2 DEF TypeInv, TypeOK
<1>5. file \in unsynced' \/ routeConf'[file] = present
  BY <1>2 DEF TypeInv, TypeOK
<1> QED
  BY <1>1, <1>3, <1>4, <1>5

\* The steps that change route files.
LEMMA RouteFileSteps ==
    ASSUME TypeInv, [Next]_vars
    PROVE  \/ UNCHANGED <<routeConf, unsynced>>
           \/ \E r \in Stored : OpenRoute(r)
           \/ \E file \in RouteKey \X ListenerKey : WriteRoute(file)
           \/ RemoveReturns
BY DEF TypeInv, maps, disk, addressStore, locals, history, Next, Update, Remove,
       OnServiceAvailable, AddressStore, vars, StoredInv, Stored,
       UpdateBegin, UpdateBind, UpdateListener, UpdateRoute, NextKind, RegenerateServer,
       ServersDone, RegenerateRoute, UpdateReturns, RemoveBegin, RemoveBind,
       RemoveListener, RemoveRoute, RemoveLoopEnds, CleanUpServer, Panic,
       WriteCertificate, WriteServer, CallbackBegins, CallbackRoute, CallbackReturns,
       ServicesUpdated, ServicesRemoved

LEMMA FilesStay ==
    ASSUME TypeInv, [Next]_vars, NEW f \in RouteKey \X ListenerKey, Resolves(f)
    PROVE  Resolves(f)'
<1>1. ASSUME NEW r \in Stored, OpenRoute(r)
      PROVE  Resolves(f)'
  BY <1>1, OpenRouteFiles DEF Resolves, TypeInv
<1>4. ASSUME NEW file \in RouteKey \X ListenerKey, WriteRoute(file)
      PROVE  Resolves(f)'
  BY <1>4, WriteRouteFiles DEF Resolves
<1>2. CASE RemoveReturns
  BY <1>2, RemoveKeepsFiles DEF RemoveReturns, Resolves, history
<1>3. CASE UNCHANGED <<routeConf, unsynced>>
  BY <1>3 DEF Resolves
<1> QED
  BY <1>1, <1>2, <1>3, <1>4, RouteFileSteps

LEMMA NamedGrows ==
    ASSUME TypeInv, [Next]_vars, NEW r \in RouteKey, NEW l \in ListenerKey, Named(r, l)'
    PROVE  \/ Named(r, l)
           \/ \E route \in Route : UpdateRoute(r, route) /\ route.listener = l
<1> USE DEF maps, disk, addressStore, locals, history
<1>1. ASSUME NEW other \in RouteKey, NEW route \in Route, UpdateRoute(other, route)
      PROVE  Named(r, l) \/ (other = r /\ route.listener = l)
  BY <1>1 DEF UpdateRoute, Indexed, Add, Named, TypeInv, TypeOK
<1>2. ASSUME NEW s \in ServerKey, WriteServer(s)
      PROVE  Named(r, l)
  <2>1. \A h \in Host : <<l, h>> \in ServerKey /\ <<l, h>>[1] = l
    BY DEF ServerKey
  <2>2. ASSUME NEW other \in ServerKey, serverConf'[other] # NoFile
        PROVE  \/ serverConf'[other] = serverConf[other]
               \/ serverConf'[other].includes \subseteq listenerToRoutes[other[1]]
    BY <1>2, <2>2, MatchingType DEF WriteServer, TypeInv, TypeOK
  <2> QED
    BY <1>2, <2>1, <2>2 DEF Named, WriteServer
<1>3. ASSUME \A s \in ServerKey : serverConf'[s] \in {serverConf[s], NoFile},
             \A k \in ListenerKey : listenerToRoutes'[k] \subseteq listenerToRoutes[k]
      PROVE  Named(r, l)
  <2>1. \A h \in Host : <<l, h>> \in ServerKey
    BY DEF ServerKey
  <2> QED
    BY <1>3, <2>1 DEF Named
<1>4. ASSUME NEW k \in ListenerKey, NEW listener \in Listener, UpdateListener(k, listener)
      PROVE  Named(r, l)
  BY <1>3, <1>4 DEF UpdateListener, TypeInv, TypeOK
<1>5. ASSUME NEW s \in ServerKey, CleanUpServer(s) \/ RegenerateServer(s)
      PROVE  Named(r, l)
  <2>1. UNCHANGED listenerToRoutes
    BY <1>5 DEF CleanUpServer, RegenerateServer
  <2>2. CASE GenerateServerFile(s)
    BY <1>3, <2>1, <2>2, GenerateFiles DEF TypeInv
  <2>3. CASE ~GenerateServerFile(s)
    BY <1>3, <1>5, <2>1, <2>3 DEF CleanUpServer, RegenerateServer, TypeInv, TypeOK
  <2> QED
    BY <2>2, <2>3
<1>10. ASSUME NEW s \in ServerKey, WriteCertificate(s)
       PROVE  Named(r, l)
  BY <1>3, <1>10 DEF WriteCertificate, OpenServerFile, TypeInv, TypeOK
<1>6. ASSUME NEW k \in ListenerKey, RemoveListener(k)
      PROVE  Named(r, l)
  BY <1>3, <1>6 DEF RemoveListener, TypeInv, TypeOK
<1>7. ASSUME NEW other \in RouteKey, RemoveRoute(other)
      PROVE  Named(r, l)
  BY <1>3, <1>7, DropType DEF RemoveRoute, TypeInv, TypeOK
<1>8. CASE UNCHANGED <<serverConf, listenerToRoutes>>
  BY <1>8 DEF Named
<1>9. \/ UNCHANGED <<serverConf, listenerToRoutes>>
      \/ \E s \in ServerKey : RegenerateServer(s) \/ CleanUpServer(s)
      \/ \E s \in ServerKey : WriteCertificate(s) \/ WriteServer(s)
      \/ \E k \in ListenerKey, listener \in Listener : UpdateListener(k, listener)
      \/ \E k \in ListenerKey : RemoveListener(k)
      \/ \E other \in RouteKey : RemoveRoute(other)
      \/ \E other \in RouteKey, route \in Route : UpdateRoute(other, route)
  BY DEF Next, Update, Remove, OnServiceAvailable, AddressStore, vars, UpdateBegin,
         UpdateBind, NextKind, ServersDone, RegenerateRoute, UpdateReturns, RemoveBegin,
         RemoveBind, RemoveLoopEnds, RemoveReturns, Panic, WriteRoute, CallbackBegins,
         CallbackRoute, CallbackReturns, ServicesUpdated, ServicesRemoved
<1> QED
  BY <1>1, <1>2, <1>4, <1>5, <1>6, <1>7, <1>8, <1>9, <1>10

\* A file to write is written, or is still to write.
LEMMA UnwrittenEnds ==
    ASSUME TypeInv, [Next]_vars, NEW r \in RouteKey, NEW l \in ListenerKey, Unwritten(r, l)
    PROVE  Resolves(<<r, l>>)' \/ Unwritten(r, l)'
<1> USE DEF TypeInv, maps, disk, addressStore, locals, history
<1>1. CASE r \in Stored /\ OpenRoute(r)
  BY <1>1, OpenRouteFiles DEF Resolves, Unwritten, FileOf
<1>2. ASSUME NEW other \in RouteKey \ affectedRoutes, NEW route \in Route,
             UpdateRoute(other, route)
      PROVE  Unwritten(r, l)'
  BY <1>2 DEF UpdateRoute, Unwritten, Updating, TypeOK
<1>3. CASE UNCHANGED routes /\ r \in affectedRoutes' /\ Updating'
  BY <1>3 DEF Unwritten
<1>4. \/ UNCHANGED routes /\ r \in affectedRoutes' /\ Updating'
      \/ r \in Stored /\ OpenRoute(r)
      \/ \E other \in RouteKey \ affectedRoutes, route \in Route :
            UpdateRoute(other, route)
  <2>1. pc \in {"routes", "servers", "routefiles", "crashed"} /\ r \in affectedRoutes
    BY DEF Unwritten, Updating
  <2>2. CASE Update
    BY <2>1, <2>2
    DEF Update, Updating, StoredInv, UpdateBegin, UpdateBind, UpdateListener, NextKind,
        RegenerateServer, ServersDone, RegenerateRoute, UpdateReturns
  <2>3. CASE \/ Remove \/ OnServiceAvailable \/ AddressStore \/ UNCHANGED vars
             \/ \E s \in ServerKey : WriteCertificate(s) \/ WriteServer(s) \/ Panic(s)
             \/ \E file \in RouteKey \X ListenerKey : WriteRoute(file)
    BY <2>1, <2>3
    DEF Remove, OnServiceAvailable, AddressStore, vars, Updating, RemoveBegin, RemoveBind,
        RemoveListener, RemoveRoute, RemoveLoopEnds, CleanUpServer, RemoveReturns, Panic,
        WriteCertificate, WriteServer, WriteRoute, CallbackBegins, CallbackRoute,
        CallbackReturns, ServicesUpdated, ServicesRemoved
  <2> QED
    BY <2>2, <2>3 DEF Next
<1> QED
  BY <1>1, <1>2, <1>3, <1>4

LEMMA FileInit == Init => FileInv
BY DEF Init, FileInv, Named, ServerKey

LEMMA FileNext == TypeInv /\ FileInv /\ [Next]_vars => FileInv'
<1> SUFFICES ASSUME TypeInv, FileInv, [Next]_vars,
                    NEW r \in RouteKey, NEW l \in ListenerKey, Named(r, l)'
             PROVE  Resolves(<<r, l>>)' \/ Unwritten(r, l)'
  BY DEF FileInv
<1>1. CASE Named(r, l) /\ Resolves(<<r, l>>)
  BY <1>1, FilesStay
<1>2. CASE Named(r, l) /\ Unwritten(r, l)
  BY <1>2, UnwrittenEnds
<1>3. ASSUME NEW route \in Route, UpdateRoute(r, route), route.listener = l
      PROVE  Unwritten(r, l)'
  BY <1>3 DEF UpdateRoute, Unwritten, Updating, TypeInv, TypeOK
<1> QED
  BY <1>1, <1>2, <1>3, NamedGrows DEF FileInv

\* Between calls every route file that a server file includes is there.
THEOREM IncludesCorrect == Spec => []IncludesResolve
<1>1. Spec => [](TypeInv /\ FileInv)
  BY TypeAlways, FileInit, FileNext, PTL DEF Spec
<1>2. TypeInv /\ FileInv => IncludesResolve
  <2> SUFFICES ASSUME TypeInv, FileInv, pc = "idle", NEW s \in ServerKey,
                      serverConf[s] # NoFile, NEW r \in serverConf[s].includes
               PROVE  Resolves(<<r, s[1]>>)
    BY DEF IncludesResolve, Resolves
  <2>1. r \in RouteKey
    BY DEF TypeInv, TypeOK
  <2>2. s[1] \in ListenerKey /\ s[2] \in Host /\ s = <<s[1], s[2]>>
    BY ServerFields
  <2>3. Named(r, s[1])
    BY <2>2 DEF Named
  <2> QED
    BY <2>1, <2>2, <2>3 DEF FileInv, Unwritten, Updating
<1> QED
  BY <1>1, <1>2, PTL

-----------------------------------------------------------------------------
(* Locations *)

\* The location of r has backend k, or a callback will see to it, now or when k comes.
Placed(r, k) ==
    \/ k \in routeConf[FileOf(r)].backends
    \/ k \in active /\ (k \in available => k \in pending)

Located(r) ==
    \/ FileOf(r) \in unsynced
    \/ /\ routeConf[FileOf(r)] # NoFile
       /\ \A k \in routes[r].backends : Placed(r, k)

Regenerating(r) == (Updating \/ pc = "callback") /\ r \in affectedRoutes

LocationInv == \A r \in Stored : Located(r) \/ Regenerating(r)

\* Opening one route's file excuses that route until it is written, and does good to the
\* others.
LEMMA OpenLocates ==
    ASSUME TypeInv, NEW r \in Stored, OpenRoute(r), UNCHANGED <<routes, available, pending>>
    PROVE  /\ Located(r)'
           /\ \A other \in Stored : Located(other) => Located(other)'
<1>1. FileOf(r)' = FileOf(r) /\ active' = active \cup routes[r].backends
  BY DEF FileOf, OpenRoute, Awaited
<1>2. Located(r)'
  BY <1>1, OpenRouteFiles DEF TypeInv, Located
<1>3. ASSUME NEW other \in Stored, Located(other), other # r
      PROVE  Located(other)'
  <2>1. /\ FileOf(other) \in RouteKey \X ListenerKey /\ FileOf(other) # FileOf(r)
        /\ FileOf(other)' = FileOf(other)
    BY <1>3, RouteFields DEF FileOf, TypeInv
  <2>2. /\ routeConf'[FileOf(other)] = routeConf[FileOf(other)]
        /\ FileOf(other) \in unsynced' <=> FileOf(other) \in unsynced
    BY <2>1, OpenRouteFiles DEF TypeInv
  <2> QED
    BY <1>1, <1>3, <2>1, <2>2 DEF Located, Placed
<1> QED
  BY <1>2, <1>3

LEMMA WriteLocates ==
    ASSUME TypeInv, NEW file \in RouteKey \X ListenerKey, WriteRoute(file),
           NEW r \in Stored, Located(r)
    PROVE  Located(r)'
<1>1. FileOf(r) \in RouteKey \X ListenerKey
  BY RouteFields DEF TypeInv
<1>2. UNCHANGED <<FileOf(r), routes, available, active, pending>>
  BY DEF WriteRoute, maps, addressStore, FileOf
<1>3. CASE FileOf(r) = file
  <2>1. file[1] = r /\ routes[r].backends \subseteq active
    BY <1>3 DEF FileOf, WriteRoute, TypeInv, OpenInv
  <2> QED
    BY <1>2, <1>3, <2>1, WriteRouteFiles DEF Located, Placed
<1>4. CASE FileOf(r) # file
  <2>1. /\ routeConf'[FileOf(r)] = routeConf[FileOf(r)]
        /\ FileOf(r) \in unsynced' <=> FileOf(r) \in unsynced
    BY <1>1, <1>4, WriteRouteFiles
  <2> QED
    BY <1>2, <2>1 DEF Located, Placed
<1> QED
  BY <1>3, <1>4

\* Steps that do not bear on a route leave it where it is.
LEMMA LocatedFrame ==
    ASSUME NEW r \in Stored, routes'[r] = routes[r],
           UNCHANGED <<routeConf, unsynced, active, available, pending>>
    PROVE  Located(r)' <=> Located(r)
BY DEF Located, Placed, FileOf

LEMMA LocationInit == Init => LocationInv
BY DEF Init, LocationInv, Stored

LEMMA LocationNext ==
    TypeInv /\ TrackedInv /\ LocationInv /\ [Next]_vars => LocationInv'
<1> SUFFICES ASSUME TypeInv, TrackedInv, LocationInv, [Next]_vars
             PROVE  LocationInv'
  OBVIOUS
<1> USE DEF TypeInv, maps, disk, addressStore, locals, history
<1> DEFINE Frame == UNCHANGED <<routeConf, unsynced, active, available, pending>>
<1>1. ASSUME NEW r \in RouteKey, NEW route \in Route, UpdateRoute(r, route)
      PROVE  LocationInv'
  <2>1. Frame /\ affectedRoutes' = affectedRoutes \cup {r} /\ pc = "routes" /\ pc' = pc
    BY <1>1 DEF UpdateRoute
  <2>2. Stored' = Stored \cup {r} /\ \A other \in Stored \ {r} : routes'[other] = routes[other]
    BY <1>1, UpdateRouteStored DEF Stored
  <2>3. \A other \in Stored \ {r} : Located(other)' <=> Located(other)
    BY <2>1, <2>2, LocatedFrame
  <2> QED
    BY <2>1, <2>2, <2>3 DEF LocationInv, Regenerating, Updating
<1>2. ASSUME Stored' \subseteq Stored, \A r \in Stored' : routes'[r] = routes[r], Frame,
             \A r \in Stored' : Regenerating(r) => Regenerating(r)'
      PROVE  LocationInv'
  BY <1>2, LocatedFrame DEF LocationInv
<1>3. ASSUME NEW l \in ListenerKey, RemoveListener(l)
      PROVE  LocationInv'
  BY <1>2, <1>3, RemoveListenerStored DEF RemoveListener, Regenerating, Updating
<1>4. ASSUME NEW r \in RouteKey, RemoveRoute(r)
      PROVE  LocationInv'
  BY <1>2, <1>4, RemoveRouteStored DEF RemoveRoute, Regenerating, Updating
<1>5. CASE Steady
  <2>1. routes' = routes /\ Stored' = Stored
    BY <1>5, SteadyRoutes
  <2>2. ASSUME NEW r \in Stored, RegenerateRoute(r) \/ CallbackRoute(r)
        PROVE  LocationInv'
    <3>1. /\ OpenRoute(r) /\ UNCHANGED <<available, pending, pc>>
          /\ affectedRoutes' = affectedRoutes \ {r}
      BY <2>2 DEF RegenerateRoute, CallbackRoute, Stored
    <3> QED
      BY <2>1, <3>1, OpenLocates DEF LocationInv, Regenerating, Updating
  <2>3. ASSUME NEW r \in RouteKey \ Stored, CallbackRoute(r)
        PROVE  LocationInv'
    BY <1>2, <2>1, <2>3 DEF CallbackRoute, Regenerating, Updating, Stored
  <2>4. CASE RemoveReturns
    BY <1>2, <2>1, <2>4, RemoveKeepsFiles DEF RemoveReturns, Regenerating, Updating
  <2>5. ASSUME NEW k \in ServiceKey, CallbackBegins(k)
        PROVE  LocationInv'
    <3>1. ASSUME NEW r \in Stored
          PROVE  Located(r)' \/ Regenerating(r)'
      <4>1. Located(r)
        BY <2>5 DEF CallbackBegins, LocationInv, Regenerating, Updating
      <4>2. CASE k \in routes[r].backends
        <5>1. r \in serviceToRoutes[k]
          BY <2>5, <4>2 DEF CallbackBegins, TrackedInv, Updating
        <5> QED
          BY <2>5, <5>1 DEF CallbackBegins, Regenerating
      <4>3. CASE k \notin routes[r].backends
        BY <2>1, <2>5, <4>1, <4>3 DEF CallbackBegins, Located, Placed, FileOf
      <4> QED
        BY <4>2, <4>3
    <3> QED
      BY <2>1, <3>1 DEF LocationInv
  <2>6. CASE ServicesUpdated \/ ServicesRemoved
    <3>1. ASSUME NEW r \in Stored
          PROVE  Located(r)'
      <4>1. Located(r)
        BY <2>6 DEF ServicesUpdated, ServicesRemoved, LocationInv, Regenerating, Updating
      <4>2. UNCHANGED <<FileOf(r), routes, routeConf, unsynced>>
        BY <2>1, <2>6 DEF ServicesUpdated, ServicesRemoved, FileOf
      <4>3. ASSUME NEW other \in routes[r].backends, Placed(r, other)
            PROVE  Placed(r, other)'
        BY <2>6, <4>2, <4>3 DEF ServicesUpdated, ServicesRemoved, Placed
      <4> QED
        BY <4>1, <4>2, <4>3 DEF Located
    <3> QED
      BY <2>1, <3>1 DEF LocationInv
  <2>7. CASE \/ \E s \in ServerKey : RegenerateServer(s) \/ CleanUpServer(s) \/ Panic(s)
             \/ \E b \in BindKey, port \in Port : UpdateBind(b, port)
             \/ \E b \in BindKey : RemoveBind(b)
             \/ \E l \in ListenerKey, listener \in Listener : UpdateListener(l, listener)
    <3>1. CASE \E s \in ServerKey : RegenerateServer(s) \/ CleanUpServer(s) \/ Panic(s)
      BY <1>2, <2>1, <3>1 DEF RegenerateServer, CleanUpServer, Panic, Regenerating, Updating
    <3>2. CASE \/ \E b \in BindKey, port \in Port : UpdateBind(b, port)
               \/ \E b \in BindKey : RemoveBind(b)
               \/ \E l \in ListenerKey, listener \in Listener : UpdateListener(l, listener)
      BY <1>2, <2>1, <3>2 DEF UpdateBind, RemoveBind, UpdateListener, Regenerating, Updating
    <3> QED
      BY <2>7, <3>1, <3>2
  <2>8. CASE \/ UpdateBegin \/ NextKind \/ ServersDone \/ UpdateReturns \/ RemoveBegin
             \/ RemoveLoopEnds \/ CallbackReturns \/ UNCHANGED vars
    BY <1>2, <2>1, <2>8
    DEF UpdateBegin, NextKind, ServersDone, UpdateReturns, RemoveBegin, RemoveLoopEnds,
        CallbackReturns, vars, Regenerating, Updating
  <2>9. \A r \in RouteKey : RegenerateRoute(r) => r \in Stored
    BY DEF RegenerateRoute, StoredInv
  <2>10. ASSUME NEW file \in RouteKey \X ListenerKey, WriteRoute(file)
         PROVE  LocationInv'
    <3>1. UNCHANGED <<pc, affectedRoutes>>
      BY <2>10 DEF WriteRoute
    <3> QED
      BY <2>1, <2>10, <3>1, WriteLocates DEF LocationInv, Regenerating, Updating
  <2>11. CASE \E s \in ServerKey : WriteCertificate(s) \/ WriteServer(s)
    BY <1>2, <2>1, <2>11 DEF WriteCertificate, WriteServer, Regenerating, Updating
  <2> QED
    BY <1>5, <2>2, <2>3, <2>4, <2>5, <2>6, <2>7, <2>8, <2>9, <2>10, <2>11 DEF Steady
<1> QED
  BY <1>1, <1>3, <1>4, <1>5, Steps

\* Between calls the location of a route has each backend that has workloads, however
\* often services and routes come and go.
THEOREM LocationCorrect == Spec => []RouteServesAvailable
<1>1. Spec => [](TypeInv /\ TrackedInv /\ LocationInv)
  BY TrackedAlways, LocationInit, LocationNext, PTL DEF Spec
<1>2. LocationInv => RouteServesAvailable
  BY DEF LocationInv, RouteServesAvailable, Located, Placed, Regenerating, Updating
<1> QED
  BY <1>1, <1>2, PTL

-----------------------------------------------------------------------------
(* Server files *)

\* Route r is in server file s, on disk and in serverFiles, by which Remove decides
\* whether the file is still needed.
Serves(s, r) ==
    /\ serverConf[s] # NoFile /\ r \in serverConf[s].includes
    /\ serverFiles[s] # NoServer /\ r \in serverFiles[s].routeKeys

\* s is being written, or Update has yet to write it.
ToServe(s) ==
    \/ s \in openCerts \cup openServers
    \/ pc \in {"routes", "servers", "crashed"} /\ s \in affectedServers /\ Generates(s)

ServedInv ==
    \A r \in Stored \ excused :
        /\ listeners[routes[r].listener] # NoListener
        /\ \A s \in ServersOf(routes[r]) : Serves(s, r) \/ ToServe(s)

\* The server files of a stored route, whose listener is there, find it in the index.
LEMMA Found ==
    ASSUME TypeInv, RoutesIndexed, ServedInv, NEW r \in Stored \ excused
    PROVE  /\ ServersOf(routes[r]) \in SUBSET ServerKey
           /\ \A s \in ServersOf(routes[r]) :
                 s[1] = routes[r].listener /\ r \in Matching(s)
<1>1. routes[r] \in Route /\ listeners[routes[r].listener] # NoListener
  BY RouteFields DEF TypeInv, ServedInv
<1>2. /\ ServersOf(routes[r]) \in SUBSET ServerKey
      /\ \A s \in ServersOf(routes[r]) :
            s[1] = routes[r].listener /\ RouteMatchesHostname(routes[r], s[2])
  BY <1>1, ServersOfType DEF TypeInv
<1> QED
  BY <1>2 DEF Matching, RoutesIndexed

\* Writing a server file takes no route from any, or excuses it.
LEMMA GenerateServes ==
    ASSUME TypeInv, NotWriting, NEW s \in ServerKey, NEW r \in Matching(s) \ excused',
           NEW written \in ServerKey, GenerateServerFile(written)
    PROVE  \/ s \in openCerts' \cup openServers'
           \/ /\ Serves(s, r) => Serves(s, r)'
              /\ s = written => ~Generates(s)
<1>1. CASE s = written
  BY <1>1, GenerateFiles DEF TypeInv, Serves
<1>2. CASE s # written
  BY <1>2, GenerateFiles DEF TypeInv, Serves
<1> QED
  BY <1>1, <1>2

LEMMA WriteServes ==
    ASSUME TypeInv, NEW s \in ServerKey, NEW r \in Matching(s) \ excused',
           NEW written \in ServerKey, WriteServer(written)
    PROVE  Serves(s, r) \/ s = written => Serves(s, r)'
<1>1. CASE s # written
  BY <1>1 DEF WriteServer, Serves, TypeInv, TypeOK
<1>2. CASE s = written
  <2>1. Generates(s) /\ serverFiles'[s] = [routeKeys |-> Matching(s)]
    BY <1>2 DEF WriteServer, TypeInv, OpenInv
  <2>2. [routeKeys |-> Matching(s)] \in [routeKeys : SUBSET RouteKey]
    BY MatchingType DEF TypeInv
  <2>3. binds[listeners[s[1]].bind] \in Port
    BY <2>1, ServerFields, ListenerFields DEF Generates, TypeInv, TypeOK
  <2>4. [port |-> binds[listeners[s[1]].bind], includes |-> Matching(s)]
           \in [port : Port, includes : SUBSET RouteKey]
    BY <2>3, MatchingType DEF TypeInv
  <2>5. serverConf'[s] = [port |-> binds[listeners[s[1]].bind], includes |-> Matching(s)]
    BY <1>2 DEF WriteServer, ServerFails, TypeInv, TypeOK
  <2> QED
    BY <2>1, <2>2, <2>4, <2>5, ResourceAssumption DEF Serves
<1> QED
  BY <1>1, <1>2

LEMMA ServedInit == Init => ServedInv
BY DEF Init, ServedInv, Stored

LEMMA ServedNext ==
    TypeInv /\ RoutesIndexed /\ ServedInv /\ [Next]_vars => ServedInv'
<1> SUFFICES ASSUME TypeInv, RoutesIndexed, ServedInv, [Next]_vars
             PROVE  ServedInv'
  OBVIOUS
<1> USE DEF maps, disk, addressStore, locals, opened, history
<1>6. pc \notin {"servers", "cleanup"} => openCerts \cup openServers = {}
  BY DEF TypeInv, OpenInv
<1>1. ASSUME NEW r \in RouteKey, NEW route \in Route, UpdateRoute(r, route)
      PROVE  ServedInv'
  <2>1. /\ Stored' = Stored \cup {r} /\ routes'[r] = route
        /\ \A other \in Stored \ {r} : routes'[other] = routes[other]
    BY <1>1, UpdateRouteStored DEF TypeInv, Stored
  <2>2. /\ excused \subseteq excused' \cup {r}
        /\ affectedServers \subseteq affectedServers'
        /\ UNCHANGED <<pc, listeners, binds, serverConf, serverFiles, opened>>
    BY <1>1 DEF UpdateRoute
  <2>3. \A s : ToServe(s) => ToServe(s)'
    BY <2>2 DEF ToServe, Generates
  <2>4. \A s, other : Serves(s, other)' <=> Serves(s, other)
    BY <2>2 DEF Serves
  <2>5. ASSUME NEW other \in Stored \ excused, other # r
        PROVE  /\ listeners'[routes'[other].listener] # NoListener
               /\ \A s \in ServersOf(routes[other])' : Serves(s, other)' \/ ToServe(s)'
    BY <2>1, <2>2, <2>3, <2>4, <2>5 DEF ServedInv, ServersOf
  <2>6. ASSUME r \notin excused'
        PROVE  /\ listeners'[route.listener] # NoListener
               /\ \A s \in ServersOf(routes[r])' : ToServe(s)'
    <3>1. /\ listeners[route.listener] # NoListener
          /\ binds[listeners[route.listener].bind] # NoBind
          /\ ServersOf(route) \subseteq affectedServers' /\ pc = "routes"
      BY <1>1, <2>6 DEF UpdateRoute
    <3>2. \A s \in ServersOf(route) : s[1] = route.listener
      BY <3>1, ServersOfType DEF TypeInv
    <3> QED
      BY <2>1, <2>2, <3>1, <3>2 DEF ToServe, Generates, ServersOf
  <2> QED
    BY <2>1, <2>2, <2>5, <2>6 DEF ServedInv
<1>2. ASSUME NEW l \in ListenerKey, NEW listener \in Listener, UpdateListener(l, listener)
      PROVE  ServedInv'
  <2>1. /\ UNCHANGED <<pc, routes>> /\ excused \subseteq excused' /\ Stored' = Stored
        /\ pc = "listeners"
    BY <1>2 DEF UpdateListener, Stored
  <2>2. ASSUME NEW r \in Stored \ excused'
        PROVE  /\ listeners'[routes[r].listener] = listeners[routes[r].listener]
               /\ \A s \in ServersOf(routes[r]) : Serves(s, r)'
    <3>1. \A s \in ServersOf(routes[r]) :
             Serves(s, r) /\ s \in ServerKey /\ s[1] = routes[r].listener
      BY <1>6, <2>1, Found DEF ServedInv, ToServe
    <3>2. listeners[routes[r].listener] # NoListener /\ routes[r].listener \in ListenerKey
      BY <2>1, RouteFields DEF ServedInv, TypeInv
    <3>3. CASE routes[r].listener = l
      <4>1. listeners[l] = listener
        BY <1>2, <3>2, <3>3 DEF UpdateListener, Stored
      <4> QED
        BY <1>2, <3>1, <3>3, <4>1 DEF UpdateListener, Serves, TypeInv, TypeOK
    <3>4. CASE routes[r].listener # l
      <4>1. \A s \in ServersOf(routes[r]) :
               serverConf'[s] = serverConf[s] /\ serverFiles'[s] = serverFiles[s]
        BY <1>2, <3>1, <3>4 DEF UpdateListener, TypeInv, TypeOK
      <4> QED
        BY <1>2, <3>1, <3>2, <3>4, <4>1 DEF UpdateListener, Serves, TypeInv, TypeOK
    <3> QED
      BY <3>3, <3>4
  <2>3. \A r \in Stored \ excused' : ServersOf(routes[r])' = ServersOf(routes[r])
    <3> SUFFICES ASSUME NEW r \in Stored \ excused'
                 PROVE  ServersOf(routes[r])' = ServersOf(routes[r])
      BY <2>1
    <3>1. listeners'[routes[r].listener].hostname = listeners[routes[r].listener].hostname
      BY <2>2
    <3> QED
      BY <2>1, <3>1 DEF ServersOf
  <2> QED
    BY <2>1, <2>2, <2>3 DEF ServedInv
<1>3. ASSUME NEW l \in ListenerKey, RemoveListener(l)
      PROVE  ServedInv'
  <2>1. ASSUME NEW r \in Stored' \ excused'
        PROVE  /\ listeners'[routes'[r].listener] # NoListener
               /\ \A s \in ServersOf(routes[r])' : Serves(s, r)'
    <3>1. r \in Stored \ excused /\ routes'[r] = routes[r] /\ r \notin listenerToRoutes[l]
      BY <1>3, RemoveListenerStored DEF RemoveListener, TypeInv
    <3>2. routes[r].listener \in ListenerKey \ {l}
      BY <3>1, RouteFields DEF RoutesIndexed, TypeInv
    <3>3. \A s \in ServersOf(routes[r]) :
             Serves(s, r) /\ s \in ServerKey /\ s[1] = routes[r].listener
      BY <1>3, <1>6, <3>1, Found DEF RemoveListener, ServedInv, ToServe
    <3>4. listeners'[routes[r].listener] = listeners[routes[r].listener]
      BY <1>3, <3>2 DEF RemoveListener, TypeInv, TypeOK
    <3>5. ServersOf(routes[r])' = ServersOf(routes[r])
      BY <3>1, <3>4 DEF ServersOf
    <3>6. \A s \in ServersOf(routes[r]) :
             serverConf'[s] = serverConf[s] /\ serverFiles'[s] = serverFiles[s]
      BY <1>3, <3>2, <3>3 DEF RemoveListener, TypeInv, TypeOK
    <3> QED
      BY <3>1, <3>3, <3>4, <3>5, <3>6 DEF ServedInv, Serves
  <2> QED
    BY <2>1 DEF ServedInv
<1>4. ASSUME NEW r \in RouteKey, RemoveRoute(r)
      PROVE  ServedInv'
  <2>1. /\ UNCHANGED <<listeners, serverConf, serverFiles, excused>> /\ pc = "remove"
        /\ Stored' \subseteq Stored /\ \A other \in Stored' : routes'[other] = routes[other]
    BY <1>4, RemoveRouteStored DEF RemoveRoute, TypeInv
  <2> QED
    BY <1>6, <2>1 DEF ServedInv, ServersOf, Serves, ToServe
<1>5. CASE Steady
  <2>1. routes' = routes /\ Stored' = Stored
    BY <1>5, SteadyRoutes
  <2>2. ASSUME UNCHANGED <<listeners, listenerToRoutes>>, excused \subseteq excused',
               \A s \in ServerKey : \A r \in Matching(s) \ excused' :
                  Serves(s, r) \/ ToServe(s) => Serves(s, r)' \/ ToServe(s)'
        PROVE  ServedInv'
    <3>1. ASSUME NEW r \in Stored \ excused'
          PROVE  /\ ServersOf(routes[r])' = ServersOf(routes[r])
                 /\ \A s \in ServersOf(routes[r]) : s \in ServerKey /\ r \in Matching(s)
      <4>1. ServersOf(routes[r])' = ServersOf(routes[r])
        BY <2>1, <2>2 DEF ServersOf
      <4>2. r \in Stored \ excused
        BY <2>2
      <4> QED
        BY <4>1, <4>2, Found
    <3>2. ASSUME NEW r \in Stored \ excused'
          PROVE  /\ listeners'[routes'[r].listener] # NoListener
                 /\ \A s \in ServersOf(routes[r])' : Serves(s, r)' \/ ToServe(s)'
      <4>1. /\ listeners[routes[r].listener] # NoListener
            /\ \A s \in ServersOf(routes[r]) : Serves(s, r) \/ ToServe(s)
        BY <2>2 DEF ServedInv
      <4> QED
        BY <2>1, <2>2, <3>1, <4>1
    <3> QED
      BY <2>1, <3>2 DEF ServedInv
  <2>3. ASSUME NEW s \in ServerKey, RegenerateServer(s) \/ CleanUpServer(s)
        PROVE  ServedInv'
    <3>1. NotWriting /\ UNCHANGED <<maps, pc>> /\ affectedServers' = affectedServers \ {s}
      BY <2>3 DEF RegenerateServer, CleanUpServer
    <3>2. \A other : ToServe(other) => /\ pc \in {"routes", "servers", "crashed"}
                                      /\ other \in affectedServers /\ Generates(other)
      BY <3>1 DEF ToServe, NotWriting
    <3>3. \A other : Generates(other)' <=> Generates(other)
      BY <3>1 DEF Generates
    <3>4. CASE GenerateServerFile(s)
      <4>1. excused \subseteq excused'
        BY <3>4, GenerateFiles DEF TypeInv
      <4>2. ASSUME NEW other \in ServerKey, NEW r \in Matching(other) \ excused',
                   Serves(other, r) \/ ToServe(other)
            PROVE  Serves(other, r)' \/ ToServe(other)'
        <5>1. \/ other \in openCerts' \cup openServers'
              \/ /\ Serves(other, r) => Serves(other, r)'
                 /\ other = s => ~Generates(other)
          BY <3>1, <3>4, GenerateServes
        <5> QED
          BY <3>1, <3>2, <3>3, <4>2, <5>1 DEF ToServe
      <4> QED
        BY <2>2, <3>1, <4>1, <4>2
    <3>5. CASE ~GenerateServerFile(s)
      <4>1. ~StillServes(s) /\ excused' = excused /\ pc = "cleanup"
        BY <2>3, <3>5 DEF CleanUpServer, RegenerateServer
      <4>2. \A other \in ServerKey : other # s =>
               /\ serverConf'[other] = serverConf[other]
               /\ serverFiles'[other] = serverFiles[other]
        BY <2>3, <3>5 DEF CleanUpServer, RegenerateServer, TypeInv, TypeOK
      <4>3. \A r : ~Serves(s, r)
        BY <4>1 DEF Serves, StillServes
      <4>4. \A other \in ServerKey : \A r : Serves(other, r) => Serves(other, r)'
        BY <4>2, <4>3 DEF Serves
      <4> QED
        BY <2>2, <3>1, <3>2, <4>1, <4>4
    <3> QED
      BY <3>4, <3>5
  <2>4. ASSUME UNCHANGED <<listeners, serverConf, serverFiles, excused>>,
               \A s \in ServerKey : ToServe(s) => ToServe(s)'
        PROVE  ServedInv'
    <3>1. \A r \in Stored \ excused :
             /\ ServersOf(routes[r])' = ServersOf(routes[r])
             /\ ServersOf(routes[r]) \in SUBSET ServerKey
      BY <2>1, <2>4, Found DEF ServersOf
    <3>2. \A s, r : Serves(s, r)' <=> Serves(s, r)
      BY <2>4 DEF Serves
    <3> QED
      BY <2>1, <2>4, <3>1, <3>2 DEF ServedInv
  <2>5. CASE \/ UpdateBegin \/ NextKind \/ ServersDone \/ UpdateReturns \/ RemoveBegin
             \/ RemoveLoopEnds \/ RemoveReturns \/ CallbackReturns \/ UNCHANGED vars
    BY <2>4, <2>5
    DEF UpdateBegin, NextKind, ServersDone, UpdateReturns, RemoveBegin, RemoveLoopEnds,
        RemoveReturns, CallbackReturns, vars, ToServe, Generates
  <2>6. CASE \/ \E s \in ServerKey : Panic(s)
             \/ \E b \in BindKey, port \in Port : UpdateBind(b, port)
             \/ \E b \in BindKey : RemoveBind(b)
             \/ \E r \in RouteKey : RegenerateRoute(r) \/ CallbackRoute(r)
             \/ \E file \in RouteKey \X ListenerKey : WriteRoute(file)
             \/ \E k \in ServiceKey : CallbackBegins(k)
             \/ ServicesUpdated \/ ServicesRemoved
    BY <2>4, <2>6
    DEF Panic, UpdateBind, RemoveBind, RegenerateRoute, WriteRoute, CallbackRoute,
        CallbackBegins, ServicesUpdated, ServicesRemoved, ToServe, Generates
  <2>7. ASSUME NEW s \in ServerKey, WriteCertificate(s)
        PROVE  ServedInv'
    <3>1. /\ UNCHANGED <<maps, pc, affectedServers, serverFiles>> /\ openCerts' = {}
          /\ excused \subseteq excused'
          /\ \A other \in ServerKey \ {s} : serverConf'[other] = serverConf[other]
          /\ s \in openServers' \/ Matching(s) \subseteq excused'
          /\ pc \in {"servers", "cleanup"}
      BY <2>7 DEF WriteCertificate, OpenServerFile, ServerFails, TypeInv, TypeOK, OpenInv
    <3>2. \A other \in openCerts \cup openServers : other = s
      BY <2>7 DEF WriteCertificate, TypeInv, OpenInv
    <3>3. ASSUME NEW other \in ServerKey, NEW r \in Matching(other) \ excused',
                 Serves(other, r) \/ ToServe(other)
          PROVE  Serves(other, r)' \/ ToServe(other)'
      <4>1. CASE other = s
        BY <3>1, <3>3, <4>1 DEF ToServe
      <4>2. CASE other # s
        BY <3>1, <3>2, <3>3, <4>2 DEF ToServe, Serves, Generates
      <4> QED
        BY <4>1, <4>2
    <3> QED
      BY <2>2, <3>1, <3>3
  <2>8. ASSUME NEW s \in ServerKey, WriteServer(s)
        PROVE  ServedInv'
    <3>1. /\ UNCHANGED <<maps, pc, affectedServers>> /\ excused \subseteq excused'
      BY <2>8 DEF WriteServer, ServerFails
    <3>2. \A other \in openCerts \cup openServers : other = s
      BY <2>8 DEF WriteServer, TypeInv, OpenInv
    <3>3. ASSUME NEW other \in ServerKey, NEW r \in Matching(other) \ excused',
                 Serves(other, r) \/ ToServe(other)
          PROVE  Serves(other, r)' \/ ToServe(other)'
      <4>1. Serves(other, r) \/ other = s => Serves(other, r)'
        BY <2>8, WriteServes
      <4> QED
        BY <3>1, <3>2, <3>3, <4>1 DEF ToServe, Generates
    <3> QED
      BY <2>2, <3>1, <3>3
  <2> QED
    BY <1>2, <1>5, <2>3, <2>5, <2>6, <2>7, <2>8 DEF Steady
<1> QED
  BY <1>1, <1>3, <1>4, <1>5, Steps

\* A route that was stored under a listener and bind that were there stays served under
\* each of its hostnames, whatever else is updated and removed.
THEOREM ServedCorrect == Spec => []RouteStaysServed
<1>1. Spec => [](TypeInv /\ RoutesIndexed /\ ServedInv)
  BY IndexedAlways, ServedInit, ServedNext, PTL DEF Spec
<1>2. TypeInv /\ ServedInv => RouteStaysServed
  BY DEF TypeInv, OpenInv, ServedInv, RouteStaysServed, Serves, ToServe
<1> QED
  BY <1>1, <1>2, PTL

=============================================================================
