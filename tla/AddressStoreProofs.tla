------------------------- MODULE AddressStoreProofs -------------------------
(***************************************************************************)
(* Proofs about AddressStore, for any sets of services, workloads,         *)
(* addresses and ports.                                                    *)
(***************************************************************************)
EXTENDS AddressStore, TLAPS

-----------------------------------------------------------------------------
(* The helpers return values of the right kind *)

LEMMA WithoutWorkloadType ==
    ASSUME TypeOK, NEW u \in Uid
    PROVE  WithoutWorkload(u) \in [ServiceKey -> Service \cup {NoService}]
BY DEF TypeOK, WithoutWorkload, Service, Exists

LEMMA WithWorkloadType ==
    ASSUME TypeOK, NEW w \in WorkloadRes
    PROVE  WithWorkload(w) \in [ServiceKey -> Service \cup {NoService}]
<1> SUFFICES ASSUME NEW k \in ServiceKey
             PROVE  WithWorkload(w)[k] \in Service \cup {NoService}
  BY DEF WithWorkload
<1>1. w.uid \in Uid /\ w.ports[k] \in Port \cup {NoPort}
  BY DEF WorkloadRes, PortMap
<1> QED
  BY <1>1 DEF TypeOK, WithWorkload, Service, Exists

LEMMA ServersType ==
    ASSUME TypeOK, NEW k \in ServiceKey, Exists(k)
    PROVE  Servers(k) \in SUBSET (Addr \X Port)
BY DEF TypeOK, Servers, Exists, Known, Service, Workload

\* Whatever updateServiceConfig does to the disk, files stay files.
LEMMA ConfigType ==
    ASSUME TypeOK, NEW k \in ServiceKey,
           ConfigOpens(k) \/ ConfigUpdated(k) \/ ConfigFails(k)
    PROVE  /\ endpoints' \in [ServiceKey -> Upstream \cup {NoFile}]
           /\ opened' \in SUBSET ServiceKey
           /\ unsynced' \in SUBSET ServiceKey
<1>1. Exists(k) => [servers |-> Servers(k)] \in Upstream
  BY ServersType DEF Upstream
<1>2. [servers |-> {}] \in Upstream
  BY DEF Upstream
<1>3. /\ endpoints \in [ServiceKey -> Upstream \cup {NoFile}]
      /\ opened \in SUBSET ServiceKey
      /\ unsynced \in SUBSET ServiceKey
  BY DEF TypeOK
<1> QED
  BY <1>1, <1>2, <1>3
  DEF ConfigOpens, ConfigUpdated, ConfigFails, WriteOpens, WriteSucceeds, WriteFails,
      NoFileTouched, files

LEMMA DeleteType ==
    ASSUME TypeOK, NEW k \in ServiceKey, DeleteSucceeds(k) \/ DeleteFails(k)
    PROVE  /\ endpoints' \in [ServiceKey -> Upstream \cup {NoFile}]
           /\ opened' \in SUBSET ServiceKey
           /\ unsynced' \in SUBSET ServiceKey
BY DEF TypeOK, DeleteSucceeds, DeleteFails

-----------------------------------------------------------------------------
(* Type correctness *)

LEMMA TypeInit == Init => TypeOK
BY DEF Init, TypeOK

LEMMA TypeNext == TypeOK /\ [Next]_vars => TypeOK'
<1> SUFFICES ASSUME TypeOK, [Next]_vars
             PROVE  TypeOK'
  OBVIOUS
<1> USE DEF TypeOK, store, files
<1>1. CASE UpdateBegin
  BY <1>1 DEF UpdateBegin
<1>2. ASSUME NEW w \in WorkloadRes, WorkloadUnhealthy(w)
      PROVE  TypeOK'
  <2>1. w.uid \in Uid
    BY DEF WorkloadRes
  <2>2. ServicesOf(w.uid) \subseteq ServiceKey
    BY <2>1 DEF ServicesOf, Known, Workload
  <2>3. WithoutWorkload(w.uid) \in [ServiceKey -> Service \cup {NoService}]
    BY <2>1, WithoutWorkloadType
  <2> QED
    BY <1>2, <2>1, <2>2, <2>3 DEF WorkloadUnhealthy
<1>3. ASSUME NEW w \in WorkloadRes, WorkloadStored(w)
      PROVE  TypeOK'
  <2>1. w.uid \in Uid /\ w.addr \in Addr
    BY <1>3 DEF WorkloadRes, WorkloadStored
  <2>2. ServicesOf(w.uid) \subseteq ServiceKey
    BY <2>1 DEF ServicesOf, Known, Workload
  <2>3. KeysOf(w.ports) \subseteq ServiceKey /\ Announced(w) \subseteq ServiceKey
    BY DEF KeysOf, Announced
  <2>4. [addr |-> w.addr, services |-> KeysOf(w.ports)] \in Workload
    BY <2>1, <2>3 DEF Workload
  <2>5. WithWorkload(w) \in [ServiceKey -> Service \cup {NoService}]
    BY WithWorkloadType
  <2> QED
    BY <1>3, <2>1, <2>2, <2>3, <2>4, <2>5 DEF WorkloadStored
<1>4. ASSUME NEW w \in WorkloadRes, WorkloadSkipped(w) \/ WorkloadPanics(w)
      PROVE  TypeOK'
  BY <1>4 DEF WorkloadSkipped, WorkloadPanics, vars
<1>5. ASSUME NEW ports \in PortMap, ServiceStored(ports)
      PROVE  TypeOK'
  <2>1. serviceMap' \in [ServiceKey -> Service \cup {NoService}]
    BY <1>5 DEF ServiceStored, PortMap, Service, Exists
  <2>2. KeysOf(ports) \subseteq ServiceKey
    BY DEF KeysOf
  <2> QED
    BY <1>5, <2>1, <2>2 DEF ServiceStored
<1>6. CASE UpdateLoopEnds \/ UpdateUnlocks \/ UpdateReloadFails \/ UpdateReturns
  BY <1>6 DEF UpdateLoopEnds, UpdateUnlocks, UpdateReloadFails, UpdateReturns
<1>7. ASSUME NEW k \in ServiceKey,
             OpenService(k) \/ RegenerateService(k) \/ ShrinkService(k)
      PROVE  TypeOK'
  BY <1>7, ConfigType DEF OpenService, RegenerateService, ShrinkService, NoFileTouched
<1>8. ASSUME NEW k \in ServiceKey, Notify(k)
      PROVE  TypeOK'
  BY <1>8 DEF Notify
<1>9. CASE RemoveBegin \/ RemoveLoopEnds \/ RemoveReturns
  BY <1>9 DEF RemoveBegin, RemoveLoopEnds, RemoveReturns
<1>10. ASSUME NEW u \in Uid, RemoveWorkload(u)
       PROVE  TypeOK'
  <2>1. ServicesOf(u) \subseteq ServiceKey
    BY DEF ServicesOf, Known, Workload
  <2>2. WithoutWorkload(u) \in [ServiceKey -> Service \cup {NoService}]
    BY WithoutWorkloadType
  <2> QED
    BY <1>10, <2>1, <2>2 DEF RemoveWorkload
<1>11. ASSUME NEW k \in ServiceKey, ForgetService(k)
       PROVE  TypeOK'
  BY <1>11, DeleteType DEF ForgetService, NoFileTouched
<1>12. ASSUME NEW k \in ServiceKey, EnsureUpstreamFile(k)
       PROVE  TypeOK'
  BY <1>12, ConfigType DEF EnsureUpstreamFile, NoFileTouched
<1>13. CASE UNCHANGED vars
  BY <1>13 DEF vars
<1> QED
  BY <1>1, <1>2, <1>3, <1>4, <1>5, <1>6, <1>7, <1>8, <1>9, <1>10, <1>11, <1>12, <1>13
  DEF Next, Update, Remove, FromResourceStore

\* The variables of the store always hold values of the kinds the Go declarations
\* give them, whatever the server sends.
THEOREM TypeCorrect == Spec => []TypeOK
BY TypeInit, TypeNext, PTL DEF Spec

-----------------------------------------------------------------------------
(* The two maps agree *)

\* Taking a workload out of its services takes it out of no other workload's.
LEMMA WithoutWorkloadKeeps ==
    ASSUME TypeOK, WorkloadListed, NEW u \in Uid, NEW k \in ServiceKey,
           NEW v \in Uid \ {u}, Declares(v, k)
    PROVE  /\ WithoutWorkload(u)[k] # NoService
           /\ v \in WithoutWorkload(u)[k].workloads
           /\ WithoutWorkload(u)[k].target = serviceMap[k].target
<1>1. Exists(k) /\ v \in serviceMap[k].workloads /\ serviceMap[k] \in Service
  BY DEF TypeOK, WorkloadListed, Exists
<1>2. CASE Declares(u, k)
  <2>1. WithoutWorkload(u)[k] = [target |-> serviceMap[k].target,
                                 workloads |-> serviceMap[k].workloads \ {u}]
    BY <1>1, <1>2 DEF WithoutWorkload
  <2>2. WithoutWorkload(u)[k] \in Service
    BY <1>1, <2>1 DEF Service
  <2> QED
    BY <1>1, <2>1, <2>2, AddressAssumption DEF AddressAssumption
<1>3. CASE ~Declares(u, k)
  BY <1>1, <1>3 DEF WithoutWorkload, Exists
<1> QED
  BY <1>2, <1>3

\* A workload joins the services it names; elsewhere, and for everybody else,
\* nothing changes.
LEMMA WithWorkloadJoins ==
    ASSUME TypeOK, NEW w \in WorkloadRes, NEW k \in ServiceKey
    PROVE  /\ w.ports[k] # NoPort =>
                 /\ WithWorkload(w)[k] # NoService
                 /\ w.uid \in WithWorkload(w)[k].workloads
           /\ w.ports[k] = NoPort => WithWorkload(w)[k] = serviceMap[k]
           /\ Exists(k) =>
                 /\ WithWorkload(w)[k] # NoService
                 /\ serviceMap[k].workloads \subseteq WithWorkload(w)[k].workloads
                 /\ WithWorkload(w)[k].target = serviceMap[k].target
<1>1. w.uid \in Uid /\ w.ports[k] \in Port \cup {NoPort}
  BY DEF WorkloadRes, PortMap
<1>2. Exists(k) => serviceMap[k] \in Service
  BY DEF TypeOK, Exists
<1>3. CASE w.ports[k] = NoPort
  BY <1>3 DEF WithWorkload, Exists
<1>4. CASE w.ports[k] # NoPort /\ Exists(k)
  <2>1. WithWorkload(w)[k] = [target |-> serviceMap[k].target,
                              workloads |-> serviceMap[k].workloads \cup {w.uid}]
    BY <1>4 DEF WithWorkload
  <2>2. WithWorkload(w)[k] \in Service
    BY <1>1, <1>2, <1>4, <2>1 DEF Service
  <2> QED
    BY <1>4, <2>1, <2>2, AddressAssumption DEF AddressAssumption
<1>5. CASE w.ports[k] # NoPort /\ ~Exists(k)
  <2>1. WithWorkload(w)[k] = [target |-> w.ports[k], workloads |-> {w.uid}]
    BY <1>5 DEF WithWorkload
  <2>2. WithWorkload(w)[k] \in Service
    BY <1>1, <1>5, <2>1 DEF Service
  <2> QED
    BY <1>5, <2>1, <2>2, AddressAssumption DEF AddressAssumption
<1> QED
  BY <1>3, <1>4, <1>5

\* A Service resource keeps the workloads of the services it names.
LEMMA ServiceStoredKeeps ==
    ASSUME TypeOK, NEW ports \in PortMap, ServiceStored(ports), NEW k \in ServiceKey
    PROVE  /\ Exists(k) => /\ serviceMap'[k] # NoService
                           /\ serviceMap'[k].workloads = serviceMap[k].workloads
           /\ ~Exists(k) => \/ serviceMap'[k] = NoService
                            \/ serviceMap'[k].workloads = {}
           /\ k \notin KeysOf(ports) => serviceMap'[k] = serviceMap[k]
<1>1. Exists(k) => serviceMap[k] \in Service
  BY DEF TypeOK, Exists
<1>2. CASE ports[k] = NoPort
  BY <1>2 DEF ServiceStored, Exists
<1>3. CASE ports[k] # NoPort
  <2>1. serviceMap'[k] = [target |-> ports[k],
                          workloads |-> IF Exists(k) THEN serviceMap[k].workloads
                                                     ELSE {}]
    BY <1>3 DEF ServiceStored
  <2>2. serviceMap'[k] \in Service
    BY <1>1, <1>3, <2>1 DEF Service, PortMap
  <2>3. k \in KeysOf(ports)
    BY <1>3 DEF KeysOf
  <2> QED
    BY <2>1, <2>2, <2>3, AddressAssumption DEF AddressAssumption
<1> QED
  BY <1>2, <1>3

LEMMA ListedNext == TypeOK /\ WorkloadListed /\ [Next]_vars => WorkloadListed'
<1> SUFFICES ASSUME TypeOK, WorkloadListed, [Next]_vars,
                    NEW u \in Uid, NEW k \in ServiceKey, Declares(u, k)'
             PROVE  serviceMap'[k] # NoService /\ u \in serviceMap'[k].workloads
  BY DEF WorkloadListed, Exists
<1>1. Declares(u, k) => Exists(k) /\ u \in serviceMap[k].workloads
  BY DEF WorkloadListed
<1>2. ASSUME UNCHANGED store
      PROVE  serviceMap'[k] # NoService /\ u \in serviceMap'[k].workloads
  BY <1>1, <1>2 DEF store, Declares, Known, Exists
\* A workload that leaves both maps declares nothing any more.
<1>3. ASSUME NEW v \in Uid, serviceMap' = WithoutWorkload(v),
             workloadMap' = [workloadMap EXCEPT ![v] = NoWorkload]
      PROVE  serviceMap'[k] # NoService /\ u \in serviceMap'[k].workloads
  <2>1. u # v /\ Declares(u, k)
    BY <1>3 DEF TypeOK, Declares, Known
  <2> QED
    BY <1>3, <2>1, WithoutWorkloadKeeps
<1>4. ASSUME NEW w \in WorkloadRes, WorkloadStored(w)
      PROVE  serviceMap'[k] # NoService /\ u \in serviceMap'[k].workloads
  <2>1. w.uid \in Uid
    BY DEF WorkloadRes
  <2>2. CASE u = w.uid
    <3>1. k \in KeysOf(w.ports)
      BY <1>4, <2>1, <2>2 DEF WorkloadStored, TypeOK, Declares
    <3> QED
      BY <1>4, <2>2, <3>1, WithWorkloadJoins DEF WorkloadStored, KeysOf
  <2>3. CASE u # w.uid
    <3>1. Declares(u, k)
      BY <1>4, <2>1, <2>3 DEF WorkloadStored, TypeOK, Declares, Known
    <3> QED
      BY <1>1, <1>4, <3>1, WithWorkloadJoins DEF WorkloadStored
  <2> QED
    BY <2>2, <2>3
<1>5. ASSUME NEW ports \in PortMap, ServiceStored(ports)
      PROVE  serviceMap'[k] # NoService /\ u \in serviceMap'[k].workloads
  <2>1. Declares(u, k)
    BY <1>5 DEF ServiceStored, Declares, Known
  <2> QED
    BY <1>1, <1>5, <2>1, ServiceStoredKeeps
\* Only a service without workloads is forgotten, and then nobody declares it.
<1>6. ASSUME NEW j \in ServiceKey, ForgetService(j)
      PROVE  serviceMap'[k] # NoService /\ u \in serviceMap'[k].workloads
  <2>1. Declares(u, k)
    BY <1>6 DEF ForgetService, Declares, Known
  <2>2. k # j
    BY <1>1, <1>6, <2>1 DEF ForgetService, Available
  <2> QED
    BY <1>1, <1>6, <2>1, <2>2 DEF ForgetService, TypeOK, Exists
<1> QED
  BY <1>2, <1>3, <1>4, <1>5, <1>6
  DEF Next, Update, Remove, FromResourceStore, vars, store,
      UpdateBegin, WorkloadSkipped, WorkloadUnhealthy, WorkloadPanics, UpdateLoopEnds,
      RegenerateService, UpdateUnlocks, UpdateReloadFails, Notify, UpdateReturns,
      RemoveBegin, RemoveWorkload, RemoveLoopEnds, ShrinkService, RemoveReturns,
      EnsureUpstreamFile, OpenService, WorkloadRes

\* serviceMap never loses a live endpoint: every service a stored workload
\* declares exists and lists it.
THEOREM ListedCorrect == Spec => []WorkloadListed
<1>1. Init => WorkloadListed
  BY DEF Init, WorkloadListed, Declares, Known
<1> QED
  BY <1>1, ListedNext, TypeCorrect, PTL DEF Spec

-----------------------------------------------------------------------------
(* Published endpoints: the strengthening holds inside the handlers too, where  *)
(* a file may be stale only for a service still to be regenerated.              *)

Fresh(k) ==
    \A u \in Uid :
        Declares(u, k) =>
            /\ endpoints[k] # NoFile
            /\ <<workloadMap[u].addr, serviceMap[k].target>> \in endpoints[k].servers

PublishedInv ==
    /\ \A k \in activeServices \ (unsynced \cup affectedServices) : Fresh(k)
    /\ pc \in {"idle", "notify"} => affectedServices = {}

\* updateServiceConfig without an error leaves a fresh file: what a workload
\* declares is among the servers, and with no server there is no such workload.
LEMMA ConfigUpdatedFresh ==
    ASSUME TypeOK, WorkloadListed, NEW k \in ServiceKey, ConfigUpdated(k),
           UNCHANGED store
    PROVE  Fresh(k)'
<1> SUFFICES ASSUME NEW u \in Uid, Declares(u, k)
             PROVE  /\ endpoints'[k] # NoFile
                    /\ <<workloadMap[u].addr, serviceMap[k].target>>
                          \in endpoints'[k].servers
  BY DEF Fresh, Declares, Known, store
<1>1. u \in serviceMap[k].workloads /\ Known(u) /\ Exists(k)
  BY DEF WorkloadListed, Declares
<1>2. <<workloadMap[u].addr, serviceMap[k].target>> \in Servers(k)
  BY <1>1 DEF Servers
<1>3. endpoints'[k] = [servers |-> Servers(k)]
  BY <1>2 DEF ConfigUpdated, WriteSucceeds, TypeOK
<1>4. [servers |-> Servers(k)] \in Upstream
  BY <1>1, ServersType DEF Upstream
<1> QED
  BY <1>2, <1>3, <1>4, AddressAssumption DEF AddressAssumption

\* What touches the file of one key touches that of no other.
LEMMA ConfigElsewhere ==
    ASSUME TypeOK, NEW k \in ServiceKey,
           \/ ConfigOpens(k) \/ ConfigUpdated(k) \/ ConfigFails(k)
           \/ DeleteSucceeds(k) \/ DeleteFails(k),
           NEW j \in ServiceKey \ {k}
    PROVE  endpoints'[j] = endpoints[j] /\ (j \in unsynced' <=> j \in unsynced)
BY DEF TypeOK, ConfigOpens, ConfigUpdated, ConfigFails, WriteOpens, WriteSucceeds,
       WriteFails, DeleteSucceeds, DeleteFails, NoFileTouched, files

\* A failed write leaves the key marked; where there is nothing to write, no
\* workload declares the service.
LEMMA ConfigFailsFresh ==
    ASSUME TypeOK, WorkloadListed, NEW k \in ServiceKey, ConfigFails(k),
           UNCHANGED store, k \notin unsynced'
    PROVE  Fresh(k)'
BY DEF ConfigFails, WriteFails, WorkloadListed, Fresh, Declares, Known, Exists, store,
       NoFileTouched

\* A service that a step leaves alone, with its file and its workloads, stays fresh.
LEMMA FreshFrame ==
    ASSUME NEW k \in ServiceKey, Fresh(k),
           endpoints'[k] = endpoints[k],
           \A u \in Uid : Declares(u, k)' =>
              /\ Declares(u, k)
              /\ workloadMap'[u].addr = workloadMap[u].addr
              /\ serviceMap'[k].target = serviceMap[k].target
    PROVE  Fresh(k)'
BY DEF Fresh

LEMMA PublishedNext ==
    TypeOK /\ WorkloadListed /\ PublishedInv /\ [Next]_vars => PublishedInv'
<1> SUFFICES ASSUME TypeOK, WorkloadListed, PublishedInv, [Next]_vars
             PROVE  PublishedInv'
  OBVIOUS
\* Steps that change neither the maps, nor the files, nor the keys to look at.
<1>1. ASSUME UNCHANGED <<store, activeServices, files, affectedServices>>,
             pc' \in {"idle", "notify"} => affectedServices = {}
      PROVE  PublishedInv'
  BY <1>1 DEF PublishedInv, Fresh, Declares, Known, store, files
<1>2. ASSUME UpdateBegin \/ RemoveBegin
      PROVE  PublishedInv'
  BY <1>2 DEF UpdateBegin, RemoveBegin, PublishedInv, Fresh, Declares, Known, store, files
<1>3. ASSUME NEW v \in Uid, serviceMap' = WithoutWorkload(v),
             workloadMap' = [workloadMap EXCEPT ![v] = NoWorkload],
             affectedServices' = affectedServices \cup ServicesOf(v),
             pc \in {"update", "remove"}, UNCHANGED <<pc, activeServices, files>>
      PROVE  PublishedInv'
  <2>1. ASSUME NEW k \in activeServices', k \notin unsynced' \cup affectedServices'
        PROVE  Fresh(k)'
    <3>1. k \in ServiceKey /\ Fresh(k)
      BY <1>3, <2>1 DEF TypeOK, PublishedInv, files
    <3>2. ASSUME NEW u \in Uid, Declares(u, k)'
          PROVE  /\ Declares(u, k)
                 /\ workloadMap'[u].addr = workloadMap[u].addr
                 /\ serviceMap'[k].target = serviceMap[k].target
      <4>1. u # v /\ Declares(u, k) /\ workloadMap'[u] = workloadMap[u]
        BY <1>3, <3>2 DEF TypeOK, Declares, Known
      <4> QED
        BY <1>3, <3>1, <4>1, WithoutWorkloadKeeps
    <3> QED
      BY <1>3, <3>1, <3>2, FreshFrame DEF files
  <2> QED
    BY <1>3, <2>1 DEF PublishedInv
<1>4. ASSUME NEW w \in WorkloadRes, WorkloadStored(w)
      PROVE  PublishedInv'
  <2>1. w.uid \in Uid
    BY DEF WorkloadRes
  <2>2. ASSUME NEW k \in activeServices', k \notin unsynced' \cup affectedServices'
        PROVE  Fresh(k)'
    <3>1. k \in ServiceKey /\ Fresh(k) /\ k \notin KeysOf(w.ports)
      BY <1>4, <2>2 DEF TypeOK, PublishedInv, files, WorkloadStored
    <3>2. ASSUME NEW u \in Uid, Declares(u, k)'
          PROVE  /\ Declares(u, k)
                 /\ workloadMap'[u].addr = workloadMap[u].addr
                 /\ serviceMap'[k].target = serviceMap[k].target
      <4>1. u # w.uid /\ Declares(u, k) /\ workloadMap'[u] = workloadMap[u]
        BY <1>4, <2>1, <3>1, <3>2 DEF TypeOK, Declares, Known, WorkloadStored
      <4>2. serviceMap'[k] = serviceMap[k]
        BY <1>4, <3>1, WithWorkloadJoins DEF WorkloadStored, KeysOf
      <4> QED
        BY <4>1, <4>2
    <3> QED
      BY <1>4, <3>1, <3>2, FreshFrame DEF files, WorkloadStored
  <2> QED
    BY <1>4, <2>2 DEF PublishedInv, WorkloadStored
<1>5. ASSUME NEW ports \in PortMap, ServiceStored(ports)
      PROVE  PublishedInv'
  <2>1. ASSUME NEW k \in activeServices', k \notin unsynced' \cup affectedServices'
        PROVE  Fresh(k)'
    <3>1. k \in ServiceKey /\ Fresh(k) /\ k \notin KeysOf(ports)
      BY <1>5, <2>1 DEF TypeOK, PublishedInv, files, ServiceStored
    <3>2. serviceMap'[k] = serviceMap[k]
      BY <1>5, <3>1, ServiceStoredKeeps
    <3> QED
      BY <1>5, <3>1, <3>2, FreshFrame DEF files, ServiceStored, Declares, Known
  <2> QED
    BY <1>5, <2>1 DEF PublishedInv, ServiceStored
\* One key leaves affectedServices: with a fresh file, or with no route, or marked.
<1>6. ASSUME NEW j \in ServiceKey, RegenerateService(j) \/ ShrinkService(j)
      PROVE  PublishedInv'
  <2>1. UNCHANGED <<pc, store, activeServices>>
           /\ affectedServices' = affectedServices \ {j}
           /\ pc \notin {"idle", "notify"}
    BY <1>6 DEF RegenerateService, ShrinkService
  <2>2. ASSUME NEW k \in activeServices', k \notin unsynced' \cup affectedServices'
        PROVE  Fresh(k)'
    <3>1. k \in ServiceKey
      BY <2>1 DEF TypeOK
    <3>2. CASE k = j
      BY <1>6, <2>1, <2>2, <3>2, ConfigUpdatedFresh, ConfigFailsFresh
      DEF RegenerateService, ShrinkService
    <3>3. CASE k # j
      <4>1. endpoints'[k] = endpoints[k] /\ k \notin unsynced
        BY <1>6, <2>2, <3>1, <3>3, ConfigElsewhere
        DEF RegenerateService, ShrinkService, NoFileTouched, files
      <4>2. Fresh(k)
        BY <2>1, <2>2, <3>3, <4>1 DEF PublishedInv
      <4> QED
        BY <2>1, <3>1, <4>1, <4>2, FreshFrame DEF store, Declares, Known
    <3> QED
      BY <3>2, <3>3
  <2> QED
    BY <2>1, <2>2 DEF PublishedInv
<1>7. ASSUME NEW j \in ServiceKey, ForgetService(j)
      PROVE  PublishedInv'
  <2>1. ASSUME NEW k \in activeServices', k \notin unsynced' \cup affectedServices'
        PROVE  Fresh(k)'
    <3>1. k \in ServiceKey /\ k # j /\ k \in activeServices
      BY <1>7, <2>1 DEF TypeOK, ForgetService
    <3>2. endpoints'[k] = endpoints[k] /\ k \notin unsynced
      BY <1>7, <2>1, <3>1, ConfigElsewhere DEF ForgetService, NoFileTouched, files
    <3>3. Fresh(k)
      BY <1>7, <2>1, <3>1, <3>2 DEF PublishedInv, ForgetService
    <3>4. serviceMap'[k] = serviceMap[k] /\ UNCHANGED workloadMap
      BY <1>7, <3>1 DEF TypeOK, ForgetService
    <3> QED
      BY <3>1, <3>2, <3>3, <3>4, FreshFrame DEF Declares, Known
  <2> QED
    BY <1>7, <2>1 DEF PublishedInv, ForgetService
<1>8. ASSUME NEW j \in ServiceKey, EnsureUpstreamFile(j)
      PROVE  PublishedInv'
  <2>1. UNCHANGED <<pc, store, affectedServices>> /\ affectedServices = {}
    BY <1>8 DEF EnsureUpstreamFile, PublishedInv
  <2>2. ASSUME NEW k \in activeServices', k \notin unsynced'
        PROVE  Fresh(k)'
    <3>1. k \in ServiceKey
      BY <1>8, <2>2 DEF EnsureUpstreamFile, TypeOK
    <3>2. CASE k = j /\ Available(j)
      <4>1. CASE ConfigOpens(j)
        BY <2>2, <3>2, <4>1 DEF ConfigOpens, WriteOpens
      <4> QED
        BY <1>8, <2>1, <2>2, <3>2, <4>1, ConfigUpdatedFresh, ConfigFailsFresh
        DEF EnsureUpstreamFile
    <3>3. CASE k = j /\ ~Available(j)
      BY <2>1, <3>3 DEF Fresh, WorkloadListed, Available, store, Declares, Known
    <3>4. CASE k # j
      <4>1. endpoints'[k] = endpoints[k] /\ k \notin unsynced
        BY <1>8, <2>2, <3>1, <3>4, ConfigElsewhere
        DEF EnsureUpstreamFile, NoFileTouched, files
      <4>2. Fresh(k)
        BY <1>8, <2>1, <2>2, <3>4, <4>1 DEF PublishedInv, EnsureUpstreamFile
      <4> QED
        BY <2>1, <3>1, <4>1, <4>2, FreshFrame DEF store, Declares, Known
    <3> QED
      BY <3>2, <3>3, <3>4
  <2> QED
    BY <2>1, <2>2 DEF PublishedInv
<1>9. ASSUME NEW j \in ServiceKey, OpenService(j)
      PROVE  PublishedInv'
  <2>1. UNCHANGED <<pc, store, activeServices, affectedServices>>
    BY <1>9 DEF OpenService
  <2>2. ASSUME NEW k \in activeServices', k \notin unsynced' \cup affectedServices'
        PROVE  Fresh(k)'
    <3>1. k \in ServiceKey /\ k # j
      BY <1>9, <2>1, <2>2 DEF OpenService, TypeOK
    <3>2. endpoints'[k] = endpoints[k] /\ k \notin unsynced
      BY <1>9, <2>2, <3>1, ConfigElsewhere DEF OpenService
    <3>3. Fresh(k)
      BY <2>1, <2>2, <3>2 DEF PublishedInv
    <3> QED
      BY <2>1, <3>1, <3>2, <3>3, FreshFrame DEF store, Declares, Known
  <2> QED
    BY <1>9, <2>1, <2>2 DEF PublishedInv, OpenService
<1> QED
  BY <1>1, <1>2, <1>3, <1>4, <1>5, <1>6, <1>7, <1>8, <1>9
  DEF Next, Update, Remove, FromResourceStore, vars, store, files, PublishedInv,
      WorkloadSkipped, WorkloadUnhealthy, WorkloadPanics, UpdateLoopEnds,
      UpdateUnlocks, UpdateReloadFails, Notify, UpdateReturns,
      RemoveWorkload, RemoveLoopEnds, RemoveReturns, WorkloadRes

\* The upstream file of a service that a route uses holds every current endpoint
\* between handler calls, unless its last write failed.
THEOREM PublishedCorrect == Spec => []EndpointsPublished
<1>1. Init => PublishedInv
  BY DEF Init, PublishedInv
<1>2. TypeOK /\ PublishedInv => EndpointsPublished
  BY DEF PublishedInv, EndpointsPublished, Fresh
<1> QED
  BY <1>1, <1>2, PublishedNext, TypeCorrect, ListedCorrect, PTL DEF Spec

-----------------------------------------------------------------------------
(* Published endpoints, nothing more: inside a handler a file may differ from   *)
(* the maps only for a service still to be regenerated.  A workload that does   *)
(* not declare the service it is listed in escapes affectedServices, so such    *)
(* services are left out until it is back or gone.                              *)

Exact(k) ==
    Available(k) /\ (\A u \in serviceMap[k].workloads : Declares(u, k))
        => endpoints[k] = [servers |-> Servers(k)]

ExactInv ==
    /\ \A k \in activeServices \ (unsynced \cup affectedServices) : Exact(k)
    /\ pc \in {"idle", "notify"} => affectedServices = {}

\* A service whose entry and file a step leaves alone, and whose workloads it neither
\* moves nor makes declare the service, keeps an exact file.
LEMMA ExactFrame ==
    ASSUME NEW k \in ServiceKey, Exact(k),
           endpoints'[k] = endpoints[k],
           serviceMap'[k] = serviceMap[k],
           \A u \in serviceMap[k].workloads :
              Declares(u, k)' => Declares(u, k) /\ workloadMap'[u] = workloadMap[u]
    PROVE  Exact(k)'
<1> SUFFICES ASSUME Available(k), \A u \in serviceMap[k].workloads : Declares(u, k)'
             PROVE  endpoints[k] = [servers |-> Servers(k)']
  BY DEF Exact, Available, Exists
<1>1. \A u \in serviceMap[k].workloads :
          Declares(u, k) /\ workloadMap'[u] = workloadMap[u]
  OBVIOUS
<1>2. Servers(k)' = Servers(k)
  BY <1>1 DEF Servers, Known
<1> QED
  BY <1>1, <1>2 DEF Exact

\* The steps that change only other services' entries and files.
LEMMA ExactSame ==
    ASSUME NEW k \in ServiceKey, Exact(k), UNCHANGED workloadMap,
           endpoints'[k] = endpoints[k], serviceMap'[k] = serviceMap[k]
    PROVE  Exact(k)'
BY ExactFrame DEF Declares, Known

\* updateServiceConfig: with a workload that declares the service there is a server to
\* write, so an error leaves the key marked and success leaves the file exact.
LEMMA ConfigExact ==
    ASSUME TypeOK, NEW k \in ServiceKey, ConfigUpdated(k) \/ ConfigFails(k),
           UNCHANGED store, k \notin unsynced'
    PROVE  Exact(k)'
<1> SUFFICES ASSUME Available(k), \A u \in serviceMap[k].workloads : Declares(u, k)
             PROVE  endpoints'[k] = [servers |-> Servers(k)]
  BY DEF Exact, Available, Exists, Servers, Declares, Known, store
<1>1. PICK u \in serviceMap[k].workloads : Known(u)
  BY DEF Available, Declares
<1>2. Servers(k) # {}
  BY <1>1 DEF Servers
<1>3. CASE ConfigUpdated(k)
  BY <1>2, <1>3 DEF ConfigUpdated, WriteSucceeds, TypeOK
<1>4. CASE ConfigFails(k)
  BY <1>4 DEF ConfigFails, WriteFails, Available
<1> QED
  BY <1>3, <1>4

LEMMA ExactNext == TypeOK /\ ExactInv /\ [Next]_vars => ExactInv'
<1> SUFFICES ASSUME TypeOK, ExactInv, [Next]_vars
             PROVE  ExactInv'
  OBVIOUS
\* Steps that change neither the maps, nor the files, nor the keys to look at.
<1>1. ASSUME UNCHANGED <<store, activeServices, files>>,
             affectedServices \subseteq affectedServices',
             pc' \in {"idle", "notify"} => affectedServices' = {}
      PROVE  ExactInv'
  <2>1. ASSUME NEW k \in activeServices', k \notin unsynced' \cup affectedServices'
        PROVE  Exact(k)'
    <3>1. k \in ServiceKey /\ Exact(k)
      BY <1>1, <2>1 DEF TypeOK, ExactInv, files
    <3> QED
      BY <1>1, <3>1, ExactSame DEF store, files
  <2> QED
    BY <1>1, <2>1 DEF ExactInv
<1>2. ASSUME UpdateBegin \/ RemoveBegin
      PROVE  ExactInv'
  BY <1>1, <1>2 DEF UpdateBegin, RemoveBegin, ExactInv
\* Where v does not declare k its loss shows in no entry but its own.
<1>3. ASSUME NEW v \in Uid, serviceMap' = WithoutWorkload(v),
             workloadMap' = [workloadMap EXCEPT ![v] = NoWorkload],
             affectedServices' = affectedServices \cup ServicesOf(v),
             pc \in {"update", "remove"}, UNCHANGED <<pc, activeServices, files>>
      PROVE  ExactInv'
  <2>1. ASSUME NEW k \in activeServices', k \notin unsynced' \cup affectedServices'
        PROVE  Exact(k)'
    <3>1. k \in ServiceKey /\ Exact(k) /\ ~Declares(v, k)
      BY <1>3, <2>1 DEF TypeOK, ExactInv, files, ServicesOf, Declares
    <3>2. serviceMap'[k] = serviceMap[k]
      BY <1>3, <3>1 DEF WithoutWorkload
    <3>3. ASSUME NEW u \in serviceMap[k].workloads, Declares(u, k)'
          PROVE  Declares(u, k) /\ workloadMap'[u] = workloadMap[u]
      BY <1>3, <3>3 DEF TypeOK, Declares, Known
    <3> QED
      BY <1>3, <3>1, <3>2, <3>3, ExactFrame DEF files
  <2> QED
    BY <1>3, <2>1 DEF ExactInv
<1>4. ASSUME NEW w \in WorkloadRes, WorkloadStored(w)
      PROVE  ExactInv'
  <2>1. ASSUME NEW k \in activeServices', k \notin unsynced' \cup affectedServices'
        PROVE  Exact(k)'
    <3>1. k \in ServiceKey /\ Exact(k) /\ k \notin KeysOf(w.ports)
      BY <1>4, <2>1 DEF TypeOK, ExactInv, files, WorkloadStored
    <3>2. serviceMap'[k] = serviceMap[k]
      BY <1>4, <3>1, WithWorkloadJoins DEF WorkloadStored, KeysOf
    <3>3. ASSUME NEW u \in serviceMap[k].workloads, Declares(u, k)'
          PROVE  Declares(u, k) /\ workloadMap'[u] = workloadMap[u]
      <4>1. u # w.uid
        BY <1>4, <3>1, <3>3 DEF TypeOK, Declares, WorkloadStored, WorkloadRes
      <4> QED
        BY <1>4, <3>3, <4>1 DEF TypeOK, Declares, Known, WorkloadStored
    <3> QED
      BY <1>4, <3>1, <3>2, <3>3, ExactFrame DEF files, WorkloadStored
  <2> QED
    BY <1>4, <2>1 DEF ExactInv, WorkloadStored
<1>5. ASSUME NEW ports \in PortMap, ServiceStored(ports)
      PROVE  ExactInv'
  <2>1. ASSUME NEW k \in activeServices', k \notin unsynced' \cup affectedServices'
        PROVE  Exact(k)'
    <3>1. k \in ServiceKey /\ Exact(k) /\ k \notin KeysOf(ports)
      BY <1>5, <2>1 DEF TypeOK, ExactInv, files, ServiceStored
    <3>2. serviceMap'[k] = serviceMap[k]
      BY <1>5, <3>1, ServiceStoredKeeps
    <3> QED
      BY <1>5, <3>1, <3>2, ExactSame DEF files, ServiceStored
  <2> QED
    BY <1>5, <2>1 DEF ExactInv, ServiceStored
\* One key leaves affectedServices: with an exact file, or with no route, or marked.
<1>6. ASSUME NEW j \in ServiceKey, RegenerateService(j) \/ ShrinkService(j)
      PROVE  ExactInv'
  <2>1. /\ UNCHANGED <<pc, store, activeServices>>
        /\ affectedServices' = affectedServices \ {j}
        /\ pc \notin {"idle", "notify"}
    BY <1>6 DEF RegenerateService, ShrinkService
  <2>2. ASSUME NEW k \in activeServices', k \notin unsynced' \cup affectedServices'
        PROVE  Exact(k)'
    <3>1. k \in ServiceKey
      BY <2>1 DEF TypeOK
    <3>2. CASE k = j
      BY <1>6, <2>1, <2>2, <3>2, ConfigExact DEF RegenerateService, ShrinkService
    <3>3. CASE k # j
      <4>1. endpoints'[k] = endpoints[k] /\ k \notin unsynced
        BY <1>6, <2>2, <3>1, <3>3, ConfigElsewhere
        DEF RegenerateService, ShrinkService, NoFileTouched, files
      <4>2. Exact(k)
        BY <2>1, <2>2, <3>3, <4>1 DEF ExactInv
      <4> QED
        BY <2>1, <3>1, <4>1, <4>2, ExactSame DEF store
    <3> QED
      BY <3>2, <3>3
  <2> QED
    BY <2>1, <2>2 DEF ExactInv
<1>7. ASSUME NEW j \in ServiceKey, ForgetService(j)
      PROVE  ExactInv'
  <2>1. ASSUME NEW k \in activeServices', k \notin unsynced' \cup affectedServices'
        PROVE  Exact(k)'
    <3>1. k \in ServiceKey /\ k # j /\ k \in activeServices
      BY <1>7, <2>1 DEF TypeOK, ForgetService
    <3>2. endpoints'[k] = endpoints[k] /\ k \notin unsynced
      BY <1>7, <2>1, <3>1, ConfigElsewhere DEF ForgetService, NoFileTouched, files
    <3>3. Exact(k)
      BY <1>7, <2>1, <3>1, <3>2 DEF ExactInv, ForgetService
    <3>4. serviceMap'[k] = serviceMap[k] /\ UNCHANGED workloadMap
      BY <1>7, <3>1 DEF TypeOK, ForgetService
    <3> QED
      BY <3>1, <3>2, <3>3, <3>4, ExactSame
  <2> QED
    BY <1>7, <2>1 DEF ExactInv, ForgetService
\* A service that becomes used without a workload is not one the invariant is about.
<1>8. ASSUME NEW j \in ServiceKey, EnsureUpstreamFile(j)
      PROVE  ExactInv'
  <2>1. UNCHANGED <<pc, store, affectedServices>> /\ affectedServices = {}
    BY <1>8 DEF EnsureUpstreamFile, ExactInv
  <2>2. ASSUME NEW k \in activeServices', k \notin unsynced'
        PROVE  Exact(k)'
    <3>1. k \in ServiceKey
      BY <1>8, <2>2 DEF EnsureUpstreamFile, TypeOK
    <3>2. CASE k = j /\ Available(j)
      <4>1. CASE ConfigOpens(j)
        BY <2>2, <3>2, <4>1 DEF ConfigOpens, WriteOpens
      <4> QED
        BY <1>8, <2>1, <2>2, <3>2, <4>1, ConfigExact
        DEF EnsureUpstreamFile
    <3>3. CASE k = j /\ ~Available(j)
      BY <2>1, <3>3 DEF Exact, Available, Exists, store
    <3>4. CASE k # j
      <4>1. endpoints'[k] = endpoints[k] /\ k \notin unsynced
        BY <1>8, <2>2, <3>1, <3>4, ConfigElsewhere
        DEF EnsureUpstreamFile, NoFileTouched, files
      <4>2. Exact(k)
        BY <1>8, <2>1, <2>2, <3>4, <4>1 DEF ExactInv, EnsureUpstreamFile
      <4> QED
        BY <2>1, <3>1, <4>1, <4>2, ExactSame DEF store
    <3> QED
      BY <3>2, <3>3, <3>4
  <2> QED
    BY <2>1, <2>2 DEF ExactInv
<1>9. ASSUME NEW j \in ServiceKey, OpenService(j)
      PROVE  ExactInv'
  <2>1. UNCHANGED <<pc, store, activeServices, affectedServices>>
    BY <1>9 DEF OpenService
  <2>2. ASSUME NEW k \in activeServices', k \notin unsynced' \cup affectedServices'
        PROVE  Exact(k)'
    <3>1. k \in ServiceKey /\ k # j
      BY <1>9, <2>1, <2>2 DEF OpenService, TypeOK
    <3>2. endpoints'[k] = endpoints[k] /\ k \notin unsynced
      BY <1>9, <2>2, <3>1, ConfigElsewhere DEF OpenService
    <3>3. Exact(k)
      BY <2>1, <2>2, <3>2 DEF ExactInv
    <3> QED
      BY <2>1, <3>1, <3>2, <3>3, ExactSame DEF store
  <2> QED
    BY <1>9, <2>1, <2>2 DEF ExactInv, OpenService
<1> QED
  BY <1>1, <1>2, <1>3, <1>4, <1>5, <1>6, <1>7, <1>8, <1>9
  DEF Next, Update, Remove, FromResourceStore, vars, store, files, ExactInv,
      WorkloadSkipped, WorkloadUnhealthy, WorkloadPanics, UpdateLoopEnds,
      UpdateUnlocks, UpdateReloadFails, Notify, UpdateReturns,
      RemoveWorkload, RemoveLoopEnds, RemoveReturns, WorkloadRes

\* Nor does it hold anything else: no server of a workload that has gone or moved and
\* no old target port, as long as the workloads listed in the service declare it.
THEOREM ExactCorrect == Spec => []EndpointsExact
<1>1. Init => ExactInv
  BY DEF Init, ExactInv
<1>2. ExactInv => EndpointsExact
  BY DEF ExactInv, EndpointsExact, Exact
<1> QED
  BY <1>1, <1>2, ExactNext, TypeCorrect, PTL DEF Spec

-----------------------------------------------------------------------------
(* Announcing the services that routes wait for.  The keys of waiting must still *)
(* be active for the loop to find them: nothing gives up a service meanwhile.   *)

ArrivalsInv ==
    pc \in {"update", "regenerate"} =>
        \A k \in waiting :
            /\ k \in activeServices
            /\ Available(k) => k \in newlyAvailableServices

LEMMA ArrivalsNext == TypeOK /\ ArrivalsInv /\ [Next]_vars => ArrivalsInv'
<1> SUFFICES ASSUME TypeOK, ArrivalsInv, [Next]_vars
             PROVE  ArrivalsInv'
  OBVIOUS
<1>1. ASSUME pc' \notin {"update", "regenerate"}
      PROVE  ArrivalsInv'
  BY <1>1 DEF ArrivalsInv
<1>2. CASE UpdateBegin
  BY <1>2 DEF UpdateBegin, ArrivalsInv, Available, Exists, store
<1>3. ASSUME pc \in {"update", "regenerate"},
             UNCHANGED <<serviceMap, activeServices, newlyAvailableServices, waiting>>
      PROVE  ArrivalsInv'
  BY <1>3 DEF ArrivalsInv, Available, Exists
\* Losing a workload makes no service available.
<1>4. ASSUME NEW w \in WorkloadRes, WorkloadUnhealthy(w)
      PROVE  ArrivalsInv'
  <2>1. ASSUME NEW k \in waiting, Available(k)'
        PROVE  Available(k)
    <3>1. k \in ServiceKey
      BY DEF TypeOK
    <3>2. CASE Declares(w.uid, k) /\ Exists(k)
      <4>1. serviceMap'[k].workloads = serviceMap[k].workloads \ {w.uid}
        BY <1>4, <3>1, <3>2 DEF WorkloadUnhealthy, WithoutWorkload
      <4> QED
        BY <2>1, <3>2, <4>1 DEF Available
    <3>3. CASE ~(Declares(w.uid, k) /\ Exists(k))
      BY <1>4, <2>1, <3>1, <3>3 DEF WorkloadUnhealthy, WithoutWorkload, Available, Exists
    <3> QED
      BY <3>2, <3>3
  <2> QED
    BY <1>4, <2>1 DEF ArrivalsInv, WorkloadUnhealthy
\* The first workload of a service is alone in it when the loop looks.
<1>5. ASSUME NEW w \in WorkloadRes, WorkloadStored(w)
      PROVE  ArrivalsInv'
  <2>1. ASSUME NEW k \in waiting, Available(k)', ~Available(k)
        PROVE  k \in Announced(w)
    <3>1. k \in ServiceKey /\ k \in activeServices
      BY <1>5 DEF TypeOK, ArrivalsInv, WorkloadStored
    <3>2. WithWorkload(w)[k] # NoService /\ WithWorkload(w)[k].workloads # {}
      BY <1>5, <2>1 DEF WorkloadStored, Available, Exists
    <3>3. w.ports[k] # NoPort
      BY <2>1, <3>1, <3>2, WithWorkloadJoins DEF Available, Exists
    <3>4. WithWorkload(w)[k].workloads = {w.uid}
      BY <2>1, <3>1, <3>3 DEF WithWorkload, Available
    <3> QED
      BY <3>1, <3>3, <3>4 DEF Announced, KeysOf
  <2> QED
    BY <1>5, <2>1 DEF ArrivalsInv, WorkloadStored
<1>6. ASSUME NEW ports \in PortMap, ServiceStored(ports)
      PROVE  ArrivalsInv'
  <2>1. ASSUME NEW k \in waiting, Available(k)'
        PROVE  Available(k)
    <3>1. k \in ServiceKey
      BY DEF TypeOK
    <3> QED
      BY <1>6, <2>1, <3>1, ServiceStoredKeeps DEF Available, Exists
  <2> QED
    BY <1>6, <2>1 DEF ArrivalsInv, ServiceStored
<1> QED
  BY <1>1, <1>2, <1>3, <1>4, <1>5, <1>6
  DEF Next, Update, Remove, FromResourceStore, vars, store, files,
      WorkloadSkipped, WorkloadPanics, UpdateLoopEnds, OpenService, RegenerateService,
      UpdateUnlocks, UpdateReloadFails, Notify, UpdateReturns, RemoveBegin,
      RemoveWorkload, RemoveLoopEnds, ForgetService, ShrinkService, RemoveReturns,
      EnsureUpstreamFile

\* No route that waits for a service is forgotten when a batch brings the service
\* its first workload, whatever the order of Service and Workload resources in it.
THEOREM ArrivalsCorrect == Spec => []ArrivalsAnnounced
<1>1. Init => ArrivalsInv
  BY DEF Init, ArrivalsInv
<1>2. ArrivalsInv => ArrivalsAnnounced
  BY DEF ArrivalsInv, ArrivalsAnnounced
<1> QED
  BY <1>1, <1>2, ArrivalsNext, TypeCorrect, PTL DEF Spec

-----------------------------------------------------------------------------
(* The endpoints directory *)

LEMMA TrackedNext == TypeOK /\ FilesTracked /\ [Next]_vars => FilesTracked'
<1> SUFFICES ASSUME TypeOK, FilesTracked, [Next]_vars
             PROVE  FilesTracked'
  OBVIOUS
<1>1. ASSUME UNCHANGED files, activeServices \subseteq activeServices'
      PROVE  FilesTracked'
  BY <1>1 DEF FilesTracked, files
\* A service whose file is written is tracked.
<1>2. ASSUME NEW k \in ServiceKey, k \in activeServices',
             ConfigOpens(k) \/ ConfigUpdated(k) \/ ConfigFails(k),
             activeServices \subseteq activeServices'
      PROVE  FilesTracked'
  BY <1>2, ConfigElsewhere DEF FilesTracked
\* One that is no longer tracked has no file, or the delete has failed.
<1>3. ASSUME NEW k \in ServiceKey, DeleteSucceeds(k) \/ DeleteFails(k),
             activeServices' = activeServices \ {k}
      PROVE  FilesTracked'
  <2>1. ASSUME NEW j \in ServiceKey \ {k}
        PROVE  endpoints'[j] # NoFile => j \in activeServices' \cup unsynced'
    BY <1>3, <2>1, ConfigElsewhere DEF FilesTracked
  <2>2. endpoints'[k] # NoFile => k \in unsynced'
    BY <1>3 DEF DeleteSucceeds, DeleteFails, TypeOK
  <2> QED
    BY <2>1, <2>2 DEF FilesTracked
<1>4. ASSUME NEW k \in ServiceKey,
             OpenService(k) \/ RegenerateService(k) \/ ShrinkService(k)
      PROVE  FilesTracked'
  BY <1>1, <1>2, <1>4
  DEF OpenService, RegenerateService, ShrinkService, NoFileTouched
<1>5. ASSUME NEW k \in ServiceKey, ForgetService(k)
      PROVE  FilesTracked'
  BY <1>1, <1>3, <1>5 DEF ForgetService, NoFileTouched
<1>6. ASSUME NEW k \in ServiceKey, EnsureUpstreamFile(k)
      PROVE  FilesTracked'
  BY <1>1, <1>2, <1>6 DEF EnsureUpstreamFile, NoFileTouched
<1>7. CASE UNCHANGED vars
  BY <1>1, <1>7 DEF vars, files
<1> QED
  BY <1>1, <1>4, <1>5, <1>6, <1>7
  DEF Next, Update, Remove, FromResourceStore,
      UpdateBegin, WorkloadSkipped, WorkloadUnhealthy, WorkloadStored, WorkloadPanics,
      ServiceStored, UpdateLoopEnds, UpdateUnlocks, UpdateReloadFails, Notify,
      UpdateReturns, RemoveBegin, RemoveWorkload, RemoveLoopEnds, RemoveReturns

\* No upstream file outlives the store's tracking of its service, unless a delete or a
\* write has failed: the file that stays behind is never one that nobody regenerates.
THEOREM FilesCorrect == Spec => []FilesTracked
<1>1. Init => FilesTracked
  BY DEF Init, FilesTracked
<1> QED
  BY <1>1, TrackedNext, TypeCorrect, PTL DEF Spec

-----------------------------------------------------------------------------
(* Who may set a target port *)

LEMMA TargetNext ==
    ASSUME TypeOK, [Next]_vars, NEW k \in ServiceKey, Exists(k), serviceMap'[k] # NoService,
           serviceMap'[k].target # serviceMap[k].target
    PROVE  \E ports \in PortMap : ServiceStored(ports)
<1>1. serviceMap'[k] # serviceMap[k]
  OBVIOUS
<1>2. ASSUME NEW u \in Uid, serviceMap' = WithoutWorkload(u)
      PROVE  FALSE
  BY <1>2 DEF WithoutWorkload
<1>3. ASSUME NEW w \in WorkloadRes, WorkloadStored(w)
      PROVE  FALSE
  BY <1>3, WithWorkloadJoins DEF WorkloadStored, WorkloadRes
<1>4. ASSUME NEW j \in ServiceKey, ForgetService(j)
      PROVE  FALSE
  BY <1>1, <1>4 DEF ForgetService, TypeOK
<1> QED
  BY <1>1, <1>2, <1>3, <1>4
  DEF Next, Update, Remove, FromResourceStore, vars, store, WorkloadRes,
      UpdateBegin, WorkloadSkipped, WorkloadUnhealthy, WorkloadPanics, UpdateLoopEnds,
      RegenerateService, UpdateUnlocks, UpdateReloadFails, Notify, UpdateReturns,
      RemoveBegin, RemoveWorkload, RemoveLoopEnds, ShrinkService, RemoveReturns,
      EnsureUpstreamFile, OpenService

\* A workload never overrides what a Service resource said of the target port.
THEOREM TargetCorrect == Spec => TargetOnlyFromService
<1>1. TypeOK /\ [Next]_vars =>
        [\A k \in ServiceKey :
            (Exists(k) /\ Exists(k)' /\ serviceMap'[k].target # serviceMap[k].target)
               => \E ports \in PortMap : ServiceStored(ports)]_vars
  BY TargetNext DEF Exists
<1> QED
  BY <1>1, TypeCorrect, PTL DEF Spec, TargetOnlyFromService

=============================================================================
