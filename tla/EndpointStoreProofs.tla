------------------------ MODULE EndpointStoreProofs ------------------------
(***************************************************************************)
(* AddressStore implements EndpointStore, for any sets of services,        *)
(* workloads, addresses and ports.                                         *)
(***************************************************************************)
EXTENDS AddressStoreProofs

\* Where the mutex is during a call.
LockInv ==
    /\ pc \in {"update", "regenerate", "remove", "cleanup"} => lock = "held"
    /\ pc = "notify" => lock = "free"

LEMMA LockNext == LockInv /\ [Next]_vars => LockInv'
BY DEF LockInv, Next, Update, Remove, FromResourceStore, vars, store, files,
       UpdateBegin, WorkloadSkipped, WorkloadUnhealthy, WorkloadStored, WorkloadPanics,
       ServiceStored, UpdateLoopEnds, RegenerateService, UpdateUnlocks, UpdateReloadFails,
       Notify, UpdateReturns, RemoveBegin, RemoveWorkload, RemoveLoopEnds, ForgetService,
       ShrinkService, RemoveReturns, EnsureUpstreamFile, OpenService

\* A file is under write only in the loops over affectedServices, then for one of them,
\* and in EnsureUpstreamFile.
OpenInv ==
    /\ pc \in {"update", "remove"} => opened = {}
    /\ pc \in {"regenerate", "cleanup"} => opened \subseteq affectedServices

LEMMA ConfigCloses ==
    ASSUME NEW k \in ServiceKey,
           \/ ConfigUpdated(k) \/ ConfigFails(k) \/ DeleteSucceeds(k) \/ DeleteFails(k)
           \/ NoFileTouched
    PROVE  opened' = {}
BY DEF ConfigUpdated, ConfigFails, DeleteSucceeds, DeleteFails, WriteSucceeds, WriteFails,
       NoFileTouched, files

LEMMA OpenNext == OpenInv /\ [Next]_vars => OpenInv'
<1> SUFFICES ASSUME OpenInv, [Next]_vars
             PROVE  OpenInv'
  OBVIOUS
<1>1. ASSUME NEW k \in ServiceKey,
             RegenerateService(k) \/ ShrinkService(k) \/ ForgetService(k)
      PROVE  OpenInv'
  BY <1>1, ConfigCloses DEF OpenInv, RegenerateService, ShrinkService, ForgetService
<1>2. ASSUME NEW k \in ServiceKey, OpenService(k)
      PROVE  OpenInv'
  BY <1>2 DEF OpenInv, OpenService, ConfigOpens, WriteOpens
<1>3. ASSUME NEW k \in ServiceKey, EnsureUpstreamFile(k)
      PROVE  OpenInv'
  BY <1>3 DEF OpenInv, EnsureUpstreamFile
<1> QED
  BY <1>1, <1>2, <1>3
  DEF OpenInv, Next, Update, Remove, FromResourceStore, vars, store, files, UpdateBegin,
      WorkloadSkipped, WorkloadUnhealthy, WorkloadStored, WorkloadPanics, ServiceStored,
      UpdateLoopEnds, UpdateUnlocks, UpdateReloadFails, Notify, UpdateReturns,
      RemoveBegin, RemoveWorkload, RemoveLoopEnds, RemoveReturns

\* What every step is proved from.
StepInv == TypeOK /\ LockInv /\ OpenInv /\ WorkloadListed /\ PublishedInv

\* The part of the abstract state that only the store's maps determine.
LEMMA StoreFrame ==
    ASSUME UNCHANGED store
    PROVE  UNCHANGED <<Live, Listed>>
BY DEF Live, Listed, Declares, Known, Available, Exists, store

\* Outside Remove no service is lost.
LEMMA LostFrame ==
    /\ Phase # "remove" => Lost = {}
    /\ UNCHANGED store /\ affectedServices' = affectedServices /\ Phase' = Phase
          => Lost' = Lost
<1>1. ASSUME UNCHANGED store, affectedServices' = affectedServices, Phase' = Phase
      PROVE  Lost' = Lost
  BY <1>1, StoreFrame DEF Lost
<1> QED
  BY <1>1 DEF Lost

LiveOK ==
    /\ Live \in [ServiceKey -> SUBSET (Addr \X Port)]
    /\ \A k \in ServiceKey : Live[k] # {} => k \in Listed

LEMMA LiveType == TypeOK /\ WorkloadListed => LiveOK
<1> SUFFICES ASSUME TypeOK, WorkloadListed
             PROVE  LiveOK
  OBVIOUS
<1>1. ASSUME NEW k \in ServiceKey, NEW u \in Uid, Declares(u, k)
      PROVE  /\ <<workloadMap[u].addr, serviceMap[k].target>> \in Addr \X Port
             /\ k \in Listed
  BY <1>1 DEF TypeOK, WorkloadListed, Listed, Available, Declares, Known, Exists,
              Workload, Service
<1> QED
  BY <1>1 DEF LiveOK, Live

\* The servers that a write takes from serviceMap include the live endpoints.
LEMMA ServersLive ==
    ASSUME TypeOK, WorkloadListed, NEW k \in ServiceKey
    PROVE  Live[k] \subseteq Servers(k)
BY DEF WorkloadListed, Live, Servers, Declares, Known

-----------------------------------------------------------------------------
(* Files *)

LEMMA OpenRefines ==
    ASSUME NEW k \in ServiceKey, ConfigOpens(k)
    PROVE  Promise!Truncated(k)
BY DEF ConfigOpens, WriteOpens, Promise!Truncated, Promise!NotWriting

LEMMA WriteRefines ==
    ASSUME TypeOK, WorkloadListed, NEW k \in ServiceKey, Exists(k), Servers(k) # {},
           WriteSucceeds(k)
    PROVE  Promise!Filled(k)
<1>1. Servers(k) \in (SUBSET (Addr \X Port)) \ {{}} /\ Live[k] \subseteq Servers(k)
  BY ServersType, ServersLive
<1> QED
  BY <1>1 DEF WriteSucceeds, Promise!Filled

LEMMA WriteFailsRefines ==
    ASSUME NEW k \in ServiceKey, WriteFails(k)
    PROVE  Promise!NotFilled(k)
BY DEF WriteFails, Promise!NotFilled

LEMMA DeleteRefines ==
    ASSUME NEW k \in ServiceKey, DeleteSucceeds(k) \/ DeleteFails(k)
    PROVE  Promise!Deleted(k)
BY DEF DeleteSucceeds, DeleteFails, Promise!Deleted, Promise!NotWriting

\* With nothing left to regenerate, every used service is settled.
LEMMA SettledWhenDone ==
    ASSUME StepInv, affectedServices = {}
    PROVE  Promise!Settled
<1> SUFFICES ASSUME NEW k \in activeServices \ unsynced, Live[k] # {}
             PROVE  endpoints[k] # NoFile /\ Live[k] \subseteq endpoints[k].servers
  BY DEF Promise!Settled, Promise!Current
<1>1. k \in ServiceKey /\ Fresh(k)
  BY DEF StepInv, TypeOK, PublishedInv
<1> QED
  BY <1>1 DEF Fresh, Live

-----------------------------------------------------------------------------
(* Steps *)

\* A step of the loop over a batch.
LEMMA ChangeRefines ==
    ASSUME StepInv, WorkloadListed', TypeOK', pc \in {"update", "remove"},
           UNCHANGED <<pc, lock, activeServices, files, needsReload>>,
           pc = "remove" =>
              Listed' \subseteq Listed /\ \A k \in ServiceKey : Live'[k] \subseteq Live[k],
           newlyAvailableServices \subseteq newlyAvailableServices',
           newlyAvailableServices' \subseteq
              newlyAvailableServices \cup (activeServices \cap Listed'),
           activeServices \cap (Listed' \ Listed) \subseteq newlyAvailableServices',
           pc = "remove" => Lost' \subseteq Lost \cup (Listed \ Listed')
    PROVE  Promise!Changes
<1>1. LiveOK'
  BY LiveType, PTL
<1>2. Listed' \in SUBSET ServiceKey
  BY DEF Listed
<1>3. Phase' = Phase /\ Phase = pc
  BY DEF Phase
<1>4. Lost' \in SUBSET IF Phase = "remove" THEN Lost \cup (Listed \ Listed') ELSE {}
  BY <1>3 DEF Lost
<1>5. opened = {}
  BY DEF StepInv, OpenInv
<1> QED
  BY <1>1, <1>2, <1>3, <1>4, <1>5
  DEF LiveOK, Promise!Changes, Promise!NotWriting, Promise!files, files

\* Losing a workload.
LEMMA LossRefines ==
    ASSUME StepInv, WorkloadListed', TypeOK', pc \in {"update", "remove"}, NEW u \in Uid,
           serviceMap' = WithoutWorkload(u),
           workloadMap' = [workloadMap EXCEPT ![u] = NoWorkload],
           affectedServices' = affectedServices \cup ServicesOf(u),
           UNCHANGED <<pc, lock, activeServices, files, newlyAvailableServices, needsReload>>
    PROVE  Promise!Changes
<1>1. Listed' \subseteq Listed
  BY DEF Listed, Available, Exists, WithoutWorkload, StepInv, TypeOK
<1>2. ASSUME NEW k \in ServiceKey
      PROVE  Live'[k] \subseteq Live[k]
  <2>1. ASSUME NEW v \in Uid, Declares(v, k)'
        PROVE  /\ v # u /\ Declares(v, k)
               /\ workloadMap'[v] = workloadMap[v]
    BY <2>1 DEF StepInv, TypeOK, Declares, Known
  <2>2. ASSUME NEW v \in Uid, Declares(v, k)'
        PROVE  serviceMap'[k].target = serviceMap[k].target
    BY <2>1, <2>2, WithoutWorkloadKeeps DEF StepInv
  <2> QED
    BY <2>1, <2>2 DEF Live
<1>3. ServicesOf(u) \subseteq Listed
  BY DEF StepInv, TypeOK, Workload, WorkloadListed, ServicesOf, Declares, Listed, Available
<1>4. pc = "remove" => Lost' \subseteq Lost \cup (Listed \ Listed')
  BY <1>3 DEF Lost, Phase
<1> QED
  BY <1>1, <1>2, <1>4, ChangeRefines DEF StepInv, TypeOK

LEMMA StoredRefines ==
    ASSUME StepInv, WorkloadListed', TypeOK', NEW w \in WorkloadRes, WorkloadStored(w)
    PROVE  Promise!Changes
<1>1. Announced(w) \subseteq activeServices \cap Listed'
  <2>1. ASSUME NEW k \in Announced(w)
        PROVE  k \in ServiceKey /\ k \in activeServices /\ Available(k)'
    <3>1. k \in ServiceKey /\ k \in activeServices /\ w.ports[k] # NoPort
      BY DEF Announced, KeysOf
    <3>2. serviceMap'[k] # NoService /\ w.uid \in serviceMap'[k].workloads
      BY <3>1, WithWorkloadJoins DEF StepInv, WorkloadStored
    <3> QED
      BY <3>1, <3>2 DEF Available, Exists
  <2> QED
    BY <2>1 DEF Listed
<1>2. activeServices \cap (Listed' \ Listed) \subseteq Announced(w)
  <2>1. ASSUME NEW k \in ServiceKey, k \in activeServices, Available(k)', ~Available(k)
        PROVE  k \in Announced(w)
    <3>1. WithWorkload(w)[k] # NoService /\ WithWorkload(w)[k].workloads # {}
      BY <2>1 DEF WorkloadStored, Available, Exists
    <3>2. w.ports[k] # NoPort
      BY <2>1, <3>1, WithWorkloadJoins DEF StepInv, Available, Exists
    <3>3. WithWorkload(w)[k].workloads = {w.uid}
      BY <2>1, <3>2 DEF WithWorkload, Available
    <3> QED
      BY <2>1, <3>2, <3>3 DEF Announced, KeysOf
  <2> QED
    BY <2>1 DEF Listed
<1> QED
  BY <1>1, <1>2, ChangeRefines DEF WorkloadStored

LEMMA ServiceRefines ==
    ASSUME StepInv, WorkloadListed', TypeOK', NEW ports \in PortMap, ServiceStored(ports)
    PROVE  Promise!Changes
<1>1. ASSUME NEW k \in ServiceKey
      PROVE  Available(k)' <=> Available(k)
  BY <1>1, ServiceStoredKeeps DEF StepInv, Available, Exists
<1>2. Listed' = Listed
  BY <1>1 DEF Listed
<1>3. newlyAvailableServices' = newlyAvailableServices
  BY <1>1, ServiceStoredKeeps DEF StepInv, ServiceStored, Available, Exists, KeysOf
<1> QED
  BY <1>2, <1>3, ChangeRefines DEF ServiceStored

\* One service in the loops that write files, in Update or in Remove.
LEMMA ConfigRefines ==
    ASSUME StepInv, pc \in {"regenerate", "cleanup"}, NEW k \in ServiceKey,
           UNCHANGED <<pc, lock, store, activeServices, newlyAvailableServices>>,
           affectedServices' = affectedServices \ {k},
           pc = "cleanup" => Available(k),
           \/ k \notin activeServices /\ NoFileTouched /\ UNCHANGED needsReload
           \/ k \in activeServices /\ ConfigUpdated(k) /\ needsReload' = TRUE
           \/ k \in activeServices /\ ConfigFails(k) /\ UNCHANGED needsReload
    PROVE  Promise!EndpointNext \/ UNCHANGED Promise!endpointVars
<1>1. UNCHANGED <<Live, Listed, Phase, Lost>> /\ Phase \in {"update", "remove"}
  <2>1. UNCHANGED <<Live, Listed, Phase>> /\ Phase \in {"update", "remove"}
    BY StoreFrame DEF Phase
  <2>2. Phase = "remove" => k \in Listed
    BY DEF Phase, Listed
  <2> QED
    BY <2>1, <2>2 DEF Lost
<1>2. CASE UNCHANGED <<files, needsReload>>
  BY <1>1, <1>2 DEF Promise!endpointVars, Promise!files, files
<1>3. CASE k \in activeServices /\ ConfigUpdated(k) /\ needsReload' = TRUE
  <2>1. CASE Servers(k) = {} /\ NoFileTouched
    <3>1. Live[k] = {}
      BY <2>1, ServersLive DEF StepInv
    <3>2. Promise!Skips(k)
      BY <1>1, <1>3, <2>1, <3>1
      DEF NoFileTouched, Promise!Skips, Promise!NotWriting, Promise!files, files
    <3> QED
      BY <3>2 DEF Promise!EndpointNext
  <2>2. CASE Servers(k) # {} /\ WriteSucceeds(k)
    <3>1. Promise!Publishes(k)
      BY <1>1, <1>3, <2>2, WriteRefines DEF StepInv, ConfigUpdated, Promise!Publishes
    <3> QED
      BY <3>1 DEF Promise!EndpointNext
  <2> QED
    BY <1>3, <2>1, <2>2 DEF ConfigUpdated
<1>4. CASE k \in activeServices /\ WriteFails(k) /\ UNCHANGED needsReload
  <2>1. Promise!PublishFails(k)
    BY <1>1, <1>4, WriteFailsRefines DEF Promise!PublishFails
  <2> QED
    BY <2>1 DEF Promise!EndpointNext
<1> QED
  BY <1>2, <1>3, <1>4 DEF ConfigFails, NoFileTouched

\* The truncated file in these loops.
LEMMA OpenServiceRefines ==
    ASSUME StepInv, NEW k \in ServiceKey, OpenService(k)
    PROVE  Promise!EndpointNext
<1>1. UNCHANGED <<Live, Listed, Phase>> /\ Phase \in {"update", "remove"}
  BY StoreFrame DEF OpenService, Phase
<1>2. Lost' = Lost
  BY <1>1 DEF Lost, OpenService
<1>3. Promise!Opens(k)
  BY <1>1, <1>2, OpenRefines DEF OpenService, Promise!Opens
<1> QED
  BY <1>3 DEF Promise!EndpointNext

\* A service without workloads is forgotten: nobody declares it before or after.
LEMMA ForgetRefines ==
    ASSUME StepInv, NEW k \in ServiceKey, ForgetService(k)
    PROVE  Promise!EndpointNext
<1>1. ASSUME NEW u \in Uid
      PROVE  ~Declares(u, k)
  BY DEF StepInv, WorkloadListed, ForgetService, Available
<1>2. ASSUME NEW j \in ServiceKey
      PROVE  (Available(j)' <=> Available(j)) /\ Live'[j] = Live[j]
  <2>1. CASE j = k
    <3>1. ~Available(j)' /\ ~Available(j)
      BY <2>1 DEF StepInv, TypeOK, ForgetService, Available, Exists
    <3>2. Live'[j] = {} /\ Live[j] = {}
      BY <1>1, <2>1 DEF ForgetService, Live, Declares, Known
    <3> QED
      BY <3>1, <3>2
  <2>2. CASE j # k
    <3>1. serviceMap'[j] = serviceMap[j] /\ UNCHANGED workloadMap
      BY <2>2 DEF StepInv, TypeOK, ForgetService
    <3> QED
      BY <3>1 DEF Available, Exists, Live, Declares, Known
  <2> QED
    BY <2>1, <2>2
<1>3. Listed' = Listed /\ k \notin Listed
  BY <1>2 DEF Listed, ForgetService
<1>4. Live' = Live
  BY <1>2 DEF Live
<1>5. Phase' = Phase /\ Phase = "remove"
  BY DEF ForgetService, Phase
<1>6. k \in Lost /\ Lost' = Lost \ {k}
  BY <1>3, <1>5 DEF ForgetService, Lost
<1>7. CASE k \notin activeServices
  <2>1. LiveOK
    BY LiveType DEF StepInv
  <2>2. Listed \in SUBSET ServiceKey
    BY DEF Listed
  <2>3. UNCHANGED <<Phase, Live, Listed, activeServices, files, newlyAvailableServices,
                    needsReload>>
    BY <1>3, <1>4, <1>5, <1>7 DEF ForgetService, NoFileTouched, files
  <2>4. opened = {}
    BY <1>7 DEF ForgetService, NoFileTouched
  <2>5. Promise!Changes
    BY <1>5, <1>6, <2>1, <2>2, <2>3, <2>4
    DEF LiveOK, Promise!Changes, Promise!NotWriting, Promise!files, files
  <2> QED
    BY <2>5 DEF Promise!EndpointNext
<1>8. CASE k \in activeServices
  <2>1. Promise!Withdraws(k)
    BY <1>3, <1>4, <1>5, <1>6, <1>8, DeleteRefines DEF ForgetService, Promise!Withdraws
  <2> QED
    BY <2>1 DEF Promise!EndpointNext
<1> QED
  BY <1>7, <1>8

LEMMA EnsureRefines ==
    ASSUME StepInv, NEW k \in ServiceKey, EnsureUpstreamFile(k)
    PROVE  Promise!EndpointNext
<1>1. UNCHANGED <<Live, Listed, Phase, Lost>> /\ Phase \in {"rest", "notify"}
  BY StoreFrame, LostFrame DEF EnsureUpstreamFile, Phase
<1>2. k \in Listed <=> Available(k)
  BY DEF Listed
<1>3. CASE ~Available(k) /\ NoFileTouched
  <2>1. Promise!EnsurePends(k)
    BY <1>1, <1>2, <1>3
    DEF EnsureUpstreamFile, NoFileTouched, Promise!EnsurePends, Promise!Unlocked,
        Promise!NotWriting, Promise!files, files
  <2> QED
    BY <2>1 DEF Promise!EndpointNext
<1>4. CASE Available(k) /\ Servers(k) = {} /\ NoFileTouched
  <2>1. Live[k] = {}
    BY <1>4, ServersLive DEF StepInv
  <2>2. Promise!Ensures(k)
    BY <1>1, <1>2, <1>4, <2>1
    DEF EnsureUpstreamFile, NoFileTouched, Promise!Ensures, Promise!Unlocked,
        Promise!NotWriting, Promise!files, files
  <2> QED
    BY <2>2 DEF Promise!EndpointNext
<1>5. CASE Available(k) /\ Servers(k) # {} /\ WriteSucceeds(k)
  <2>1. Promise!Filled(k)
    BY <1>5, WriteRefines DEF StepInv, Available
  <2>2. Promise!Ensures(k)
    BY <1>1, <1>2, <1>5, <2>1 DEF EnsureUpstreamFile, Promise!Ensures, Promise!Unlocked
  <2> QED
    BY <2>2 DEF Promise!EndpointNext
<1>6. CASE Available(k) /\ WriteFails(k)
  <2>1. Promise!EnsureFails(k)
    BY <1>1, <1>2, <1>6, WriteFailsRefines
    DEF EnsureUpstreamFile, Promise!EnsureFails, Promise!Unlocked
  <2> QED
    BY <2>1 DEF Promise!EndpointNext
<1>7. CASE Available(k) /\ ConfigOpens(k)
  <2>1. Promise!EnsureOpens(k)
    BY <1>1, <1>2, <1>7, OpenRefines
    DEF EnsureUpstreamFile, Promise!EnsureOpens, Promise!Unlocked
  <2> QED
    BY <2>1 DEF Promise!EndpointNext
<1> QED
  BY <1>3, <1>4, <1>5, <1>6, <1>7
  DEF EnsureUpstreamFile, ConfigUpdated, ConfigFails, Available

\* The steps that begin and end handler calls.
LEMMA CallRefines ==
    ASSUME StepInv, LockInv',
           \/ UpdateBegin \/ UpdateLoopEnds \/ UpdateUnlocks \/ UpdateReloadFails
           \/ UpdateReturns \/ RemoveBegin \/ RemoveLoopEnds \/ RemoveReturns
    PROVE  Promise!EndpointNext \/ UNCHANGED Promise!endpointVars
<1>1. UNCHANGED <<Live, Listed>>
  BY StoreFrame
  DEF UpdateBegin, UpdateLoopEnds, UpdateUnlocks, UpdateReloadFails, UpdateReturns,
      RemoveBegin, RemoveLoopEnds, RemoveReturns
<1>2. CASE UpdateBegin
  BY <1>1, <1>2
  DEF UpdateBegin, Phase, Lost, Promise!EndpointNext, Promise!Begins,
      Promise!NotWriting, Promise!files, files
<1>3. CASE RemoveBegin
  BY <1>1, <1>3
  DEF RemoveBegin, Phase, Lost, Promise!EndpointNext, Promise!Begins,
      Promise!NotWriting, Promise!files, files
<1>4. CASE UpdateLoopEnds \/ RemoveLoopEnds
  BY <1>1, <1>4
  DEF UpdateLoopEnds, RemoveLoopEnds, Phase, Lost, Promise!endpointVars, Promise!files, files
<1>5. CASE UpdateUnlocks \/ RemoveReturns
  <2>1. Promise!Settled
    BY <1>5, SettledWhenDone DEF UpdateUnlocks, RemoveReturns
  <2>2. opened = {}
    BY <1>5 DEF UpdateUnlocks, RemoveReturns, StepInv, OpenInv
  <2> QED
    BY <1>1, <1>5, <2>1, <2>2
    DEF UpdateUnlocks, RemoveReturns, Phase, Lost, Promise!EndpointNext, Promise!Returns,
        Promise!NotWriting, Promise!files, files
<1>6. CASE UpdateReloadFails
  <2>1. Promise!Settled
    BY <1>6, SettledWhenDone DEF UpdateReloadFails
  <2>2. lock' = "held" /\ opened = {}
    BY <1>6 DEF UpdateReloadFails, StepInv, LockInv, OpenInv
  <2> QED
    BY <1>1, <1>6, <2>1, <2>2
    DEF UpdateReloadFails, Phase, Lost, Promise!EndpointNext, Promise!Locks,
        Promise!NotWriting, Promise!files, files
<1>7. CASE UpdateReturns
  <2>1. lock' = "free"
    BY <1>7 DEF UpdateReturns, StepInv, LockInv
  <2> QED
    BY <1>1, <1>7, <2>1
    DEF UpdateReturns, Phase, Lost, Promise!EndpointNext, Promise!Notified,
        Promise!NotWriting, Promise!files, files
<1> QED
  BY <1>2, <1>3, <1>4, <1>5, <1>6, <1>7

LEMMA StepRefines ==
    ASSUME StepInv, TypeOK', LockInv', WorkloadListed', [Next]_vars
    PROVE  [Promise!EndpointNext]_(Promise!endpointVars)
<1> SUFFICES Promise!EndpointNext \/ UNCHANGED Promise!endpointVars
  OBVIOUS
<1>1. CASE UNCHANGED vars
  BY <1>1, StoreFrame DEF vars, store, Phase, Lost, Promise!endpointVars, Promise!files
<1>2. ASSUME Promise!Changes
      PROVE  Promise!EndpointNext
  BY <1>2 DEF Promise!EndpointNext
<1>3. ASSUME NEW w \in WorkloadRes, WorkloadUnhealthy(w)
      PROVE  Promise!EndpointNext
  BY <1>2, <1>3, LossRefines DEF WorkloadUnhealthy, WorkloadRes
<1>4. ASSUME NEW u \in Uid, RemoveWorkload(u)
      PROVE  Promise!EndpointNext
  BY <1>2, <1>4, LossRefines DEF RemoveWorkload
<1>5. ASSUME NEW w \in WorkloadRes, WorkloadStored(w)
      PROVE  Promise!EndpointNext
  BY <1>2, <1>5, StoredRefines
<1>6. ASSUME NEW ports \in PortMap, ServiceStored(ports)
      PROVE  Promise!EndpointNext
  BY <1>2, <1>6, ServiceRefines
<1>7. ASSUME NEW w \in WorkloadRes, WorkloadPanics(w)
      PROVE  Promise!EndpointNext
  BY <1>7, StoreFrame
  DEF StepInv, OpenInv, WorkloadPanics, Phase, Lost, Promise!EndpointNext, Promise!Panics,
      Promise!NotWriting, Promise!files, files
<1>8. ASSUME NEW k \in ServiceKey, RegenerateService(k) \/ ShrinkService(k)
      PROVE  Promise!EndpointNext \/ UNCHANGED Promise!endpointVars
  BY <1>8, ConfigRefines DEF RegenerateService, ShrinkService
<1>9. ASSUME NEW k \in ServiceKey, Notify(k)
      PROVE  Promise!EndpointNext
  <2>1. UNCHANGED <<Live, Listed, Phase, Lost>> /\ Phase = "notify"
    BY <1>9, StoreFrame, LostFrame DEF Notify, Phase
  <2>2. Promise!Notifies(k)
    BY <1>9, <2>1 DEF Notify, Promise!Notifies, Promise!NotWriting, Promise!files, files
  <2> QED
    BY <2>2 DEF Promise!EndpointNext
<1> QED
  BY <1>1, <1>3, <1>4, <1>5, <1>6, <1>7, <1>8, <1>9, CallRefines, ForgetRefines,
     EnsureRefines, OpenServiceRefines
  DEF Next, Update, Remove, FromResourceStore, WorkloadSkipped

-----------------------------------------------------------------------------
LEMMA InitRefines == Init => Promise!EndpointInit
<1> SUFFICES ASSUME Init
             PROVE  Promise!EndpointInit
  OBVIOUS
<1>1. Live = [k \in ServiceKey |-> {}] /\ Listed = {} /\ Lost = {}
  BY DEF Init, Lost, Phase, Live, Listed, Declares, Known, Available, Exists
<1> QED
  BY <1>1 DEF Init, Phase, Promise!EndpointInit

\* The address store keeps its promise, whatever the control plane sends and whichever
\* writes, deletes and reloads fail.
THEOREM EndpointStoreImplemented == Spec => ImplementsEndpointStore
<1>1. Init => LockInv /\ OpenInv /\ PublishedInv
  BY DEF Init, LockInv, OpenInv, PublishedInv
<1>2. TypeOK /\ LockInv /\ OpenInv /\ WorkloadListed /\ PublishedInv
         /\ TypeOK' /\ LockInv' /\ WorkloadListed' /\ [Next]_vars
      => [Promise!EndpointNext]_(Promise!endpointVars)
  BY StepRefines DEF StepInv
<1> QED
  BY <1>1, <1>2, InitRefines, LockNext, OpenNext, PublishedNext, TypeCorrect, ListedCorrect, PTL
  DEF Spec, ImplementsEndpointStore, Promise!EndpointSpec

=============================================================================
