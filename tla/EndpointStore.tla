--------------------------- MODULE EndpointStore ---------------------------
(***************************************************************************)
(* What the AddressStore promises to the rest of the NGINX backend,        *)
(* without its maps, batches and loops.                                    *)
(*                                                                         *)
(* A handler call changes which endpoints are live, publishes upstream     *)
(* files one by one, and may only return when the file of every service    *)
(* that it tracks has the live endpoints, unless writing it failed.  A     *)
(* write truncates the file in one step and fills it in another, and a     *)
(* reader may come in between.  A tracked service that gets a workload is  *)
(* announced.  A reload that fails in Update leaves the store locked.      *)
(* AddressStore implements this module, Gateway is built on it.            *)
(***************************************************************************)

CONSTANTS ServiceKey, Endpoint, NoFile

VARIABLES
    phase,          \* "rest", "update", "remove", "notify", "locked" or "crashed"
    live,           \* endpoints of the workloads that serve each service
    listed,         \* services that ServiceExists reports
    used,           \* services that routes have used: activeServices
    published,      \* upstream files
    opened,         \* the file that a write has truncated and not yet filled
    failed,         \* services whose last write or delete has not succeeded
    announced,      \* services to call back
    lost,           \* services that Remove has left without workloads
    needsReload

files == <<published, opened, failed>>
endpointVars == <<phase, live, listed, used, files, announced, lost, needsReload>>

\* The upstream file of k has every live endpoint of k.
Current(k) ==
    \/ live[k] = {}
    \/ published[k] # NoFile /\ live[k] \subseteq published[k].servers

Settled == \A k \in used \ failed : Current(k)

-----------------------------------------------------------------------------
(* What happens to one upstream file *)

\* Nothing else happens while a file is being written: its writer waits for the end.
NotWriting == opened = {}

Truncated(k) ==
    /\ NotWriting
    /\ published' = [published EXCEPT ![k] = [servers |-> {}]]
    /\ opened' = {k} /\ failed' = failed \cup {k}

\* An upstream may have servers that are not live: workloads that left the service.
Filled(k) ==
    /\ opened = {k}
    /\ \E servers \in (SUBSET Endpoint) \ {{}} :
          /\ live[k] \subseteq servers
          /\ published' = [published EXCEPT ![k] = [servers |-> servers]]
    /\ opened' = {} /\ failed' = failed \ {k}

\* It cannot be opened, or not be filled once it is truncated.
NotFilled(k) ==
    /\ opened \subseteq {k}
    /\ opened' = {} /\ failed' = failed \cup {k}
    /\ UNCHANGED published

Deleted(k) ==
    /\ NotWriting /\ UNCHANGED opened
    /\ \/ published' = [published EXCEPT ![k] = NoFile] /\ failed' = failed \ {k}
       \/ published[k] # NoFile /\ UNCHANGED published /\ failed' = failed \cup {k}

-----------------------------------------------------------------------------
(* Handler calls *)

Begins ==
    /\ phase = "rest" /\ NotWriting
    /\ phase' \in {"update", "remove"}
    /\ needsReload' = FALSE
    /\ announced' \in IF phase' = "update" THEN {{}} ELSE {announced}
    /\ UNCHANGED <<live, listed, used, files, lost>>

\* Part of a batch: services gain and lose workloads, or change their target port.
\* A tracked service that is no longer without workloads is announced.
Changes ==
    /\ phase \in {"update", "remove"} /\ NotWriting
    /\ live' \in [ServiceKey -> SUBSET Endpoint]
    /\ listed' \in SUBSET ServiceKey
    /\ \A k \in ServiceKey : live'[k] # {} => k \in listed'
    /\ phase = "remove" =>
          listed' \subseteq listed /\ \A k \in ServiceKey : live'[k] \subseteq live[k]
    /\ announced' \in SUBSET (announced \cup (used \cap listed'))
    /\ announced \cup (used \cap (listed' \ listed)) \subseteq announced'
    /\ lost' \in SUBSET IF phase = "remove" THEN lost \cup (listed \ listed') ELSE {}
    /\ UNCHANGED <<phase, used, files, needsReload>>

Opens(k) ==
    /\ phase \in {"update", "remove"} /\ k \in used
    /\ Truncated(k)
    /\ UNCHANGED <<phase, live, listed, used, announced, lost, needsReload>>

Publishes(k) ==
    /\ phase \in {"update", "remove"} /\ k \in used
    /\ Filled(k)
    /\ needsReload' = TRUE
    /\ UNCHANGED <<phase, live, listed, used, announced, lost>>

\* No server can be written: the file stays as it is.
Skips(k) ==
    /\ phase \in {"update", "remove"} /\ k \in used
    /\ live[k] = {} /\ NotWriting
    /\ needsReload' = TRUE
    /\ UNCHANGED <<phase, live, listed, used, files, announced, lost>>

PublishFails(k) ==
    /\ phase \in {"update", "remove"} /\ k \in used
    /\ NotFilled(k)
    /\ UNCHANGED <<phase, live, listed, used, announced, lost, needsReload>>

\* The last workload of a tracked service was removed: it is no longer tracked.
Withdraws(k) ==
    /\ phase = "remove" /\ k \in used \cap lost
    /\ used' = used \ {k} /\ lost' = lost \ {k}
    /\ Deleted(k)
    /\ needsReload' = TRUE
    /\ UNCHANGED <<phase, live, listed, announced>>

\* The end of the critical section: the reload succeeded, was not needed, or failed
\* in Remove, which only reports it.
Returns ==
    /\ \/ phase = "update" /\ phase' = "notify"
       \/ phase = "remove" /\ phase' = "rest"
    /\ NotWriting /\ Settled
    /\ lost' = {} /\ needsReload' = FALSE
    /\ UNCHANGED <<live, listed, used, files, announced>>

\* The reload failed in Update, which returns with the lock.
Locks ==
    /\ phase = "update" /\ needsReload
    /\ NotWriting /\ Settled
    /\ phase' = "locked"
    /\ announced' = {} /\ needsReload' = FALSE
    /\ UNCHANGED <<live, listed, used, files, lost>>

Panics ==
    /\ phase = "update" /\ NotWriting
    /\ phase' = "crashed"
    /\ UNCHANGED <<live, listed, used, files, announced, lost, needsReload>>

Notifies(k) ==
    /\ phase = "notify" /\ k \in announced /\ NotWriting
    /\ announced' = announced \ {k}
    /\ UNCHANGED <<phase, live, listed, used, files, lost, needsReload>>

Notified ==
    /\ phase = "notify" /\ announced = {} /\ NotWriting
    /\ phase' = "rest"
    /\ UNCHANGED <<live, listed, used, files, announced, lost, needsReload>>

-----------------------------------------------------------------------------
(* EnsureUpstreamFile, by what it returns *)

Unlocked == phase \in {"rest", "notify"}

EnsureOpens(k) ==
    /\ Unlocked /\ k \in listed
    /\ used' = used \cup {k}
    /\ Truncated(k)
    /\ UNCHANGED <<phase, live, listed, announced, lost, needsReload>>

\* True: the file is written, or left as it is if no server can be written.
Ensures(k) ==
    /\ Unlocked /\ k \in listed
    /\ used' = used \cup {k}
    /\ Filled(k) \/ (live[k] = {} /\ NotWriting /\ UNCHANGED files)
    /\ UNCHANGED <<phase, live, listed, announced, lost, needsReload>>

\* False: k is remembered.
EnsurePends(k) ==
    /\ Unlocked /\ k \notin listed /\ NotWriting
    /\ used' = used \cup {k}
    /\ UNCHANGED <<phase, live, listed, files, announced, lost, needsReload>>

EnsureFails(k) ==
    /\ Unlocked /\ k \in listed
    /\ used' = used \cup {k}
    /\ NotFilled(k)
    /\ UNCHANGED <<phase, live, listed, announced, lost, needsReload>>

-----------------------------------------------------------------------------
EndpointInit ==
    /\ phase = "rest"
    /\ live = [k \in ServiceKey |-> {}]
    /\ listed = {} /\ used = {} /\ failed = {} /\ announced = {} /\ lost = {}
    /\ published = [k \in ServiceKey |-> NoFile] /\ opened = {}
    /\ needsReload = FALSE

EndpointTypeOK ==
    /\ phase \in {"rest", "update", "remove", "notify", "locked", "crashed"}
    /\ live \in [ServiceKey -> SUBSET Endpoint]
    /\ listed \in SUBSET ServiceKey /\ used \in SUBSET ServiceKey
    /\ published \in [ServiceKey -> [servers : SUBSET Endpoint] \cup {NoFile}]
    /\ opened \in SUBSET ServiceKey
    /\ failed \in SUBSET ServiceKey /\ announced \in SUBSET ServiceKey
    /\ lost \in SUBSET ServiceKey
    /\ needsReload \in BOOLEAN

EndpointNext ==
    \/ Begins \/ Changes \/ Returns \/ Locks \/ Panics \/ Notified
    \/ \E k \in ServiceKey :
          \/ Opens(k) \/ Publishes(k) \/ Skips(k) \/ PublishFails(k) \/ Withdraws(k)
          \/ Notifies(k)
          \/ EnsureOpens(k) \/ Ensures(k) \/ EnsurePends(k) \/ EnsureFails(k)

EndpointSpec == EndpointInit /\ [][EndpointNext]_endpointVars

=============================================================================
