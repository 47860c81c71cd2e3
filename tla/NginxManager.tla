---------------------------- MODULE NginxManager ----------------------------
(***************************************************************************)
(* The NGINX process and the manager that starts and reloads it            *)
(* (nginxbackend/pkg/nginx/manager.go).                                    *)
(*                                                                         *)
(* "nginx -t" and "nginx -s reload" are synchronous: they judge the files  *)
(* as they are.  The master reads the files later, on its own, one after   *)
(* the other, upstreams before servers (nginxbackend/config/nginx.conf)    *)
(* and each server's routes where it includes them, while handlers write   *)
(* them; it keeps the configuration it has when it rejects what it read.   *)
(* The directory is the argument "disk" of the actions, "cut" says that a  *)
(* write has left a part of a file there: a module that composes this one  *)
(* has the files as variables.                                             *)
(***************************************************************************)

CONSTANTS
    Accepted(_),    \* NGINX accepts a configuration [upstreams, locations]
    NoFile,
    NotRead         \* no configuration, or a file that is not read yet

VARIABLES
    manager,    \* "new", "started" (Start sleeps), "ready", "exited" or "panicked"
    master,     \* "none", "starting", "running", "quit" or "failed"
    running,    \* the configuration of the workers
    reading,    \* the configuration that the master is reading
    hup,        \* a reload that the master has not begun
    missed      \* history: the last reload of accepted files failed

nginxVars == <<manager, master, running, reading, hup, missed>>

\* What the upstream files, the routes that the server includes, and their files define.
Configuration(disk) ==
    [upstreams |-> disk.upstreams,
     locations |-> [r \in disk.included |-> disk.routes[r]]]

-----------------------------------------------------------------------------
(* Manager *)

\* Start tests the configuration and starts the master; main exits on its error.
Start(disk, cut) ==
    /\ manager = "new"
    /\ \/ /\ Accepted(Configuration(disk))
          /\ manager' = "started" /\ master' = "starting"
       \/ /\ ~Accepted(Configuration(disk)) \/ cut
          /\ manager' = "exited" /\ UNCHANGED master
    /\ UNCHANGED <<running, reading, hup, missed>>

\* NGINX cannot be executed, for the test or as the master.
StartFails ==
    /\ manager = "new"
    /\ manager' = "exited"
    /\ UNCHANGED <<master, running, reading, hup, missed>>

\* ProcessState is nil until Wait sets it: Start returns no error, whatever happened
\* to the master during its sleep.
StartReturns ==
    /\ manager = "started"
    /\ manager' = "ready"
    /\ UNCHANGED <<master, running, reading, hup, missed>>

\* The mutant is a Wait goroutine that only logs.
WaitLogs ==
    /\ manager = "ready" /\ master = "failed"
    /\ UNCHANGED nginxVars

\* The goroutine that waits for the master panics when it failed, and logs when it quit.
WaitPanics ==
    /\ manager = "ready" /\ master = "failed"
    /\ manager' = "panicked"
    /\ UNCHANGED <<master, running, reading, hup, missed>>

ReloadSucceeds(disk) ==
    /\ Accepted(Configuration(disk)) /\ master = "running"
    /\ hup' = TRUE /\ missed' = FALSE
    /\ UNCHANGED <<manager, master, running, reading>>

\* Reload returns an error: NGINX cannot be executed, for the test or for the signal...
ReloadBreaks(disk) ==
    /\ missed' = (missed \/ Accepted(Configuration(disk)))
    /\ UNCHANGED <<manager, master, running, reading, hup>>

\* ... the test rejects the files, or there is no master to signal.
ReloadFails(disk, cut) ==
    /\ ~Accepted(Configuration(disk)) \/ cut \/ master # "running"
    /\ ReloadBreaks(disk)

-----------------------------------------------------------------------------
(* Master *)

\* The master lists the upstream files.
ReadBegins(disk) ==
    /\ reading = NotRead
    /\ master = "starting" \/ (master = "running" /\ hup)
    /\ reading' =
          [upstreams |-> [k \in DOMAIN disk.upstreams |->
                             IF disk.upstreams[k] = NoFile THEN NoFile ELSE NotRead],
           locations |-> NotRead]
    /\ hup' = FALSE
    /\ UNCHANGED <<manager, master, running, missed>>

ReadUpstream(disk, k) ==
    /\ reading # NotRead
    /\ reading.upstreams[k] = NotRead /\ disk.upstreams[k] # NoFile
    /\ reading' = [reading EXCEPT !.upstreams[k] = disk.upstreams[k]]
    /\ UNCHANGED <<manager, master, running, hup, missed>>

UpstreamsRead ==
    reading # NotRead /\ \A k \in DOMAIN reading.upstreams : reading.upstreams[k] # NotRead

ReadServer(disk) ==
    /\ UpstreamsRead /\ reading.locations = NotRead
    /\ reading' = [reading EXCEPT !.locations = [r \in disk.included |-> NotRead]]
    /\ UNCHANGED <<manager, master, running, hup, missed>>

ServerRead == UpstreamsRead /\ reading.locations # NotRead

ReadRoute(disk, r) ==
    /\ ServerRead
    /\ r \in DOMAIN reading.locations /\ reading.locations[r] = NotRead
    /\ reading' = [reading EXCEPT !.locations[r] = disk.routes[r]]
    /\ UNCHANGED <<manager, master, running, hup, missed>>

AllRead ==
    ServerRead /\ \A r \in DOMAIN reading.locations : reading.locations[r] # NotRead

Adopts ==
    /\ AllRead /\ Accepted(reading)
    /\ running' = reading /\ master' = "running" /\ reading' = NotRead
    /\ UNCHANGED <<manager, hup, missed>>

\* It also rejects a part of a file, and a listed file that is gone when it opens it.
Rejects(disk, cut) ==
    /\ reading # NotRead
    /\ \/ AllRead /\ ~Accepted(reading)
       \/ ~AllRead /\ cut
       \/ \E k \in DOMAIN disk.upstreams :
             reading.upstreams[k] = NotRead /\ disk.upstreams[k] = NoFile
    /\ master' = IF master = "starting" THEN "failed" ELSE master
    /\ reading' = NotRead
    /\ UNCHANGED <<manager, running, hup, missed>>

\* Someone stops the master, or it fails.
Ends ==
    /\ master \in {"starting", "running"}
    /\ master' \in {"quit", "failed"}
    /\ running' = NotRead /\ reading' = NotRead /\ hup' = FALSE
    /\ UNCHANGED <<manager, missed>>

-----------------------------------------------------------------------------
NginxInit ==
    /\ manager = "new" /\ master = "none"
    /\ running = NotRead /\ reading = NotRead /\ hup = FALSE /\ missed = FALSE

\* The process of the backend ends with the master's, and is started again.
NginxRestarts ==
    /\ manager \in {"exited", "panicked"}
    /\ manager' = "new" /\ master' = "none"
    /\ running' = NotRead /\ reading' = NotRead /\ hup' = FALSE /\ missed' = FALSE

\* Included routes with the contents of their files.
LocationsOf(Route, Location) == UNION {[included -> Location] : included \in SUBSET Route}

\* What the master may have read so far.
PartsOf(Key, Upstream, Route, Location) ==
    [upstreams : [Key -> Upstream \cup {NotRead}],
     locations : LocationsOf(Route, Location \cup {NotRead}) \cup {NotRead}]

NginxTypeOK(Key, Upstream, Route, Location) ==
    /\ manager \in {"new", "started", "ready", "exited", "panicked"}
    /\ master \in {"none", "starting", "running", "quit", "failed"}
    /\ running \in [upstreams : [Key -> Upstream], locations : LocationsOf(Route, Location)]
                      \cup {NotRead}
    /\ reading \in PartsOf(Key, Upstream, Route, Location) \cup {NotRead}
    /\ hup \in BOOLEAN /\ missed \in BOOLEAN

=============================================================================
