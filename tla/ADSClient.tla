----------------------------- MODULE ADSClient -----------------------------
(***************************************************************************)
(* The delta xDS client (client/client.go): the reconnection loop of Start *)
(* and the stream of runStream, with the handlers, the gRPC stream and the *)
(* xDS server they meet as an external environment.                        *)
(*                                                                         *)
(* The server keeps a world of versioned resources and sends what changed  *)
(* since its last response on this stream.  A handler holds the resources  *)
(* it was given; one of its calls may fail, having applied the call or not *)
(* (AddressStore.Update fails after both maps are updated).                *)
(*                                                                         *)
(* Streams are FIFO.  A response is taken off the queue, handled and       *)
(* answered before the next is looked at, so its nonce is not modelled.    *)
(***************************************************************************)
EXTENDS Naturals, Sequences

CONSTANTS
    Type,           \* type URLs of resourceTypeHandlers
    NilHandled,     \* those whose handler is nil
    Unknown,        \* a type URL the server sends and nobody handles
    Name,           \* resource names
    Version,        \* contents of a resource
    Absent,         \* no such resource
    NotSent,        \* the server has not mentioned the resource on this stream
    NoResponse,
    InitialReconnectDelay,
    MaxReconnectDelay,
    \* Bounds of the environment
    MaxChanges,     \* changes of the world, and responses of unknown type
    MaxFailures,    \* streams that fail or end
    MaxErrors,      \* handler calls that fail
    MaxInFlight     \* responses sent and not yet received

ASSUME ClientAssumption ==
    /\ NilHandled \subseteq Type
    /\ Unknown \notin Type
    /\ Absent \notin Version /\ NotSent \notin Version /\ Absent # NotSent
    /\ InitialReconnectDelay \in Nat \ {0} /\ MaxReconnectDelay \in Nat \ {0}
    /\ MaxChanges \in Nat /\ MaxFailures \in Nat /\ MaxErrors \in Nat
    /\ MaxInFlight \in Nat

State == Version \cup {Absent}

\* changes maps every name the response mentions to its new content, or to Absent
\* if it is among the removed resources.
Response ==
    [type : Type \cup {Unknown}, changes : UNION {[N -> State] : N \in SUBSET Name}]

VARIABLES
    pc,             \* where Start and runStream are
    attempt,        \* of Start: 0, or 1 for any number of failed attempts
    reconnectDelay,
    canceled,       \* the caller's context
    resp,
    handlerErr,
    stream,         \* "none", "open", or how it ended: "eof", "transient", "permanent"
    subscribed,     \* the types subscribed to on this stream
    down,           \* responses in flight
    world,          \* the server's resources
    sent,           \* what the server last sent of each on this stream
    held,           \* what the handlers hold
    refused,        \* history: resources of a failed call, not applied since
    changes, failures, errors   \* how much of the bounds is used

start == <<attempt, reconnectDelay>>
call == <<resp, handlerErr>>
handlers == <<held, refused, errors>>
server == <<world, sent, changes>>
vars == <<pc, start, canceled, call, stream, subscribed, down, server, handlers,
          failures>>

-----------------------------------------------------------------------------
(* Operators *)

Removed(r) == {n \in DOMAIN r.changes : r.changes[n] = Absent}
Updated(r) == {n \in DOMAIN r.changes : r.changes[n] # Absent}

\* The mutant takes the delta for all the resources there are.
AppliedWhole(r, N) == [held EXCEPT ![r.type] = r.changes]

\* The handlers' resources once the names N of response r are applied.
Applied(r, N) ==
    [held EXCEPT ![r.type] =
        [n \in Name |-> IF n \in N THEN r.changes[n] ELSE @[n]]]

Of(r, N) == {<<r.type, n>> : n \in N}

\* Names whose content the server has yet to send on this stream.
Unsent(t) ==
    {n \in Name : world[t][n] # IF sent[t][n] = NotSent THEN Absent ELSE sent[t][n]}

\* The delay after this one.
NextDelay(d) == IF d * 2 > MaxReconnectDelay THEN MaxReconnectDelay ELSE d * 2

-----------------------------------------------------------------------------
(* runStream returns *)

\* Unauthenticated, PermissionDenied and InvalidArgument, which Recv returns; every
\* other status, and every error of Send, is transient.
IsPermanentError(status) == status = "permanent"

Return ==
    /\ pc' = "done"
    /\ UNCHANGED start

\* runStream returns an error that isPermanentError does not recognize: Start tries
\* again, unless its context is done.
Retry ==
    IF canceled THEN Return
    ELSE /\ pc' = "start"
         /\ attempt' = 1
         /\ UNCHANGED reconnectDelay

\* Send queues the message, also on a stream whose end the client has not noticed;
\* once it has, Send returns io.EOF, whatever the status the stream ended with.
SendSucceeds == stream # "none"
SendFails == stream # "open" \/ canceled

-----------------------------------------------------------------------------
(* Start *)

StartCanceled ==
    /\ pc \in {"start", "waiting"} /\ canceled
    /\ Return
    /\ UNCHANGED <<canceled, call, stream, subscribed, down, server, handlers, failures>>

StartAttempt ==
    /\ pc = "start" /\ ~canceled
    /\ pc' = IF attempt > 0 THEN "waiting" ELSE "connect"
    /\ UNCHANGED <<start, canceled, call, stream, subscribed, down, server, handlers,
                   failures>>

DelayElapses ==
    /\ pc = "waiting"
    /\ pc' = "connect"
    /\ reconnectDelay' = NextDelay(reconnectDelay)
    /\ UNCHANGED <<attempt, canceled, call, stream, subscribed, down, server, handlers,
                   failures>>

-----------------------------------------------------------------------------
(* runStream *)

StreamOpens ==
    /\ pc = "connect" /\ ~canceled
    /\ pc' = "subscribe"
    /\ stream' = "open"
    /\ subscribed' = {}
    /\ down' = <<>>
    /\ sent' = [t \in Type |-> [n \in Name |-> NotSent]]
    /\ UNCHANGED <<start, canceled, call, world, changes, handlers, failures>>

StreamFailsToOpen ==
    /\ pc = "connect"
    /\ \/ canceled /\ UNCHANGED failures
       \/ failures < MaxFailures /\ failures' = failures + 1
    /\ Retry
    /\ stream' = "none"
    /\ UNCHANGED <<canceled, call, subscribed, down, server, handlers>>

Subscribe(t) ==
    /\ pc = "subscribe" /\ t \notin subscribed /\ SendSucceeds
    /\ subscribed' = subscribed \cup {t}
    /\ UNCHANGED <<pc, start, canceled, call, stream, down, server, handlers, failures>>

SubscribeFails ==
    /\ pc = "subscribe" /\ subscribed # Type /\ SendFails
    /\ Retry
    /\ UNCHANGED <<canceled, call, stream, subscribed, down, server, handlers, failures>>

SubscribeEnds ==
    /\ pc = "subscribe" /\ subscribed = Type
    /\ pc' = "loop"
    /\ UNCHANGED <<start, canceled, call, stream, subscribed, down, server, handlers,
                   failures>>

CheckContext ==
    /\ pc = "loop"
    /\ IF canceled THEN Return ELSE pc' = "recv" /\ UNCHANGED start
    /\ UNCHANGED <<canceled, call, stream, subscribed, down, server, handlers, failures>>

\* The mutant's stream does not have the caller's context.
RecvEndsBackground ==
    /\ pc = "recv" /\ down = <<>>
    /\ \/ stream \in {"eof", "permanent"} /\ Return
       \/ stream = "transient" /\ Retry
    /\ UNCHANGED <<canceled, call, stream, subscribed, down, server, handlers, failures>>

RecvEnds ==
    /\ pc = "recv"
    /\ \/ canceled /\ Return
       \/ down = <<>> /\ (stream = "eof" \/ IsPermanentError(stream)) /\ Return
       \/ down = <<>> /\ stream = "transient" /\ Retry
    /\ UNCHANGED <<canceled, call, stream, subscribed, down, server, handlers, failures>>

Recv ==
    /\ pc = "recv" /\ down # <<>>
    /\ resp' = Head(down)
    /\ down' = Tail(down)
    /\ handlerErr' = FALSE

\* A type that nobody handles is acknowledged and skipped.
RecvUnknown ==
    /\ Recv /\ resp'.type = Unknown
    /\ pc' = "ack"
    /\ UNCHANGED <<start, canceled, stream, subscribed, server, handlers, failures>>

\* The mutant skips the response as it skips one of unknown type.
RecvNilSkipped ==
    /\ Recv /\ resp'.type \in NilHandled
    /\ pc' = "ack"
    /\ UNCHANGED <<start, canceled, stream, subscribed, server, handlers, failures>>

\* The stream is abandoned; Start opens another.
RecvNilHandled ==
    /\ Recv /\ resp'.type \in NilHandled
    /\ Retry
    /\ stream' = "none"
    /\ UNCHANGED <<canceled, subscribed, server, handlers, failures>>

RecvHandled ==
    /\ Recv /\ resp'.type \in Type \ NilHandled
    /\ pc' = "remove"
    /\ UNCHANGED <<start, canceled, stream, subscribed, server, handlers, failures>>

\* A handler call with the names N of the response succeeds, or fails.
CallSucceeds(N) ==
    /\ held' = Applied(resp, N)
    /\ refused' = refused \ Of(resp, N)
    /\ UNCHANGED <<handlerErr, errors>>

CallFails(N) ==
    /\ errors < MaxErrors /\ errors' = errors + 1
    /\ held' \in {held, Applied(resp, N)}
    /\ handlerErr' = TRUE

\* An error of Remove leaves the updates of the response to the server.
HandlerRemoves ==
    /\ pc = "remove"
    /\ pc' = "update"
    /\ \/ Removed(resp) = {} /\ UNCHANGED <<handlerErr, handlers>>
       \/ Removed(resp) # {} /\ CallSucceeds(Removed(resp))
       \/ /\ Removed(resp) # {} /\ CallFails(Removed(resp))
          /\ refused' = refused \cup Of(resp, DOMAIN resp.changes)
    /\ UNCHANGED <<start, canceled, resp, stream, subscribed, down, server, failures>>

\* Mutants: Update runs only if there was nothing to remove; Update runs and sets
\* the error, whatever Remove returned.
HandlerUpdatesOtherwise ==
    /\ pc = "update"
    /\ pc' = "ack"
    /\ IF Updated(resp) = {} \/ Removed(resp) # {}
       THEN UNCHANGED <<handlerErr, handlers>>
       ELSE CallSucceeds(Updated(resp))
    /\ UNCHANGED <<start, canceled, resp, stream, subscribed, down, server, failures>>

HandlerUpdatesAnyway ==
    /\ pc = "update"
    /\ pc' = "ack"
    /\ IF Updated(resp) = {}
       THEN UNCHANGED <<handlerErr, handlers>>
       ELSE /\ held' = Applied(resp, Updated(resp))
            /\ refused' = refused \ Of(resp, Updated(resp))
            /\ handlerErr' = FALSE
            /\ UNCHANGED errors
    /\ UNCHANGED <<start, canceled, resp, stream, subscribed, down, server, failures>>

HandlerUpdates ==
    /\ pc = "update"
    /\ pc' = "ack"
    /\ \/ /\ Updated(resp) = {} \/ handlerErr
          /\ UNCHANGED <<handlerErr, handlers>>
       \/ /\ Updated(resp) # {} /\ ~handlerErr
          /\ CallSucceeds(Updated(resp))
       \/ /\ Updated(resp) # {} /\ ~handlerErr
          /\ CallFails(Updated(resp))
          /\ refused' = refused \cup Of(resp, Updated(resp))
    /\ UNCHANGED <<start, canceled, resp, stream, subscribed, down, server, failures>>

\* An ACK, or a NACK if handlerErr; the server sends nothing again for a NACK.
SendAck ==
    /\ pc = "ack"
    /\ \/ SendSucceeds /\ pc' = "loop" /\ UNCHANGED start
       \/ SendFails /\ Retry
    /\ resp' = NoResponse /\ handlerErr' = FALSE
    /\ UNCHANGED <<canceled, stream, subscribed, down, server, handlers, failures>>

-----------------------------------------------------------------------------
(* The environment *)

Cancel ==
    /\ ~canceled /\ canceled' = TRUE
    /\ UNCHANGED <<pc, start, call, stream, subscribed, down, server, handlers, failures>>

WorldChanges(t, n) ==
    /\ changes < MaxChanges /\ changes' = changes + 1
    /\ \E s \in State \ {world[t][n]} : world' = [world EXCEPT ![t][n] = s]
    /\ UNCHANGED <<pc, start, canceled, call, stream, subscribed, down, sent, handlers,
                   failures>>

ServerSends(t) ==
    /\ stream = "open" /\ t \in subscribed /\ Len(down) < MaxInFlight
    /\ Unsent(t) # {}
    /\ down' = Append(down, [type |-> t,
                             changes |-> [n \in Unsent(t) |-> world[t][n]]])
    /\ sent' = [sent EXCEPT ![t] =
                   [n \in Name |-> IF n \in Unsent(t) THEN world[t][n] ELSE @[n]]]
    /\ UNCHANGED <<pc, start, canceled, call, stream, subscribed, world, changes,
                   handlers, failures>>

ServerSendsUnknown ==
    /\ stream = "open" /\ Len(down) < MaxInFlight
    /\ changes < MaxChanges /\ changes' = changes + 1
    /\ down' = Append(down, [type |-> Unknown, changes |-> [n \in {} |-> Absent]])
    /\ UNCHANGED <<pc, start, canceled, call, stream, subscribed, world, sent, handlers,
                   failures>>

\* The server ends the stream behind the responses it has sent, well or refusing the
\* client (Unauthenticated, PermissionDenied, InvalidArgument), or the connection
\* breaks and the last responses are lost.
StreamEnds ==
    /\ stream = "open" /\ failures < MaxFailures
    /\ failures' = failures + 1
    /\ \/ stream' \in {"eof", "permanent"} /\ UNCHANGED down
       \/ /\ stream' = "transient"
          /\ \E i \in 0 .. Len(down) : down' = SubSeq(down, 1, i)
    /\ UNCHANGED <<pc, start, canceled, call, subscribed, server, handlers>>

-----------------------------------------------------------------------------
Init ==
    /\ pc = "start" /\ attempt = 0 /\ reconnectDelay = InitialReconnectDelay
    /\ canceled = FALSE
    /\ resp = NoResponse /\ handlerErr = FALSE
    /\ stream = "none" /\ subscribed = {} /\ down = <<>>
    /\ world = [t \in Type |-> [n \in Name |-> Absent]]
    /\ sent = [t \in Type |-> [n \in Name |-> NotSent]]
    /\ held = [t \in Type |-> [n \in Name |-> Absent]]
    /\ refused = {}
    /\ changes = 0 /\ failures = 0 /\ errors = 0

Client ==
    \/ StartCanceled \/ StartAttempt \/ DelayElapses
    \/ StreamOpens \/ StreamFailsToOpen
    \/ \E t \in Type : Subscribe(t)
    \/ SubscribeFails \/ SubscribeEnds
    \/ CheckContext \/ RecvEnds
    \/ RecvUnknown \/ RecvNilHandled \/ RecvHandled
    \/ HandlerRemoves \/ HandlerUpdates \/ SendAck

Environment ==
    \/ Cancel
    \/ \E t \in Type, n \in Name : WorldChanges(t, n)
    \/ \E t \in Type : ServerSends(t)
    \/ ServerSendsUnknown
    \/ StreamEnds

Next == Client \/ Environment

Spec == Init /\ [][Next]_vars

\* The client's goroutine is scheduled, its timer fires and its handlers return; the
\* server sends what it has.  Nothing makes a stream fail, or the world change.
FairSpec ==
    /\ Spec
    /\ WF_vars(Client)
    /\ \A t \in Type : WF_vars(ServerSends(t))

-----------------------------------------------------------------------------
(* Properties *)

\* The variables hold values of the kinds the Go declarations give them.
TypeOK ==
    /\ pc \in {"start", "waiting", "connect", "subscribe", "loop", "recv", "remove",
               "update", "ack", "done"}
    /\ attempt \in {0, 1} /\ reconnectDelay \in Nat
    /\ canceled \in BOOLEAN
    /\ resp \in Response \cup {NoResponse} /\ handlerErr \in BOOLEAN
    /\ stream \in {"none", "open", "eof", "transient", "permanent"}
    /\ subscribed \subseteq Type
    /\ down \in Seq(Response)
    /\ world \in [Type -> [Name -> State]]
    /\ sent \in [Type -> [Name -> State \cup {NotSent}]]
    /\ held \in [Type -> [Name -> State]]
    /\ refused \subseteq Type \X Name
    /\ changes \in 0 .. MaxChanges
    /\ failures \in 0 .. MaxFailures
    /\ errors \in 0 .. MaxErrors

Mentions(t, n) ==
    {i \in 1 .. Len(down) : down[i].type = t /\ n \in DOMAIN down[i].changes}

\* Names of the response at hand that no handler call has seen yet.
Unhandled ==
    IF pc = "remove" THEN DOMAIN resp.changes
    ELSE IF pc = "update" THEN Updated(resp)
    ELSE {}

AtHand(t, n) == n \in Unhandled /\ resp.type = t

\* What the handler of t will make of n is what the server sent last: the last
\* response that mentions n says so, if one is under way, or else the response at
\* hand, or else the handler has it already or refused it.
UpToDate(t, n) ==
    /\ \A i \in Mentions(t, n) :
          (\A j \in Mentions(t, n) : j <= i) => down[i].changes[n] = sent[t][n]
    /\ Mentions(t, n) = {} =>
          IF AtHand(t, n)
          THEN resp.changes[n] = sent[t][n]
          ELSE held[t][n] = sent[t][n] \/ <<t, n>> \in refused

\* On an open stream nothing the server sent is lost or overtaken between its queue
\* and the handlers: except for what a handler refused, a handler ends up with the
\* content the server sent last, removals included.
NoLostUpdate ==
    stream = "open" =>
        \A t \in Type, n \in Name : sent[t][n] # NotSent => UpToDate(t, n)

\* Nothing is left to send, handle or repeat on this stream.
Quiet ==
    /\ stream = "open" /\ subscribed = Type /\ pc = "recv" /\ down = <<>>
    /\ \A t \in Type : Unsent(t) = {}

\* Once quiet, and however many streams it took, a handler holds every resource of the
\* server in its present version, unless it refused that version.  What it holds
\* otherwise was gone when the stream opened: the server has not mentioned it since.
QuietMeansCurrent ==
    Quiet =>
        \A t \in Type, n \in Name :
            \/ held[t][n] = world[t][n]
            \/ <<t, n>> \in refused
            \/ world[t][n] = Absent /\ sent[t][n] = NotSent

\* A positive acknowledgement means that all of the response was applied: the client
\* NACKs it if Remove or Update failed.
AckMeansApplied ==
    (pc = "ack" /\ ~handlerErr /\ resp.type # Unknown) =>
        \A n \in DOMAIN resp.changes : held[resp.type][n] = resp.changes[n]

\* Start returns once its context is canceled, wherever the client is, a blocked Recv
\* and a reconnection delay included.
CancelStops == canceled ~> pc = "done"

\* When the world and the streams settle and the client still runs, the handlers come
\* to hold every resource there is, in its last version: through lost streams,
\* reordered failures and NACKs, only what a handler refused is missing.
Converges ==
    <>[](\/ pc = "done"
         \/ \A t \in Type \ NilHandled, n \in Name :
               world[t][n] \in {Absent, held[t][n]} \/ <<t, n>> \in refused)

(* What docs and comments say of the client, and the code does not do *)

\* "When resources are created, updated, or removed, your custom handlers are called
\* to process the changes" (client/README.md:9): with nothing left to send, handle or
\* repeat, the handlers hold exactly the server's resources.
HandlersMatchWorld == Quiet /\ refused = {} => held = world

=============================================================================
