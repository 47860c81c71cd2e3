----------------------------- MODULE DebugStore -----------------------------
(***************************************************************************)
(* The debug stores (client/debugstore) and the two programs that use      *)
(* them: examples/dump, which only stores and logs, and examples/adsgui,   *)
(* which subscribes to their notifications and lists them.                 *)
(*                                                                         *)
(* A notification goes from the handler (the client's goroutine) to the    *)
(* forwarder and from there to a command of the terminal program, through  *)
(* channels without a buffer, and then to the program's event loop.        *)
(***************************************************************************)
EXTENDS Naturals, Sequences, FiniteSetsExt

CONSTANTS
    Store,          \* the address store and the resource store
    Name, Value,
    Absent,         \* no value
    Garbled,        \* a resource that cannot be unmarshalled
    Unprintable,    \* values whose message cannot be marshalled to JSON
    Nothing,        \* no notification
    MaxCalls        \* bound: handler calls

Contents == [Name -> Value \cup {Absent}]

\* An UPDATE has messages, a REMOVE names.  A message says which resource it describes,
\* by its uid, hostname or key: both are by name here, a removed resource as absent.
Note == [store : Store, values : UNION {[S -> Value \cup {Absent}] : S \in SUBSET Name}]

ASSUME DebugAssumption ==
    /\ Absent \notin Value /\ Garbled \notin Value /\ Unprintable \subseteq Value
    /\ Nothing \notin Note
    /\ MaxCalls \in Nat

VARIABLES
    program,        \* "adsgui" or "dump"
    process,        \* "running" or "ended"
    content,
    pc,             \* the client's goroutine: "idle", "update", "remove" or "notify"
    todo,           \* the rest of the call's batch
    note,           \* the notification that the call builds
    forwarding,     \* the forwarder's notification
    started,        \* the terminal program runs
    waiters,        \* commands that wait for activity
    arrived,        \* notifications that commands have for the event loop
    list,
    calls

call == <<pc, todo, note>>
tui == <<started, waiters, arrived, list>>
vars == <<program, process, content, call, forwarding, tui, calls>>

Running == process = "running"

-----------------------------------------------------------------------------
(* The stores *)

Called(s, batch) ==
    /\ Running /\ pc = "idle"
    /\ calls < MaxCalls /\ calls' = calls + 1
    /\ todo' = batch
    /\ note' = [store |-> s, values |-> <<>>]
    /\ UNCHANGED <<program, process, content, forwarding, tui>>

UpdateBegins(s, batch) == Called(s, batch) /\ pc' = "update"
RemoveBegins(s, names) == Called(s, [n \in names |-> Absent]) /\ pc' = "remove"

\* The rest of the batch without n, and n with its value in the notification.
Rest(n) == [other \in DOMAIN todo \ {n} |-> todo[other]]
Noted(n) == [note EXCEPT !.values =
                [other \in DOMAIN @ \cup {n} |-> IF other = n THEN todo[n] ELSE @[other]]]

\* The mutant stores what it could not unmarshal.
UpdateStoresAll(n) ==
    /\ Running /\ pc = "update" /\ n \in DOMAIN todo
    /\ todo' = Rest(n) /\ note' = Noted(n)
    /\ content' = [content EXCEPT ![note.store][n] = todo[n]]
    /\ UNCHANGED <<program, process, pc, forwarding, tui, calls>>

UpdateStores(n) ==
    /\ Running /\ pc = "update" /\ n \in DOMAIN todo
    /\ todo' = Rest(n)
    /\ IF todo[n] = Garbled
       THEN UNCHANGED <<note, content>>
       ELSE note' = Noted(n) /\ content' = [content EXCEPT ![note.store][n] = todo[n]]
    /\ UNCHANGED <<program, process, pc, forwarding, tui, calls>>

\* The notification has every name of the call, those that were not held included.
RemoveDeletes(n) ==
    /\ Running /\ pc = "remove" /\ n \in DOMAIN todo
    /\ todo' = Rest(n) /\ note' = Noted(n)
    /\ content' = [content EXCEPT ![note.store][n] = Absent]
    /\ UNCHANGED <<program, process, pc, forwarding, tui, calls>>

\* dump has not called Notify, so that wantNotify is false.
LoopEnds ==
    /\ Running /\ pc \in {"update", "remove"} /\ DOMAIN todo = {}
    /\ pc' = IF program = "adsgui" THEN "notify" ELSE "idle"
    /\ UNCHANGED <<program, process, content, todo, note, forwarding, tui, calls>>

-----------------------------------------------------------------------------
(* adsgui *)

\* joinMessages leaves out what cannot be marshalled.
Printed(n) ==
    LET printable == {name \in DOMAIN n.values : n.values[name] \notin Unprintable}
    IN  [n EXCEPT !.values = [name \in printable |-> @[name]]]

\* The mutant forgets to send a removal on.
ForwarderReceivesUpdates ==
    /\ Running /\ pc = "notify" /\ forwarding = Nothing
    /\ pc' = "idle"
    /\ forwarding' = IF \E n \in DOMAIN note.values : note.values[n] = Absent
                     THEN Nothing ELSE Printed(note)
    /\ UNCHANGED <<program, process, content, todo, note, tui, calls>>

\* Without a buffer, sending and receiving are one step: the handler returns.
ForwarderReceives ==
    /\ Running /\ pc = "notify" /\ forwarding = Nothing
    /\ pc' = "idle"
    /\ forwarding' = Printed(note)
    /\ UNCHANGED <<program, process, content, todo, note, tui, calls>>

ForwarderSends ==
    /\ Running /\ forwarding # Nothing /\ waiters > 0
    /\ forwarding' = Nothing
    /\ arrived' = Append(arrived, forwarding)
    /\ waiters' = waiters - 1
    /\ UNCHANGED <<program, process, content, call, started, list, calls>>

\* The mutant starts to wait twice.
InitTwice ==
    /\ Running /\ program = "adsgui"
    /\ ~started /\ started' = TRUE
    /\ waiters' = 2
    /\ UNCHANGED <<program, process, content, call, forwarding, arrived, list, calls>>

\* model.Init: the terminal program starts after the client, with one command.
InitModel ==
    /\ Running /\ program = "adsgui"
    /\ ~started /\ started' = TRUE
    /\ waiters' = 1
    /\ UNCHANGED <<program, process, content, call, forwarding, arrived, list, calls>>

\* What several commands have is taken in any order.
Taken(i) ==
    /\ Running /\ i \in DOMAIN arrived
    /\ list' = Append(list, arrived[i])
    /\ arrived' = SubSeq(arrived, 1, i - 1) \o SubSeq(arrived, i + 1, Len(arrived))

\* The mutant shows what arrived and waits no more.
ActivityOnce(i) ==
    /\ Taken(i)
    /\ UNCHANGED <<program, process, content, call, forwarding, started, waiters, calls>>

\* model.Update lists a notification and waits for the next.
Activity(i) ==
    /\ Taken(i)
    /\ waiters' = waiters + 1
    /\ UNCHANGED <<program, process, content, call, forwarding, started, calls>>

\* The user quits, which ends the process with all its goroutines.
Quit ==
    /\ Running /\ started
    /\ process' = "ended"
    /\ UNCHANGED <<program, content, call, forwarding, tui, calls>>

\* Start returns an error: adsgui panics, dump exits.
ClientFails ==
    /\ Running /\ pc = "idle"
    /\ process' = "ended"
    /\ UNCHANGED <<program, content, call, forwarding, tui, calls>>

-----------------------------------------------------------------------------
Init ==
    /\ program \in {"adsgui", "dump"} /\ process = "running"
    /\ content = [s \in Store |-> [n \in Name |-> Absent]]
    /\ pc = "idle" /\ todo = <<>> /\ note = Nothing
    /\ forwarding = Nothing
    /\ started = FALSE /\ waiters = 0 /\ arrived = <<>> /\ list = <<>>
    /\ calls = 0

\* The handlers' own steps, the forwarder and the event loop.
Handler == (\E n \in Name : UpdateStores(n) \/ RemoveDeletes(n)) \/ LoopEnds
Forwarder == ForwarderReceives \/ ForwarderSends
EventLoop == InitModel \/ \E i \in DOMAIN arrived : Activity(i)

Next ==
    \/ \E s \in Store, names \in SUBSET Name :
          \/ \E batch \in [names -> Value \cup {Garbled}] : UpdateBegins(s, batch)
          \/ RemoveBegins(s, names)
    \/ Handler \/ Forwarder \/ EventLoop
    \/ Quit \/ ClientFails

Spec == Init /\ [][Next]_vars

\* Goroutines are scheduled, and commands and messages of the terminal program run.
FairSpec == Spec /\ WF_vars(Handler) /\ WF_vars(Forwarder) /\ WF_vars(EventLoop)

-----------------------------------------------------------------------------
(* Properties *)

\* The variables hold values of the kinds the Go declarations give them.
TypeOK ==
    /\ program \in {"adsgui", "dump"} /\ process \in {"running", "ended"}
    /\ content \in [Store -> Contents]
    /\ pc \in {"idle", "update", "remove", "notify"}
    /\ DOMAIN todo \subseteq Name
    /\ note \in Note \cup {Nothing} /\ forwarding \in Note \cup {Nothing}
    /\ started \in BOOLEAN /\ waiters \in Nat
    /\ arrived \in Seq(Note) /\ list \in Seq(Note)

\* What a sequence of notifications says of the stores: of each resource, the last.
Says(notes) ==
    [s \in Store |-> [n \in Name |->
        LET at == {i \in DOMAIN notes :
                      notes[i].store = s /\ n \in DOMAIN notes[i].values}
        IN  IF at = {} THEN Absent ELSE notes[Max(at)].values[n]]]

Pipeline ==
    list \o arrived
         \o (IF forwarding = Nothing THEN <<>> ELSE <<forwarding>>)
         \o (IF pc = "idle" THEN <<>> ELSE <<note>>)

\* Notifications show the stores' content, but for what cannot be printed.
Shown(notes) ==
    \A s \in Store, n \in Name : content[s][n] \in Unprintable \cup {Says(notes)[s][n]}

\* Whoever reads the list from top to bottom and then the pipeline, which holds at most
\* three notifications, has the stores' content: none is lost, repeated or overtaken
\* between the handlers, the forwarder's select, and the commands of the terminal
\* program. Excepted are resources whose latest message cannot be marshalled, which the
\* forwarder leaves out: the list keeps the one before.
ListFollowsContent ==
    program = "adsgui" => Shown(Pipeline) /\ Len(Pipeline) <= Len(list) + 3

\* Once the terminal program runs, one command waits for activity or has a notification
\* for the event loop, never two: a second could list what came later first, and with
\* none the forwarder and the handler behind it would wait for ever.
OneReader == started => waiters + Len(arrived) = 1

\* A handler that waits for its notification to be taken gets to return, so that the
\* client receives the next response and notices its cancellation.
HandlerReturns == (pc # "idle") ~> (pc = "idle" \/ process = "ended")

\* In the end the list shows what the stores hold and can be printed.
ListCatchesUp == <>[](process = "ended" \/ program = "dump" \/ Shown(list))

=============================================================================
