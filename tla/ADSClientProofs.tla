-------------------------- MODULE ADSClientProofs --------------------------
(***************************************************************************)
(* Proofs about ADSClient, for any sets of types, names and versions, and  *)
(* for every bound on the environment.                                     *)
(***************************************************************************)
EXTENDS ADSClient, SequenceTheorems, TLAPS

-----------------------------------------------------------------------------
(* Responses and what handlers make of them *)

LEMMA ResponseType ==
    ASSUME NEW r \in Response
    PROVE  /\ r.type \in Type \cup {Unknown}
           /\ DOMAIN r.changes \subseteq Name
           /\ \A n \in DOMAIN r.changes : r.changes[n] \in State
           /\ Removed(r) \subseteq DOMAIN r.changes
           /\ Updated(r) \subseteq DOMAIN r.changes
           /\ DOMAIN r.changes = Removed(r) \cup Updated(r)
           /\ Removed(r) \cap Updated(r) = {}
BY DEF Response, Removed, Updated

LEMMA ResponseBuilt ==
    ASSUME NEW t \in Type \cup {Unknown}, NEW N \in SUBSET Name, NEW f \in [N -> State]
    PROVE  [type |-> t, changes |-> f] \in Response
BY DEF Response

\* A handler that applies the names N of a response holds them, and elsewhere what
\* it held before.
LEMMA AppliedProperties ==
    ASSUME NEW r \in Response, r.type \in Type, NEW N \in SUBSET DOMAIN r.changes,
           held \in [Type -> [Name -> State]]
    PROVE  /\ Applied(r, N) \in [Type -> [Name -> State]]
           /\ \A n \in N : Applied(r, N)[r.type][n] = r.changes[n]
           /\ \A n \in Name \ N : Applied(r, N)[r.type][n] = held[r.type][n]
<1>1. /\ N \subseteq Name
      /\ \A n \in N : r.changes[n] \in State
  BY ResponseType
<1> DEFINE f == [n \in Name |-> IF n \in N THEN r.changes[n] ELSE held[r.type][n]]
<1>2. f \in [Name -> State]
  BY <1>1
<1>3. Applied(r, N) = [held EXCEPT ![r.type] = f]
  BY DEF Applied
<1>4. Applied(r, N)[r.type] = f
  BY <1>3
<1> HIDE DEF f
<1>5. Applied(r, N) \in [Type -> [Name -> State]]
  BY <1>2, <1>3
<1>6. \A n \in Name : f[n] = IF n \in N THEN r.changes[n] ELSE held[r.type][n]
  BY DEF f
<1> QED
  BY <1>1, <1>4, <1>5, <1>6

\* What a call with the names N of a response leaves of the handlers.
LEMMA CallType ==
    ASSUME TypeOK, resp \in Response, resp.type \in Type,
           NEW N \in SUBSET DOMAIN resp.changes,
           \/ CallSucceeds(N)
           \/ /\ CallFails(N)
              /\ \E M \in SUBSET DOMAIN resp.changes : refused' = refused \cup Of(resp, M)
    PROVE  /\ held' \in [Type -> [Name -> State]]
           /\ refused' \subseteq Type \X Name
           /\ errors' \in 0 .. MaxErrors
           /\ handlerErr' \in BOOLEAN
<1>1. Applied(resp, N) \in [Type -> [Name -> State]]
  BY AppliedProperties DEF TypeOK
<1>2. \A M \in SUBSET DOMAIN resp.changes : Of(resp, M) \subseteq Type \X Name
  BY ResponseType DEF Of
<1>3. CASE CallSucceeds(N)
  BY <1>1, <1>3 DEF TypeOK, CallSucceeds
<1>4. CASE /\ CallFails(N)
           /\ \E M \in SUBSET DOMAIN resp.changes : refused' = refused \cup Of(resp, M)
  <2>1. refused' \subseteq Type \X Name
    BY <1>2, <1>4 DEF TypeOK
  <2>2. errors' \in 0 .. MaxErrors
    BY <1>4, ClientAssumption DEF TypeOK, CallFails, ClientAssumption
  <2> QED
    BY <1>1, <1>4, <2>1, <2>2 DEF TypeOK, CallFails
<1> QED
  BY <1>3, <1>4

-----------------------------------------------------------------------------
(* Type correctness.  It needs to know which response a handler call is about *)

CallInv ==
    /\ pc \in {"remove", "update"} => resp \in Response /\ resp.type \in Type
    /\ pc = "ack" => resp \in Response /\ resp.type \in Type \cup {Unknown}

TypeInv == TypeOK /\ CallInv

LEMMA RetryType ==
    ASSUME TypeOK, Retry
    PROVE  /\ pc' \in {"start", "done"}
           /\ attempt' \in {0, 1} /\ reconnectDelay' \in Nat
BY DEF TypeOK, Retry, Return, start

LEMMA RecvType ==
    ASSUME TypeOK, Recv
    PROVE  /\ resp' \in Response /\ down' \in Seq(Response)
           /\ handlerErr' = FALSE
BY HeadTailProperties DEF TypeOK, Recv

LEMMA TypeInit == Init => TypeInv
<1> SUFFICES ASSUME Init
             PROVE  TypeInv
  OBVIOUS
<1> USE DEF Init
<1>1. /\ world \in [Type -> [Name -> State]]
      /\ held \in [Type -> [Name -> State]]
  BY DEF State
<1>2. sent \in [Type -> [Name -> State \cup {NotSent}]]
  OBVIOUS
<1>3. down \in Seq(Response)
  OBVIOUS
<1>4. CallInv
  BY DEF CallInv
<1>5. reconnectDelay \in Nat
  BY ClientAssumption DEF ClientAssumption
<1>6. changes \in 0 .. MaxChanges /\ failures \in 0 .. MaxFailures /\ errors \in 0 .. MaxErrors
  BY ClientAssumption DEF ClientAssumption
<1> QED
  BY <1>1, <1>2, <1>3, <1>4, <1>5, <1>6 DEF TypeInv, TypeOK

LEMMA TypeNext == TypeInv /\ [Next]_vars => TypeInv'
<1> SUFFICES ASSUME TypeInv, [Next]_vars
             PROVE  TypeInv'
  OBVIOUS
<1> USE DEF TypeInv, TypeOK, CallInv, start, call, handlers, server
<1>1. CASE StartCanceled
  BY <1>1 DEF StartCanceled, Return
<1>2. CASE StartAttempt
  BY <1>2 DEF StartAttempt
<1>3. CASE DelayElapses
  BY <1>3, ClientAssumption DEF DelayElapses, NextDelay, ClientAssumption
<1>4. CASE StreamOpens
  BY <1>4 DEF StreamOpens
<1>5. CASE StreamFailsToOpen
  BY <1>5, RetryType, ClientAssumption DEF StreamFailsToOpen, ClientAssumption
<1>6. ASSUME NEW t \in Type, Subscribe(t)
      PROVE  TypeInv'
  BY <1>6 DEF Subscribe
<1>7. CASE SubscribeFails
  BY <1>7, RetryType DEF SubscribeFails
<1>8. CASE SubscribeEnds
  BY <1>8 DEF SubscribeEnds
<1>9. CASE CheckContext
  BY <1>9 DEF CheckContext, Return
<1>10. CASE RecvEnds
  BY <1>10, RetryType DEF RecvEnds, Return
<1>11. CASE RecvUnknown
  BY <1>11, RecvType DEF RecvUnknown
<1>12. CASE RecvNilHandled
  BY <1>12, RecvType, RetryType DEF RecvNilHandled
<1>13. CASE RecvHandled
  BY <1>13, RecvType DEF RecvHandled
<1>14. CASE HandlerRemoves
  <2>1. pc = "remove" /\ pc' = "update" /\ resp \in Response /\ resp.type \in Type
    BY <1>14 DEF HandlerRemoves
  <2>2. Removed(resp) \subseteq DOMAIN resp.changes
    BY <2>1, ResponseType
  <2>3. /\ held' \in [Type -> [Name -> State]]
        /\ refused' \subseteq Type \X Name
        /\ errors' \in 0 .. MaxErrors
        /\ handlerErr' \in BOOLEAN
    BY <1>14, <2>1, <2>2, CallType DEF HandlerRemoves
  <2> QED
    BY <1>14, <2>1, <2>3 DEF HandlerRemoves
<1>15. CASE HandlerUpdates
  <2>1. pc = "update" /\ pc' = "ack" /\ resp \in Response /\ resp.type \in Type
    BY <1>15 DEF HandlerUpdates
  <2>2. Updated(resp) \subseteq DOMAIN resp.changes
    BY <2>1, ResponseType
  <2>3. /\ held' \in [Type -> [Name -> State]]
        /\ refused' \subseteq Type \X Name
        /\ errors' \in 0 .. MaxErrors
        /\ handlerErr' \in BOOLEAN
    BY <1>15, <2>1, <2>2, CallType DEF HandlerUpdates
  <2> QED
    BY <1>15, <2>1, <2>3 DEF HandlerUpdates
<1>16. CASE SendAck
  BY <1>16, RetryType DEF SendAck
<1>17. CASE Cancel
  BY <1>17 DEF Cancel
<1>18. ASSUME NEW t \in Type, NEW n \in Name, WorldChanges(t, n)
       PROVE  TypeInv'
  BY <1>18, ClientAssumption DEF WorldChanges, ClientAssumption
<1>19. ASSUME NEW t \in Type, ServerSends(t)
       PROVE  TypeInv'
  <2> DEFINE r == [type |-> t, changes |-> [n \in Unsent(t) |-> world[t][n]]]
  <2>1. [n \in Unsent(t) |-> world[t][n]] \in [Unsent(t) -> State]
    BY DEF Unsent
  <2>2. r \in Response
    BY <2>1, ResponseBuilt DEF Unsent
  <2>3. down' \in Seq(Response)
    BY <1>19, <2>2, AppendProperties DEF ServerSends
  <2>4. sent' \in [Type -> [Name -> State \cup {NotSent}]]
    BY <1>19 DEF ServerSends
  <2> QED
    BY <1>19, <2>3, <2>4 DEF ServerSends
<1>20. CASE ServerSendsUnknown
  <2> DEFINE r == [type |-> Unknown, changes |-> [n \in {} |-> Absent]]
  <2>1. r \in Response
    <3>1. [n \in {} |-> Absent] \in [{} -> State]
      OBVIOUS
    <3> QED
      BY <3>1, ResponseBuilt
  <2>2. down' \in Seq(Response)
    BY <1>20, <2>1, AppendProperties DEF ServerSendsUnknown
  <2> QED
    BY <1>20, <2>2, ClientAssumption DEF ServerSendsUnknown, ClientAssumption
<1>21. CASE StreamEnds
  <2>1. \A i \in 0 .. Len(down) : SubSeq(down, 1, i) \in Seq(Response)
    BY SubSeqProperties
  <2> QED
    BY <1>21, <2>1, ClientAssumption DEF StreamEnds, ClientAssumption
<1>22. CASE UNCHANGED vars
  BY <1>22 DEF vars
<1> QED
  BY <1>1, <1>2, <1>3, <1>4, <1>5, <1>6, <1>7, <1>8, <1>9, <1>10, <1>11, <1>12,
     <1>13, <1>14, <1>15, <1>16, <1>17, <1>18, <1>19, <1>20, <1>21, <1>22
  DEF Next, Client, Environment

\* The variables of the client always hold values of the kinds the Go declarations
\* give them, and handlers are only called about a response of a type they handle.
THEOREM TypeCorrect == Spec => [](TypeOK /\ CallInv)
BY TypeInit, TypeNext, PTL DEF Spec, TypeInv

-----------------------------------------------------------------------------
(* Acknowledgements *)

\* Between the two calls, what Remove was to apply is applied, or the error is set.
AckInv ==
    /\ (pc = "update" /\ ~handlerErr) =>
          \A n \in Removed(resp) : held[resp.type][n] = resp.changes[n]
    /\ AckMeansApplied

LEMMA AckNext == TypeInv /\ AckInv /\ [Next]_vars => AckInv'
<1> SUFFICES ASSUME TypeInv, AckInv, [Next]_vars
             PROVE  AckInv'
  OBVIOUS
<1> USE DEF AckInv, AckMeansApplied
<1>1. CASE HandlerRemoves
  <2>1. pc = "remove" /\ pc' = "update" /\ resp' = resp
    BY <1>1 DEF HandlerRemoves
  <2>2. resp \in Response /\ resp.type \in Type /\ held \in [Type -> [Name -> State]]
    BY <2>1 DEF TypeInv, TypeOK, CallInv
  <2>3. Removed(resp) \subseteq DOMAIN resp.changes /\ Removed(resp)' = Removed(resp)
    BY <2>1, <2>2, ResponseType DEF Removed
  <2>4. CASE Removed(resp) = {}
    BY <2>1, <2>3, <2>4
  <2>5. CASE Removed(resp) # {} /\ CallSucceeds(Removed(resp))
    BY <2>1, <2>2, <2>3, <2>5, AppliedProperties DEF CallSucceeds
  <2>6. CASE Removed(resp) # {} /\ CallFails(Removed(resp))
    BY <2>1, <2>6 DEF CallFails
  <2> QED
    BY <1>1, <2>4, <2>5, <2>6 DEF HandlerRemoves
<1>2. CASE HandlerUpdates
  <2>1. pc = "update" /\ pc' = "ack" /\ resp' = resp
    BY <1>2 DEF HandlerUpdates
  <2>2. resp \in Response /\ resp.type \in Type /\ held \in [Type -> [Name -> State]]
    BY <2>1 DEF TypeInv, TypeOK, CallInv
  <2>3. /\ Updated(resp) \subseteq DOMAIN resp.changes
        /\ DOMAIN resp.changes = Removed(resp) \cup Updated(resp)
        /\ Removed(resp) \cap Updated(resp) = {}
        /\ DOMAIN resp.changes \subseteq Name
    BY <2>2, ResponseType
  <2>4. CASE /\ Updated(resp) = {} \/ handlerErr
             /\ UNCHANGED <<handlerErr, handlers>>
    BY <2>1, <2>3, <2>4 DEF handlers
  <2>5. CASE ~handlerErr /\ CallSucceeds(Updated(resp))
    <3>1. \A n \in Updated(resp) : held'[resp.type][n] = resp.changes[n]
      BY <2>2, <2>3, <2>5, AppliedProperties DEF CallSucceeds
    <3>2. \A n \in Removed(resp) : held'[resp.type][n] = held[resp.type][n]
      BY <2>2, <2>3, <2>5, AppliedProperties DEF CallSucceeds
    <3> QED
      BY <2>1, <2>3, <2>5, <3>1, <3>2
  <2>6. CASE CallFails(Updated(resp))
    BY <2>1, <2>6 DEF CallFails
  <2> QED
    BY <1>2, <2>4, <2>5, <2>6 DEF HandlerUpdates
<1>3. CASE RecvUnknown
  BY <1>3 DEF RecvUnknown
<1>4. CASE StartCanceled \/ StartAttempt \/ DelayElapses \/ StreamOpens \/ StreamFailsToOpen
  BY <1>4 DEF StartCanceled, StartAttempt, DelayElapses, StreamOpens, StreamFailsToOpen,
              Retry, Return
<1>5. CASE (\E t \in Type : Subscribe(t)) \/ SubscribeFails \/ SubscribeEnds
  BY <1>5 DEF Subscribe, SubscribeFails, SubscribeEnds, Retry, Return
<1>6. CASE CheckContext \/ RecvEnds \/ RecvNilHandled \/ RecvHandled
  BY <1>6 DEF CheckContext, RecvEnds, RecvNilHandled, RecvHandled, Retry, Return
<1>7. CASE SendAck
  BY <1>7 DEF SendAck, Retry, Return
<1>8. CASE UNCHANGED <<pc, call, held>>
  BY <1>8 DEF call, Removed
<1>9. CASE Environment
  BY <1>8, <1>9 DEF Environment, Cancel, WorldChanges, ServerSends, ServerSendsUnknown,
                    StreamEnds, handlers
<1> QED
  BY <1>1, <1>2, <1>3, <1>4, <1>5, <1>6, <1>7, <1>8, <1>9
  DEF Next, Client, vars, handlers

\* The client acknowledges a response positively only if both handler calls have
\* applied all of it.
THEOREM AckCorrect == Spec => []AckMeansApplied
<1>1. Init => AckInv
  BY DEF Init, AckInv, AckMeansApplied
<1>2. Spec => []AckInv
  BY <1>1, AckNext, TypeInit, TypeNext, PTL DEF Spec
<1> QED
  BY <1>2, PTL DEF AckInv

-----------------------------------------------------------------------------
(* No update is lost on an open stream *)

\* No error is set before the first call; what a failed Remove leaves to Update,
\* which is not called, is refused.
RefusedInv ==
    /\ pc = "remove" => ~handlerErr
    /\ (pc = "update" /\ handlerErr) => Of(resp, Updated(resp)) \subseteq refused

LossInv == NoLostUpdate /\ RefusedInv

\* Taking a response off the queue moves its names to the response at hand, if their
\* last mention was there, and shifts the other mentions.
LEMMA RecvUpToDate ==
    ASSUME TypeInv, pc = "recv", Recv, UNCHANGED <<sent, held, refused>>,
           NEW t \in Type, NEW n \in Name, UpToDate(t, n),
           \/ pc' = "remove"
           \/ pc' = "ack" /\ resp'.type = Unknown
    PROVE  UpToDate(t, n)'
<1>1. /\ down \in Seq(Response) /\ down # <<>> /\ Len(down) \in Nat \ {0}
      /\ Len(down') = Len(down) - 1
      /\ \A i \in 1 .. Len(down) - 1 : down'[i] = down[i + 1]
      /\ resp' = down[1]
  BY HeadTailProperties DEF TypeInv, TypeOK, Recv
<1>2. Mentions(t, n) \subseteq 1 .. Len(down) /\ Mentions(t, n)' \subseteq 1 .. Len(down) - 1
  BY <1>1 DEF Mentions
<1>3. \A i \in 1 .. Len(down) - 1 : i \in Mentions(t, n)' <=> i + 1 \in Mentions(t, n)
  BY <1>1 DEF Mentions
<1>4. 1 \in Mentions(t, n) <=> resp'.type = t /\ n \in DOMAIN resp'.changes
  BY <1>1 DEF Mentions
<1>5. \A i \in Mentions(t, n)' :
         (\A j \in Mentions(t, n)' : j <= i) => down'[i].changes[n] = sent[t][n]
  <2> SUFFICES ASSUME NEW i \in Mentions(t, n)', \A j \in Mentions(t, n)' : j <= i
               PROVE  down'[i].changes[n] = sent[t][n]
    OBVIOUS
  <2>1. i \in 1 .. Len(down) - 1 /\ i + 1 \in Mentions(t, n)
    BY <1>2, <1>3
  <2>2. ASSUME NEW j \in Mentions(t, n)
        PROVE  j <= i + 1
    <3>1. j \in 1 .. Len(down)
      BY <1>2
    <3>2. CASE j = 1
      BY <2>1, <3>2
    <3>3. CASE j # 1
      <4>1. j - 1 \in 1 .. Len(down) - 1 /\ (j - 1) + 1 = j
        BY <1>1, <3>1, <3>3
      <4>2. j - 1 \in Mentions(t, n)'
        BY <1>3, <4>1
      <4> QED
        BY <2>1, <3>1, <4>2
    <3> QED
      BY <3>2, <3>3
  <2>3. down[i + 1].changes[n] = sent[t][n]
    BY <2>1, <2>2 DEF UpToDate
  <2> QED
    BY <1>1, <2>1, <2>3
<1>6. ASSUME Mentions(t, n)' = {}
      PROVE  IF AtHand(t, n)'
             THEN resp'.changes[n] = sent[t][n]
             ELSE held[t][n] = sent[t][n] \/ <<t, n>> \in refused
  <2>1. ASSUME NEW i \in Mentions(t, n)
        PROVE  i = 1
    <3>1. i \in 1 .. Len(down)
      BY <1>2
    <3>2. ASSUME i # 1
          PROVE  FALSE
      <4>1. i - 1 \in 1 .. Len(down) - 1 /\ (i - 1) + 1 = i
        BY <1>1, <3>1, <3>2
      <4> QED
        BY <1>3, <1>6, <2>1, <4>1
    <3> QED
      BY <3>2
  <2>2. CASE 1 \in Mentions(t, n)
    <3>1. down[1].changes[n] = sent[t][n]
      BY <2>1, <2>2 DEF UpToDate
    <3>2. resp'.type # Unknown
      BY <1>4, <2>2, ClientAssumption DEF ClientAssumption
    <3>3. AtHand(t, n)'
      BY <1>4, <2>2, <3>2 DEF AtHand, Unhandled
    <3> QED
      BY <1>1, <3>1, <3>3
  <2>3. CASE 1 \notin Mentions(t, n)
    <3>1. Mentions(t, n) = {}
      BY <2>1, <2>3
    <3>2. ~AtHand(t, n)
      BY DEF AtHand, Unhandled
    <3>3. ~AtHand(t, n)'
      BY <1>4, <2>3 DEF AtHand, Unhandled
    <3> QED
      BY <3>1, <3>2, <3>3 DEF UpToDate
  <2> QED
    BY <2>2, <2>3
<1> QED
  BY <1>5, <1>6 DEF UpToDate

\* A handler call, or its omission, settles the names N of the response at hand: they
\* are held as the response says or refused.  Nothing else of the handlers changes.
LEMMA CallUpToDate ==
    ASSUME TypeInv, resp \in Response, resp.type \in Type,
           UNCHANGED <<resp, down, sent>>,
           NEW N \in SUBSET Unhandled, Unhandled' = Unhandled \ N,
           NEW t \in Type, NEW n \in Name, UpToDate(t, n),
           (t = resp.type /\ n \in N) =>
              held'[t][n] = resp.changes[n] \/ <<t, n>> \in refused',
           ~(t = resp.type /\ n \in N) =>
              /\ held'[t][n] = held[t][n]
              /\ <<t, n>> \in refused => <<t, n>> \in refused'
    PROVE  UpToDate(t, n)'
<1>1. Mentions(t, n)' = Mentions(t, n)
  BY DEF Mentions
<1>2. CASE t = resp.type /\ n \in N
  <2>1. AtHand(t, n) /\ ~AtHand(t, n)'
    BY <1>2 DEF AtHand
  <2> QED
    BY <1>1, <1>2, <2>1 DEF UpToDate
<1>3. CASE ~(t = resp.type /\ n \in N)
  <2>1. AtHand(t, n)' = AtHand(t, n)
    BY <1>3 DEF AtHand
  <2> QED
    BY <1>1, <1>3, <2>1 DEF UpToDate
<1> QED
  BY <1>2, <1>3

\* Between calls, only the queue and what was sent matter.
LEMMA IdleUpToDate ==
    ASSUME UNCHANGED <<down, sent, held, refused>>,
           pc \notin {"remove", "update"}, pc' \notin {"remove", "update"},
           NEW t \in Type, NEW n \in Name, UpToDate(t, n)
    PROVE  UpToDate(t, n)'
<1>1. ~AtHand(t, n) /\ ~AtHand(t, n)'
  BY DEF AtHand, Unhandled
<1>2. Mentions(t, n)' = Mentions(t, n)
  BY DEF Mentions
<1> QED
  BY <1>1, <1>2 DEF UpToDate

\* A response r that the server adds is the last mention of its names, with what the
\* server now has sent of them, and leaves the other names alone.
LEMMA AppendUpToDate ==
    ASSUME TypeInv, NEW r \in Response, down' = Append(down, r),
           UNCHANGED <<pc, resp, held, refused>>,
           NEW t \in Type, NEW n \in Name,
           \/ r.type = t /\ n \in DOMAIN r.changes /\ r.changes[n] = sent'[t][n]
           \/ /\ ~(r.type = t /\ n \in DOMAIN r.changes)
              /\ sent'[t][n] = sent[t][n] /\ UpToDate(t, n)
    PROVE  UpToDate(t, n)'
<1>1. /\ Len(down) \in Nat /\ Len(down') = Len(down) + 1
      /\ \A i \in 1 .. Len(down) : down'[i] = down[i]
      /\ down'[Len(down) + 1] = r
  BY AppendProperties DEF TypeInv, TypeOK
<1>2. AtHand(t, n)' = AtHand(t, n)
  BY DEF AtHand, Unhandled, Updated
<1>3. CASE r.type = t /\ n \in DOMAIN r.changes /\ r.changes[n] = sent'[t][n]
  <2>1. Len(down) + 1 \in Mentions(t, n)' /\ Mentions(t, n)' \subseteq 1 .. Len(down) + 1
    BY <1>1, <1>3 DEF Mentions
  <2>2. ASSUME NEW i \in Mentions(t, n)', \A j \in Mentions(t, n)' : j <= i
        PROVE  i = Len(down) + 1
    BY <1>1, <2>1, <2>2
  <2> QED
    BY <1>1, <1>3, <2>1, <2>2 DEF UpToDate
<1>4. CASE /\ ~(r.type = t /\ n \in DOMAIN r.changes)
           /\ sent'[t][n] = sent[t][n] /\ UpToDate(t, n)
  <2>1. Mentions(t, n)' = Mentions(t, n) /\ Mentions(t, n) \subseteq 1 .. Len(down)
    BY <1>1, <1>4 DEF Mentions
  <2> QED
    BY <1>1, <1>2, <1>4, <2>1 DEF UpToDate
<1> QED
  BY <1>3, <1>4

LEMMA LossNext == TypeInv /\ LossInv /\ [Next]_vars => LossInv'
<1> SUFFICES ASSUME TypeInv, LossInv, [Next]_vars
             PROVE  LossInv'
  OBVIOUS
<1> USE DEF LossInv, RefusedInv, NoLostUpdate
<1>1. CASE StreamOpens
  BY <1>1 DEF StreamOpens
<1>2. CASE RecvUnknown \/ RecvHandled
  <2>1. /\ pc = "recv" /\ Recv /\ UNCHANGED <<stream, sent, held, refused>>
        /\ pc' \in {"remove", "ack"} /\ ~handlerErr'
        /\ pc' = "ack" => resp'.type = Unknown
    BY <1>2 DEF RecvUnknown, RecvHandled, Recv, server, handlers
  <2> QED
    BY <2>1, RecvUpToDate
<1>3. CASE RecvNilHandled
  BY <1>3 DEF RecvNilHandled, Retry, Return
<1>4. CASE HandlerRemoves
  <2>1. pc = "remove" /\ pc' = "update" /\ UNCHANGED <<resp, stream, down, sent>>
    BY <1>4 DEF HandlerRemoves, server
  <2>2. resp \in Response /\ resp.type \in Type /\ held \in [Type -> [Name -> State]]
    BY <2>1 DEF TypeInv, TypeOK, CallInv
  <2>3. /\ Removed(resp) \in SUBSET Unhandled
        /\ Unhandled' = Unhandled \ Removed(resp)
    BY <2>1, <2>2, ResponseType DEF Unhandled, Updated, Removed
  <2>4. ASSUME NEW t \in Type, NEW n \in Name
        PROVE  /\ (t = resp.type /\ n \in Removed(resp)) =>
                     held'[t][n] = resp.changes[n] \/ <<t, n>> \in refused'
               /\ ~(t = resp.type /\ n \in Removed(resp)) =>
                     /\ held'[t][n] = held[t][n]
                     /\ <<t, n>> \in refused => <<t, n>> \in refused'
    <3> DEFINE N == Removed(resp)
    <3>1. N \subseteq DOMAIN resp.changes
      BY <2>2, ResponseType
    <3>2. /\ \A m \in N : Applied(resp, N)[resp.type][m] = resp.changes[m]
          /\ \A m \in Name \ N : Applied(resp, N)[resp.type][m] = held[resp.type][m]
      BY <2>2, <3>1, AppliedProperties
    <3>3. t # resp.type => Applied(resp, N)[t][n] = held[t][n]
      BY <2>2 DEF Applied
    <3>4. \A m : <<t, n>> \in Of(resp, m) <=> t = resp.type /\ n \in m
      BY DEF Of
    <3> HIDE DEF N
    <3>5. CASE N = {} /\ UNCHANGED handlers
      BY <3>5 DEF handlers, N
    <3>6. CASE CallSucceeds(N)
      BY <3>2, <3>3, <3>4, <3>6 DEF CallSucceeds, N
    <3>7. CASE CallFails(N) /\ refused' = refused \cup Of(resp, DOMAIN resp.changes)
      BY <3>1, <3>2, <3>3, <3>4, <3>7 DEF CallFails, N
    <3> QED
      BY <1>4, <3>5, <3>6, <3>7 DEF HandlerRemoves, N
  <2>5. ASSUME handlerErr'
        PROVE  Of(resp, Updated(resp))' \subseteq refused'
    <3>1. refused' = refused \cup Of(resp, DOMAIN resp.changes)
      BY <1>4, <2>1, <2>5 DEF HandlerRemoves, CallSucceeds
    <3>2. Updated(resp) \subseteq DOMAIN resp.changes
      BY <2>2, ResponseType
    <3> QED
      BY <2>1, <3>1, <3>2 DEF Of, Updated
  <2> QED
    BY <2>1, <2>2, <2>3, <2>4, <2>5, CallUpToDate
<1>5. CASE HandlerUpdates
  <2>1. pc = "update" /\ pc' = "ack" /\ UNCHANGED <<resp, stream, down, sent>>
    BY <1>5 DEF HandlerUpdates, server
  <2>2. resp \in Response /\ resp.type \in Type /\ held \in [Type -> [Name -> State]]
    BY <2>1 DEF TypeInv, TypeOK, CallInv
  <2>3. Updated(resp) \in SUBSET Unhandled /\ Unhandled' = Unhandled \ Updated(resp)
    BY <2>1 DEF Unhandled
  <2>4. ASSUME NEW t \in Type, NEW n \in Name
        PROVE  /\ (t = resp.type /\ n \in Updated(resp)) =>
                     held'[t][n] = resp.changes[n] \/ <<t, n>> \in refused'
               /\ ~(t = resp.type /\ n \in Updated(resp)) =>
                     /\ held'[t][n] = held[t][n]
                     /\ <<t, n>> \in refused => <<t, n>> \in refused'
    <3> DEFINE N == Updated(resp)
    <3>1. N \subseteq DOMAIN resp.changes
      BY <2>2, ResponseType
    <3>2. /\ \A m \in N : Applied(resp, N)[resp.type][m] = resp.changes[m]
          /\ \A m \in Name \ N : Applied(resp, N)[resp.type][m] = held[resp.type][m]
      BY <2>2, <3>1, AppliedProperties
    <3>3. t # resp.type => Applied(resp, N)[t][n] = held[t][n]
      BY <2>2 DEF Applied
    <3>4. \A m : <<t, n>> \in Of(resp, m) <=> t = resp.type /\ n \in m
      BY DEF Of
    <3> HIDE DEF N
    <3>5. CASE (N = {} \/ handlerErr) /\ UNCHANGED handlers
      BY <2>1, <3>4, <3>5 DEF handlers, N
    <3>6. CASE CallSucceeds(N)
      BY <3>2, <3>3, <3>4, <3>6 DEF CallSucceeds, N
    <3>7. CASE CallFails(N) /\ refused' = refused \cup Of(resp, N)
      BY <3>2, <3>3, <3>4, <3>7 DEF CallFails, N
    <3> QED
      BY <1>5, <3>5, <3>6, <3>7 DEF HandlerUpdates, N
  <2> QED
    BY <2>1, <2>2, <2>3, <2>4, CallUpToDate
<1>6. CASE StartCanceled \/ StartAttempt \/ DelayElapses \/ StreamFailsToOpen
  <2>1. /\ pc \notin {"remove", "update"} /\ pc' \notin {"remove", "update"}
        /\ UNCHANGED <<down, sent, held, refused>>
        /\ stream' = "open" => stream = "open"
    BY <1>6 DEF StartCanceled, StartAttempt, DelayElapses, StreamFailsToOpen,
                Retry, Return, server, handlers
  <2> QED
    BY <2>1, IdleUpToDate
<1>7. CASE (\E t \in Type : Subscribe(t)) \/ SubscribeFails \/ SubscribeEnds
  <2>1. /\ pc \notin {"remove", "update"} /\ pc' \notin {"remove", "update"}
        /\ UNCHANGED <<down, stream, sent, held, refused>>
    BY <1>7 DEF Subscribe, SubscribeFails, SubscribeEnds, Retry, Return, server, handlers
  <2> QED
    BY <2>1, IdleUpToDate
<1>8. CASE CheckContext \/ RecvEnds \/ SendAck
  <2>1. /\ pc \notin {"remove", "update"} /\ pc' \notin {"remove", "update"}
        /\ UNCHANGED <<down, stream, sent, held, refused>>
    BY <1>8 DEF CheckContext, RecvEnds, SendAck, Retry, Return, server, handlers
  <2> QED
    BY <2>1, IdleUpToDate
<1>9. ASSUME NEW u \in Type, ServerSends(u)
      PROVE  LossInv'
  <2> DEFINE r == [type |-> u, changes |-> [n \in Unsent(u) |-> world[u][n]]]
  <2>1. [n \in Unsent(u) |-> world[u][n]] \in [Unsent(u) -> State]
    BY DEF Unsent, TypeInv, TypeOK
  <2>2. r \in Response
    BY <2>1, ResponseBuilt DEF Unsent
  <2>3. /\ UNCHANGED <<pc, call, stream, held, refused>> /\ stream = "open"
        /\ down' = Append(down, r)
    BY <1>9 DEF ServerSends, handlers
  <2>4. ASSUME NEW t \in Type, NEW n \in Name, sent'[t][n] # NotSent
        PROVE  UpToDate(t, n)'
    <3>1. sent'[t][n] = IF t = u /\ n \in Unsent(u) THEN world[t][n] ELSE sent[t][n]
      BY <1>9 DEF ServerSends, TypeInv, TypeOK
    <3>2. r.type = u /\ DOMAIN r.changes = Unsent(u)
          /\ \A m \in Unsent(u) : r.changes[m] = world[u][m]
      OBVIOUS
    <3> HIDE DEF r
    <3>3. CASE t = u /\ n \in Unsent(u)
      BY <2>2, <2>3, <3>1, <3>2, <3>3, AppendUpToDate DEF call
    <3>4. CASE ~(t = u /\ n \in Unsent(u))
      <4>1. UpToDate(t, n)
        BY <2>3, <2>4, <3>1, <3>4
      <4> QED
        BY <2>2, <2>3, <3>1, <3>2, <3>4, <4>1, AppendUpToDate DEF call
    <3> QED
      BY <3>3, <3>4
  <2>5. RefusedInv'
    BY <2>3 DEF call, Of, Updated
  <2> QED
    BY <2>4, <2>5
<1>10. CASE ServerSendsUnknown
  <2> DEFINE r == [type |-> Unknown, changes |-> [n \in {} |-> Absent]]
  <2>1. r \in Response
    <3>1. [n \in {} |-> Absent] \in [{} -> State]
      OBVIOUS
    <3> QED
      BY <3>1, ResponseBuilt
  <2>2. /\ UNCHANGED <<pc, call, stream, sent, held, refused>>
        /\ down' = Append(down, r)
    BY <1>10 DEF ServerSendsUnknown, handlers
  <2>3. r.type \notin Type
    BY ClientAssumption DEF ClientAssumption
  <2> HIDE DEF r
  <2>4. ASSUME NEW t \in Type, NEW n \in Name, UpToDate(t, n)
        PROVE  UpToDate(t, n)'
    BY <2>1, <2>2, <2>3, <2>4, AppendUpToDate DEF call
  <2>5. RefusedInv'
    BY <2>2 DEF call, Of, Updated
  <2> QED
    BY <2>2, <2>4, <2>5
<1>11. CASE StreamEnds
  <2>1. /\ UNCHANGED <<pc, call, refused>> /\ stream' # "open"
    BY <1>11 DEF StreamEnds, handlers
  <2> QED
    BY <2>1 DEF call, Of, Updated
<1>12. CASE UNCHANGED <<pc, call, stream, down, sent, held, refused>>
  <2>1. \A t \in Type, n \in Name : UpToDate(t, n)' <=> UpToDate(t, n)
    BY <1>12 DEF call, UpToDate, Mentions, AtHand, Unhandled, Updated
  <2> QED
    BY <1>12, <2>1 DEF call, Of, Updated
<1>13. CASE Cancel \/ (\E t \in Type, n \in Name : WorldChanges(t, n)) \/ UNCHANGED vars
  BY <1>12, <1>13 DEF Cancel, WorldChanges, vars, server, handlers
<1> QED
  BY <1>1, <1>2, <1>3, <1>4, <1>5, <1>6, <1>7, <1>8, <1>9, <1>10, <1>11, <1>13
  DEF Next, Client, Environment

\* On an open stream, a handler ends up with what the server sent last of every
\* resource, whatever was sent, removed and sent again meanwhile, except for what the
\* handler refused.
THEOREM LossCorrect == Spec => []NoLostUpdate
<1>1. Init => LossInv
  BY DEF Init, LossInv, NoLostUpdate, RefusedInv
<1>2. Spec => []LossInv
  BY <1>1, LossNext, TypeInit, TypeNext, PTL DEF Spec
<1> QED
  BY <1>2, PTL DEF LossInv

-----------------------------------------------------------------------------
(* What the handlers hold once nothing is left to do *)

LEMMA QuietCurrent ==
    ASSUME NoLostUpdate, Quiet, NEW t \in Type, NEW n \in Name
    PROVE  \/ held[t][n] = world[t][n]
           \/ <<t, n>> \in refused
           \/ world[t][n] = Absent /\ sent[t][n] = NotSent
<1>1. world[t][n] = IF sent[t][n] = NotSent THEN Absent ELSE sent[t][n]
  BY DEF Quiet, Unsent
<1>2. CASE sent[t][n] = NotSent
  BY <1>1, <1>2
<1>3. CASE sent[t][n] # NotSent
  <2>1. UpToDate(t, n)
    BY <1>3 DEF NoLostUpdate, Quiet
  <2>2. Mentions(t, n) = {} /\ ~AtHand(t, n)
    BY DEF Quiet, Mentions, AtHand, Unhandled
  <2> QED
    BY <1>1, <1>3, <2>1, <2>2 DEF UpToDate
<1> QED
  BY <1>2, <1>3

\* Through any number of failed streams and failed calls: a client that has nothing
\* left to receive or handle holds the server's resources, up to what a handler refused
\* and to resources that were gone before the stream opened.
THEOREM QuietCorrect == Spec => []QuietMeansCurrent
<1>1. NoLostUpdate => QuietMeansCurrent
  BY QuietCurrent DEF QuietMeansCurrent
<1> QED
  BY <1>1, LossCorrect, PTL

=============================================================================
