-------------------------- MODULE DebugStoreProofs --------------------------
(***************************************************************************)
(* Proofs about DebugStore, for any stores, names and values and any       *)
(* number of handler calls.                                                *)
(***************************************************************************)
EXTENDS DebugStore, SequenceTheorems, WellFoundedInduction, TLAPS

-----------------------------------------------------------------------------
(* What a sequence of notifications says *)

\* A set of positions that is not empty has a last one.
LEMMA LastExists ==
    ASSUME NEW len \in Nat, NEW S \in SUBSET (1 .. len), S # {}
    PROVE  \E m \in S : \A i \in S : m >= i
<1> DEFINE FromEnd == {d \in Nat : len - d \in S}
<1>1. FromEnd \subseteq Nat /\ FromEnd # {}
  <2>1. PICK i \in S : TRUE
    OBVIOUS
  <2>2. len - i \in Nat /\ len - (len - i) = i
    BY <2>1
  <2>3. len - i \in FromEnd
    BY <2>1, <2>2
  <2> QED
    BY <2>3
<1>2. PICK d \in FromEnd : \A c \in FromEnd : <<c, d>> \notin OpToRel(<, Nat)
  <2> HIDE DEF FromEnd
  <2> QED
    BY <1>1, NatLessThanWellFounded, WFMin
<1>3. \A c \in FromEnd : ~(c < d)
  BY <1>2 DEF OpToRel
<1>4. ASSUME NEW i \in S
      PROVE  len - d >= i
  <2>1. len - i \in Nat /\ len - (len - i) = i
    BY <1>4
  <2>2. ~(len - i < d)
    BY <1>3, <1>4, <2>1
  <2>3. i \in 1 .. len
    BY <1>4
  <2>4. d \in Nat
    BY <1>2
  <2> HIDE DEF FromEnd
  <2> QED
    BY <2>2, <2>3, <2>4
<1> QED
  BY <1>2, <1>4

LEMMA LastIsMax ==
    ASSUME NEW S \in SUBSET Nat, NEW m \in S, \A i \in S : m >= i
    PROVE  Max(S) = m
<1>1. Max(S) \in S /\ \A i \in S : Max(S) >= i
  BY DEF Max
<1>2. Max(S) \in Nat /\ m \in Nat /\ m >= Max(S) /\ Max(S) >= m
  BY <1>1
<1> QED
  BY <1>2

\* A set of positions has a maximum among its members.
LEMMA MaxIsMember ==
    ASSUME NEW len \in Nat, NEW S \in SUBSET (1 .. len), S # {}
    PROVE  Max(S) \in S
<1>1. PICK m \in S : \A i \in S : m >= i
  BY LastExists
<1>2. S \in SUBSET Nat
  OBVIOUS
<1> QED
  BY <1>1, <1>2, LastIsMax

\* One more notification says what it says, and nothing of other resources.
LEMMA SaysAppend ==
    ASSUME NEW notes \in Seq(Note), NEW m \in Note, NEW s \in Store, NEW n \in Name
    PROVE  Says(Append(notes, m))[s][n] =
              IF m.store = s /\ n \in DOMAIN m.values
              THEN m.values[n]
              ELSE Says(notes)[s][n]
<1> DEFINE At(q) == {i \in DOMAIN q : q[i].store = s /\ n \in DOMAIN q[i].values}
           more == Append(notes, m)
<1>1. /\ Len(notes) \in Nat /\ DOMAIN notes = 1 .. Len(notes)
      /\ DOMAIN more = 1 .. Len(notes) + 1
      /\ \A i \in 1 .. Len(notes) : more[i] = notes[i]
      /\ more[Len(notes) + 1] = m
  BY AppendProperties, LenProperties
<1>2. \A q : Says(q)[s][n] = IF At(q) = {} THEN Absent ELSE q[Max(At(q))].values[n]
  BY DEF Says
<1>3. CASE m.store = s /\ n \in DOMAIN m.values
  <2>1. Len(notes) + 1 \in At(more) /\ At(more) \in SUBSET Nat
    BY <1>1, <1>3
  <2>2. \A i \in At(more) : Len(notes) + 1 >= i
    BY <1>1
  <2>3. Max(At(more)) = Len(notes) + 1
    <3> DEFINE A == At(more)
    <3>1. A \in SUBSET Nat /\ Len(notes) + 1 \in A /\ \A i \in A : Len(notes) + 1 >= i
      BY <2>1, <2>2
    <3> HIDE DEF At, more, A
    <3>2. Max(A) = Len(notes) + 1
      BY <3>1, LastIsMax
    <3> QED
      BY <3>2 DEF A
  <2>4. Says(more)[s][n] = more[Len(notes) + 1].values[n]
    <3> HIDE DEF At, more
    <3> QED
      BY <1>2, <2>1, <2>3
  <2> QED
    BY <1>1, <1>3, <2>4
<1>4. CASE ~(m.store = s /\ n \in DOMAIN m.values)
  <2>1. At(more) = At(notes) /\ At(notes) \in SUBSET (1 .. Len(notes))
    BY <1>1, <1>4
  <2>2. CASE At(notes) = {}
    BY <1>2, <1>4, <2>1, <2>2
  <2>3. CASE At(notes) # {}
    <3>1. Max(At(notes)) \in 1 .. Len(notes)
      <4> HIDE DEF At
      <4> QED
        BY <1>1, <2>1, <2>3, MaxIsMember
    <3>2. more[Max(At(more))] = notes[Max(At(notes))]
      BY <1>1, <2>1, <3>1
    <3> HIDE DEF At, more
    <3>3. /\ Says(more)[s][n] = more[Max(At(more))].values[n]
          /\ Says(notes)[s][n] = notes[Max(At(notes))].values[n]
      BY <1>2, <2>1, <2>3
    <3> QED
      BY <1>4, <3>2, <3>3 DEF more
  <2> QED
    BY <2>2, <2>3
<1> QED
  BY <1>3, <1>4

-----------------------------------------------------------------------------
(* Type correctness.  A call works on a notification and a batch of values *)

CallInv ==
    /\ pc # "idle" => note \in Note
    /\ \A n \in DOMAIN todo : todo[n] \in Value \cup {Garbled, Absent}
    /\ pc = "remove" => \A n \in DOMAIN todo : todo[n] = Absent

TypeInv == TypeOK /\ CallInv

\* A notification with one more value is a notification.
LEMMA NotedType ==
    ASSUME note \in Note, NEW n \in Name, n \in DOMAIN todo,
           todo[n] \in Value \cup {Absent}
    PROVE  /\ Noted(n) \in Note
           /\ Noted(n).store = note.store
           /\ DOMAIN Noted(n).values = DOMAIN note.values \cup {n}
           /\ Noted(n).values[n] = todo[n]
           /\ \A m \in DOMAIN note.values : m # n => Noted(n).values[m] = note.values[m]
<1> DEFINE D == DOMAIN note.values \cup {n}
           f == [m \in D |-> IF m = n THEN todo[n] ELSE note.values[m]]
<1>1. PICK N \in SUBSET Name : note.values \in [N -> Value \cup {Absent}]
  BY DEF Note
<1>2. D \in SUBSET Name /\ f \in [D -> Value \cup {Absent}]
  BY <1>1
<1>3. Noted(n) = [store |-> note.store, values |-> f]
  BY DEF Noted, Note
<1>4. note.store \in Store
  BY DEF Note
<1>5. Noted(n) \in Note
  BY <1>2, <1>3, <1>4 DEF Note
<1> QED
  BY <1>3, <1>5

\* What is left of a notification to print is a notification.
LEMMA PrintedType ==
    ASSUME NEW m \in Note
    PROVE  /\ Printed(m) \in Note
           /\ Printed(m).store = m.store
           /\ \A n \in Name :
                 /\ n \in DOMAIN Printed(m).values <=>
                       n \in DOMAIN m.values /\ m.values[n] \notin Unprintable
                 /\ n \in DOMAIN Printed(m).values => Printed(m).values[n] = m.values[n]
<1> DEFINE D == {n \in DOMAIN m.values : m.values[n] \notin Unprintable}
           f == [n \in D |-> m.values[n]]
<1>1. PICK N \in SUBSET Name : m.values \in [N -> Value \cup {Absent}]
  BY DEF Note
<1>2. D \in SUBSET Name /\ f \in [D -> Value \cup {Absent}]
  BY <1>1
<1>3. Printed(m) = [store |-> m.store, values |-> f]
  BY DEF Printed, Note
<1>4. m.store \in Store
  BY DEF Note
<1>5. [store |-> m.store, values |-> f] \in Note
  BY <1>2, <1>4 DEF Note
<1>6. DOMAIN f = D /\ \A n \in D : f[n] = m.values[n]
  OBVIOUS
<1> HIDE DEF f
<1> QED
  BY <1>3, <1>5, <1>6

\* Removing one position of a sequence of notifications leaves such a sequence.
LEMMA TakenType ==
    ASSUME NEW q \in Seq(Note), NEW i \in DOMAIN q
    PROVE  SubSeq(q, 1, i - 1) \o SubSeq(q, i + 1, Len(q)) \in Seq(Note)
<1>1. i \in 1 .. Len(q) /\ Len(q) \in Nat /\ \A j \in 1 .. Len(q) : q[j] \in Note
  BY LenProperties, ElementOfSeq
<1>2. SubSeq(q, 1, i - 1) \in Seq(Note)
  BY <1>1, SubSeqProperties
<1>3. SubSeq(q, i + 1, Len(q)) \in Seq(Note)
  BY <1>1, SubSeqProperties
<1> QED
  BY <1>2, <1>3, ConcatProperties

LEMMA ContentType ==
    ASSUME NEW f \in [Store -> Contents], NEW s \in Store, NEW n \in Name,
           NEW v \in Value \cup {Absent}
    PROVE  [f EXCEPT ![s][n] = v] \in [Store -> Contents]
BY DEF Contents

LEMMA StoredType ==
    ASSUME TypeInv, NEW n \in Name, todo[n] \in Value \cup {Absent}, note.store \in Store,
           content' = [content EXCEPT ![note.store][n] = todo[n]]
    PROVE  content' \in [Store -> Contents]
<1>1. content \in [Store -> Contents]
  BY DEF TypeInv, TypeOK
<1> QED
  BY <1>1, ContentType

LEMMA TypeInit == Init => TypeInv
<1> SUFFICES ASSUME Init
             PROVE  TypeInv
  OBVIOUS
<1>1. content \in [Store -> Contents]
  BY DEF Init, Contents
<1>2. DOMAIN todo = {}
  BY DEF Init
<1>3. arrived \in Seq(Note) /\ list \in Seq(Note)
  BY DEF Init
<1> QED
  BY <1>1, <1>2, <1>3 DEF Init, TypeInv, TypeOK, CallInv

LEMMA TypeNext == TypeInv /\ [Next]_vars => TypeInv'
<1> SUFFICES ASSUME TypeInv, [Next]_vars
             PROVE  TypeInv'
  OBVIOUS
<1> USE DEF TypeInv, TypeOK, CallInv, call, tui
<1>1. ASSUME NEW s \in Store, NEW batch, DOMAIN batch \subseteq Name, Called(s, batch),
             \/ pc' = "update" /\ \A n \in DOMAIN batch : batch[n] \in Value \cup {Garbled}
             \/ pc' = "remove" /\ \A n \in DOMAIN batch : batch[n] = Absent
      PROVE  TypeInv'
  <2>1. <<>> \in [{} -> Value \cup {Absent}]
    OBVIOUS
  <2>2. note' \in Note
    BY <1>1, <2>1 DEF Called, Note
  <2> QED
    BY <1>1, <2>2 DEF Called
<1>2. ASSUME NEW s \in Store, NEW names \in SUBSET Name,
             NEW batch \in [names -> Value \cup {Garbled}], UpdateBegins(s, batch)
      PROVE  TypeInv'
  BY <1>1, <1>2 DEF UpdateBegins
<1>3. ASSUME NEW s \in Store, NEW names \in SUBSET Name, RemoveBegins(s, names)
      PROVE  TypeInv'
  BY <1>1, <1>3 DEF RemoveBegins
<1>4. ASSUME NEW n \in Name, UpdateStores(n)
      PROVE  TypeInv'
  <2>1. DOMAIN todo' \subseteq Name /\ \A m \in DOMAIN todo' : todo'[m] = todo[m] /\ m \in DOMAIN todo
    BY <1>4 DEF UpdateStores, Rest
  <2>2. CASE todo[n] = Garbled
    BY <1>4, <2>1, <2>2 DEF UpdateStores
  <2>3. CASE todo[n] # Garbled
    <3>1. n \in DOMAIN todo /\ todo[n] \in Value \cup {Absent} /\ note \in Note
      BY <1>4, <2>3 DEF UpdateStores
    <3>2. note' \in Note /\ note.store \in Store
      BY <1>4, <2>3, <3>1, NotedType DEF UpdateStores, Note
    <3>3. content' \in [Store -> Contents]
      BY <1>4, <2>3, <3>1, <3>2, StoredType DEF UpdateStores
    <3> QED
      BY <1>4, <2>1, <3>2, <3>3 DEF UpdateStores
  <2> QED
    BY <2>2, <2>3
<1>5. ASSUME NEW n \in Name, RemoveDeletes(n)
      PROVE  TypeInv'
  <2>1. DOMAIN todo' \subseteq Name /\ \A m \in DOMAIN todo' : todo'[m] = todo[m] /\ m \in DOMAIN todo
    BY <1>5 DEF RemoveDeletes, Rest
  <2>2. n \in DOMAIN todo /\ todo[n] \in Value \cup {Absent} /\ note \in Note
    BY <1>5 DEF RemoveDeletes
  <2>3. note' \in Note /\ note.store \in Store
    BY <1>5, <2>2, NotedType DEF RemoveDeletes, Note
  <2>4. content' \in [Store -> Contents]
    BY <1>5, <2>2, <2>3, StoredType DEF RemoveDeletes
  <2> QED
    BY <1>5, <2>1, <2>3, <2>4 DEF RemoveDeletes
<1>6. CASE LoopEnds
  BY <1>6 DEF LoopEnds
<1>7. CASE ForwarderReceives
  <2>1. note \in Note
    BY <1>7 DEF ForwarderReceives
  <2>2. forwarding' \in Note
    BY <1>7, <2>1, PrintedType DEF ForwarderReceives
  <2> QED
    BY <1>7, <2>2 DEF ForwarderReceives
<1>8. CASE ForwarderSends
  <2>1. forwarding \in Note
    BY <1>8 DEF ForwarderSends
  <2>2. arrived' \in Seq(Note)
    BY <1>8, <2>1, AppendProperties DEF ForwarderSends
  <2> QED
    BY <1>8, <2>2 DEF ForwarderSends
<1>9. CASE InitModel
  BY <1>9 DEF InitModel
<1>10. ASSUME NEW i \in DOMAIN arrived, Activity(i)
       PROVE  TypeInv'
  <2>1. arrived' \in Seq(Note)
    BY <1>10, TakenType DEF Activity, Taken
  <2>2. arrived[i] \in Note
    BY <1>10, LenProperties, ElementOfSeq
  <2>3. list' \in Seq(Note)
    BY <1>10, <2>2, AppendProperties DEF Activity, Taken
  <2> QED
    BY <1>10, <2>1, <2>3 DEF Activity, Taken
<1>11. CASE Quit \/ ClientFails
  BY <1>11 DEF Quit, ClientFails
<1>12. CASE UNCHANGED vars
  BY <1>12 DEF vars
<1> QED
  BY <1>2, <1>3, <1>4, <1>5, <1>6, <1>7, <1>8, <1>9, <1>10, <1>11, <1>12
  DEF Next, Handler, Forwarder, EventLoop

LEMMA TypeAlways == Spec => []TypeInv
BY TypeInit, TypeNext, PTL DEF Spec

\* Whatever batches the handlers are given and wherever a notification is, the
\* variables have their types.
THEOREM TypeCorrect == Spec => []TypeOK
BY TypeAlways, PTL DEF TypeInv

-----------------------------------------------------------------------------
(* One command waits or has a notification *)

\* Before the terminal program runs there is none, and in dump it never runs.
ReaderInv ==
    /\ OneReader
    /\ ~started => waiters = 0 /\ arrived = <<>>
    /\ started => program = "adsgui"

\* At most one notification has arrived, and no command waits then.
LEMMA OneArrived ==
    ASSUME TypeInv, ReaderInv
    PROVE  /\ Len(arrived) \in {0, 1}
           /\ \A i \in DOMAIN arrived : i = 1 /\ Len(arrived) = 1 /\ started /\ waiters = 0
<1>1. Len(arrived) \in Nat /\ DOMAIN arrived = 1 .. Len(arrived) /\ waiters \in Nat
  BY LenProperties DEF TypeInv, TypeOK
<1>2. CASE started
  <2>1. waiters + Len(arrived) = 1
    BY <1>2 DEF ReaderInv, OneReader
  <2>2. Len(arrived) \in {0, 1} /\ (Len(arrived) = 1 => waiters = 0)
    BY <1>1, <2>1
  <2> QED
    BY <1>1, <1>2, <2>2
<1>3. CASE ~started
  <2>1. arrived = <<>>
    BY <1>3 DEF ReaderInv
  <2>2. Len(arrived) = 0
    BY <2>1
  <2> QED
    BY <1>1, <2>2
<1> QED
  BY <1>2, <1>3

LEMMA ReaderNext == TypeInv /\ ReaderInv /\ [Next]_vars => ReaderInv'
<1> SUFFICES ASSUME TypeInv, ReaderInv, [Next]_vars
             PROVE  ReaderInv'
  OBVIOUS
<1> USE DEF ReaderInv, OneReader
<1>1. CASE ForwarderSends
  <2>1. forwarding \in Note /\ arrived \in Seq(Note) /\ waiters \in Nat
    BY <1>1 DEF ForwarderSends, TypeInv, TypeOK
  <2>2. Len(arrived') = Len(arrived) + 1 /\ Len(arrived) \in Nat
    BY <1>1, <2>1, AppendProperties, LenProperties DEF ForwarderSends
  <2> QED
    BY <1>1, <2>1, <2>2 DEF ForwarderSends
<1>2. CASE InitModel
  <2>1. waiters' = 1 /\ arrived' = <<>> /\ program' = "adsgui" /\ started'
    BY <1>2 DEF InitModel
  <2>2. Len(arrived') = 0
    BY <2>1
  <2> QED
    BY <2>1, <2>2
<1>3. ASSUME NEW i \in DOMAIN arrived, Activity(i)
      PROVE  ReaderInv'
  <2>1. arrived \in Seq(Note) /\ waiters \in Nat
    BY DEF TypeInv, TypeOK
  <2>2. Len(arrived) = 1 /\ waiters = 0 /\ i = 1 /\ started
    BY OneArrived
  <2>3. arrived' = SubSeq(arrived, 1, 0) \o SubSeq(arrived, 2, 1)
    BY <1>3, <2>2 DEF Activity, Taken
  <2>4. arrived' = <<>>
    BY <2>3, SubSeqEmpty
  <2> QED
    BY <1>3, <2>2, <2>4 DEF Activity
<1>4. CASE UNCHANGED <<program, tui>>
  BY <1>4 DEF tui
<1> QED
  BY <1>1, <1>2, <1>3, <1>4
  DEF Next, vars, Handler, Forwarder, EventLoop, UpdateBegins, RemoveBegins, Called,
      UpdateStores, RemoveDeletes, LoopEnds, ForwarderReceives, Quit, ClientFails

LEMMA ReaderAlways == Spec => [](TypeInv /\ ReaderInv)
<1>1. Init => ReaderInv
  BY DEF Init, ReaderInv, OneReader
<1> QED
  BY <1>1, ReaderNext, TypeInit, TypeNext, PTL DEF Spec

\* One command of the terminal program waits, or has what arrived, at any time.
THEOREM ReaderCorrect == Spec => []OneReader
BY ReaderAlways, PTL DEF ReaderInv

-----------------------------------------------------------------------------
(* The list and the pipeline say what the stores hold *)

\* What has left the handlers, in the order of the calls.
Sent == list \o arrived \o (IF forwarding = Nothing THEN <<>> ELSE <<forwarding>>)

\* Between handler calls all is sent; during a call the notification at hand is last.
SaysInv ==
    program = "adsgui" =>
        Shown(IF pc = "idle" THEN Sent ELSE Append(Sent, note))

LEMMA SentType ==
    ASSUME TypeInv
    PROVE  Sent \in Seq(Note)
<1>1. /\ list \in Seq(Note) /\ arrived \in Seq(Note)
      /\ (IF forwarding = Nothing THEN <<>> ELSE <<forwarding>>) \in Seq(Note)
  BY DEF TypeInv, TypeOK
<1>2. list \o arrived \in Seq(Note)
  BY <1>1, ConcatProperties
<1> QED
  BY <1>1, <1>2, ConcatProperties DEF Sent

LEMMA PipelineIs ==
    ASSUME TypeInv
    PROVE  Pipeline = IF pc = "idle" THEN Sent ELSE Append(Sent, note)
<1>1. Sent \in Seq(Note) /\ Sent \o <<>> = Sent
  BY SentType, ConcatEmptySeq
<1>2. pc # "idle" => Append(Sent, note) = Sent \o <<note>>
  BY <1>1, AppendIsConcat DEF TypeInv, CallInv
<1> QED
  BY <1>1, <1>2 DEF Pipeline, Sent

\* A value stored or deleted is the value that the notification at hand gains.
LEMMA SaysNoted ==
    ASSUME TypeInv, SaysInv, program = "adsgui", pc # "idle", note \in Note,
           NEW n \in Name, n \in DOMAIN todo, todo[n] \in Value \cup {Absent},
           content' = [content EXCEPT ![note.store][n] = todo[n]],
           note' = Noted(n), UNCHANGED <<program, forwarding, tui>>, pc' # "idle"
    PROVE  SaysInv'
<1>1. Sent \in Seq(Note) /\ Sent' = Sent
  BY SentType DEF Sent, tui
<1>2. /\ note' \in Note /\ note'.store = note.store /\ note.store \in Store
      /\ DOMAIN note'.values = DOMAIN note.values \cup {n}
      /\ note'.values[n] = todo[n]
      /\ \A m \in DOMAIN note.values : m # n => note'.values[m] = note.values[m]
  BY NotedType DEF Note
<1>3. ASSUME NEW s \in Store, NEW m \in Name
      PROVE  content'[s][m] \in Unprintable \cup {Says(Append(Sent, note'))[s][m]}
  <2>1. content'[s][m] = IF s = note.store /\ m = n THEN todo[n] ELSE content[s][m]
    BY <1>2 DEF TypeInv, TypeOK, Contents
  <2>2. \/ content[s][m] \in Unprintable
        \/ content[s][m] = IF note.store = s /\ m \in DOMAIN note.values
                           THEN note.values[m] ELSE Says(Sent)[s][m]
    <3>1. content[s][m] \in Unprintable \cup {Says(Append(Sent, note))[s][m]}
      BY DEF SaysInv, Shown
    <3> QED
      BY <1>1, <3>1, SaysAppend
  <2>3. Says(Append(Sent, note'))[s][m] =
           IF note'.store = s /\ m \in DOMAIN note'.values
           THEN note'.values[m] ELSE Says(Sent)[s][m]
    BY <1>1, <1>2, SaysAppend
  <2> QED
    BY <1>2, <2>1, <2>2, <2>3
<1>4. Shown(Append(Sent, note))'
  BY <1>1, <1>3, Zenon DEF Shown
<1> QED
  BY <1>1, <1>4 DEF SaysInv

\* A notification without values says nothing.
LEMMA SaysBegun ==
    ASSUME NEW q \in Seq(Note), NEW s \in Store, NEW u \in Store, NEW n \in Name
    PROVE  Says(Append(q, [store |-> s, values |-> <<>>]))[u][n] = Says(q)[u][n]
<1> DEFINE m == [store |-> s, values |-> <<>>]
<1>1. <<>> \in [{} -> Value \cup {Absent}] /\ DOMAIN <<>> = {}
  OBVIOUS
<1>2. m \in Note /\ DOMAIN m.values = {}
  BY <1>1 DEF Note
<1> QED
  BY <1>2, SaysAppend

\* What cannot be printed may be left out of the last notification.
LEMMA SaysPrinted ==
    ASSUME NEW q \in Seq(Note), NEW m \in Note, Shown(Append(q, m))
    PROVE  Shown(Append(q, Printed(m)))
<1> SUFFICES ASSUME NEW s \in Store, NEW n \in Name, content[s][n] \notin Unprintable
             PROVE  content[s][n] = Says(Append(q, Printed(m)))[s][n]
  BY Zenon DEF Shown
<1>1. content[s][n] = Says(Append(q, m))[s][n]
  BY DEF Shown
<1>2. Says(Append(q, m))[s][n] =
         IF m.store = s /\ n \in DOMAIN m.values THEN m.values[n] ELSE Says(q)[s][n]
  BY SaysAppend
<1>3. Says(Append(q, Printed(m)))[s][n] =
         IF m.store = s /\ n \in DOMAIN Printed(m).values
         THEN Printed(m).values[n] ELSE Says(q)[s][n]
  BY SaysAppend, PrintedType
<1> QED
  BY <1>1, <1>2, <1>3, PrintedType

\* A notification moves from the forwarder to a command, and from there to the list.
LEMMA SentMoves ==
    ASSUME TypeInv, ReaderInv,
           ForwarderSends \/ \E i \in DOMAIN arrived : Activity(i)
    PROVE  Sent' = Sent
<1>1. list \in Seq(Note) /\ arrived \in Seq(Note) /\ list \o arrived \in Seq(Note)
  BY ConcatProperties DEF TypeInv, TypeOK
<1>2. CASE ForwarderSends
  <2>1. forwarding \in Note /\ forwarding # Nothing /\ forwarding' = Nothing /\ list' = list
    BY <1>2 DEF ForwarderSends, TypeInv, TypeOK
  <2>2. arrived' = arrived \o <<forwarding>> /\ <<forwarding>> \in Seq(Note)
    BY <1>1, <1>2, <2>1, AppendIsConcat DEF ForwarderSends
  <2>3. list \o (arrived \o <<forwarding>>) = (list \o arrived) \o <<forwarding>>
    BY <1>1, <2>2, ConcatAssociative
  <2>4. Sent = (list \o arrived) \o <<forwarding>>
    BY <2>1 DEF Sent
  <2>5. Sent' = (list \o arrived') \o <<>>
    BY <2>1 DEF Sent
  <2>6. list \o arrived' \in Seq(Note)
    BY <1>1, <2>2, ConcatProperties
  <2> QED
    BY <2>2, <2>3, <2>4, <2>5, <2>6, ConcatEmptySeq
<1>3. ASSUME NEW i \in DOMAIN arrived, Activity(i)
      PROVE  Sent' = Sent
  <2>2. Len(arrived) = 1 /\ i = 1
    BY OneArrived
  <2>3. arrived' = SubSeq(arrived, 1, 0) \o SubSeq(arrived, 2, 1)
    BY <1>3, <2>2 DEF Activity, Taken
  <2>4. arrived' = <<>>
    BY <2>3, SubSeqEmpty
  <2>5. arrived = <<arrived[1]>> /\ arrived[1] \in Note
    <3>1. arrived[1] \in Note
      <4>1. 1 \in 1 .. Len(arrived)
        BY <2>2
      <4> QED
        BY <1>1, <4>1, ElementOfSeq
    <3>2. <<arrived[1]>> \in Seq(Note) /\ Len(<<arrived[1]>>) = 1
      BY <3>1
    <3>3. \A j \in 1 .. Len(arrived) : arrived[j] = <<arrived[1]>>[j]
      BY <2>2
    <3> QED
      BY <1>1, <2>2, <3>1, <3>2, <3>3, SeqEqual
  <2>6. list' = list \o <<arrived[1]>>
    BY <1>1, <1>3, <2>2, <2>5, AppendIsConcat DEF Activity, Taken
  <2>7. list' = list \o arrived /\ list' \o arrived' = list'
    BY <1>1, <2>4, <2>5, <2>6, ConcatEmptySeq
  <2> QED
    BY <1>3, <2>7 DEF Activity, Sent
<1> QED
  BY <1>2, <1>3

LEMMA SaysNext == TypeInv /\ ReaderInv /\ SaysInv /\ [Next]_vars => SaysInv'
<1> SUFFICES ASSUME TypeInv, ReaderInv, SaysInv, [Next]_vars, program = "adsgui"
             PROVE  SaysInv'
  BY DEF SaysInv, Next, vars, Handler, Forwarder, EventLoop, UpdateBegins, RemoveBegins,
         Called, UpdateStores, RemoveDeletes, LoopEnds, ForwarderReceives, ForwarderSends,
         InitModel, Activity, Quit, ClientFails
<1>1. ASSUME NEW s \in Store, NEW batch, Called(s, batch), pc' # "idle"
      PROVE  SaysInv'
  <2>1. Sent' = Sent /\ Sent \in Seq(Note) /\ content' = content /\ Shown(Sent)
        /\ note' = [store |-> s, values |-> <<>>]
    BY <1>1, SentType DEF Called, Sent, tui, SaysInv
  <2>2. \A u \in Store, n \in Name : Says(Append(Sent, note'))[u][n] = Says(Sent)[u][n]
    BY <2>1, SaysBegun
  <2> QED
    BY <1>1, <2>1, <2>2 DEF SaysInv, Shown
<1>2. ASSUME NEW n \in Name, UpdateStores(n)
      PROVE  SaysInv'
  <2>1. CASE todo[n] = Garbled
    BY <1>2, <2>1 DEF UpdateStores, SaysInv, Shown, Sent, tui
  <2>2. CASE todo[n] # Garbled
    <3>1. todo[n] \in Value \cup {Absent} /\ note \in Note
      BY <1>2, <2>2 DEF UpdateStores, TypeInv, CallInv
    <3> QED
      BY <1>2, <2>2, <3>1, SaysNoted DEF UpdateStores
  <2> QED
    BY <2>1, <2>2
<1>3. ASSUME NEW n \in Name, RemoveDeletes(n)
      PROVE  SaysInv'
  <2>1. /\ todo[n] = Absent /\ note \in Note /\ n \in DOMAIN todo /\ pc # "idle" /\ pc' # "idle"
        /\ note' = Noted(n) /\ UNCHANGED <<program, forwarding, tui>>
        /\ content' = [content EXCEPT ![note.store][n] = todo[n]]
    BY <1>3 DEF RemoveDeletes, TypeInv, CallInv
  <2> QED
    BY <2>1, SaysNoted
<1>4. CASE LoopEnds
  BY <1>4 DEF LoopEnds, SaysInv, Shown, Sent, tui
<1>5. CASE ForwarderReceives
  <2>1. /\ pc = "notify" /\ pc' = "idle" /\ forwarding = Nothing
        /\ forwarding' = Printed(note)
        /\ note \in Note /\ content' = content /\ UNCHANGED tui
    BY <1>5 DEF ForwarderReceives, TypeInv, CallInv
  <2>2. Printed(note) \in Note /\ Printed(note) # Nothing
    BY <2>1, PrintedType, DebugAssumption
  <2>3. list \o arrived \in Seq(Note)
    BY ConcatProperties DEF TypeInv, TypeOK
  <2>4. Sent = list \o arrived /\ Sent' = (list \o arrived) \o <<Printed(note)>>
    BY <2>1, <2>2, <2>3, ConcatEmptySeq DEF Sent, tui
  <2>5. Sent' = Append(Sent, Printed(note)) /\ Sent \in Seq(Note)
    BY <2>2, <2>3, <2>4, AppendIsConcat
  <2>6. Shown(Append(Sent, Printed(note)))
    BY <2>1, <2>5, SaysPrinted DEF SaysInv
  <2> QED
    BY <2>1, <2>5, <2>6 DEF SaysInv, Shown
<1>6. CASE ForwarderSends \/ \E i \in DOMAIN arrived : Activity(i)
  <2>1. UNCHANGED <<content, pc, note, program>>
    BY <1>6 DEF ForwarderSends, Activity, call
  <2> QED
    BY <1>6, <2>1, SentMoves DEF SaysInv, Shown
<1>7. CASE UNCHANGED <<content, call, forwarding, arrived, list, program>>
  BY <1>7 DEF call, SaysInv, Shown, Sent
<1>8. CASE InitModel \/ Quit \/ ClientFails \/ UNCHANGED vars
  BY <1>7, <1>8 DEF InitModel, Quit, ClientFails, vars, tui
<1> QED
  BY <1>1, <1>2, <1>3, <1>4, <1>5, <1>6, <1>8
  DEF Next, Handler, Forwarder, EventLoop, UpdateBegins, RemoveBegins

\* The content of the stores is what the list and the notifications behind it say, in
\* this order, but for what cannot be printed; and no more than three are behind it.
THEOREM ListCorrect == Spec => []ListFollowsContent
<1>1. Init => SaysInv
  <2> SUFFICES ASSUME Init
               PROVE  SaysInv
    OBVIOUS
  <2>1. <<>> \in Seq(Note)
    OBVIOUS
  <2>2. <<>> \o <<>> = <<>>
    BY <2>1, ConcatEmptySeq
  <2>3. Sent = <<>>
    BY <2>2 DEF Init, Sent
  <2>4. Says(<<>>) = [s \in Store |-> [n \in Name |-> Absent]]
    BY DEF Says
  <2> QED
    BY <2>3, <2>4 DEF Init, SaysInv, Shown
<1>2. TypeInv /\ ReaderInv /\ SaysInv => ListFollowsContent
  <2> SUFFICES ASSUME TypeInv, ReaderInv, SaysInv, program = "adsgui"
               PROVE  Shown(Pipeline) /\ Len(Pipeline) <= Len(list) + 3
    BY DEF ListFollowsContent
  <2>1. Shown(Pipeline)
    BY PipelineIs DEF SaysInv
  <2>2. /\ list \in Seq(Note) /\ arrived \in Seq(Note)
        /\ Len(list) \in Nat /\ Len(arrived) \in {0, 1}
    BY OneArrived, LenProperties DEF TypeInv, TypeOK
  <2> DEFINE forwarded == IF forwarding = Nothing THEN <<>> ELSE <<forwarding>>
  <2>3. forwarded \in Seq(Note) /\ Len(forwarded) \in {0, 1}
    BY DEF TypeInv, TypeOK
  <2>4. list \o arrived \in Seq(Note) /\ Len(list \o arrived) = Len(list) + Len(arrived)
    BY <2>2, ConcatProperties
  <2>5. Len(Sent) = Len(list) + Len(arrived) + Len(forwarded) /\ Sent \in Seq(Note)
    BY <2>3, <2>4, ConcatProperties DEF Sent
  <2>6. pc # "idle" => Len(Append(Sent, note)) = Len(Sent) + 1
    BY <2>5, AppendProperties DEF TypeInv, CallInv
  <2> HIDE DEF forwarded
  <2>7. Len(Sent) <= Len(list) + 2 /\ Len(Sent) \in Nat
    <3>1. \A a \in Nat, b \in {0, 1}, c \in {0, 1} : a + b + c <= a + 2 /\ a + b + c \in Nat
      OBVIOUS
    <3> QED
      BY <2>2, <2>3, <2>5, <3>1, Zenon
  <2>8. Len(Pipeline) <= Len(list) + 3
    BY <2>2, <2>6, <2>7, PipelineIs
  <2> QED
    BY <2>1, <2>8
<1> QED
  BY <1>1, <1>2, SaysNext, ReaderAlways, PTL DEF Spec

=============================================================================
