-------------------------- MODULE InterfaceProofs --------------------------
(***************************************************************************)
(* The window shows the room that the program is in: three invariants of   *)
(* Interface.tla, for any number of attempts, requests and offers.         *)
(***************************************************************************)
EXTENDS Interface, WellFoundedInduction, TLAPS

-----------------------------------------------------------------------------
(* What VecDeque::retain leaves.                                           *)

\* Induction over the naturals, for a set.
LEMMA SetInduction ==
    ASSUME NEW S, 0 \in S, \A n \in Nat : n \in S => n + 1 \in S
    PROVE  Nat \subseteq S
<1>1. IsWellFoundedOn(OpToRel(<, Nat), Nat)
  BY NatLessThanWellFounded
<1>2. \A x, y \in Nat : <<y, x>> \in OpToRel(<, Nat) <=> y < x
  BY DEF OpToRel
<1>3. \A T \in SUBSET Nat : T # {} => \E x \in T : \A y \in T : ~(y < x)
  BY <1>1, <1>2, WFMin
<1>. SUFFICES ASSUME Nat \ S # {} PROVE FALSE
  OBVIOUS
<1>4. PICK x \in Nat \ S : \A y \in Nat \ S : ~(y < x)
  BY <1>3
<1>5. x # 0 /\ x - 1 \in Nat /\ x - 1 < x /\ x = (x - 1) + 1
  BY <1>4
<1>6. x - 1 \in S
  BY <1>4, <1>5
<1>. QED
  BY <1>4, <1>5, <1>6

\* f has, for each i up to n, what is kept of the first i elements.
KeepsUpTo(f, n, queue, o) ==
    /\ f[0] = <<>>
    /\ \A i \in 0..n : i # 0 =>
          f[i] = IF queue[i] = o THEN f[i - 1] ELSE Append(f[i - 1], queue[i])

\* There is such a function, however long the queue.
LEMMA KeepsUpToExists ==
    ASSUME NEW U, NEW queue \in Seq(U), NEW o
    PROVE  \A n \in Nat : n <= Len(queue) =>
              \E f \in [0..n -> Seq(U)] : KeepsUpTo(f, n, queue, o)
<1>. DEFINE S == {n \in Nat : n <= Len(queue) =>
                      \E f \in [0..n -> Seq(U)] : KeepsUpTo(f, n, queue, o)}
<1>1. 0 \in S
  <2>1. /\ [i \in 0..0 |-> <<>>] \in [0..0 -> Seq(U)]
        /\ KeepsUpTo([i \in 0..0 |-> <<>>], 0, queue, o)
    BY DEF KeepsUpTo
  <2>. QED
    BY <2>1
<1>2. ASSUME NEW n \in Nat, n \in S
      PROVE  n + 1 \in S
  <2>. SUFFICES ASSUME n + 1 <= Len(queue)
                PROVE  \E f \in [0..(n + 1) -> Seq(U)] : KeepsUpTo(f, n + 1, queue, o)
    OBVIOUS
  <2>1. PICK f \in [0..n -> Seq(U)] : KeepsUpTo(f, n, queue, o)
    BY <1>2
  <2>. DEFINE last == IF queue[n + 1] = o THEN f[n] ELSE Append(f[n], queue[n + 1])
              g == [i \in 0..(n + 1) |-> IF i = n + 1 THEN last ELSE f[i]]
  <2>2. last \in Seq(U)
    BY <2>1
  <2>3. g \in [0..(n + 1) -> Seq(U)]
    BY <2>1, <2>2
  <2>4. g[n + 1] = last /\ \A i \in 0..n : g[i] = f[i]
    OBVIOUS
  <2>. HIDE DEF g
  <2>5. KeepsUpTo(g, n + 1, queue, o)
    <3>. SUFFICES ASSUME NEW i \in 0..(n + 1), i # 0
                  PROVE  g[i] = IF queue[i] = o THEN g[i - 1] ELSE Append(g[i - 1], queue[i])
      BY <2>1, <2>4 DEF KeepsUpTo
    <3>1. CASE i = n + 1
      <4>1. i - 1 = n /\ g[n] = f[n]
        BY <2>4, <3>1
      <4>. QED
        BY <2>4, <3>1, <4>1
    <3>2. CASE i # n + 1
      <4>1. i \in 0..n /\ i - 1 \in 0..n
        BY <3>2
      <4>2. g[i] = f[i] /\ g[i - 1] = f[i - 1]
        BY <2>4, <4>1
      <4>. QED
        BY <2>1, <4>1, <4>2 DEF KeepsUpTo
    <3>. QED
      BY <3>1, <3>2
  <2>. QED
    BY <2>3, <2>5
<1>. HIDE DEF S
<1>3. Nat \subseteq S
  BY <1>1, <1>2, SetInduction
<1>. QED
  BY <1>3 DEF S

\* Nothing is kept that was not there: what all of a queue is in, all that is
\* left of it is in.
LEMMA WithoutKeeps ==
    ASSUME NEW U, NEW queue \in Seq(U), NEW o
    PROVE  Without(queue, o) \in Seq(U)
<1>. DEFINE Kept(f) == [i \in 0..Len(queue) |->
                          IF i = 0 THEN <<>>
                          ELSE IF queue[i] = o THEN f[i - 1]
                          ELSE Append(f[i - 1], queue[i])]
            K == CHOOSE f : f = Kept(f)
<1>1. PICK f \in [0..Len(queue) -> Seq(U)] : KeepsUpTo(f, Len(queue), queue, o)
  <2>1. Len(queue) \in Nat /\ Len(queue) <= Len(queue)
    OBVIOUS
  <2>. QED
    BY <2>1, KeepsUpToExists
<1>2. f = Kept(f)
  BY <1>1 DEF KeepsUpTo
<1>3. K = Kept(K)
  <2>. HIDE DEF Kept
  <2>. QED
    BY <1>2
<1>4. Without(queue, o) = K[Len(queue)]
  BY DEF Without
<1>. HIDE DEF K
<1>5. KeepsUpTo(Kept(K), Len(queue), queue, o)
  <2>. DEFINE k == Kept(K)
  <2>1. /\ k[0] = <<>>
        /\ \A i \in 0..Len(queue) : i # 0 =>
              k[i] = IF queue[i] = o THEN K[i - 1] ELSE Append(K[i - 1], queue[i])
    OBVIOUS
  <2>. HIDE DEF k, Kept
  <2>. QED
    BY <1>3, <2>1 DEF KeepsUpTo, k
<1>. DEFINE S == {n \in Nat : n <= Len(queue) => K[n] \in Seq(U)}
<1>. HIDE DEF Kept
<1>6. KeepsUpTo(K, Len(queue), queue, o)
  BY <1>3, <1>5
<1>7. 0 \in S
  <2>1. K[0] = <<>> /\ <<>> \in Seq(U)
    BY <1>6 DEF KeepsUpTo
  <2>. QED
    BY <2>1
<1>8. ASSUME NEW n \in Nat, n \in S
      PROVE  n + 1 \in S
  <2>. SUFFICES ASSUME n + 1 <= Len(queue)
                PROVE  K[n + 1] \in Seq(U)
    OBVIOUS
  <2>1. K[n] \in Seq(U) /\ queue[n + 1] \in U
    BY <1>8
  <2>2. K[n + 1] = IF queue[n + 1] = o THEN K[n] ELSE Append(K[n], queue[n + 1])
    BY <1>6 DEF KeepsUpTo
  <2>. QED
    BY <2>1, <2>2
<1>. HIDE DEF S
<1>9. Nat \subseteq S
  BY <1>7, <1>8, SetInduction
<1>. QED
  BY <1>4, <1>9 DEF S

-----------------------------------------------------------------------------
(* The types.                                                              *)

WorkerStates == Starting \cup {"no", "hosting", "joined", "refused", "over"}

\* The events that a node emits are events.
LEMMA EventType ==
    /\ \A type \in {"RoomOpened", "Joined", "RoomClosed"} : Event(type) \in Events
    /\ \A r \in Requests : ItemEvent("JoinRequest", r) \in Events
    /\ \A o \in Offers : ItemEvent("FileOffer", o) \in Events
BY DEF Event, ItemEvent, Events

\* What an event carries follows from its type.
LEMMA ItemType ==
    ASSUME NEW e \in Events
    PROVE  /\ e.type = "JoinRequest" => e.item \in Requests
           /\ e.type = "FileOffer" => e.item \in Offers
BY DEF Events

\* A queue of events that is not empty has a first one, and the others follow.
LEMMA FirstEvent ==
    ASSUME events \in Seq(Events), events # <<>>
    PROVE  /\ Head(events) \in Events /\ Tail(events) \in Seq(Events)
           /\ 1 \in DOMAIN events /\ Head(events) = events[1]
           /\ \A i \in DOMAIN Tail(events) : /\ i + 1 \in DOMAIN events
                                             /\ Tail(events)[i] = events[i + 1]
OBVIOUS

\* The window's variables keep their types when it shows an event ...
LEMMA ShownType ==
    ASSUME TypeOK, PumpEvent
    PROVE  TypeOK'
<1>1. Head(events) \in Events /\ Tail(events) \in Seq(Events)
  BY FirstEvent DEF TypeOK, PumpEvent
<1>2. UNCHANGED <<node, failures, worker, running, owner>> /\ events' = Tail(events)
  BY DEF PumpEvent
<1>3. CASE EnterRoom
  BY <1>1, <1>2, <1>3 DEF TypeOK, EnterRoom
<1>4. CASE ShowRequest
  BY <1>1, <1>2, <1>4, ItemType DEF TypeOK, ShowRequest
<1>5. CASE ShowOffer
  <2>1. Head(events).item \in Offers
    BY <1>1, <1>5, ItemType DEF ShowOffer
  <2>2. offers' \in Seq(Offers) /\ First(offers') \in Offers
    BY <1>5, <2>1 DEF TypeOK, ShowOffer, First
  <2>. QED
    BY <1>1, <1>2, <1>5, <2>2 DEF TypeOK, ShowOffer
<1>6. CASE ShowClosed
  BY <1>1, <1>2, <1>6 DEF TypeOK, ShowClosed
<1>. QED
  BY <1>3, <1>4, <1>5, <1>6 DEF PumpEvent

\* ... and so do all variables when a thread of a node takes a step.
LEMMA ThreadType ==
    ASSUME TypeOK, NEW n \in Nodes, NodeThreads(n)
    PROVE  TypeOK'
<1>. USE DEF window
<1>1. ASSUME NEW from, NEW to \in WorkerStates, Goes(n, from, to)
      PROVE  worker' \in [Nodes -> WorkerStates]
  BY <1>1 DEF Goes, TypeOK, WorkerStates
<1>2. ASSUME NEW e \in Events, Emit(n, e)
      PROVE  events' \in Seq(Events)
  BY <1>2 DEF Emit, TypeOK
<1>3. Left(n) \in [Nodes -> BOOLEAN]
  BY DEF Left, TypeOK
<1>4. CASE Listens(n)
  BY <1>1, <1>4 DEF Listens, TypeOK, WorkerStates, Starting
<1>5. CASE HostOpens(n) \/ Joins(n) \/ Refused(n)
  <2>1. events' \in Seq(Events)
    BY <1>2, <1>5, EventType DEF HostOpens, Joins, Refused
  <2>2. worker' \in [Nodes -> WorkerStates]
    BY <1>1, <1>5 DEF HostOpens, Joins, Refused, WorkerStates
  <2>. QED
    BY <1>5, <2>1, <2>2 DEF HostOpens, Joins, Refused, TypeOK, WorkerStates
<1>6. CASE JoinAsks(n) \/ Attaches(n)
  BY <1>1, <1>6 DEF JoinAsks, Attaches, TypeOK, WorkerStates, Starting
<1>7. CASE StartFails(n) \/ RefusedEnds(n)
  <2>1. worker' \in [Nodes -> WorkerStates]
    BY <1>1, <1>7 DEF StartFails, RefusedEnds, WorkerStates
  <2>2. running' \in [Nodes -> BOOLEAN] /\ failures' \in Seq(Nodes)
    BY <1>3, <1>7 DEF StartFails, RefusedEnds, TypeOK
  <2>. QED
    BY <1>7, <2>1, <2>2 DEF StartFails, RefusedEnds, TypeOK, WorkerStates
<1>8. ASSUME NEW r \in Requests, RequestComes(n, r)
      PROVE  TypeOK'
  <2>1. events' \in Seq(Events)
    BY <1>2, <1>8, EventType DEF RequestComes
  <2>. QED
    BY <1>8, <2>1 DEF RequestComes, TypeOK, Items
<1>9. ASSUME NEW o \in Offers, OfferComes(n, o)
      PROVE  TypeOK'
  <2>1. events' \in Seq(Events)
    BY <1>2, <1>9, EventType DEF OfferComes
  <2>. QED
    BY <1>9, <2>1 DEF OfferComes, TypeOK, Items
<1>. QED
  BY <1>4, <1>5, <1>6, <1>7, <1>8, <1>9 DEF NodeThreads

\* Every step of the front end is well typed.
LEMMA TypeStep ==
    ASSUME TypeOK, [Next]_vars
    PROVE  TypeOK'
<1>1. ASSUME NEW n \in Nodes, NEW how \in {"host", "join"}, StartNode(n, how)
      PROVE  TypeOK'
  <2>1. running' \in [Nodes -> BOOLEAN] /\ worker' \in [Nodes -> WorkerStates]
    BY <1>1 DEF StartNode, Left, TypeOK, WorkerStates, Starting
  <2>. QED
    BY <1>1, <2>1 DEF StartNode, ResetModels, TypeOK, WorkerStates
<1>2. ASSUME NEW r \in Requests, Approve(r)
      PROVE  TypeOK'
  BY <1>2 DEF Approve, TypeOK
<1>3. CASE RespondOffer
  <2>1. offers' \in Seq(Offers)
    BY <1>3, WithoutKeeps DEF RespondOffer, TypeOK
  <2>2. First(offers') \in Offers \cup {NoOffer}
    BY <2>1 DEF First
  <2>. QED
    BY <1>3, <2>1, <2>2 DEF RespondOffer, TypeOK
<1>4. CASE LeaveRoom \/ PumpFailure
  <2>1. running' \in [Nodes -> BOOLEAN]
    BY <1>4 DEF LeaveRoom, PumpFailure, Left, TypeOK
  <2>2. failures' \in Seq(Nodes)
    <3>1. \A s \in Seq(Nodes) : s # <<>> => Tail(s) \in Seq(Nodes)
      OBVIOUS
    <3>. QED
      BY <1>4, <3>1 DEF LeaveRoom, PumpFailure, TypeOK
  <2>3. /\ screen' = "setup" /\ busy' = FALSE /\ node' = NoNode
        /\ requests' = {} /\ offers' = <<>> /\ events' = <<>>
        /\ worker' = worker /\ owner' = owner /\ (prompt' = prompt \/ prompt' = NoOffer)
    BY <1>4 DEF LeaveRoom, PumpFailure, ResetModels
  <2>4. requests' \in SUBSET Requests /\ offers' \in Seq(Offers) /\ events' \in Seq(Events)
    BY <2>3
  <2>5. prompt' \in Offers \cup {NoOffer}
    BY <2>3 DEF TypeOK
  <2>. QED
    BY <2>1, <2>2, <2>3, <2>4, <2>5 DEF TypeOK
<1>5. CASE PumpEvent
  BY <1>5, ShownType
<1>6. CASE \E n \in Nodes : NodeThreads(n)
  BY <1>6, ThreadType
<1>7. CASE UNCHANGED vars
  BY <1>7 DEF vars, TypeOK
<1>. QED
  BY <1>1, <1>2, <1>3, <1>4, <1>5, <1>6, <1>7
     DEF Next, Callback, HostRoom, JoinRoom

\* The front end starts well typed ...
LEMMA TypeCorrectAtFirst ==
    ASSUME Init
    PROVE  TypeOK
<1>1. worker \in [Nodes -> WorkerStates] /\ running \in [Nodes -> BOOLEAN]
  BY DEF Init, WorkerStates
<1>2. /\ offers \in Seq(Offers) /\ events \in Seq(Events) /\ failures \in Seq(Nodes)
      /\ owner \in [Items -> Nodes \cup {NoNode}]
  BY DEF Init
<1>. QED
  BY <1>1, <1>2 DEF Init, TypeOK, WorkerStates

\* ... and every variable keeps its type.
THEOREM TypeCorrect == Spec => []TypeOK
<1>1. Init => TypeOK
  BY TypeCorrectAtFirst
<1>2. TypeOK /\ [Next]_vars => TypeOK'
  BY TypeStep
<1>. QED
  BY <1>1, <1>2, PTL DEF Spec

-----------------------------------------------------------------------------
(* The window shows the room that the program is in.                       *)

Listening == {"open", "hosting", "dial", "wait", "attached", "joined", "refused"}
InTheRoom == {"hosting", "joined"}

\* Without a node nothing is shown or on its way, and there is no room.
NoRoom == node = NoNode => requests = {} /\ offers = <<>> /\ events = <<>>

\* The present node has been started, and runs from when it listens until
\* its threads are over.
NodeRuns ==
    node # NoNode => /\ worker[node] # "no"
                     /\ worker[node] \in Listening => running[node]

\* What waits in the present node's channel came to that node ...
EventsAreCurrent ==
    \A i \in DOMAIN events :
        events[i].type \in {"JoinRequest", "FileOffer"} => owner[events[i].item] = node

\* ... and tells of a room only when the node's threads have got there.
EventsAreTrue ==
    \A i \in DOMAIN events :
        events[i].type \in {"RoomOpened", "Joined"} => worker[node] \in InTheRoom

\* So does the window.
RoomIsEntered == screen = "room" => node # NoNode /\ worker[node] \in InTheRoom

IInv == /\ TypeOK /\ NoRoom /\ NodeRuns /\ EventsAreCurrent /\ EventsAreTrue
        /\ RoomIsEntered /\ RowsAreCurrent /\ PromptOfNode

\* The offers on the screen came to the present node: as a set of sequences.
CurrentOffers == {o \in Offers : owner[o] = node}
LEMMA OffersAreCurrent ==
    ASSUME offers \in Seq(Offers), \A i \in DOMAIN offers : owner[offers[i]] = node
    PROVE  offers \in Seq(CurrentOffers)
BY DEF CurrentOffers

\* What a node emits is put last in the channel if the node is the present one.
LEMMA Emitted ==
    ASSUME NEW n, NEW e, events \in Seq(Events), Emit(n, e)
    PROVE  \A i \in DOMAIN events' :
              \/ i \in DOMAIN events /\ events'[i] = events[i]
              \/ n = node /\ events'[i] = e
BY DEF Emit

\* A callback of the window leaves it true to the node that is there then.
LEMMA CallbackKeeps ==
    ASSUME IInv, Callback
    PROVE  IInv'
<1>t. TypeOK /\ TypeOK'
  BY TypeStep DEF IInv, Next
<1>1. ASSUME NEW n \in Nodes, NEW how \in {"host", "join"}, screen = "setup",
             StartNode(n, how)
      PROVE  IInv'
  <2>1. /\ node' = n /\ events' = <<>> /\ offers' = <<>> /\ requests' = {}
        /\ prompt' = NoOffer /\ screen' = "setup"
    BY <1>1 DEF StartNode, ResetModels
  <2>2. worker'[n] = how /\ how \notin Listening /\ how # "no"
    BY <1>1, <1>t DEF StartNode, Listening, TypeOK
  <2>3. n # NoNode
    BY InterfaceAssumption
  <2>. QED
    BY <1>t, <2>1, <2>2, <2>3 DEF IInv, NoRoom, NodeRuns, EventsAreCurrent, EventsAreTrue,
       RoomIsEntered, RowsAreCurrent, PromptOfNode, First
<1>2. ASSUME NEW r \in Requests, Approve(r)
      PROVE  IInv'
  BY <1>2, <1>t DEF Approve, IInv, NoRoom, NodeRuns, EventsAreCurrent, EventsAreTrue,
     RoomIsEntered, RowsAreCurrent, PromptOfNode, First
<1>3. CASE RespondOffer
  <2>1. /\ offers' = Without(offers, prompt) /\ prompt' = First(offers') /\ node # NoNode
        /\ UNCHANGED <<screen, node, requests, events, worker, running, owner>>
    BY <1>3 DEF RespondOffer
  <2>2. offers' \in Seq(CurrentOffers)
    BY <1>t, <2>1, OffersAreCurrent, WithoutKeeps DEF IInv, RowsAreCurrent, TypeOK
  <2>3. RowsAreCurrent'
    BY <2>1, <2>2 DEF CurrentOffers, IInv, RowsAreCurrent
  <2>4. PromptOfNode'
    BY <2>1 DEF PromptOfNode, First
  <2>. QED
    BY <1>t, <2>1, <2>3, <2>4 DEF IInv, NoRoom, NodeRuns, EventsAreCurrent,
       EventsAreTrue, RoomIsEntered
<1>4. CASE LeaveRoom
  BY <1>4, <1>t DEF LeaveRoom, ResetModels, IInv, NoRoom, NodeRuns, EventsAreCurrent,
     EventsAreTrue, RoomIsEntered, RowsAreCurrent, PromptOfNode
<1>. QED
  BY <1>1, <1>2, <1>3, <1>4 DEF Callback, HostRoom, JoinRoom

\* So does the pump.
LEMMA PumpKeeps ==
    ASSUME IInv, PumpFailure \/ PumpEvent
    PROVE  IInv'
<1>t. TypeOK /\ TypeOK'
  BY TypeStep DEF IInv, Next
<1>1. CASE PumpFailure
  BY <1>1, <1>t DEF PumpFailure, ResetModels, IInv, NoRoom, NodeRuns, EventsAreCurrent,
     EventsAreTrue, RoomIsEntered, RowsAreCurrent, PromptOfNode
<1>2. CASE PumpEvent
  <2>. DEFINE e == Head(events)
  <2>1. /\ events # <<>> /\ events' = Tail(events)
        /\ UNCHANGED <<node, worker, running, owner>>
    BY <1>2 DEF PumpEvent
  <2>2. /\ e \in Events /\ 1 \in DOMAIN events /\ e = events[1]
        /\ \A i \in DOMAIN events' : /\ i + 1 \in DOMAIN events
                                     /\ events'[i] = events[i + 1]
    BY <1>t, <2>1, FirstEvent DEF TypeOK
  <2>3. node # NoNode
    BY <2>1 DEF IInv, NoRoom
  <2>4. NoRoom' /\ NodeRuns'
    BY <2>1, <2>3 DEF IInv, NoRoom, NodeRuns
  <2>5. EventsAreCurrent' /\ EventsAreTrue'
    BY <2>1, <2>2 DEF IInv, EventsAreCurrent, EventsAreTrue
  <2>6. /\ e.type \in {"JoinRequest", "FileOffer"} => owner[e.item] = node
        /\ e.type \in {"RoomOpened", "Joined"} => worker[node] \in InTheRoom
    BY <2>2 DEF IInv, EventsAreCurrent, EventsAreTrue
  <2>7. RoomIsEntered' /\ RowsAreCurrent' /\ PromptOfNode'
    <3>. HIDE DEF e
    <3>1. CASE EnterRoom
      BY <2>1, <2>3, <2>6, <3>1 DEF EnterRoom, IInv, RoomIsEntered, RowsAreCurrent,
         PromptOfNode, e
    <3>2. CASE ShowRequest
      BY <2>1, <2>6, <3>2 DEF ShowRequest, IInv, RoomIsEntered, RowsAreCurrent,
         PromptOfNode, e
    <3>3. CASE ShowOffer
      <4>1. /\ offers' = Append(offers, e.item) /\ prompt' = First(offers')
            /\ UNCHANGED <<screen, requests>> /\ owner[e.item] = node
            /\ e.item \in Offers
        BY <2>2, <2>6, <3>3, ItemType DEF ShowOffer, e
      <4>2. \A i \in DOMAIN offers' : \/ offers'[i] = e.item
                                      \/ i \in DOMAIN offers /\ offers'[i] = offers[i]
        BY <1>t, <4>1 DEF TypeOK
      <4>. QED
        BY <2>1, <4>1, <4>2 DEF IInv, RoomIsEntered, RowsAreCurrent, PromptOfNode, First
    <3>4. CASE ShowClosed
      BY <2>1, <3>4 DEF ShowClosed, IInv, RoomIsEntered, RowsAreCurrent, PromptOfNode
    <3>. QED
      BY <1>2, <3>1, <3>2, <3>3, <3>4 DEF PumpEvent
  <2>. QED
    BY <1>t, <2>4, <2>5, <2>7 DEF IInv
<1>. QED
  BY <1>1, <1>2

\* A thread of a node, whether or not it is the present one, makes nothing
\* that is shown untrue, and tells the window only what is true.
LEMMA ThreadKeeps ==
    ASSUME IInv, NEW n \in Nodes, NodeThreads(n)
    PROVE  IInv'
<1>t. TypeOK /\ TypeOK' /\ n # NoNode
  BY TypeStep, InterfaceAssumption DEF IInv, Next
<1>s. UNCHANGED <<screen, node, requests, offers, prompt>>
  BY DEF NodeThreads, window, Listens, HostOpens, JoinAsks, StartFails, Attaches, Joins,
     Refused, RefusedEnds, RequestComes, OfferComes
<1>e. /\ \A m \in Nodes : m # n => worker'[m] = worker[m] /\ running'[m] = running[m]
      /\ worker[n] \in InTheRoom => worker'[n] = worker[n] /\ running'[n] = running[n]
      /\ (worker[n] # "no" /\ (worker[n] \in Listening => running[n]))
           => (worker'[n] # "no" /\ (worker'[n] \in Listening => running'[n]))
  <2>. USE <1>t DEF TypeOK, Goes, Left, Listening, InTheRoom
  <2>1. CASE Listens(n)
    BY <2>1 DEF Listens
  <2>2. CASE HostOpens(n) \/ JoinAsks(n) \/ Attaches(n) \/ Joins(n) \/ Refused(n)
    BY <2>2 DEF HostOpens, JoinAsks, Attaches, Joins, Refused
  <2>3. CASE StartFails(n) \/ RefusedEnds(n)
    BY <2>3 DEF StartFails, RefusedEnds
  <2>4. CASE \E r \in Requests : RequestComes(n, r)
    BY <2>4 DEF RequestComes
  <2>5. CASE \E o \in Offers : OfferComes(n, o)
    BY <2>5 DEF OfferComes
  <2>. QED
    BY <2>1, <2>2, <2>3, <2>4, <2>5 DEF NodeThreads
<1>1. NodeRuns' /\ RoomIsEntered'
  BY <1>t, <1>s, <1>e DEF IInv, NodeRuns, RoomIsEntered, TypeOK
<1>2. \A i \in Items : owner[i] # NoNode => owner'[i] = owner[i]
  BY <1>t DEF NodeThreads, Listens, HostOpens, JoinAsks, StartFails, Attaches, Joins,
     Refused, RefusedEnds, RequestComes, OfferComes, TypeOK
<1>3. RowsAreCurrent'
  BY <1>t, <1>s, <1>2 DEF IInv, NoRoom, RowsAreCurrent, TypeOK, Items
<1>4. PromptOfNode'
  BY <1>s DEF IInv, PromptOfNode, First
<1>. DEFINE True(e) ==
                /\ e.type \in {"JoinRequest", "FileOffer"} => owner'[e.item] = n
                /\ e.type \in {"RoomOpened", "Joined"} => worker'[n] \in InTheRoom
            New == \A i \in DOMAIN events' :
                      \/ i \in DOMAIN events /\ events'[i] = events[i]
                      \/ n = node /\ True(events'[i])
<1>5. New
  <2>. USE <1>t DEF TypeOK
  <2>1. CASE UNCHANGED events
    BY <2>1
  <2>2. CASE HostOpens(n) \/ Joins(n)
    <3>1. worker'[n] \in InTheRoom
      BY <2>2 DEF HostOpens, Joins, Goes, InTheRoom
    <3>2. \E e \in {Event("RoomOpened"), Event("Joined")} : Emit(n, e)
      BY <2>2 DEF HostOpens, Joins
    <3>. QED
      BY <3>1, <3>2, Emitted DEF Event
  <2>3. CASE Refused(n)
    <3>1. Emit(n, Event("RoomClosed"))
      BY <2>3 DEF Refused
    <3>. QED
      BY <3>1, Emitted DEF Event
  <2>4. ASSUME NEW r \in Requests, RequestComes(n, r)
        PROVE  New
    <3>1. Emit(n, ItemEvent("JoinRequest", r)) /\ owner'[r] = n
      BY <2>4 DEF RequestComes, Items
    <3>2. True(ItemEvent("JoinRequest", r))
      BY <3>1 DEF ItemEvent
    <3>. QED
      BY <3>1, <3>2, Emitted
  <2>5. ASSUME NEW o \in Offers, OfferComes(n, o)
        PROVE  New
    <3>1. Emit(n, ItemEvent("FileOffer", o)) /\ owner'[o] = n
      BY <2>5 DEF OfferComes, Items
    <3>2. True(ItemEvent("FileOffer", o))
      BY <3>1 DEF ItemEvent
    <3>. QED
      BY <3>1, <3>2, Emitted
  <2>6. CASE Listens(n) \/ JoinAsks(n) \/ StartFails(n) \/ Attaches(n) \/ RefusedEnds(n)
    BY <2>1, <2>6 DEF Listens, JoinAsks, StartFails, Attaches, RefusedEnds
  <2>. HIDE DEF New
  <2>. QED
    BY <2>2, <2>3, <2>4, <2>5, <2>6 DEF NodeThreads
<1>6. NoRoom'
  <2>. SUFFICES ASSUME node = NoNode PROVE events' = <<>>
    BY <1>s DEF IInv, NoRoom
  <2>1. DOMAIN events = {}
    BY DEF IInv, NoRoom
  <2>2. DOMAIN events' = {}
    BY <1>t, <1>5, <2>1
  <2>. QED
    BY <1>t, <2>2 DEF TypeOK
<1>7. ASSUME NEW i \in DOMAIN events'
      PROVE  /\ events'[i].type \in {"JoinRequest", "FileOffer"}
                  => owner'[events'[i].item] = node
             /\ events'[i].type \in {"RoomOpened", "Joined"} => worker'[node] \in InTheRoom
  <2>1. CASE i \in DOMAIN events /\ events'[i] = events[i]
    <3>1. node \in Nodes /\ node # NoNode /\ events[i] \in Events
      BY <1>t, <2>1 DEF IInv, NoRoom, TypeOK
    <3>2. /\ events[i].type = "JoinRequest" => events[i].item \in Items
          /\ events[i].type = "FileOffer" => events[i].item \in Items
      BY <3>1, ItemType DEF Items
    <3>3. worker[node] \in InTheRoom => worker'[node] = worker[node]
      BY <1>e, <3>1
    <3>. QED
      BY <1>2, <2>1, <3>1, <3>2, <3>3 DEF IInv, EventsAreCurrent, EventsAreTrue
  <2>2. CASE n = node /\ True(events'[i])
    BY <2>2
  <2>. QED
    BY <1>5, <2>1, <2>2
<1>8. EventsAreCurrent' /\ EventsAreTrue'
  BY <1>s, <1>7 DEF EventsAreCurrent, EventsAreTrue
<1>. QED
  BY <1>t, <1>1, <1>3, <1>4, <1>6, <1>8 DEF IInv

\* The invariant holds of every behaviour.
LEMMA Invariant == Spec => []IInv
<1>1. Init => IInv
  <2>. SUFFICES ASSUME Init PROVE IInv
    OBVIOUS
  <2>1. /\ node = NoNode /\ screen = "setup" /\ requests = {}
        /\ offers = <<>> /\ events = <<>>
    BY DEF Init
  <2>2. NoRoom /\ NodeRuns /\ EventsAreCurrent /\ EventsAreTrue
    BY <2>1 DEF NoRoom, NodeRuns, EventsAreCurrent, EventsAreTrue
  <2>3. RoomIsEntered /\ RowsAreCurrent /\ PromptOfNode
    BY <2>1 DEF RoomIsEntered, RowsAreCurrent, PromptOfNode
  <2>. QED
    BY <2>2, <2>3, TypeCorrectAtFirst DEF IInv
<1>2. IInv /\ [Next]_vars => IInv'
  <2>1. CASE UNCHANGED vars
    BY <2>1 DEF vars, IInv, TypeOK, NoRoom, NodeRuns, EventsAreCurrent, EventsAreTrue,
       RoomIsEntered, RowsAreCurrent, PromptOfNode, First
  <2>. QED
    BY <2>1, CallbackKeeps, PumpKeeps, ThreadKeeps DEF Next
<1>. QED
  BY <1>1, <1>2, PTL DEF Spec

\* Nothing of an earlier room is on the screen, whatever waited in its channel
\* when it was dropped (start_node, on_leave_room, pump).
THEOREM RowsStayCurrent == Spec => []RowsAreCurrent
BY Invariant, PTL DEF IInv

\* What PromptIsFirst says of a step that finds the prompt as it should be.
PromptStep ==
    prompt = First(offers) => \/ prompt' = First(offers')
                              \/ failures # <<>> /\ failures' = Tail(failures)

\* Whatever clears or moves the queue sees to the prompt, but for PumpFailure.
LEMMA PromptFollows ==
    ASSUME [Next]_vars
    PROVE  PromptStep
<1>1. ASSUME NEW n \in Nodes, HostRoom(n) \/ JoinRoom(n)
      PROVE  PromptStep
  BY <1>1 DEF PromptStep, HostRoom, JoinRoom, StartNode, ResetModels, First
<1>2. ASSUME NEW r \in Requests, Approve(r)
      PROVE  PromptStep
  BY <1>2 DEF PromptStep, Approve
<1>3. CASE RespondOffer
  BY <1>3 DEF PromptStep, RespondOffer
<1>4. CASE LeaveRoom
  BY <1>4 DEF PromptStep, LeaveRoom, ResetModels, First
<1>5. CASE PumpFailure
  BY <1>5 DEF PromptStep, PumpFailure
<1>6. CASE PumpEvent
  BY <1>6 DEF PromptStep, PumpEvent, EnterRoom, ShowRequest, ShowOffer, ShowClosed
<1>7. ASSUME NEW n \in Nodes, NodeThreads(n)
      PROVE  UNCHANGED <<prompt, offers>>
  BY <1>7 DEF NodeThreads, Listens, HostOpens, JoinAsks, StartFails, Attaches,
     Joins, Refused, RefusedEnds, RequestComes, OfferComes, window
<1>8. CASE UNCHANGED vars
  BY <1>8 DEF PromptStep, vars
<1>. QED
  BY <1>1, <1>2, <1>3, <1>4, <1>5, <1>6, <1>7, <1>8 DEF Next, Callback, PromptStep

\* With a node the window asks about the oldest offer that waits there, and
\* nothing but a StartFailed makes it ask about one that no longer waits
\* (show_next_offer, start_node, pump).
THEOREM PromptStaysFirst == Spec => PromptIsFirst
<1>1. IInv => PromptOfNode
  BY DEF IInv
<1>2. PromptOfNode' /\ [Next]_vars => [PromptOfNode' /\ PromptStep]_vars
  BY PromptFollows
<1>. QED
  BY <1>1, <1>2, Invariant, PTL DEF Spec, PromptIsFirst, PromptStep

\* A window that shows a room has a node, which is in that room: a failure or
\* an event that comes late leaves it showing none that is gone (pump).
THEOREM ScreenStaysTrue == Spec => []ScreenIsTrue
<1>1. IInv => ScreenIsTrue
  BY DEF IInv, RoomIsEntered, NodeRuns, ScreenIsTrue, InTheRoom, Listening
<1>. QED
  BY <1>1, Invariant, PTL

=============================================================================
