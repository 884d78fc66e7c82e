----------------------------- MODULE Interface -----------------------------
(***************************************************************************)
(* The front end of ui/src/main.rs: one UI thread that runs the callbacks  *)
(* of the window and, between them, the pump; a new engine node for every  *)
(* attempt to host or join; and each node's starting threads, which tell   *)
(* the pump what became of them by two channels, one of events that goes   *)
(* with the node and one of failures that outlives it.                     *)
(***************************************************************************)
EXTENDS Naturals, Sequences

CONSTANTS
    Nodes,      \* the engine nodes that may be made, one per attempt
    Requests,   \* join requests that may reach a host
    Offers,     \* file offers that may reach a node
    NoNode,     \* App.node when there is none; the owner of what has not come
    NoOffer     \* the prompt when it is empty

ASSUME InterfaceAssumption ==
    /\ NoNode \notin Nodes
    /\ NoOffer \notin Offers
    /\ Requests \cap Offers = {}

VARIABLES
    screen,     \* "setup" | "room"
    busy,       \* the window's busy property
    node,       \* App.node
    requests,   \* the rows of join requests
    offers,     \* App.offers
    prompt,     \* offer_id, the offer the window asks about
    events,     \* what waits in App.rx, the present node's channel
    failures,   \* StartFailed messages in ui_rx, by the node that failed
    worker,     \* worker[n]: where the threads that start node n stand
    running,    \* running[n]: n's flag
    owner       \* owner[i]: the node that request or offer i came to

window == <<screen, busy, requests, offers, prompt>>
vars == <<screen, busy, node, requests, offers, prompt, events, failures,
          worker, running, owner>>

Items == Requests \cup Offers
Event(type) == [type |-> type, item |-> NoOffer]
ItemEvent(type, i) == [type |-> type, item |-> i]
Events == [type : {"RoomOpened", "Joined", "RoomClosed"}, item : {NoOffer}]
          \cup [type : {"JoinRequest"}, item : Requests]
          \cup [type : {"FileOffer"}, item : Offers]

Starting == {"host", "open", "join", "dial", "wait", "attached"}

TypeOK ==
    /\ screen \in {"setup", "room"}
    /\ busy \in BOOLEAN
    /\ node \in Nodes \cup {NoNode}
    /\ requests \in SUBSET Requests
    /\ offers \in Seq(Offers)
    /\ prompt \in Offers \cup {NoOffer}
    /\ events \in Seq(Events)
    /\ failures \in Seq(Nodes)
    /\ worker \in [Nodes -> Starting \cup {"no", "hosting", "joined", "refused", "over"}]
    /\ running \in [Nodes -> BOOLEAN]
    /\ owner \in [Items -> Nodes \cup {NoNode}]

Init ==
    /\ screen = "setup" /\ busy = FALSE /\ node = NoNode
    /\ requests = {} /\ offers = <<>> /\ prompt = NoOffer
    /\ events = <<>> /\ failures = <<>>
    /\ worker = [n \in Nodes |-> "no"]
    /\ running = [n \in Nodes |-> FALSE]
    /\ owner = [i \in Items |-> NoNode]

\* leave() on node n, if there is one; what it emits has no receiver left.
Left(n) == [m \in Nodes |-> IF m = n THEN FALSE ELSE running[m]]

\* emit(): what a node says when its channel is gone is lost.
Emit(n, e) == events' = IF n = node THEN Append(events, e) ELSE events

\* VecDeque::retain, of everything but o.
Without(queue, o) ==
    LET Kept[i \in 0..Len(queue)] ==
            IF i = 0 THEN <<>>
            ELSE IF queue[i] = o THEN Kept[i - 1] ELSE Append(Kept[i - 1], queue[i])
    IN  Kept[Len(queue)]

First(queue) == IF queue = <<>> THEN NoOffer ELSE Head(queue)

ResetModels == requests' = {} /\ offers' = <<>>

-----------------------------------------------------------------------------
(* The callbacks.                                                          *)

\* Mutant: the new node is read through the old node's channel.
StartNodeKeepsRx(n, how) ==
    /\ worker[n] = "no"
    /\ running' = Left(node)
    /\ node' = n
    /\ ResetModels /\ prompt' = NoOffer
    /\ busy' = TRUE
    /\ worker' = [worker EXCEPT ![n] = how]
    /\ UNCHANGED <<screen, events, failures, owner>>

\* Mutant: the prompt is left as it was.
StartNodeKeepsPrompt(n, how) ==
    /\ worker[n] = "no"
    /\ running' = Left(node)
    /\ node' = n /\ events' = <<>>
    /\ ResetModels
    /\ busy' = TRUE
    /\ worker' = [worker EXCEPT ![n] = how]
    /\ UNCHANGED <<screen, prompt, failures, owner>>

\* start_node, and the thread that its callers start for host() or join().
StartNode(n, how) ==
    /\ worker[n] = "no"
    /\ running' = Left(node)
    /\ node' = n /\ events' = <<>>
    /\ ResetModels /\ prompt' = NoOffer
    /\ busy' = TRUE
    /\ worker' = [worker EXCEPT ![n] = how]
    /\ UNCHANGED <<screen, failures, owner>>

HostRoom(n) == screen = "setup" /\ ~busy /\ StartNode(n, "host")

\* The button heeds `busy`; Enter in the field of the code does not.
JoinRoom(n) == screen = "setup" /\ StartNode(n, "join")

\* The row is taken out, and what becomes of the request is the node's affair.
Approve(r) ==
    /\ r \in requests /\ node # NoNode
    /\ requests' = requests \ {r}
    /\ UNCHANGED <<screen, busy, node, offers, prompt, events, failures, worker,
                   running, owner>>

\* Accepted or declined; a save dialog that is cancelled changes nothing.
RespondOffer ==
    /\ prompt # NoOffer /\ node # NoNode
    /\ offers' = Without(offers, prompt)
    /\ prompt' = First(offers')
    /\ UNCHANGED <<screen, busy, node, requests, events, failures, worker,
                   running, owner>>

LeaveRoom ==
    /\ screen = "room"
    /\ running' = Left(node)
    /\ node' = NoNode /\ events' = <<>>
    /\ ResetModels /\ prompt' = NoOffer
    /\ screen' = "setup" /\ busy' = FALSE
    /\ UNCHANGED <<failures, worker, owner>>

-----------------------------------------------------------------------------
(* pump().                                                                 *)

\* Mutant: the node is dropped, and the window still shows its room.
PumpFailureKeepsScreen ==
    /\ failures # <<>>
    /\ failures' = Tail(failures)
    /\ running' = Left(node)
    /\ node' = NoNode /\ events' = <<>>
    /\ ResetModels
    /\ busy' = FALSE
    /\ UNCHANGED <<screen, prompt, worker, owner>>

\* StartFailed: whichever node is there now is dropped.
PumpFailure ==
    /\ failures # <<>>
    /\ failures' = Tail(failures)
    /\ running' = Left(node)
    /\ node' = NoNode /\ events' = <<>>
    /\ ResetModels
    /\ screen' = "setup" /\ busy' = FALSE
    /\ UNCHANGED <<prompt, worker, owner>>

\* handle_event, for the events that change more than rows of text.  A
\* JoinResolved finds its row gone: Approve took it out.
EnterRoom ==
    /\ Head(events).type \in {"RoomOpened", "Joined"}
    /\ screen' = "room" /\ busy' = FALSE
    /\ UNCHANGED <<requests, offers, prompt>>
ShowRequest ==
    /\ Head(events).type = "JoinRequest"
    /\ requests' = requests \cup {Head(events).item}
    /\ UNCHANGED <<screen, busy, offers, prompt>>
ShowOffer ==
    /\ Head(events).type = "FileOffer"
    /\ offers' = Append(offers, Head(events).item)
    /\ prompt' = First(offers')
    /\ UNCHANGED <<screen, busy, requests>>
ShowClosed ==
    /\ Head(events).type = "RoomClosed"
    /\ requests' = {}
    /\ UNCHANGED <<screen, busy, offers, prompt>>

PumpEvent ==
    /\ events # <<>>
    /\ events' = Tail(events)
    /\ EnterRoom \/ ShowRequest \/ ShowOffer \/ ShowClosed
    /\ UNCHANGED <<node, failures, worker, running, owner>>

-----------------------------------------------------------------------------
(* The threads of a node, as far as the window can tell.                   *)

Goes(n, from, to) == worker[n] = from /\ worker' = [worker EXCEPT ![n] = to]

\* host() and join() listen, and only then set `running`.
Listens(n) ==
    /\ Goes(n, "host", "open") \/ Goes(n, "join", "dial")
    /\ running' = [running EXCEPT ![n] = TRUE]
    /\ UNCHANGED <<window, node, events, failures, owner>>

HostOpens(n) ==
    /\ Goes(n, "open", "hosting")
    /\ Emit(n, Event("RoomOpened"))
    /\ UNCHANGED <<window, node, failures, running, owner>>

JoinAsks(n) ==
    /\ Goes(n, "dial", "wait")
    /\ UNCHANGED <<window, node, events, failures, running, owner>>

\* An error of host() or join() is sent on, after shutdown_internal if need be.
StartFails(n) ==
    /\ \E from \in {"host", "join", "dial"} : Goes(n, from, "over")
    /\ running' = Left(n)
    /\ failures' = Append(failures, n)
    /\ UNCHANGED <<window, node, events, owner>>

\* await_welcome: attach_peer, and then the event.
Attaches(n) ==
    /\ Goes(n, "wait", "attached")
    /\ UNCHANGED <<window, node, events, failures, running, owner>>
Joins(n) ==
    /\ Goes(n, "attached", "joined")
    /\ Emit(n, Event("Joined"))
    /\ UNCHANGED <<window, node, failures, running, owner>>

\* await_welcome: the event, and then shutdown_internal.
Refused(n) ==
    /\ Goes(n, "wait", "refused")
    /\ Emit(n, Event("RoomClosed"))
    /\ UNCHANGED <<window, node, failures, running, owner>>
RefusedEnds(n) ==
    /\ Goes(n, "refused", "over")
    /\ running' = Left(n)
    /\ UNCHANGED <<window, node, events, failures, owner>>

\* on_hello: the accept loop runs before RoomOpened is emitted.
RequestComes(n, r) ==
    /\ running[n] /\ worker[n] \in {"open", "hosting"} /\ owner[r] = NoNode
    /\ owner' = [owner EXCEPT ![r] = n]
    /\ Emit(n, ItemEvent("JoinRequest", r))
    /\ UNCHANGED <<window, node, failures, worker, running>>

\* handle_file_control: a peer that is attached may offer a file.
OfferComes(n, o) ==
    /\ running[n] /\ worker[n] \in {"hosting", "attached", "joined"}
    /\ owner[o] = NoNode
    /\ owner' = [owner EXCEPT ![o] = n]
    /\ Emit(n, ItemEvent("FileOffer", o))
    /\ UNCHANGED <<window, node, failures, worker, running>>

-----------------------------------------------------------------------------
Callback ==
    \/ \E n \in Nodes : HostRoom(n) \/ JoinRoom(n)
    \/ \E r \in Requests : Approve(r)
    \/ RespondOffer \/ LeaveRoom

NodeThreads(n) ==
    \/ Listens(n) \/ HostOpens(n) \/ JoinAsks(n) \/ StartFails(n)
    \/ Attaches(n) \/ Joins(n) \/ Refused(n) \/ RefusedEnds(n)
    \/ \E r \in Requests : RequestComes(n, r)
    \/ \E o \in Offers : OfferComes(n, o)

Next ==
    \/ Callback
    \/ PumpFailure \/ PumpEvent
    \/ \E n \in Nodes : NodeThreads(n)

Spec == Init /\ [][Next]_vars

-----------------------------------------------------------------------------
(* Properties.                                                             *)

\* Nothing of an earlier room is on the screen: the requests and offers shown
\* came to the node that an answer would be given to (start_node, pump).
RowsAreCurrent ==
    /\ \A r \in requests : owner[r] = node
    /\ \A i \in DOMAIN offers : owner[offers[i]] = node

PromptOfNode == node # NoNode => prompt = First(offers)

\* With a node, the window asks about the oldest offer that waits there, and
\* about none when there is none; and of all that takes a node away, only a
\* StartFailed leaves it asking about an offer that no longer waits: pump()
\* clears the queue and not offer_id there.  Until the next attempt the window
\* then shows that prompt, with no node to answer to.
PromptIsFirst ==
    [][/\ PromptOfNode'
       /\ prompt = First(offers) =>
            \/ prompt' = First(offers')
            \/ failures # <<>> /\ failures' = Tail(failures)]_vars

\* A window that shows a room has a node, and that node is in the room: no
\* late failure and no stale event leaves it showing a room that is gone.
ScreenIsTrue == screen = "room" => node # NoNode /\ running[node]

\* "You are already in a room - leave it first" (Node::ensure_idle): one
\* program is in one room at a time.
OneRoom == \A m, n \in Nodes : running[m] /\ running[n] => m = n

=============================================================================
