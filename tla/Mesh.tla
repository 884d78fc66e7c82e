-------------------------------- MODULE Mesh --------------------------------
(***************************************************************************)
(* The mesh of core/src/mesh.rs: one host, the nodes that ask it to join,  *)
(* and the threads each of them runs -- the joining thread, one thread per *)
(* approval the operator clicks, one per peer being dialled, one per       *)
(* inbound connection, one reader per attached link, and `leave`.          *)
(*                                                                         *)
(* A step is what one thread does between two points where another thread  *)
(* or another node can tell the difference: one section under the state    *)
(* lock, or one send or receive on a link.  A link is one TCP connection   *)
(* with its encrypted channel: a queue per direction, closed by either     *)
(* end.  Every node joins at most once, so the join link is unique and a   *)
(* mesh link is named by who dialled whom at which attempt.                *)
(***************************************************************************)
EXTENDS Naturals, Sequences, FiniteSets

CONSTANTS
    Host,           \* the node that opens the room
    Joiners,        \* the nodes that may ask to join
    NoLink,         \* the entry of a peer that is not in the peers map
    MaxTries,       \* dial attempts per peer; 3 in dial_peer
    MaxApprovers,   \* approve() calls the host's operator has in progress at once
    Leavers,        \* nodes whose operator may leave the room
    Crashers,       \* nodes whose process may end without leaving
    MaxDepartures,  \* how many nodes may leave or crash
    Fragile         \* links the network may break, or fail to establish

Nodes == {Host} \cup Joiners

JoinLink(j) == <<j, Host, 1>>
MeshLink(j, k, i) == <<j, k, i>>
JoinLinks == {JoinLink(j) : j \in Joiners}
MeshLinks == {l \in Joiners \X Joiners \X (1..MaxTries) : l[1] # l[2]}
Links == JoinLinks \cup MeshLinks

Dialer(l) == l[1]
Target(l) == l[2]
Other(l, n) == IF n = Dialer(l) THEN Target(l) ELSE Dialer(l)
Ends == {e \in Links \X Nodes : e[2] \in {Dialer(e[1]), Target(e[1])}}

ASSUME MeshAssumption ==
    /\ Host \notin Joiners
    /\ NoLink \notin Links
    /\ MaxTries \in Nat \ {0}
    /\ MaxApprovers \in Nat \ {0}
    /\ MaxDepartures \in Nat
    /\ Leavers \subseteq Nodes
    /\ Crashers \subseteq Nodes
    /\ Fragile \subseteq Links

\* The control messages the mesh is built with.  `who` is the payload: the
\* peers a Welcome lists, or the one peer a PeerJoined or PeerLeft is about.
MsgTypes == {"Hello", "Welcome", "Rejected", "MeshHello", "MeshAck",
             "PeerJoined", "PeerLeft", "Bye"}
Msg(type, who) == [type |-> type, who |-> who]
Messages == [type : MsgTypes, who : SUBSET Nodes]

VARIABLES
    life,     \* "idle" | "live" (running) | "leaving" (running cleared) |
              \* "drained" (maps taken) | "out" | "crashed"
    peers,    \* peers[n][m]: the link n holds to m, or NoLink
    roster,   \* roster[n]: the ids n lets dial it
    pending,  \* joiners parked at the host until the operator decides
    join,     \* where the joining thread of each joiner stands
    dial,     \* dial[j][k]: where j's dial_peer thread for k stands
    serve,    \* where the target's handle_incoming thread for a link stands
    appr,     \* where the host's approve() call for a joiner stands
    reader,   \* where the reader thread of a link's end stands, from the
              \* insert into the map on ("begin": the thread is yet to start)
    wire,     \* wire[<<l, n>>]: messages on link l on their way to n
    shut,     \* link ends that are closed
    byes,     \* byes[n]: drained links leave() has yet to say Bye on
    orphans,  \* parked links the host's leave() has yet to close
    status    \* status[n][m]: last state of m shown to n's operator

node == <<life, peers, roster, status>>
hostvars == <<pending, appr>>
chan == <<wire, shut>>
teardown == <<byes, orphans>>
vars == <<life, peers, roster, pending, join, dial, serve, appr, reader,
          wire, shut, byes, orphans, status>>

LifeStates == {"idle", "live", "leaving", "drained", "out", "crashed"}
JoinStates == {"no", "dial", "wait", "attach", "done"}
DialStates == {"no", "queued", "begin", "try", "sent", "ok", "failed", "quit"}
ServeStates == {"no", "first", "park", "grace", "free", "ack", "attach", "done"}
ApprStates == {"no", "snapshot", "announce", "welcome", "attach", "done",
               "broken", "declined"}
ReaderStates == {"no", "begin", "run", "tellBye", "tellErr", "showBye", "showErr",
                 "done"}
Shown == {"none", "Connecting", "Connected", "Failed", "Disconnected"}

TypeOK ==
    /\ life \in [Nodes -> LifeStates]
    /\ peers \in [Nodes -> [Nodes -> Links \cup {NoLink}]]
    /\ roster \in [Nodes -> SUBSET Nodes]
    /\ pending \in SUBSET Joiners
    /\ join \in [Joiners -> JoinStates]
    /\ dial \in [Joiners -> [Joiners -> [pc : DialStates, try : 1..MaxTries]]]
    /\ serve \in [Links -> ServeStates]
    /\ appr \in [Joiners -> [pc : ApprStates, todo : SUBSET Nodes,
                             met : SUBSET Nodes]]
    /\ reader \in [Ends -> ReaderStates]
    /\ wire \in [Ends -> Seq(Messages)]
    /\ shut \in SUBSET Ends
    /\ byes \in [Nodes -> SUBSET Links]
    /\ orphans \in SUBSET JoinLinks
    /\ status \in [Nodes -> [Nodes -> Shown]]
    /\ \A n, m \in Nodes : peers[n][m] # NoLink => <<peers[n][m], n>> \in Ends
    /\ \A n \in Nodes : \A l \in byes[n] : <<l, n>> \in Ends

Init ==
    /\ life = [n \in Nodes |-> "idle"]
    /\ peers = [n \in Nodes |-> [m \in Nodes |-> NoLink]]
    /\ roster = [n \in Nodes |-> {}]
    /\ pending = {}
    /\ join = [j \in Joiners |-> "no"]
    /\ dial = [j \in Joiners |-> [k \in Joiners |-> [pc |-> "no", try |-> 1]]]
    /\ serve = [l \in Links |-> "no"]
    /\ appr = [j \in Joiners |-> [pc |-> "no", todo |-> {}, met |-> {}]]
    /\ reader = [e \in Ends |-> "no"]
    /\ wire = [e \in Ends |-> <<>>]
    /\ shut = {}
    /\ byes = [n \in Nodes |-> {}]
    /\ orphans = {}
    /\ status = [n \in Nodes |-> [m \in Nodes |-> "none"]]

Running(n) == life[n] = "live"
Alive(n) == life[n] # "crashed"
Connected(n) == {m \in Nodes : peers[n][m] # NoLink}
Made(l) == serve[l] # "no"

-----------------------------------------------------------------------------
(* Links.  TCP reports the other side's close only some time after it, and *)
(* a reset may discard what was in flight: a send to a closed far end is   *)
(* lost or refused, a receive may fail before the queue is empty.          *)

End(l, n) == <<l, n>>
FarEnd(l, n) == <<l, Other(l, n)>>
Cut(l, n) == End(l, n) \in shut \/ FarEnd(l, n) \in shut
CanSend(l, n) == End(l, n) \notin shut

\* The wires after n sends msg on l and does not look at the outcome.
Put(w, l, n, msg) ==
    IF Cut(l, n) THEN w ELSE [w EXCEPT ![FarEnd(l, n)] = Append(@, msg)]

Arrived(l, n, type) ==
    /\ wire[End(l, n)] # <<>>
    /\ Head(wire[End(l, n)]).type = type
Payload(l, n) == Head(wire[End(l, n)]).who
Take(l, n) == [wire EXCEPT ![End(l, n)] = Tail(@)]

Show(n, m, s) == status' = [status EXCEPT ![n][m] = s]

-----------------------------------------------------------------------------
(* Registering and losing a peer.                                          *)

\* Mutant: the peer is registered without looking at `running`.
AttachUnchecked(n, m, l) ==
    /\ peers' = [peers EXCEPT ![n][m] = l]
    /\ roster' = [roster EXCEPT ![n] = @ \cup {m}]
    /\ reader' = [reader EXCEPT ![End(l, n)] = "begin"]
    /\ UNCHANGED <<status, shut>>

\* Mutant: a link that arrives during teardown is dropped but left open.
AttachForgetful(n, m, l) ==
    IF Running(n) THEN AttachUnchecked(n, m, l)
                  ELSE UNCHANGED <<peers, roster, reader, status, shut>>

\* attach_peer under the lock: the running check and the inserts share one
\* section; a node that is leaving closes the link instead.  What comes after
\* the section is ShowConnected.
Attach(n, m, l) ==
    IF Running(n)
    THEN /\ peers' = [peers EXCEPT ![n][m] = l]
         /\ roster' = [roster EXCEPT ![n] = @ \cup {m}]
         /\ reader' = [reader EXCEPT ![End(l, n)] = "begin"]
         /\ UNCHANGED <<status, shut>>
    ELSE /\ shut' = shut \cup {End(l, n)}
         /\ UNCHANGED <<peers, roster, reader, status>>

\* Mutant: the host forgets to take the peer off its roster.
PeerGoneKeepsRoster(n, m, l, tell, show, next) ==
    LET gone == peers[n][m] # NoLink
    IN  /\ peers' = [peers EXCEPT ![n][m] = NoLink]
        /\ reader' = [reader EXCEPT ![End(l, n)] =
                         IF ~gone THEN next ELSE IF n = Host THEN tell ELSE show]
        /\ shut' = IF gone \/ next = "done" THEN shut \cup {End(l, n)} ELSE shut
        /\ UNCHANGED <<roster, status>>

\* peer_gone under the lock, and the close: the entry is removed by the
\* peer's id, whichever link it holds.  Then the reader goes on to tell the
\* others (`tell`, at the host), to show the operator (`show`), and to `next`.
PeerGone(n, m, l, tell, show, next) ==
    LET gone == peers[n][m] # NoLink
    IN  /\ IF gone
           THEN /\ peers' = [peers EXCEPT ![n][m] = NoLink]
                /\ roster' = IF n = Host THEN [roster EXCEPT ![n] = @ \ {m}]
                                         ELSE roster
           ELSE UNCHANGED <<peers, roster>>
        /\ reader' = [reader EXCEPT ![End(l, n)] =
                         IF ~gone THEN next ELSE IF n = Host THEN tell ELSE show]
        /\ shut' = IF gone \/ next = "done" THEN shut \cup {End(l, n)} ELSE shut
        /\ UNCHANGED status

\* shutdown_internal on the joining thread, which then drops its link l.
Shutdown(n, l) ==
    /\ life' = [life EXCEPT ![n] = IF @ = "live" THEN "out" ELSE @]
    /\ shut' = shut \cup {End(l, n)}
                    \cup {End(peers[n][m], n) : m \in Connected(n)}
    /\ peers' = [peers EXCEPT ![n] = [m \in Nodes |-> NoLink]]
    /\ roster' = [roster EXCEPT ![n] = {}]

-----------------------------------------------------------------------------
(* Opening a room and asking to join it.                                   *)

\* host()
OpenRoom ==
    /\ life[Host] = "idle"
    /\ life' = [life EXCEPT ![Host] = "live"]
    /\ peers' = [peers EXCEPT ![Host] = [m \in Nodes |-> NoLink]]
    /\ roster' = [roster EXCEPT ![Host] = {}]
    /\ pending' = {}
    /\ UNCHANGED <<join, dial, serve, appr, reader, chan, teardown, status>>

\* join() up to the connect: the node has its own listener and is running.
Join(j) ==
    /\ life[j] = "idle"
    /\ join' = [join EXCEPT ![j] = "dial"]
    /\ life' = [life EXCEPT ![j] = "live"]
    /\ peers' = [peers EXCEPT ![j] = [m \in Nodes |-> NoLink]]
    /\ roster' = [roster EXCEPT ![j] = {}]
    /\ UNCHANGED <<hostvars, dial, serve, reader, chan, teardown, status>>

\* A connection is made when the target's accept loop still runs threads.
Connect(l, n) ==
    /\ Running(Target(l))
    /\ serve' = [serve EXCEPT ![l] = "first"]
Unreachable(l) == ~Running(Target(l)) \/ l \in Fragile

\* join() from the connect to the Hello; it does not look at `running` again.
JoinConnect(j) ==
    LET l == JoinLink(j)
    IN  /\ join[j] = "dial" /\ Alive(j)
        /\ Connect(l, j)
        /\ wire' = Put(wire, l, j, Msg("Hello", {}))
        /\ join' = [join EXCEPT ![j] = "wait"]
        /\ UNCHANGED <<node, hostvars, dial, reader, shut, teardown>>

JoinFails(j) ==
    /\ join[j] = "dial" /\ Alive(j)
    /\ Unreachable(JoinLink(j))
    /\ join' = [join EXCEPT ![j] = "done"]
    /\ Shutdown(j, JoinLink(j))
    /\ UNCHANGED <<hostvars, dial, serve, reader, wire, teardown, status>>

\* await_welcome: the roster of a Welcome is taken under the lock ...
AwaitWelcome(j) ==
    LET l == JoinLink(j)
    IN  /\ join[j] = "wait" /\ Alive(j)
        /\ Arrived(l, j, "Welcome")
        /\ join' = [join EXCEPT ![j] = "attach"]
        /\ roster' = [roster EXCEPT ![j] = @ \cup {Host} \cup Payload(l, j)]
        /\ dial' = [dial EXCEPT ![j] = [k \in Joiners |->
                      IF k \in Payload(l, j) THEN [@[k] EXCEPT !.pc = "queued"]
                                             ELSE @[k]]]
        /\ wire' = Take(l, j)
        /\ UNCHANGED <<life, peers, status, hostvars, serve, reader, shut, teardown>>

\* ... then the host is attached, and a dial_peer thread is due per peer.
AwaitAttach(j) ==
    /\ join[j] = "attach" /\ Alive(j)
    /\ join' = [join EXCEPT ![j] = "done"]
    /\ Attach(j, Host, JoinLink(j))
    /\ dial' = [dial EXCEPT ![j] = [k \in Joiners |->
                  IF @[k].pc = "queued" THEN [@[k] EXCEPT !.pc = "begin"] ELSE @[k]]]
    /\ UNCHANGED <<life, hostvars, serve, wire, teardown>>

\* await_welcome: a refusal, or the link is lost before the answer.
AwaitRefused(j) ==
    LET l == JoinLink(j)
    IN  /\ join[j] = "wait" /\ Alive(j)
        /\ Arrived(l, j, "Rejected") \/ Cut(l, j)
        /\ join' = [join EXCEPT ![j] = "done"]
        /\ Shutdown(j, l)
        /\ UNCHANGED <<hostvars, dial, serve, reader, wire, teardown, status>>

-----------------------------------------------------------------------------
(* Dialling an approved peer: dial_peer and try_dial.                      *)

DialPc(j, k, pc) == dial' = [dial EXCEPT ![j][k].pc = pc]
CurrentLink(j, k) == MeshLink(j, k, dial[j][k].try)

\* A dial_peer thread is started once attach_peer has returned for the host.
DialBegin(j, k) ==
    /\ dial[j][k].pc = "begin" /\ Alive(j)
    /\ reader[End(JoinLink(j), j)] # "begin"
    /\ DialPc(j, k, "try")
    /\ Show(j, k, "Connecting")
    /\ UNCHANGED <<life, peers, roster, hostvars, join, serve, reader, chan, teardown>>

\* Mutant: one attempt too many.
DialNextOffByOne(j, k) ==
    IF dial[j][k].try <= MaxTries
    THEN /\ dial' = [dial EXCEPT ![j][k] = [pc |-> "try", try |-> @.try + 1]]
         /\ UNCHANGED status
    ELSE /\ DialPc(j, k, "failed")
         /\ Show(j, k, "Failed")

\* Mutant: the last failure is not reported.
DialNextSilent(j, k) ==
    /\ IF dial[j][k].try < MaxTries
       THEN dial' = [dial EXCEPT ![j][k] = [pc |-> "try", try |-> @.try + 1]]
       ELSE DialPc(j, k, "failed")
    /\ UNCHANGED status

\* An attempt failed: the next one, or the operator is told.
DialNext(j, k) ==
    IF dial[j][k].try < MaxTries
    THEN /\ dial' = [dial EXCEPT ![j][k] = [pc |-> "try", try |-> @.try + 1]]
         /\ UNCHANGED status
    ELSE /\ DialPc(j, k, "failed")
         /\ Show(j, k, "Failed")

DialQuits(j, k) ==
    /\ dial[j][k].pc = "try" /\ Alive(j) /\ ~Running(j)
    /\ DialPc(j, k, "quit")
    /\ UNCHANGED <<node, hostvars, join, serve, reader, chan, teardown>>

DialConnect(j, k) ==
    LET l == CurrentLink(j, k)
    IN  /\ dial[j][k].pc = "try" /\ Running(j)
        /\ Connect(l, j)
        /\ wire' = Put(wire, l, j, Msg("MeshHello", {}))
        /\ DialPc(j, k, "sent")
        /\ UNCHANGED <<node, hostvars, join, reader, shut, teardown>>

DialUnreachable(j, k) ==
    /\ dial[j][k].pc = "try" /\ Running(j)
    /\ Unreachable(CurrentLink(j, k))
    /\ DialNext(j, k)
    /\ UNCHANGED <<life, peers, roster, hostvars, join, serve, reader, chan, teardown>>

\* Mutant: after a success the loop goes on to the next attempt.
DialAckedLoops(j, k) ==
    LET l == CurrentLink(j, k)
    IN  /\ dial[j][k].pc = "sent" /\ Alive(j)
        /\ Arrived(l, j, "MeshAck")
        /\ IF dial[j][k].try < MaxTries
           THEN dial' = [dial EXCEPT ![j][k] = [pc |-> "try", try |-> @.try + 1]]
           ELSE DialPc(j, k, "ok")
        /\ Attach(j, k, l)
        /\ wire' = Take(l, j)
        /\ UNCHANGED <<life, hostvars, join, serve, teardown>>

DialAcked(j, k) ==
    LET l == CurrentLink(j, k)
    IN  /\ dial[j][k].pc = "sent" /\ Alive(j)
        /\ Arrived(l, j, "MeshAck")
        /\ DialPc(j, k, "ok")
        /\ Attach(j, k, l)
        /\ wire' = Take(l, j)
        /\ UNCHANGED <<life, hostvars, join, serve, teardown>>

DialRefused(j, k) ==
    LET l == CurrentLink(j, k)
    IN  /\ dial[j][k].pc = "sent" /\ Alive(j)
        /\ Arrived(l, j, "Rejected") \/ Cut(l, j)
        /\ DialNext(j, k)
        /\ shut' = shut \cup {End(l, j)}
        /\ UNCHANGED <<life, peers, roster, hostvars, join, serve, reader, wire, teardown>>

-----------------------------------------------------------------------------
(* Inbound connections: handle_incoming, on_hello, on_mesh_hello.          *)

ServePc(l, pc) == serve' = [serve EXCEPT ![l] = pc]

\* reject(): the far end is told why, then the link is closed.
Reject(w, l) ==
    /\ wire' = Put(w, l, Target(l), Msg("Rejected", {}))
    /\ shut' = shut \cup {End(l, Target(l))}
    /\ ServePc(l, "done")

\* Any connection may end before its first message is read: the limiter
\* refuses the source, the handshake fails, or the far end is gone.
ServeLost(l) ==
    /\ serve[l] = "first" /\ Alive(Target(l))
    /\ ServePc(l, "done")
    /\ shut' = shut \cup {End(l, Target(l))}
    /\ UNCHANGED <<node, hostvars, join, dial, reader, wire, teardown>>

\* on_hello's checks, under the first lock section.  Whether the code has
\* expired is the clock's choice, so a refusal is always possible.
HelloChecked(j) ==
    LET l == JoinLink(j)
    IN  /\ serve[l] = "first" /\ Alive(Host)
        /\ Arrived(l, Host, "Hello")
        /\ \/ /\ j \notin roster[Host]
              /\ ServePc(l, "park")
              /\ wire' = Take(l, Host)
              /\ UNCHANGED shut
           \/ Reject(Take(l, Host), l)
        /\ UNCHANGED <<node, hostvars, join, dial, reader, teardown>>

\* Mutant: the newcomer is put on the roster while parked.
ParkOnRoster(j) ==
    /\ serve[JoinLink(j)] = "park" /\ Alive(Host)
    /\ ServePc(JoinLink(j), "done")
    /\ pending' = pending \cup {j}
    /\ roster' = [roster EXCEPT ![Host] = @ \cup {j}]
    /\ UNCHANGED <<life, peers, status, appr, join, dial, reader, chan, teardown>>

\* on_hello's insert, under a lock section of its own.
Park(j) ==
    /\ serve[JoinLink(j)] = "park" /\ Alive(Host)
    /\ ServePc(JoinLink(j), "done")
    /\ pending' = pending \cup {j}
    /\ UNCHANGED <<node, appr, join, dial, reader, chan, teardown>>

MeshHelloRead(l) ==
    LET n == Target(l)
    IN  /\ serve[l] = "first" /\ Alive(n)
        /\ Arrived(l, n, "MeshHello")
        /\ ServePc(l, "grace")
        /\ wire' = Take(l, n)
        /\ UNCHANGED <<node, hostvars, join, dial, reader, shut, teardown>>

\* Mutant: the loop has no deadline.
GraceOverWaits(l) ==
    /\ serve[l] = "grace" /\ Alive(Target(l))
    /\ Dialer(l) \in roster[Target(l)]
    /\ ServePc(l, "free")
    /\ UNCHANGED <<node, hostvars, join, dial, reader, chan, teardown>>

\* The roster loop: the caller is on the roster, or ROSTER_GRACE has passed.
GraceOver(l) ==
    LET n == Target(l)
    IN  /\ serve[l] = "grace" /\ Alive(n)
        /\ IF Dialer(l) \in roster[n]
           THEN ServePc(l, "free") /\ UNCHANGED chan
           ELSE Reject(wire, l)
        /\ UNCHANGED <<node, hostvars, join, dial, reader, teardown>>

\* peer_by_id: a second link to the same peer is refused.
FreeCheck(l) ==
    LET n == Target(l)
    IN  /\ serve[l] = "free" /\ Alive(n)
        /\ IF peers[n][Dialer(l)] = NoLink
           THEN ServePc(l, "ack") /\ UNCHANGED chan
           ELSE Reject(wire, l)
        /\ UNCHANGED <<node, hostvars, join, dial, reader, teardown>>

\* Mutant: the caller is registered although it was never answered.
SendAckUnanswered(l) ==
    /\ serve[l] = "ack" /\ Alive(Target(l))
    /\ ServePc(l, "attach")
    /\ UNCHANGED <<node, hostvars, join, dial, reader, chan, teardown>>

SendAck(l) ==
    LET n == Target(l)
    IN  /\ serve[l] = "ack" /\ Alive(n)
        /\ \/ /\ CanSend(l, n)
              /\ ServePc(l, "attach")
              /\ wire' = Put(wire, l, n, Msg("MeshAck", {}))
              /\ UNCHANGED shut
           \/ /\ Cut(l, n)
              /\ ServePc(l, "done")
              /\ shut' = shut \cup {End(l, n)}
              /\ UNCHANGED wire
        /\ UNCHANGED <<node, hostvars, join, dial, reader, teardown>>

AttachInbound(l) ==
    /\ serve[l] = "attach" /\ Alive(Target(l))
    /\ ServePc(l, "done")
    /\ Attach(Target(l), Dialer(l), l)
    /\ UNCHANGED <<life, hostvars, join, dial, wire, teardown>>

-----------------------------------------------------------------------------
(* The host's approval of one request: approve().                          *)

ApprPc(j, pc) == appr' = [appr EXCEPT ![j].pc = pc]
Approving == {j \in Joiners : appr[j].pc \in
                {"snapshot", "announce", "welcome", "attach"}}

Approve(j) ==
    /\ j \in pending /\ Alive(Host)
    /\ Cardinality(Approving) < MaxApprovers
    /\ pending' = pending \ {j}
    /\ ApprPc(j, "snapshot")
    /\ UNCHANGED <<node, join, dial, serve, reader, chan, teardown>>

Decline(j) ==
    LET l == JoinLink(j)
    IN  /\ j \in pending /\ Alive(Host)
        /\ pending' = pending \ {j}
        /\ ApprPc(j, "declined")
        /\ wire' = Put(wire, l, Host, Msg("Rejected", {}))
        /\ shut' = shut \cup {End(l, Host)}
        /\ UNCHANGED <<node, join, dial, serve, reader, teardown>>

\* The peers connected now: they are told, and the newcomer is told of them.
Snapshot(j) ==
    /\ appr[j].pc = "snapshot" /\ Alive(Host)
    /\ appr' = [appr EXCEPT ![j] = [pc |-> "announce", todo |-> Connected(Host),
                                    met |-> Connected(Host)]]
    /\ UNCHANGED <<node, pending, join, dial, serve, reader, chan, teardown>>

Announce(j) ==
    /\ appr[j].pc = "announce" /\ Alive(Host)
    /\ \E k \in appr[j].todo :
          /\ wire' = Put(wire, JoinLink(k), Host, Msg("PeerJoined", {j}))
          /\ appr' = [appr EXCEPT ![j].todo = @ \ {k}]
    /\ UNCHANGED <<node, pending, join, dial, serve, reader, shut, teardown>>

\* Mutant: the host does not wait until every peer has been told.
AdmitEarly(j) ==
    /\ appr[j].pc = "announce" /\ Alive(Host)
    /\ ApprPc(j, "welcome")
    /\ roster' = [roster EXCEPT ![Host] = @ \cup {j}]
    /\ UNCHANGED <<life, peers, status, pending, join, dial, serve, reader, chan, teardown>>

Admit(j) ==
    /\ appr[j].pc = "announce" /\ appr[j].todo = {} /\ Alive(Host)
    /\ ApprPc(j, "welcome")
    /\ roster' = [roster EXCEPT ![Host] = @ \cup {j}]
    /\ UNCHANGED <<life, peers, status, pending, join, dial, serve, reader, chan, teardown>>

SendWelcome(j) ==
    LET l == JoinLink(j)
    IN  /\ appr[j].pc = "welcome" /\ Alive(Host)
        /\ \/ /\ CanSend(l, Host)
              /\ ApprPc(j, "attach")
              /\ wire' = Put(wire, l, Host, Msg("Welcome", appr[j].met))
              /\ UNCHANGED shut
           \/ /\ Cut(l, Host)
              /\ ApprPc(j, "broken")
              /\ shut' = shut \cup {End(l, Host)}
              /\ UNCHANGED wire
        /\ UNCHANGED <<node, pending, join, dial, serve, reader, teardown>>

\* Mutant: a declined request falls through to the attach.
AttachDeclined(j) ==
    /\ appr[j].pc \in {"attach", "declined"} /\ Alive(Host)
    /\ appr' = [appr EXCEPT ![j].pc = IF @ = "attach" THEN "done" ELSE @]
    /\ Attach(Host, j, JoinLink(j))
    /\ UNCHANGED <<life, pending, join, dial, serve, wire, teardown>>

AttachApproved(j) ==
    /\ appr[j].pc = "attach" /\ Alive(Host)
    /\ ApprPc(j, "done")
    /\ Attach(Host, j, JoinLink(j))
    /\ UNCHANGED <<life, pending, join, dial, serve, wire, teardown>>

-----------------------------------------------------------------------------
(* The reader of an attached link: reader_loop, handle_control, peer_gone. *)

Reading(e) == reader[e] = "run" /\ Alive(e[2])

ReadControl(e) ==
    LET l == e[1]  n == e[2]
    IN  /\ Reading(e)
        /\ \/ /\ Arrived(l, n, "PeerJoined")
              /\ roster' = [roster EXCEPT ![n] = @ \cup Payload(l, n)]
           \/ /\ Arrived(l, n, "PeerLeft")
              /\ roster' = [roster EXCEPT ![n] = @ \ Payload(l, n)]
        /\ wire' = Take(l, n)
        /\ UNCHANGED <<life, peers, status, hostvars, join, dial, serve, reader,
                       shut, teardown>>

ReadBye(e) ==
    LET l == e[1]  n == e[2]
    IN  /\ Reading(e)
        /\ Arrived(l, n, "Bye")
        /\ wire' = Take(l, n)
        /\ PeerGone(n, Other(l, n), l, "tellBye", "showBye", "run")
        /\ UNCHANGED <<life, hostvars, join, dial, serve, teardown>>

\* Mutant: the reader ends on an error without reporting the peer gone.
ReadFailsSilently(e) ==
    /\ Reading(e)
    /\ Cut(e[1], e[2])
    /\ reader' = [reader EXCEPT ![e] = "done"]
    /\ UNCHANGED <<node, hostvars, join, dial, serve, wire, shut, teardown>>

ReadFails(e) ==
    LET l == e[1]  n == e[2]
    IN  /\ Reading(e)
        /\ Cut(l, n)
        /\ PeerGone(n, Other(l, n), l, "tellErr", "showErr", "done")
        /\ UNCHANGED <<life, hostvars, join, dial, serve, wire, teardown>>

\* The host tells the peers it is connected to; the sends are independent of
\* each other and of any order between them.
TellPeers(e) ==
    /\ reader[e] \in {"tellBye", "tellErr"} /\ Alive(Host)
    /\ reader' = [reader EXCEPT ![e] = IF @ = "tellBye" THEN "showBye" ELSE "showErr"]
    /\ wire' = [f \in Ends |->
         IF f[2] \in Connected(Host) /\ f[1] = peers[Host][f[2]] /\ ~Cut(f[1], Host)
         THEN Append(wire[f], Msg("PeerLeft", {Other(e[1], Host)}))
         ELSE wire[f]]
    /\ UNCHANGED <<node, hostvars, join, dial, serve, shut, teardown>>

\* attach_peer ends: the event, of a peer that the map may have lost by now,
\* then the reader thread starts.
ShowConnected(e) ==
    /\ reader[e] = "begin" /\ Alive(e[2])
    /\ reader' = [reader EXCEPT ![e] = "run"]
    /\ Show(e[2], Other(e[1], e[2]), "Connected")
    /\ UNCHANGED <<life, peers, roster, hostvars, join, dial, serve, chan, teardown>>

\* peer_gone ends: the event, of a peer that may be back in the map by now,
\* then the reader goes on or stops.
ShowGone(e) ==
    /\ reader[e] \in {"showBye", "showErr"} /\ Alive(e[2])
    /\ reader' = [reader EXCEPT ![e] = IF @ = "showBye" THEN "run" ELSE "done"]
    /\ Show(e[2], Other(e[1], e[2]), "Disconnected")
    /\ UNCHANGED <<life, peers, roster, hostvars, join, dial, serve, chan, teardown>>

-----------------------------------------------------------------------------
(* Leaving, and what the environment may do.                               *)

\* The bound on departures counts every other node that is no longer running,
\* whether it left, crashed or was refused.
MayDepart(n) ==
    Cardinality({m \in Nodes \ {n} : life[m] \notin {"idle", "live"}}) < MaxDepartures

Leave(n) ==
    /\ n \in Leavers /\ Running(n) /\ MayDepart(n)
    /\ life' = [life EXCEPT ![n] = "leaving"]
    /\ UNCHANGED <<peers, roster, status, hostvars, join, dial, serve, reader,
                   chan, teardown>>

\* Mutant: Bye is said on the parked links too.
LeaveDrainSaysBye(n) ==
    /\ life[n] = "leaving"
    /\ life' = [life EXCEPT ![n] = "drained"]
    /\ byes' = [byes EXCEPT ![n] = {peers[n][m] : m \in Connected(n)}
                    \cup (IF n = Host THEN {JoinLink(j) : j \in pending} ELSE {})]
    /\ pending' = IF n = Host THEN {} ELSE pending
    /\ peers' = [peers EXCEPT ![n] = [m \in Nodes |-> NoLink]]
    /\ roster' = [roster EXCEPT ![n] = {}]
    /\ UNCHANGED <<status, appr, join, dial, serve, reader, chan, orphans>>

LeaveDrain(n) ==
    /\ life[n] = "leaving"
    /\ life' = [life EXCEPT ![n] = "drained"]
    /\ byes' = [byes EXCEPT ![n] = {peers[n][m] : m \in Connected(n)}]
    /\ orphans' = IF n = Host THEN {JoinLink(j) : j \in pending} ELSE orphans
    /\ pending' = IF n = Host THEN {} ELSE pending
    /\ peers' = [peers EXCEPT ![n] = [m \in Nodes |-> NoLink]]
    /\ roster' = [roster EXCEPT ![n] = {}]
    /\ UNCHANGED <<status, appr, join, dial, serve, reader, chan>>

LeaveBye(n) ==
    /\ life[n] = "drained"
    /\ \E l \in byes[n] :
          /\ wire' = Put(wire, l, n, Msg("Bye", {}))
          /\ shut' = shut \cup {End(l, n)}
          /\ byes' = [byes EXCEPT ![n] = @ \ {l}]
    /\ UNCHANGED <<node, hostvars, join, dial, serve, reader, orphans>>

LeaveEnd(n) ==
    /\ life[n] = "drained" /\ byes[n] = {}
    /\ life' = [life EXCEPT ![n] = "out"]
    /\ IF n = Host
       THEN /\ shut' = shut \cup {End(l, Host) : l \in orphans}
            /\ orphans' = {}
       ELSE UNCHANGED <<shut, orphans>>
    /\ UNCHANGED <<peers, roster, status, hostvars, join, dial, serve, reader,
                   wire, byes>>

\* The process ends: its sockets are closed by the operating system.
Crash(n) ==
    /\ n \in Crashers /\ life[n] \notin {"idle", "out", "crashed"} /\ MayDepart(n)
    /\ life' = [life EXCEPT ![n] = "crashed"]
    /\ shut' = shut \cup {e \in Ends : e[2] = n /\ Made(e[1])}
    /\ UNCHANGED <<peers, roster, status, hostvars, join, dial, serve, reader,
                   wire, teardown>>

\* The network drops a connection: both ends find it closed.
Break(l) ==
    /\ l \in Fragile /\ Made(l)
    /\ ~({End(l, Dialer(l)), End(l, Target(l))} \subseteq shut)
    /\ shut' = shut \cup {End(l, Dialer(l)), End(l, Target(l))}
    /\ UNCHANGED <<node, hostvars, join, dial, serve, reader, wire, teardown>>

-----------------------------------------------------------------------------
JoinThread(j) == JoinConnect(j) \/ JoinFails(j) \/ AwaitWelcome(j)
                 \/ AwaitAttach(j) \/ AwaitRefused(j)

DialThread(j, k) == DialBegin(j, k) \/ DialQuits(j, k) \/ DialConnect(j, k)
                    \/ DialUnreachable(j, k) \/ DialAcked(j, k) \/ DialRefused(j, k)

ServeJoin(j) == HelloChecked(j) \/ Park(j) \/ ServeLost(JoinLink(j))

ServeMesh(l) == ServeLost(l) \/ MeshHelloRead(l) \/ GraceOver(l) \/ FreeCheck(l)
                \/ SendAck(l) \/ AttachInbound(l)

ApproveThread(j) == Snapshot(j) \/ Announce(j) \/ Admit(j) \/ SendWelcome(j)
                    \/ AttachApproved(j)

ReaderThread(e) == ShowConnected(e) \/ ReadControl(e) \/ ReadBye(e) \/ ReadFails(e)
                   \/ TellPeers(e) \/ ShowGone(e)

LeaveThread(n) == LeaveDrain(n) \/ LeaveBye(n) \/ LeaveEnd(n)

\* The steps the program takes by itself.
System ==
    \/ \E j \in Joiners : JoinThread(j) \/ ServeJoin(j) \/ ApproveThread(j)
    \/ \E j, k \in Joiners : DialThread(j, k)
    \/ \E l \in MeshLinks : ServeMesh(l)
    \/ \E e \in Ends : ReaderThread(e)
    \/ \E n \in Nodes : LeaveThread(n)

\* What operators and the environment choose to do.
Operator ==
    \/ OpenRoom
    \/ \E j \in Joiners : Join(j) \/ Approve(j) \/ Decline(j)
    \/ \E n \in Nodes : Leave(n) \/ Crash(n)
    \/ \E l \in Links : Break(l)

Next == System \/ Operator

Spec == Init /\ [][Next]_vars

\* Every thread is scheduled; operators need never act.
Fairness ==
    /\ \A j \in Joiners : /\ WF_vars(JoinThread(j))
                          /\ WF_vars(ServeJoin(j))
                          /\ WF_vars(ApproveThread(j))
    /\ \A j, k \in Joiners : WF_vars(DialThread(j, k))
    /\ \A l \in MeshLinks : WF_vars(ServeMesh(l))
    /\ \A e \in Ends : WF_vars(ReaderThread(e))
    /\ \A n \in Nodes : WF_vars(LeaveThread(n))

FairSpec == Spec /\ Fairness

-----------------------------------------------------------------------------
(* Properties.                                                             *)

Approved(j) == appr[j].pc \notin {"no", "declined"}

\* "It is connected to nobody until then": no two nodes are linked before
\* the operator has approved every joiner of the pair (on_hello, on_mesh_hello).
ConnectedOnlyIfApproved ==
    \A n, m \in Nodes : peers[n][m] # NoLink =>
        \A j \in {n, m} \cap Joiners : Approved(j)

\* "Peers the host has approved" (State.roster): nobody else is let in by a
\* roster, the host's or a joiner's, however announcements are delayed.
RosterIsApproved ==
    \A n \in Nodes : \A j \in roster[n] \cap Joiners : Approved(j)

\* attach_peer against leave: once leave() has drained the maps, nothing
\* that was still in progress puts a peer back.
LeftMeansEmpty ==
    \A n \in Nodes : life[n] \in {"drained", "out"} => Connected(n) = {}

\* await_welcome and try_dial treat anything but an answer as a failure: no
\* announcement or Bye may overtake the Welcome or the MeshAck.
AnswerComesFirst ==
    /\ \A j \in Joiners :
         LET e == End(JoinLink(j), j)
         IN  join[j] = "wait" /\ wire[e] # <<>>
               => Head(wire[e]).type \in {"Welcome", "Rejected"}
    /\ \A j, k \in Joiners :
         LET e == End(CurrentLink(j, k), j)
         IN  dial[j][k].pc = "sent" /\ wire[e] # <<>>
               => Head(wire[e]).type \in {"MeshAck", "Rejected"}

\* "Announce first so the newcomer's inbound calls are authorised": while j
\* waits for k's answer, k has j on its roster or the host's word is on its
\* way to k, unless one of them or its link to the host is gone.
AnnouncedBeforeDial ==
    \A j, k \in Joiners :
        dial[j][k].pc = "sent" =>
            \/ ~Running(j) \/ ~Running(k) \/ ~Running(Host)
            \/ Cut(JoinLink(j), j) \/ Cut(JoinLink(k), k)
            \/ j \in roster[k]
            \/ \E i \in 1..Len(wire[End(JoinLink(k), k)]) :
                  wire[End(JoinLink(k), k)][i] = Msg("PeerJoined", {j})

Linked(n, m) == peers[n][m] # NoLink

\* A thread at the target has l in hand, or the host's operator has; the
\* caller is owed an answer, or has it to read; the thread that called goes on.
Serving(l) ==
    \/ serve[l] \notin {"no", "done"}
    \/ l \in orphans
    \/ l \in JoinLinks /\ Dialer(l) \in Approving
Parked(l) == l \in JoinLinks /\ Dialer(l) \in pending
Answering(l) ==
    Serving(l) \/ Parked(l) \/ wire[End(l, Dialer(l))] # <<>> \/ Cut(l, Dialer(l))
Calling(l) ==
    \/ \E j \in Joiners : /\ l = JoinLink(j)
                          /\ join[j] = "attach" \/ (join[j] = "wait" /\ Answering(l))
    \/ \E j, k \in Joiners : /\ j # k /\ l = CurrentLink(j, k)
                             /\ dial[j][k].pc = "sent" /\ Answering(l)
Handled(l, n) == (n = Dialer(l) /\ Calling(l)) \/ (n = Target(l) /\ Serving(l))

\* n has attached two links to m: the first one broke, or its end at m did,
\* and m dialled again before n had served it.  The map has room for one.
Doubled(n, m) ==
    \E k, l \in Links : /\ k # l
                        /\ {End(k, n), End(l, n)} \subseteq Ends
                        /\ Other(k, n) = m /\ Other(l, n) = m
                        /\ reader[End(k, n)] # "no" /\ reader[End(l, n)] # "no"

\* Both ends of a pair agree by which link they are linked, once nothing is
\* in progress on it and through every retry: no half-open mesh link
\* (on_mesh_hello, try_dial, peer_gone).  Where a node has attached two links
\* to one peer its map may hold the broken one, or neither -- peer_gone
\* removes by id -- and all that is left is that it still reads the other.
MeshIsSymmetric ==
    \A n, m \in {x \in Nodes : Running(x)} :
        Linked(n, m) =>
            LET l == peers[n][m]
            IN  \/ Cut(l, n) \/ Handled(l, m) \/ peers[m][n] = l
                \/ Doubled(m, n) /\ reader[End(l, m)] \notin {"no", "done"}

\* A node that has left holds no open link that no thread of its has in hand,
\* whatever was being dialled, answered or approved when it left; but for a
\* request parked after the host's leave() had drained the others (on_hello
\* does not look at `running`), and a peer to whom it had attached two links.
NothingDangles ==
    \A n \in Nodes : life[n] = "out" =>
        \A l \in Links : Made(l) /\ n \in {Dialer(l), Target(l)} =>
            \/ End(l, n) \in shut \/ Handled(l, n)
            \/ n = Host /\ Parked(l)
            \/ Doubled(n, Other(l, n))

\* A thread of n has changed the map and not yet told n's operator about m.
Late(n, m) ==
    \E l \in Links : /\ End(l, n) \in Ends /\ Other(l, n) = m
                     /\ reader[End(l, n)] \in {"begin", "tellBye", "tellErr",
                                              "showBye", "showErr"}

\* What the operator of a running node sees of a peer is what the map holds,
\* once every thread has shown what it did: attach_peer and peer_gone emit
\* their events after the lock is released, and the host's peer_gone after it
\* has told the others.  Where two links to one peer were attached the late
\* event of the first may cover the second.
StatusIsTrue ==
    \A n, m \in Nodes : Running(n) =>
        \/ status[n][m] = "Connected" <=> Linked(n, m)
        \/ Late(n, m)
        \/ Doubled(n, m)

\* j has yet to learn of k from the host's Welcome, or to be done dialling it.
Meeting(j, k) ==
    \/ \E i \in 1..Len(wire[End(JoinLink(j), j)]) :
          wire[End(JoinLink(j), j)][i].type = "Welcome"
    \/ join[j] = "attach" \/ dial[j][k].pc \in {"begin", "try", "sent"}

\* "Every pair can build its own direct link" (approve): two joiners the
\* host is connected to are linked (MeshIsSymmetric: both of them), or one of
\* them was told that the other could not be reached or was lost, or is about
\* to be, once neither is about to dial the other.
EveryPairMeets ==
    \A j, k \in {x \in Joiners : Running(x)} :
        /\ j # k /\ Running(Host) /\ Linked(Host, j) /\ Linked(Host, k)
        /\ ~Cut(JoinLink(j), Host) /\ ~Cut(JoinLink(k), Host)
        => \/ Meeting(j, k) \/ Meeting(k, j)
           \/ Linked(j, k) \/ Linked(k, j)
           \/ Late(j, k) \/ Late(k, j)
           \/ {status[j][k], status[k][j]} \cap {"Failed", "Disconnected"} # {}

\* The host's roster is exactly who it is connected to or about to attach, and
\* the newcomers whose Welcome it failed to send: approve() leaves those on it.
HostRosterIsTrue ==
    Running(Host) =>
        roster[Host] = Connected(Host) \cup
            {j \in Joiners : appr[j].pc \in {"welcome", "attach", "broken"}}

\* leave() and a crash are noticed: in the end no running node holds a link to
\* one that is gone, and never does again (Bye, describe_disconnect, peer_gone).
DepartureIsNoticed ==
    <>[](\A n, m \in Nodes :
            Running(n) /\ m # n /\ life[m] \in {"out", "crashed"} => ~Linked(n, m))

\* Every dial ends, through every retry: linked, reported as failed, or given
\* up by a node that left; none of a process still there goes on for ever.
DialEnds ==
    <>[](\A j, k \in Joiners :
            Alive(j) => dial[j][k].pc \notin {"begin", "try", "sent"})

=============================================================================
