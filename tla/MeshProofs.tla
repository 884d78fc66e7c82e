----------------------------- MODULE MeshProofs -----------------------------
(***************************************************************************)
(* Theorems about Mesh for every number of joiners and attempts: who is    *)
(* ever connected or on a roster, what a caller reads and a dialled node   *)
(* has been told, what the operator is shown, who meets whom, and what two *)
(* peers, or a node that has left, hold of each other.                     *)
(***************************************************************************)
EXTENDS Mesh, FiniteSetTheorems, TLAPS

-----------------------------------------------------------------------------
(* Links and wires.                                                        *)

\* A join link runs between its joiner and the host.
LEMMA JoinLinkType ==
    ASSUME NEW j \in Joiners
    PROVE  /\ JoinLink(j) \in Links
           /\ JoinLink(j) \notin MeshLinks
           /\ Dialer(JoinLink(j)) = j /\ Target(JoinLink(j)) = Host
           /\ End(JoinLink(j), j) \in Ends /\ End(JoinLink(j), Host) \in Ends
  BY MeshAssumption
     DEF JoinLink, JoinLinks, MeshLinks, Links, Dialer, Target, End, Ends, Nodes

\* A mesh link runs between two different joiners.
LEMMA MeshLinkType ==
    ASSUME NEW l \in MeshLinks
    PROVE  /\ l \in Links
           /\ Dialer(l) \in Joiners /\ Target(l) \in Joiners
           /\ Dialer(l) # Target(l)
           /\ End(l, Dialer(l)) \in Ends /\ End(l, Target(l)) \in Ends
  BY MeshAssumption DEF MeshLinks, Links, Dialer, Target, End, Ends, Nodes

\* Every end has a link, a node and a node at the other side.
LEMMA EndType ==
    ASSUME NEW e \in Ends
    PROVE  /\ e[1] \in Links /\ e[2] \in Nodes /\ e = End(e[1], e[2])
           /\ Other(e[1], e[2]) \in Nodes
  BY DEF Ends, End, Other, Links, JoinLinks, JoinLink, MeshLinks, Dialer, Target, Nodes

\* Sending keeps the wires sequences of messages.
LEMMA PutType ==
    ASSUME NEW w \in [Ends -> Seq(Messages)], NEW l, NEW n, NEW msg \in Messages
    PROVE  Put(w, l, n, msg) \in [Ends -> Seq(Messages)]
<1>1. ASSUME NEW e \in Ends
      PROVE  Append(w[e], msg) \in Seq(Messages)
  OBVIOUS
<1>2. [w EXCEPT ![FarEnd(l, n)] = Append(@, msg)] \in [Ends -> Seq(Messages)]
  BY <1>1
<1>. QED
  BY <1>2 DEF Put

\* So does receiving what has arrived, whose payload is a set of nodes.
LEMMA TakeType ==
    ASSUME wire \in [Ends -> Seq(Messages)], NEW l, NEW n, NEW type,
           End(l, n) \in Ends, Arrived(l, n, type)
    PROVE  /\ Take(l, n) \in [Ends -> Seq(Messages)]
           /\ Payload(l, n) \in SUBSET Nodes
<1>1. wire[End(l, n)] \in Seq(Messages) /\ wire[End(l, n)] # <<>>
  BY DEF Arrived
<1>2. /\ Head(wire[End(l, n)]) \in Messages
      /\ Tail(wire[End(l, n)]) \in Seq(Messages)
  BY <1>1
<1>. QED
  BY <1>2 DEF Take, Payload, Messages

\* Messages built by Msg are messages.
LEMMA MsgType ==
    ASSUME NEW type \in MsgTypes, NEW who \in SUBSET Nodes
    PROVE  Msg(type, who) \in Messages
  BY DEF Msg, Messages

-----------------------------------------------------------------------------
(* The inductive invariant.                                                *)

Admitted == {j \in Joiners : Approved(j)}

\* A joiner asks once, and is parked only before the operator's answer.
Asked ==
    \A j \in Joiners :
        /\ life[j] = "idle" => join[j] = "no"
        /\ join[j] \in {"no", "dial"} => serve[JoinLink(j)] = "no"
        /\ serve[JoinLink(j)] \in {"no", "first", "park"}
             => appr[j].pc = "no" /\ j \notin pending
        /\ j \in pending => appr[j].pc = "no"
        /\ join[j] = "attach" => j \in Admitted

\* What is in flight to n names admitted joiners only, and never n itself.
MsgOk(n, msg) ==
    /\ msg.type = "Welcome" => /\ n \in Admitted /\ n \notin msg.who
                               /\ msg.who \cap Joiners \subseteq Admitted
    /\ msg.type = "PeerJoined" => msg.who \cap Joiners \subseteq Admitted
QueuesOk(w) == \A e \in Ends : \A i \in 1..Len(w[e]) : MsgOk(e[2], w[e][i])
WireOk == QueuesOk(wire)

\* Only admitted joiners are dialled, by other admitted joiners.
Dialling ==
    \A j, k \in Joiners :
        dial[j][k].pc # "no" => j # k /\ j \in Admitted /\ k \in Admitted
Served ==
    \A l \in MeshLinks :
        serve[l] # "no" => Dialer(l) \in Admitted /\ Target(l) \in Admitted

\* A newcomer is not among the peers it is told of: the host attaches it last.
Met ==
    \A j \in Joiners :
        /\ appr[j].pc \in {"announce", "welcome"} => j \notin appr[j].met
        /\ appr[j].met \cap Joiners \subseteq Admitted
        /\ peers[Host][j] # NoLink => appr[j].pc = "done"

IInv == /\ TypeOK /\ Asked /\ WireOk /\ Dialling /\ Served /\ Met
        /\ ConnectedOnlyIfApproved /\ RosterIsApproved

-----------------------------------------------------------------------------
(* Steps.                                                                  *)

\* Only the operator's decision and approve() write where approvals stand.
LEMMA ApprFrame ==
    ASSUME [Next]_vars,
           \A j \in Joiners : ~Approve(j) /\ ~Decline(j) /\ ~ApproveThread(j)
    PROVE  UNCHANGED appr
<1>1. ASSUME NEW j \in Joiners, JoinThread(j) \/ ServeJoin(j) \/ Join(j)
    PROVE  UNCHANGED appr
  BY <1>1 DEF JoinThread, JoinConnect, JoinFails, AwaitWelcome, AwaitAttach,
    AwaitRefused, ServeJoin, HelloChecked, Park, ServeLost, Join, hostvars
<1>2. ASSUME NEW j \in Joiners, NEW k \in Joiners, DialThread(j, k)
    PROVE  UNCHANGED appr
  BY <1>2 DEF DialThread, DialBegin, DialQuits, DialConnect, DialUnreachable,
    DialAcked, DialRefused, hostvars
<1>3. ASSUME NEW l, ServeMesh(l)
    PROVE  UNCHANGED appr
  BY <1>3 DEF ServeMesh, ServeLost, MeshHelloRead, GraceOver, FreeCheck,
    SendAck, AttachInbound, hostvars
<1>4. ASSUME NEW e, ReaderThread(e)
    PROVE  UNCHANGED appr
  BY <1>4 DEF ReaderThread, ReadControl, ReadBye, ReadFails, TellPeers,
     ShowConnected, ShowGone, hostvars
<1>5. ASSUME NEW n, LeaveThread(n) \/ Leave(n) \/ Crash(n)
    PROVE  UNCHANGED appr
  BY <1>5 DEF LeaveThread, LeaveDrain, LeaveBye, LeaveEnd, Leave, Crash, hostvars
<1>6. CASE OpenRoom \/ UNCHANGED vars
  BY <1>6 DEF OpenRoom, vars
<1>7. ASSUME NEW l, Break(l)
    PROVE  UNCHANGED appr
  BY <1>7 DEF Break, hostvars
<1>. QED
  BY <1>1, <1>2, <1>3, <1>4, <1>5, <1>6, <1>7 DEF Next, System, Operator

\* No step takes an approval back: a request is parked only while unanswered.
LEMMA AdmittedGrows ==
    ASSUME TypeOK, Asked, [Next]_vars
    PROVE  Admitted \subseteq Admitted'
<1>a. appr \in [Joiners -> [pc : ApprStates, todo : SUBSET Nodes, met : SUBSET Nodes]]
  BY DEF TypeOK
<1>. USE <1>a DEF Admitted, Approved
<1>1. CASE UNCHANGED appr
  BY <1>1
<1>2. ASSUME NEW j \in Joiners, Approve(j) \/ Decline(j)
      PROVE  Admitted \subseteq Admitted'
  BY <1>2 DEF Approve, Decline, ApprPc, Asked
<1>3. ASSUME NEW j \in Joiners, ApproveThread(j)
      PROVE  Admitted \subseteq Admitted'
  <2>1. CASE Snapshot(j)
    BY <2>1 DEF Snapshot
  <2>2. CASE Announce(j)
    <3>1. PICK k \in appr[j].todo : appr' = [appr EXCEPT ![j].todo = @ \ {k}]
      BY <2>2 DEF Announce
    <3>. QED
      BY <3>1
  <2>3. CASE Admit(j)
    BY <2>3 DEF Admit, ApprPc
  <2>4. CASE SendWelcome(j)
    BY <2>4 DEF SendWelcome, ApprPc
  <2>5. CASE AttachApproved(j)
    BY <2>5 DEF AttachApproved, ApprPc
  <2>. QED
    BY <1>3, <2>1, <2>2, <2>3, <2>4, <2>5 DEF ApproveThread
<1>4. ASSUME \A j \in Joiners : ~Approve(j) /\ ~Decline(j) /\ ~ApproveThread(j)
      PROVE  UNCHANGED appr
  BY <1>4, ApprFrame
<1>. QED
  BY <1>1, <1>2, <1>3, <1>4

\* What Attach, PeerGone, Shutdown and Reject leave is well typed.
RegistryType == /\ peers \in [Nodes -> [Nodes -> Links \cup {NoLink}]]
                /\ roster \in [Nodes -> SUBSET Nodes]
                /\ reader \in [Ends -> ReaderStates]
                /\ shut \in SUBSET Ends
                /\ status \in [Nodes -> [Nodes -> Shown]]
                /\ \A n, m \in Nodes :
                      peers[n][m] # NoLink => <<peers[n][m], n>> \in Ends

\* attach_peer keeps the maps, the readers and the closed ends well typed.
LEMMA AttachType ==
    ASSUME RegistryType, NEW n \in Nodes, NEW m \in Nodes, NEW l \in Links,
           End(l, n) \in Ends, Attach(n, m, l)
    PROVE  RegistryType'
<1>1. CASE Running(n)
  <2>1. /\ peers' = [peers EXCEPT ![n][m] = l]
        /\ roster' = [roster EXCEPT ![n] = @ \cup {m}]
        /\ reader' = [reader EXCEPT ![End(l, n)] = "begin"]
        /\ status' = status
        /\ shut' = shut
    BY <1>1 DEF Attach
  <2>2. \A i, k \in Nodes : peers'[i][k] # NoLink => <<peers'[i][k], i>> \in Ends
    BY <2>1 DEF RegistryType, End
  <2>. QED
    BY <2>1, <2>2 DEF RegistryType, ReaderStates, Shown
<1>2. CASE ~Running(n)
  BY <1>2 DEF Attach, RegistryType
<1>. QED
  BY <1>1, <1>2

\* peer_gone keeps the maps, the readers and the closed ends well typed.
LEMMA PeerGoneType ==
    ASSUME RegistryType, NEW n \in Nodes, NEW m \in Nodes, NEW l \in Links,
           End(l, n) \in Ends, NEW tell \in ReaderStates, NEW show \in ReaderStates,
           NEW next \in ReaderStates, PeerGone(n, m, l, tell, show, next)
    PROVE  RegistryType'
<1>1. reader' \in [Ends -> ReaderStates] /\ shut' \in SUBSET Ends
  BY DEF PeerGone, RegistryType
<1>2. CASE peers[n][m] # NoLink
  <2>1. /\ peers' = [peers EXCEPT ![n][m] = NoLink]
        /\ status' = status
        /\ roster' = roster \/ roster' = [roster EXCEPT ![n] = @ \ {m}]
    BY <1>2 DEF PeerGone
  <2>2. peers' \in [Nodes -> [Nodes -> Links \cup {NoLink}]]
    BY <2>1 DEF RegistryType
  <2>3. \A i, k \in Nodes : peers'[i][k] # NoLink => <<peers'[i][k], i>> \in Ends
    BY <2>1 DEF RegistryType
  <2>4. roster' \in [Nodes -> SUBSET Nodes]
    <3>1. roster \in [Nodes -> SUBSET Nodes] /\ roster[n] \ {m} \in SUBSET Nodes
      BY DEF RegistryType
    <3>2. [roster EXCEPT ![n] = @ \ {m}] \in [Nodes -> SUBSET Nodes]
      BY <3>1
    <3>. QED
      BY <2>1, <3>1, <3>2
  <2>5. status' \in [Nodes -> [Nodes -> Shown]]
    BY <2>1 DEF RegistryType, Shown
  <2>. QED
    BY <1>1, <2>2, <2>3, <2>4, <2>5 DEF RegistryType
<1>3. CASE peers[n][m] = NoLink
  BY <1>1, <1>3 DEF PeerGone, RegistryType
<1>. QED
  BY <1>2, <1>3

\* So does shutdown_internal.
LEMMA ShutdownType ==
    ASSUME RegistryType, life \in [Nodes -> LifeStates],
           NEW n \in Nodes, NEW l \in Links, End(l, n) \in Ends, Shutdown(n, l),
           UNCHANGED <<reader, status>>
    PROVE  RegistryType' /\ life' \in [Nodes -> LifeStates]
<1>1. life' \in [Nodes -> LifeStates]
  BY DEF Shutdown, LifeStates
<1>2. shut' \in SUBSET Ends
  <2>1. shut \subseteq Ends /\ \A m \in Connected(n) : End(peers[n][m], n) \in Ends
    BY DEF RegistryType, Connected, End
  <2>2. shut' = shut \cup {End(l, n)} \cup {End(peers[n][m], n) : m \in Connected(n)}
    BY DEF Shutdown
  <2>. QED
    BY <2>1, <2>2
<1>3. peers' \in [Nodes -> [Nodes -> Links \cup {NoLink}]]
  BY DEF Shutdown, RegistryType
<1>4. \A i, k \in Nodes : peers'[i][k] # NoLink => <<peers'[i][k], i>> \in Ends
  BY DEF Shutdown, RegistryType
<1>. QED
  BY <1>1, <1>2, <1>3, <1>4 DEF Shutdown, RegistryType

\* TypeOK, in the parts that steps change together.
LifeType == life \in [Nodes -> LifeStates]
HostType == /\ pending \in SUBSET Joiners
            /\ appr \in [Joiners -> [pc : ApprStates, todo : SUBSET Nodes,
                                     met : SUBSET Nodes]]
JoinType == join \in [Joiners -> JoinStates]
DialType == dial \in [Joiners -> [Joiners -> [pc : DialStates, try : 1..MaxTries]]]
ServeType == serve \in [Links -> ServeStates]
WireType == wire \in [Ends -> Seq(Messages)]
HangupType == /\ byes \in [Nodes -> SUBSET Links]
              /\ \A n \in Nodes : \A l \in byes[n] : <<l, n>> \in Ends
              /\ orphans \in SUBSET JoinLinks

\* TypeOK is the conjunction of its parts, one per group of variables ...
LEMMA TypeParts ==
    TypeOK <=> /\ LifeType /\ RegistryType /\ HostType /\ JoinType /\ DialType
               /\ ServeType /\ WireType /\ HangupType
  BY DEF TypeOK, LifeType, RegistryType, HostType, JoinType, DialType,
         ServeType, WireType, HangupType

\* ... and so is TypeOK after a step.
LEMMA TypePartsPrimed ==
    TypeOK' <=> /\ LifeType' /\ RegistryType' /\ HostType' /\ JoinType'
                /\ DialType' /\ ServeType' /\ WireType' /\ HangupType'
  BY DEF TypeOK, LifeType, RegistryType, HostType, JoinType, DialType,
         ServeType, WireType, HangupType

\* Moving dial entries on keeps them entries.
LEMMA DialEntryType ==
    ASSUME DialType, NEW j \in Joiners, NEW pc \in DialStates, NEW P,
           dial' = [dial EXCEPT ![j] = [k \in Joiners |->
                      IF k \in P THEN [@[k] EXCEPT !.pc = pc] ELSE @[k]]]
    PROVE  DialType'
<1>1. ASSUME NEW k \in Joiners
      PROVE  [dial[j][k] EXCEPT !.pc = pc] \in [pc : DialStates, try : 1..MaxTries]
  <2>1. dial[j][k] \in [pc : DialStates, try : 1..MaxTries]
    BY DEF DialType
  <2>. QED
    BY <2>1
<1>. DEFINE row == [k \in Joiners |-> IF k \in P THEN [dial[j][k] EXCEPT !.pc = pc]
                                             ELSE dial[j][k]]
<1>2. row \in [Joiners -> [pc : DialStates, try : 1..MaxTries]]
  <2>1. \A k \in Joiners : dial[j][k] \in [pc : DialStates, try : 1..MaxTries]
    BY DEF DialType
  <2>. QED
    BY <1>1, <2>1
<1>3. dial' = [dial EXCEPT ![j] = row]
  OBVIOUS
<1>. HIDE DEF row
<1>. QED
  BY <1>2, <1>3 DEF DialType

\* The steps of a joining thread are well typed.
LEMMA JoinThreadType ==
    ASSUME TypeOK, NEW j \in Joiners, JoinThread(j)
    PROVE  TypeOK'
<1>. USE TypeParts, TypePartsPrimed, JoinLinkType DEF chan, hostvars, teardown, node
<1>. DEFINE l == JoinLink(j)
<1>0. j \in Nodes /\ Host \in Nodes
  BY DEF Nodes
<1>1. CASE JoinConnect(j)
  <2>1. JoinType' /\ ServeType'
    BY <1>1 DEF JoinConnect, JoinType, ServeType, Connect, JoinStates, ServeStates
  <2>2. WireType'
    BY <1>1, PutType, MsgType DEF JoinConnect, WireType, MsgTypes
  <2>. QED
    BY <1>1, <2>1, <2>2 DEF JoinConnect, LifeType, RegistryType, HostType,
       DialType, HangupType
<1>2. CASE JoinFails(j)
  <2>1. JoinType'
    BY <1>2 DEF JoinFails, JoinType, JoinStates
  <2>2. RegistryType' /\ LifeType'
    BY <1>0, <1>2, ShutdownType DEF JoinFails, LifeType
  <2>. QED
    BY <1>2, <2>1, <2>2 DEF JoinFails, HostType, DialType, ServeType, WireType,
       HangupType
<1>3. CASE AwaitWelcome(j)
  <2>1. JoinType'
    BY <1>3 DEF AwaitWelcome, JoinType, JoinStates
  <2>2. WireType' /\ Payload(l, j) \in SUBSET Nodes
    BY <1>3, TakeType DEF AwaitWelcome, WireType
  <2>3. RegistryType'
    BY <1>0, <1>3, <2>2 DEF AwaitWelcome, RegistryType
  <2>4. DialType'
    BY <1>3, DialEntryType DEF AwaitWelcome, DialStates
  <2>. QED
    BY <1>3, <2>1, <2>2, <2>3, <2>4 DEF AwaitWelcome, LifeType, HostType,
       ServeType, HangupType
<1>4. CASE AwaitAttach(j)
  <2>1. JoinType'
    BY <1>4 DEF AwaitAttach, JoinType, JoinStates
  <2>2. RegistryType'
    BY <1>0, <1>4, AttachType DEF AwaitAttach
  <2>3. DialType'
    <3>. DEFINE P == {k \in Joiners : dial[j][k].pc = "queued"}
    <3>1. dial' = [dial EXCEPT ![j] = [k \in Joiners |->
                     IF k \in P THEN [@[k] EXCEPT !.pc = "begin"] ELSE @[k]]]
      BY <1>4 DEF AwaitAttach
    <3>. QED
      BY <3>1, DialEntryType DEF DialStates
  <2>. QED
    BY <1>4, <2>1, <2>2, <2>3 DEF AwaitAttach, LifeType, HostType, ServeType,
       WireType, HangupType
<1>5. CASE AwaitRefused(j)
  <2>1. JoinType'
    BY <1>5 DEF AwaitRefused, JoinType, JoinStates
  <2>2. RegistryType' /\ LifeType'
    BY <1>0, <1>5, ShutdownType DEF AwaitRefused, LifeType
  <2>. QED
    BY <1>5, <2>1, <2>2 DEF AwaitRefused, HostType, DialType, ServeType,
       WireType, HangupType
<1>. QED
  BY <1>1, <1>2, <1>3, <1>4, <1>5 DEF JoinThread

\* Where a thread writes its pc, the pc stays a pc.
LEMMA DialPcType ==
    ASSUME DialType, NEW j \in Joiners, NEW k \in Joiners, NEW pc \in DialStates,
           DialPc(j, k, pc)
    PROVE  DialType'
<1>1. dial[j][k] \in [pc : DialStates, try : 1..MaxTries]
  BY DEF DialType
<1>2. [dial[j][k] EXCEPT !.pc = pc] \in [pc : DialStates, try : 1..MaxTries]
  BY <1>1
<1>. QED
  BY <1>2 DEF DialPc, DialType

\* The next attempt of a dial is an attempt, or the dial is over.
LEMMA DialNextType ==
    ASSUME DialType, RegistryType, NEW j \in Joiners, NEW k \in Joiners, DialNext(j, k)
    PROVE  DialType' /\ status' \in [Nodes -> [Nodes -> Shown]]
<1>1. CASE dial[j][k].try < MaxTries
  <2>1. dial[j][k] \in [pc : DialStates, try : 1..MaxTries]
    BY DEF DialType
  <2>2. [pc |-> "try", try |-> dial[j][k].try + 1]
          \in [pc : DialStates, try : 1..MaxTries]
    BY <1>1, <2>1, MeshAssumption DEF DialStates
  <2>3. dial' = [dial EXCEPT ![j][k] = [pc |-> "try", try |-> dial[j][k].try + 1]]
    BY <1>1 DEF DialNext, DialType
  <2>. QED
    BY <1>1, <2>2, <2>3 DEF DialNext, DialType, RegistryType
<1>2. CASE ~(dial[j][k].try < MaxTries)
  <2>1. DialPc(j, k, "failed") /\ Show(j, k, "Failed")
    BY <1>2 DEF DialNext
  <2>. QED
    BY <2>1, DialPcType DEF DialStates, Show, RegistryType, Shown, Nodes
<1>. QED
  BY <1>1, <1>2

\* The steps of a dialling thread are well typed, if it dials somebody else.
LEMMA DialThreadType ==
    ASSUME TypeOK, Dialling, NEW j \in Joiners, NEW k \in Joiners, DialThread(j, k)
    PROVE  TypeOK'
<1>. USE TypeParts, TypePartsPrimed DEF chan, hostvars, teardown, node
<1>. DEFINE l == CurrentLink(j, k)
<1>0. j \in Nodes /\ k \in Nodes
  BY DEF Nodes
<1>a. dial[j][k].pc # "no"
  BY DEF DialThread, DialBegin, DialQuits, DialConnect, DialUnreachable,
         DialAcked, DialRefused
<1>b. l \in MeshLinks /\ Dialer(l) = j /\ Target(l) = k
  <2>1. dial[j][k].try \in 1..MaxTries
    BY DEF DialType
  <2>. QED
    BY <1>a, <2>1 DEF Dialling, CurrentLink, MeshLink, MeshLinks, Dialer, Target
<1>c. l \in Links /\ End(l, j) \in Ends
  BY <1>b, MeshLinkType
<1>1. CASE DialBegin(j, k)
  <2>1. DialType'
    BY <1>1, DialPcType DEF DialBegin, DialStates
  <2>2. RegistryType'
    BY <1>0, <1>1 DEF DialBegin, Show, RegistryType, Shown
  <2>. QED
    BY <1>1, <2>1, <2>2 DEF DialBegin, LifeType, HostType, JoinType, ServeType,
       WireType, HangupType
<1>2. CASE DialQuits(j, k)
  <2>1. DialType'
    BY <1>2, DialPcType DEF DialQuits, DialStates
  <2>. QED
    BY <1>2, <2>1 DEF DialQuits, LifeType, RegistryType, HostType, JoinType,
       ServeType, WireType, HangupType
<1>3. CASE DialConnect(j, k)
  <2>1. DialType'
    BY <1>3, DialPcType DEF DialConnect, DialStates
  <2>2. ServeType'
    BY <1>3 DEF DialConnect, Connect, ServeType, ServeStates
  <2>3. WireType'
    BY <1>3, PutType, MsgType DEF DialConnect, WireType, MsgTypes
  <2>. QED
    BY <1>3, <2>1, <2>2, <2>3 DEF DialConnect, LifeType, RegistryType, HostType,
       JoinType, HangupType
<1>4. CASE DialUnreachable(j, k)
  <2>1. DialType' /\ RegistryType'
    BY <1>4, DialNextType DEF DialUnreachable, RegistryType
  <2>. QED
    BY <1>4, <2>1 DEF DialUnreachable, LifeType, HostType, JoinType, ServeType,
       WireType, HangupType
<1>5. CASE DialAcked(j, k)
  <2>1. DialType'
    BY <1>5, DialPcType DEF DialAcked, DialStates
  <2>2. RegistryType'
    BY <1>0, <1>5, <1>c, AttachType DEF DialAcked
  <2>3. WireType'
    BY <1>5, <1>c, TakeType DEF DialAcked, WireType
  <2>. QED
    BY <1>5, <2>1, <2>2, <2>3 DEF DialAcked, LifeType, HostType, JoinType,
       ServeType, HangupType
<1>6. CASE DialRefused(j, k)
  <2>1. DialType' /\ RegistryType'
    BY <1>6, <1>c, DialNextType DEF DialRefused, RegistryType
  <2>. QED
    BY <1>6, <2>1 DEF DialRefused, LifeType, HostType, JoinType, ServeType,
       WireType, HangupType
<1>. QED
  BY <1>1, <1>2, <1>3, <1>4, <1>5, <1>6 DEF DialThread

\* The steps of an inbound connection's thread are well typed.
LEMMA RejectType ==
    ASSUME WireType, RegistryType, ServeType, NEW l \in Links,
           End(l, Target(l)) \in Ends, NEW w \in [Ends -> Seq(Messages)], Reject(w, l)
    PROVE  WireType' /\ ServeType' /\ shut' \in SUBSET Ends
<1>1. Msg("Rejected", {}) \in Messages
  BY MsgType DEF MsgTypes
<1>2. WireType'
  BY <1>1, PutType DEF Reject, WireType
<1>. QED
  BY <1>2 DEF Reject, ServePc, ServeType, ServeStates, RegistryType

\* So does losing an inbound connection before its first message.
LEMMA ServeLostType ==
    ASSUME TypeOK, NEW l \in Links, End(l, Target(l)) \in Ends, ServeLost(l)
    PROVE  TypeOK'
<1>. USE TypeParts, TypePartsPrimed DEF hostvars, teardown, node
<1>1. ServeType' /\ RegistryType'
  BY DEF ServeLost, ServePc, ServeType, ServeStates, RegistryType
<1>. QED
  BY <1>1 DEF ServeLost, LifeType, HostType, JoinType, DialType, WireType, HangupType

\* The steps of the threads that park a joiner are well typed.
LEMMA ServeJoinType ==
    ASSUME TypeOK, NEW j \in Joiners, ServeJoin(j)
    PROVE  TypeOK'
<1>. USE TypeParts, TypePartsPrimed, JoinLinkType DEF chan, hostvars, teardown, node
<1>. DEFINE l == JoinLink(j)
<1>1. CASE HelloChecked(j)
  <2>1. Arrived(l, Host, "Hello") /\ Take(l, Host) \in [Ends -> Seq(Messages)]
    BY <1>1, TakeType DEF HelloChecked, WireType
  <2>2. WireType' /\ ServeType' /\ shut' \in SUBSET Ends
    <3>1. CASE Reject(Take(l, Host), l)
      BY <2>1, <3>1, RejectType
    <3>2. CASE ServePc(l, "park") /\ wire' = Take(l, Host) /\ UNCHANGED shut
      BY <2>1, <3>2 DEF ServePc, WireType, ServeType, ServeStates, RegistryType
    <3>. QED
      BY <1>1, <3>1, <3>2 DEF HelloChecked
  <2>. QED
    BY <1>1, <2>2 DEF HelloChecked, LifeType, RegistryType, HostType, JoinType,
       DialType, HangupType
<1>2. CASE Park(j)
  <2>1. ServeType' /\ HostType'
    BY <1>2 DEF Park, ServePc, ServeType, ServeStates, HostType
  <2>. QED
    BY <1>2, <2>1 DEF Park, LifeType, RegistryType, JoinType, DialType, WireType,
       HangupType
<1>3. CASE ServeLost(l)
  BY <1>3, ServeLostType
<1>. QED
  BY <1>1, <1>2, <1>3 DEF ServeJoin

\* The steps of the threads that answer a mesh call are well typed.
LEMMA ServeMeshType ==
    ASSUME TypeOK, NEW l \in MeshLinks, ServeMesh(l)
    PROVE  TypeOK'
<1>. USE TypeParts, TypePartsPrimed, MeshLinkType DEF chan, hostvars, teardown, node
<1>. DEFINE n == Target(l)
<1>0. n \in Nodes /\ Dialer(l) \in Nodes /\ End(l, n) \in Ends /\ l \in Links
  BY DEF Nodes
<1>1. CASE ServeLost(l)
  BY <1>1, ServeLostType
<1>2. CASE MeshHelloRead(l)
  <2>1. WireType'
    BY <1>0, <1>2, TakeType DEF MeshHelloRead, WireType
  <2>2. ServeType'
    BY <1>2 DEF MeshHelloRead, ServePc, ServeType, ServeStates
  <2>. QED
    BY <1>2, <2>1, <2>2 DEF MeshHelloRead, LifeType, RegistryType, HostType,
       JoinType, DialType, HangupType
<1>3. CASE GraceOver(l) \/ FreeCheck(l)
  <2>1. WireType' /\ ServeType' /\ shut' \in SUBSET Ends
    <3>1. CASE Reject(wire, l)
      BY <1>0, <3>1, RejectType DEF WireType
    <3>2. CASE \E pc \in {"free", "ack"} : ServePc(l, pc) /\ UNCHANGED <<wire, shut>>
      BY <3>2 DEF ServePc, WireType, ServeType, ServeStates, RegistryType
    <3>. QED
      BY <1>3, <3>1, <3>2 DEF GraceOver, FreeCheck
  <2>. QED
    BY <1>3, <2>1 DEF GraceOver, FreeCheck, LifeType, RegistryType, HostType,
       JoinType, DialType, HangupType
<1>4. CASE SendAck(l)
  <2>1. Put(wire, l, n, Msg("MeshAck", {})) \in [Ends -> Seq(Messages)]
    BY PutType, MsgType DEF WireType, MsgTypes
  <2>2. WireType' /\ ServeType' /\ shut' \in SUBSET Ends
    BY <1>0, <1>4, <2>1 DEF SendAck, ServePc, WireType, ServeType, ServeStates,
       RegistryType
  <2>. QED
    BY <1>4, <2>2 DEF SendAck, LifeType, RegistryType, HostType, JoinType,
       DialType, HangupType
<1>5. CASE AttachInbound(l)
  <2>1. RegistryType'
    BY <1>0, <1>5, AttachType DEF AttachInbound
  <2>2. ServeType'
    BY <1>5 DEF AttachInbound, ServePc, ServeType, ServeStates
  <2>. QED
    BY <1>5, <2>1, <2>2 DEF AttachInbound, LifeType, HostType, JoinType, DialType,
       WireType, HangupType
<1>. QED
  BY <1>1, <1>2, <1>3, <1>4, <1>5 DEF ServeMesh

\* The steps of approve() are well typed.
LEMMA ApprPcType ==
    ASSUME HostType, NEW j \in Joiners, NEW pc \in ApprStates, ApprPc(j, pc)
    PROVE  appr' \in [Joiners -> [pc : ApprStates, todo : SUBSET Nodes,
                                  met : SUBSET Nodes]]
<1>1. appr[j] \in [pc : ApprStates, todo : SUBSET Nodes, met : SUBSET Nodes]
  BY DEF HostType
<1>2. [appr[j] EXCEPT !.pc = pc] \in [pc : ApprStates, todo : SUBSET Nodes,
                                      met : SUBSET Nodes]
  BY <1>1
<1>. QED
  BY <1>2 DEF ApprPc, HostType

\* The steps of approve() are well typed.
LEMMA ApproveThreadType ==
    ASSUME TypeOK, NEW j \in Joiners, ApproveThread(j)
    PROVE  TypeOK'
<1>. USE TypeParts, TypePartsPrimed, JoinLinkType DEF chan, hostvars, teardown, node
<1>. DEFINE l == JoinLink(j)
            A == [pc : ApprStates, todo : SUBSET Nodes, met : SUBSET Nodes]
<1>0. j \in Nodes /\ Host \in Nodes
  BY DEF Nodes
<1>1. CASE Snapshot(j)
  <2>1. [pc |-> "announce", todo |-> Connected(Host), met |-> Connected(Host)] \in A
    BY DEF Connected, ApprStates
  <2>2. HostType'
    BY <1>1, <2>1 DEF Snapshot, HostType
  <2>. QED
    BY <1>1, <2>2 DEF Snapshot, LifeType, RegistryType, JoinType, DialType,
       ServeType, WireType, HangupType
<1>2. CASE Announce(j)
  <2>1. PICK k \in appr[j].todo :
               /\ wire' = Put(wire, JoinLink(k), Host, Msg("PeerJoined", {j}))
               /\ appr' = [appr EXCEPT ![j].todo = @ \ {k}]
    BY <1>2 DEF Announce
  <2>2. WireType'
    BY <1>0, <2>1, PutType, MsgType DEF WireType, MsgTypes
  <2>3. [appr[j] EXCEPT !.todo = @ \ {k}] \in A
    <3>1. appr[j] \in A
      BY DEF HostType
    <3>. QED
      BY <3>1
  <2>4. HostType'
    BY <1>2, <2>1, <2>3 DEF Announce, HostType
  <2>. QED
    BY <1>2, <2>2, <2>4 DEF Announce, LifeType, RegistryType, JoinType, DialType,
       ServeType, HangupType
<1>3. CASE Admit(j)
  <2>1. HostType'
    BY <1>3, ApprPcType DEF Admit, ApprStates, HostType
  <2>2. RegistryType'
    BY <1>0, <1>3 DEF Admit, RegistryType
  <2>. QED
    BY <1>3, <2>1, <2>2 DEF Admit, LifeType, JoinType, DialType, ServeType,
       WireType, HangupType
<1>4. CASE SendWelcome(j)
  <2>1. appr[j].met \in SUBSET Nodes
    BY DEF HostType
  <2>2. Put(wire, l, Host, Msg("Welcome", appr[j].met)) \in [Ends -> Seq(Messages)]
    BY <2>1, PutType, MsgType DEF WireType, MsgTypes
  <2>3. HostType'
    BY <1>4, ApprPcType DEF SendWelcome, ApprStates, HostType
  <2>4. WireType' /\ RegistryType'
    BY <1>4, <2>2 DEF SendWelcome, WireType, RegistryType
  <2>. QED
    BY <1>4, <2>3, <2>4 DEF SendWelcome, LifeType, JoinType, DialType, ServeType,
       HangupType
<1>5. CASE AttachApproved(j)
  <2>1. HostType'
    BY <1>5, ApprPcType DEF AttachApproved, ApprStates, HostType
  <2>2. RegistryType'
    BY <1>0, <1>5, AttachType DEF AttachApproved
  <2>. QED
    BY <1>5, <2>1, <2>2 DEF AttachApproved, LifeType, JoinType, DialType,
       ServeType, WireType, HangupType
<1>. QED
  BY <1>1, <1>2, <1>3, <1>4, <1>5 DEF ApproveThread

\* The steps of a reader are well typed.
LEMMA ReaderThreadType ==
    ASSUME TypeOK, NEW e \in Ends, ReaderThread(e)
    PROVE  TypeOK'
<1>. USE TypeParts, TypePartsPrimed DEF chan, hostvars, teardown, node
<1>0. /\ e[1] \in Links /\ e[2] \in Nodes /\ Other(e[1], e[2]) \in Nodes
      /\ e = End(e[1], e[2]) /\ Host \in Nodes
  BY EndType DEF Nodes
<1>1. CASE ReadControl(e)
  <2>1. PICK type \in {"PeerJoined", "PeerLeft"} : Arrived(e[1], e[2], type)
    BY <1>1 DEF ReadControl
  <2>2. WireType' /\ Payload(e[1], e[2]) \in SUBSET Nodes
    BY <1>0, <1>1, <2>1, TakeType DEF ReadControl, WireType
  <2>3. roster \in [Nodes -> SUBSET Nodes]
    BY DEF RegistryType
  <2>4. roster' \in [Nodes -> SUBSET Nodes]
    <3>1. CASE roster' = [roster EXCEPT ![e[2]] = @ \cup Payload(e[1], e[2])]
      BY <2>2, <2>3, <3>1
    <3>2. CASE roster' = [roster EXCEPT ![e[2]] = @ \ Payload(e[1], e[2])]
      <4>1. roster[e[2]] \ Payload(e[1], e[2]) \in SUBSET Nodes
        BY <1>0, <2>3
      <4>. QED
        BY <2>3, <3>2, <4>1
    <3>. QED
      BY <1>1, <3>1, <3>2 DEF ReadControl
  <2>. QED
    BY <1>1, <2>2, <2>4 DEF ReadControl, LifeType, RegistryType, HostType,
       JoinType, DialType, ServeType, HangupType
<1>2. CASE ReadBye(e)
  <2>1. WireType'
    BY <1>0, <1>2, TakeType DEF ReadBye, WireType
  <2>2. RegistryType'
    BY <1>0, <1>2, PeerGoneType DEF ReadBye, ReaderStates
  <2>. QED
    BY <1>2, <2>1, <2>2 DEF ReadBye, LifeType, HostType, JoinType, DialType,
       ServeType, HangupType
<1>3. CASE ReadFails(e)
  <2>1. RegistryType'
    BY <1>0, <1>3, PeerGoneType DEF ReadFails, ReaderStates
  <2>. QED
    BY <1>3, <2>1 DEF ReadFails, LifeType, HostType, JoinType, DialType,
       ServeType, WireType, HangupType
<1>4. CASE TellPeers(e)
  <2>1. /\ e[1] \in Links
        /\ Other(e[1], Host) \in Nodes
    BY <1>0 DEF Other, Links, JoinLinks, JoinLink, MeshLinks, Dialer, Target, Nodes
  <2>2. Msg("PeerLeft", {Other(e[1], Host)}) \in Messages
    BY <2>1, MsgType DEF MsgTypes
  <2>3. \A f \in Ends : /\ wire[f] \in Seq(Messages)
                        /\ Append(wire[f], Msg("PeerLeft", {Other(e[1], Host)}))
                             \in Seq(Messages)
    BY <2>2 DEF WireType
  <2>4. WireType'
    BY <1>4, <2>3 DEF TellPeers, WireType
  <2>5. RegistryType'
    BY <1>4 DEF TellPeers, RegistryType, ReaderStates
  <2>. QED
    BY <1>4, <2>4, <2>5 DEF TellPeers, LifeType, HostType, JoinType, DialType,
       ServeType, HangupType
<1>5. CASE ShowConnected(e) \/ ShowGone(e)
  <2>1. PICK s \in Shown : status' = [status EXCEPT ![e[2]][Other(e[1], e[2])] = s]
    BY <1>5 DEF ShowConnected, ShowGone, Show, Shown
  <2>2. status' \in [Nodes -> [Nodes -> Shown]]
    BY <1>0, <2>1 DEF RegistryType
  <2>3. reader' \in [Ends -> ReaderStates]
    BY <1>5 DEF ShowConnected, ShowGone, RegistryType, ReaderStates
  <2>4. RegistryType'
    BY <1>5, <2>2, <2>3 DEF ShowConnected, ShowGone, RegistryType
  <2>. QED
    BY <1>5, <2>4 DEF ShowConnected, ShowGone, LifeType, HostType, JoinType, DialType,
       ServeType, WireType, HangupType
<1>. QED
  BY <1>1, <1>2, <1>3, <1>4, <1>5 DEF ReaderThread

\* The steps of leave(), and what operators and the environment do.
LEMMA LeaveThreadType ==
    ASSUME TypeOK, NEW n \in Nodes, LeaveThread(n)
    PROVE  TypeOK'
<1>. USE TypeParts, TypePartsPrimed DEF chan, hostvars, teardown, node
<1>1. CASE LeaveDrain(n)
  <2>1. LifeType'
    BY <1>1 DEF LeaveDrain, LifeType, LifeStates
  <2>2. HostType'
    BY <1>1 DEF LeaveDrain, HostType
  <2>3. /\ peers' \in [Nodes -> [Nodes -> Links \cup {NoLink}]]
        /\ \A i, k \in Nodes : peers'[i][k] # NoLink => <<peers'[i][k], i>> \in Ends
    BY <1>1 DEF LeaveDrain, RegistryType
  <2>4. RegistryType'
    BY <1>1, <2>3 DEF LeaveDrain, RegistryType
  <2>5. {peers[n][m] : m \in Connected(n)} \in SUBSET Links
    BY DEF Connected, RegistryType
  <2>6. \A l \in {peers[n][m] : m \in Connected(n)} : <<l, n>> \in Ends
    BY DEF Connected, RegistryType
  <2>7. byes' = [byes EXCEPT ![n] = {peers[n][m] : m \in Connected(n)}]
    BY <1>1 DEF LeaveDrain
  <2>8. /\ byes' \in [Nodes -> SUBSET Links]
        /\ \A i \in Nodes : \A l \in byes'[i] : <<l, i>> \in Ends
    BY <2>5, <2>6, <2>7 DEF HangupType
  <2>9. orphans' \in SUBSET JoinLinks
    BY <1>1 DEF LeaveDrain, HangupType, HostType, JoinLinks
  <2>. QED
    BY <1>1, <2>1, <2>2, <2>4, <2>8, <2>9 DEF LeaveDrain, JoinType, DialType,
       ServeType, WireType, HangupType
<1>2. CASE LeaveBye(n)
  <2>1. PICK l \in byes[n] :
               /\ wire' = Put(wire, l, n, Msg("Bye", {}))
               /\ shut' = shut \cup {End(l, n)}
               /\ byes' = [byes EXCEPT ![n] = @ \ {l}]
    BY <1>2 DEF LeaveBye
  <2>2. WireType'
    BY <2>1, PutType, MsgType DEF WireType, MsgTypes
  <2>3. RegistryType'
    BY <1>2, <2>1 DEF LeaveBye, RegistryType, HangupType, End
  <2>4. byes[n] \ {l} \in SUBSET Links
    BY DEF HangupType
  <2>5. /\ byes' \in [Nodes -> SUBSET Links]
        /\ \A i \in Nodes : \A k \in byes'[i] : <<k, i>> \in Ends
    BY <2>1, <2>4 DEF HangupType
  <2>. QED
    BY <1>2, <2>2, <2>3, <2>5 DEF LeaveBye, LifeType, HostType, JoinType,
       DialType, ServeType, HangupType
<1>3. CASE LeaveEnd(n)
  <2>1. LifeType'
    BY <1>3 DEF LeaveEnd, LifeType, LifeStates
  <2>2. \A l \in orphans : End(l, Host) \in Ends
    BY JoinLinkType DEF HangupType, JoinLinks
  <2>3. shut' \in SUBSET Ends /\ orphans' \in SUBSET JoinLinks
    BY <1>3, <2>2 DEF LeaveEnd, RegistryType, HangupType
  <2>. QED
    BY <1>3, <2>1, <2>3 DEF LeaveEnd, RegistryType, HostType, JoinType, DialType,
       ServeType, WireType, HangupType
<1>. QED
  BY <1>1, <1>2, <1>3 DEF LeaveThread

\* So are the steps operators and the environment choose.
LEMMA OperatorType ==
    ASSUME TypeOK, Operator
    PROVE  TypeOK'
<1>. USE TypeParts, TypePartsPrimed DEF chan, hostvars, teardown, node
<1>0. Host \in Nodes /\ \A j \in Joiners : j \in Nodes
  BY DEF Nodes
<1>1. ASSUME NEW n \in Nodes, UNCHANGED <<reader, status, shut>>,
             peers' = [peers EXCEPT ![n] = [m \in Nodes |-> NoLink]],
             roster' = [roster EXCEPT ![n] = {}]
      PROVE  RegistryType'
  BY <1>1 DEF RegistryType
<1>2. CASE OpenRoom
  <2>1. RegistryType'
    BY <1>0, <1>1, <1>2 DEF OpenRoom
  <2>2. LifeType' /\ HostType'
    BY <1>2 DEF OpenRoom, LifeType, LifeStates, HostType
  <2>. QED
    BY <1>2, <2>1, <2>2 DEF OpenRoom, JoinType, DialType, ServeType, WireType,
       HangupType
<1>3. ASSUME NEW j \in Joiners, Join(j)
      PROVE  TypeOK'
  <2>1. RegistryType'
    BY <1>0, <1>1, <1>3 DEF Join
  <2>2. LifeType' /\ JoinType'
    BY <1>3 DEF Join, LifeType, LifeStates, JoinType, JoinStates
  <2>. QED
    BY <1>3, <2>1, <2>2 DEF Join, HostType, DialType, ServeType, WireType, HangupType
<1>4. ASSUME NEW j \in Joiners, Approve(j)
      PROVE  TypeOK'
  <2>1. HostType'
    BY <1>4, ApprPcType DEF Approve, ApprStates, HostType
  <2>. QED
    BY <1>4, <2>1 DEF Approve, LifeType, RegistryType, JoinType, DialType,
       ServeType, WireType, HangupType
<1>5. ASSUME NEW j \in Joiners, Decline(j)
      PROVE  TypeOK'
  <2>1. HostType'
    BY <1>5, ApprPcType DEF Decline, ApprStates, HostType
  <2>2. WireType'
    BY <1>5, PutType, MsgType DEF Decline, WireType, MsgTypes
  <2>3. RegistryType'
    BY <1>5, JoinLinkType DEF Decline, RegistryType
  <2>. QED
    BY <1>5, <2>1, <2>2, <2>3 DEF Decline, LifeType, JoinType, DialType,
       ServeType, HangupType
<1>6. ASSUME NEW n \in Nodes, Leave(n)
      PROVE  TypeOK'
  BY <1>6 DEF Leave, LifeType, LifeStates, RegistryType, HostType, JoinType,
     DialType, ServeType, WireType, HangupType
<1>7. ASSUME NEW n \in Nodes, Crash(n)
      PROVE  TypeOK'
  BY <1>7 DEF Crash, LifeType, LifeStates, RegistryType, HostType, JoinType,
     DialType, ServeType, WireType, HangupType
<1>8. ASSUME NEW l \in Links, Break(l)
      PROVE  TypeOK'
  <2>1. End(l, Dialer(l)) \in Ends /\ End(l, Target(l)) \in Ends
    BY JoinLinkType, MeshLinkType DEF Links, JoinLinks
  <2>. QED
    BY <1>8, <2>1 DEF Break, LifeType, RegistryType, HostType, JoinType,
       DialType, ServeType, WireType, HangupType
<1>. QED
  BY <1>2, <1>3, <1>4, <1>5, <1>6, <1>7, <1>8 DEF Operator

\* Every step keeps the types.
LEMMA TypeStep ==
    ASSUME TypeOK, Dialling, [Next]_vars
    PROVE  TypeOK'
<1>1. CASE UNCHANGED vars
  BY <1>1 DEF vars, TypeOK
<1>. QED
  BY <1>1, JoinThreadType, DialThreadType, ServeJoinType, ServeMeshType,
     ApproveThreadType, ReaderThreadType, LeaveThreadType, OperatorType
     DEF Next, System

-----------------------------------------------------------------------------
(* Who is admitted.                                                        *)

\* A serve pc moves forward, and leaves the others alone.
LEMMA ServePcFrame ==
    ASSUME ServeType, NEW l \in Links, NEW pc \in ServeStates, ServePc(l, pc)
    PROVE  /\ serve'[l] = pc
           /\ \A k \in Links : k # l => serve'[k] = serve[k]
  BY DEF ServePc, ServeType

\* Two joiners have two join links.
LEMMA JoinLinksDiffer ==
    ASSUME NEW j \in Joiners, NEW k \in Joiners, j # k
    PROVE  JoinLink(j) # JoinLink(k)
  BY DEF JoinLink

\* Steps that touch none of what Asked is about keep it.
LEMMA AskedFrame ==
    ASSUME TypeOK, Asked, Admitted \subseteq Admitted',
           \A j \in Joiners : life'[j] = "idle" => life[j] = "idle",
           UNCHANGED <<join, pending, appr>>,
           \A j \in Joiners : serve'[JoinLink(j)] = serve[JoinLink(j)]
    PROVE  Asked'
  BY DEF Asked

\* Every step keeps what is known of who has asked.
LEMMA AskedStep ==
    ASSUME TypeOK, Asked, WireOk, Dialling, [Next]_vars
    PROVE  Asked'
<1>. USE DEF chan, hostvars, teardown, node
<1>a. Admitted \subseteq Admitted'
  BY AdmittedGrows
<1>b. LifeType /\ ServeType /\ JoinType /\ HostType
  BY TypeParts
<1>1. ASSUME NEW j \in Joiners, JoinConnect(j)
      PROVE  Asked'
  <2>1. /\ join[j] = "dial"
        /\ join' = [join EXCEPT ![j] = "wait"]
        /\ serve' = [serve EXCEPT ![JoinLink(j)] = "first"]
        /\ UNCHANGED <<life, pending, appr>>
    BY <1>1 DEF JoinConnect, Connect
  <2>2. appr[j].pc = "no" /\ j \notin pending
    BY <2>1 DEF Asked
  <2>3. \A k \in Joiners \ {j} : /\ join'[k] = join[k]
                                 /\ serve'[JoinLink(k)] = serve[JoinLink(k)]
    BY <1>b, <2>1, JoinLinksDiffer, JoinLinkType DEF JoinType, ServeType
  <2>4. join'[j] = "wait" /\ serve'[JoinLink(j)] = "first"
    BY <1>b, <2>1, JoinLinkType DEF JoinType, ServeType
  <2>. QED
    BY <1>a, <1>b, <2>1, <2>2, <2>3, <2>4 DEF Asked
<1>2. ASSUME NEW j \in Joiners,
             \/ JoinFails(j) \/ AwaitRefused(j) \/ AwaitAttach(j)
      PROVE  Asked'
  <2>1. /\ join[j] # "no" /\ join' = [join EXCEPT ![j] = "done"]
        /\ UNCHANGED <<serve, pending, appr>>
        /\ \A k \in Joiners : life'[k] = "idle" => life[k] = "idle"
    BY <1>2, <1>b DEF JoinFails, AwaitRefused, AwaitAttach, Shutdown, LifeType, Nodes
  <2>2. life[j] # "idle"
    BY <2>1 DEF Asked
  <2>. QED
    BY <1>a, <1>b, <2>1, <2>2 DEF Asked, JoinType
<1>3. ASSUME NEW j \in Joiners, AwaitWelcome(j)
      PROVE  Asked'
  <2>. DEFINE e == End(JoinLink(j), j)
  <2>1. /\ join[j] = "wait" /\ join' = [join EXCEPT ![j] = "attach"]
        /\ UNCHANGED <<life, serve, pending, appr>>
    BY <1>3 DEF AwaitWelcome
  <2>2. /\ e \in Ends /\ wire[e] \in Seq(Messages) /\ wire[e] # <<>>
        /\ Head(wire[e]).type = "Welcome"
    BY <1>3, JoinLinkType, TypeParts DEF AwaitWelcome, Arrived, WireType
  <2>3. 1 \in 1..Len(wire[e]) /\ Head(wire[e]) = wire[e][1]
    <3>. HIDE DEF e
    <3>. QED
      BY <2>2
  <2>4. MsgOk(e[2], wire[e][1])
    BY <2>2, <2>3 DEF WireOk, QueuesOk
  <2>5. j \in Admitted
    BY <2>2, <2>3, <2>4 DEF MsgOk, End
  <2>. QED
    BY <1>a, <1>b, <2>1, <2>5 DEF Asked, JoinType
<1>4. ASSUME NEW j \in Joiners, HelloChecked(j) \/ ServeLost(JoinLink(j))
      PROVE  Asked'
  <2>1. /\ serve[JoinLink(j)] = "first"
        /\ ServePc(JoinLink(j), "park") \/ ServePc(JoinLink(j), "done")
        /\ UNCHANGED <<life, join, pending, appr>>
    BY <1>4 DEF HelloChecked, ServeLost, Reject
  <2>2. /\ serve'[JoinLink(j)] \in {"park", "done"}
        /\ \A k \in Joiners \ {j} : serve'[JoinLink(k)] = serve[JoinLink(k)]
    BY <1>b, <2>1, ServePcFrame, JoinLinksDiffer, JoinLinkType DEF ServeStates
  <2>. QED
    BY <1>a, <2>1, <2>2 DEF Asked
<1>5. ASSUME NEW j \in Joiners, Park(j)
      PROVE  Asked'
  <2>1. /\ serve[JoinLink(j)] = "park" /\ ServePc(JoinLink(j), "done")
        /\ pending' = pending \cup {j}
        /\ UNCHANGED <<life, join, appr>>
    BY <1>5 DEF Park
  <2>2. /\ serve'[JoinLink(j)] = "done"
        /\ \A k \in Joiners \ {j} : serve'[JoinLink(k)] = serve[JoinLink(k)]
    BY <1>b, <2>1, ServePcFrame, JoinLinksDiffer, JoinLinkType DEF ServeStates
  <2>3. appr[j].pc = "no"
    BY <2>1 DEF Asked
  <2>. QED
    BY <1>a, <2>1, <2>2, <2>3 DEF Asked
<1>6. ASSUME NEW j \in Joiners, Join(j)
      PROVE  Asked'
  <2>1. /\ life[j] = "idle" /\ join' = [join EXCEPT ![j] = "dial"]
        /\ life' = [life EXCEPT ![j] = "live"]
        /\ UNCHANGED <<serve, pending, appr>>
    BY <1>6 DEF Join
  <2>2. join[j] = "no"
    BY <2>1 DEF Asked
  <2>3. /\ join'[j] = "dial" /\ life'[j] = "live"
        /\ \A k \in Joiners \ {j} : join'[k] = join[k] /\ life'[k] = life[k]
    BY <1>b, <2>1 DEF JoinType, LifeType, Nodes
  <2>. QED
    BY <1>a, <2>1, <2>2, <2>3 DEF Asked
<1>7. ASSUME NEW j \in Joiners, Approve(j) \/ Decline(j)
      PROVE  Asked'
  <2>1. /\ j \in pending /\ pending' = pending \ {j}
        /\ ApprPc(j, "snapshot") \/ ApprPc(j, "declined")
        /\ UNCHANGED <<life, join, serve>>
    BY <1>7 DEF Approve, Decline
  <2>2. \A k \in Joiners \ {j} : appr'[k].pc = appr[k].pc
    BY <1>b, <2>1 DEF ApprPc, HostType
  <2>3. serve[JoinLink(j)] \notin {"no", "first", "park"}
    BY <2>1 DEF Asked
  <2>. QED
    BY <1>a, <2>1, <2>2, <2>3 DEF Asked
<1>8. ASSUME NEW j \in Joiners, ApproveThread(j)
      PROVE  Asked'
  <2>1. /\ appr[j].pc # "no" /\ UNCHANGED <<life, join, serve, pending>>
    BY <1>8 DEF ApproveThread, Snapshot, Announce, Admit, SendWelcome, AttachApproved
  <2>2. \A k \in Joiners \ {j} : appr'[k].pc = appr[k].pc
    <3>1. CASE Snapshot(j)
      BY <1>b, <3>1 DEF Snapshot, HostType
    <3>2. CASE Announce(j)
      BY <1>b, <3>2 DEF Announce, HostType
    <3>3. CASE Admit(j) \/ SendWelcome(j) \/ AttachApproved(j)
      <4>1. \E pc : ApprPc(j, pc)
        BY <3>3 DEF Admit, SendWelcome, AttachApproved
      <4>. QED
        BY <1>b, <4>1 DEF ApprPc, HostType
    <3>. QED
      BY <1>8, <3>1, <3>2, <3>3 DEF ApproveThread
  <2>3. /\ serve[JoinLink(j)] \notin {"no", "first", "park"}
        /\ j \notin pending
    BY <2>1 DEF Asked
  <2>. QED
    BY <1>a, <2>1, <2>2, <2>3 DEF Asked
<1>9. ASSUME NEW l \in MeshLinks, ServeMesh(l)
      PROVE  Asked'
  <2>1. /\ \E pc \in ServeStates : ServePc(l, pc)
        /\ UNCHANGED <<life, join, pending, appr>>
    BY <1>9 DEF ServeMesh, ServeLost, MeshHelloRead, GraceOver, FreeCheck, SendAck,
       AttachInbound, Reject, ServeStates
  <2>2. \A k \in Joiners : serve'[JoinLink(k)] = serve[JoinLink(k)]
    BY <1>b, <2>1, ServePcFrame, JoinLinkType, MeshLinkType
  <2>. QED
    BY <1>a, <2>1, <2>2, AskedFrame
<1>10. ASSUME NEW j \in Joiners, NEW k \in Joiners, DialThread(j, k)
       PROVE  Asked'
  <2>1. CASE DialConnect(j, k)
    <3>1. dial[j][k].pc # "no"
      BY <2>1 DEF DialConnect
    <3>2. j # k
      BY <3>1 DEF Dialling
    <3>3. \A i \in Joiners : JoinLink(i) # CurrentLink(j, k)
      BY MeshAssumption DEF CurrentLink, MeshLink, JoinLink
    <3>4. /\ serve' = [serve EXCEPT ![CurrentLink(j, k)] = "first"]
          /\ UNCHANGED <<life, join, pending, appr>>
      BY <2>1 DEF DialConnect, Connect
    <3>5. \A i \in Joiners : serve'[JoinLink(i)] = serve[JoinLink(i)]
      BY <1>b, <3>3, <3>4, JoinLinkType DEF ServeType
    <3>. QED
      BY <1>a, <3>4, <3>5, AskedFrame
  <2>2. CASE ~DialConnect(j, k)
    <3>1. UNCHANGED <<life, join, pending, appr, serve>>
      BY <1>10, <2>2 DEF DialThread, DialBegin, DialQuits, DialUnreachable, DialAcked,
         DialRefused
    <3>. QED
      BY <1>a, <3>1, AskedFrame
  <2>. QED
    BY <2>1, <2>2
<1>11. ASSUME NEW e \in Ends, ReaderThread(e)
       PROVE  Asked'
  <2>1. UNCHANGED <<life, join, pending, appr, serve>>
    BY <1>11 DEF ReaderThread, ReadControl, ReadBye, ReadFails, TellPeers,
     ShowConnected, ShowGone
  <2>. QED
    BY <1>a, <2>1, AskedFrame
<1>12. ASSUME NEW n \in Nodes, LeaveThread(n) \/ Leave(n) \/ Crash(n)
       PROVE  Asked'
  <2>1. /\ UNCHANGED <<join, appr, serve>>
        /\ pending' = pending \/ pending' = {}
        /\ \A j \in Joiners : life'[j] = "idle" => life[j] = "idle"
    BY <1>12, <1>b DEF LeaveThread, LeaveDrain, LeaveBye, LeaveEnd, Leave, Crash,
       LifeType, Nodes
  <2>. QED
    BY <1>a, <2>1 DEF Asked
<1>13. CASE OpenRoom
  <2>1. /\ UNCHANGED <<join, appr, serve>> /\ pending' = {}
        /\ \A j \in Joiners : life'[j] = life[j]
    BY <1>13, <1>b, MeshAssumption DEF OpenRoom, LifeType, Nodes
  <2>. QED
    BY <1>a, <2>1 DEF Asked
<1>14. CASE UNCHANGED vars \/ \E l \in Links : Break(l)
  <2>1. UNCHANGED <<life, join, pending, appr, serve>>
    BY <1>14 DEF vars, Break
  <2>. QED
    BY <1>a, <2>1, AskedFrame
<1>15. ASSUME NEW j \in Joiners, JoinThread(j)
       PROVE  Asked'
  BY <1>1, <1>2, <1>3, <1>15 DEF JoinThread
<1>16. ASSUME NEW j \in Joiners, ServeJoin(j)
       PROVE  Asked'
  BY <1>4, <1>5, <1>16 DEF ServeJoin
<1>17. CASE System
  BY <1>8, <1>9, <1>10, <1>11, <1>12, <1>15, <1>16, <1>17 DEF System
<1>18. CASE Operator
  BY <1>6, <1>7, <1>12, <1>13, <1>14, <1>18 DEF Operator
<1>. QED
  BY <1>14, <1>17, <1>18 DEF Next

\* Appending a good message, or taking one, keeps the queues good.
LEMMA PutKeepsOk ==
    ASSUME NEW w \in [Ends -> Seq(Messages)], QueuesOk(w),
           NEW l, NEW n, NEW msg \in Messages, MsgOk(Other(l, n), msg)
    PROVE  QueuesOk(Put(w, l, n, msg))
<1>. DEFINE v == [w EXCEPT ![FarEnd(l, n)] = Append(@, msg)]
<1>1. ASSUME NEW e \in Ends, NEW i \in 1..Len(v[e])
      PROVE  MsgOk(e[2], v[e][i])
  <2>1. w[e] \in Seq(Messages)
    OBVIOUS
  <2>2. CASE e # FarEnd(l, n)
    <3>1. v[e] = w[e]
      BY <2>2
    <3>. QED
      BY <3>1 DEF QueuesOk
  <2>3. CASE e = FarEnd(l, n)
    <3>1. v[e] = Append(w[e], msg)
      BY <2>3
    <3>2. e[2] = Other(l, n)
      BY <2>3 DEF FarEnd
    <3>. HIDE DEF v
    <3>3. CASE i \in 1..Len(w[e])
      <4>1. v[e][i] = w[e][i]
        BY <2>1, <3>1, <3>3
      <4>. QED
        BY <3>3, <4>1 DEF QueuesOk
    <3>4. CASE i \notin 1..Len(w[e])
      <4>1. i = Len(w[e]) + 1
        BY <2>1, <3>1, <3>4
      <4>2. v[e][i] = msg
        BY <2>1, <3>1, <4>1
      <4>. QED
        BY <3>2, <4>2
    <3>. QED
      BY <3>3, <3>4
  <2>. QED
    BY <2>2, <2>3
<1>2. QueuesOk(v)
  BY <1>1 DEF QueuesOk
<1>. QED
  BY <1>2 DEF Put

\* Receiving keeps what is in flight good.
LEMMA TakeKeepsOk ==
    ASSUME WireType, WireOk, NEW l, NEW n, NEW type, End(l, n) \in Ends,
           Arrived(l, n, type)
    PROVE  QueuesOk(Take(l, n))
<1>. DEFINE v == Take(l, n)
<1>1. ASSUME NEW e \in Ends, NEW i \in 1..Len(v[e])
      PROVE  MsgOk(e[2], v[e][i])
  <2>1. wire[e] \in Seq(Messages)
    BY DEF WireType
  <2>2. CASE e # End(l, n)
    <3>1. v[e] = wire[e]
      BY <2>2 DEF Take, WireType
    <3>. QED
      BY <3>1 DEF WireOk, QueuesOk
  <2>3. CASE e = End(l, n)
    <3>1. v[e] = Tail(wire[e]) /\ wire[e] # <<>>
      BY <2>3 DEF Take, WireType, Arrived
    <3>. HIDE DEF v
    <3>2. i + 1 \in 1..Len(wire[e]) /\ v[e][i] = wire[e][i + 1]
      BY <2>1, <3>1
    <3>. QED
      BY <3>2 DEF WireOk, QueuesOk
  <2>. QED
    BY <2>2, <2>3
<1>. QED
  BY <1>1 DEF QueuesOk

\* Queues that are good stay good while more joiners are admitted.
LEMMA QueuesGrow ==
    ASSUME NEW w, QueuesOk(w), wire' = w, Admitted \subseteq Admitted'
    PROVE  WireOk'
  BY DEF WireOk, QueuesOk, MsgOk

\* Messages with no payload to vouch for are good wherever they go.
LEMMA PlainMsg ==
    ASSUME NEW n, NEW type, NEW who, type \notin {"Welcome", "PeerJoined"}
    PROVE  MsgOk(n, Msg(type, who))
  BY DEF MsgOk, Msg

\* So does a refusal.
LEMMA RejectKeepsOk ==
    ASSUME NEW w \in [Ends -> Seq(Messages)], QueuesOk(w), NEW l, Reject(w, l),
           Admitted \subseteq Admitted'
    PROVE  WireOk'
  BY PutKeepsOk, QueuesGrow, PlainMsg, MsgType DEF Reject, MsgTypes

\* Every step sends only what names admitted joiners.
LEMMA WireStep ==
    ASSUME TypeOK, Asked, WireOk, Met, [Next]_vars
    PROVE  WireOk'
<1>. USE DEF chan, hostvars, teardown, node
<1>a. Admitted \subseteq Admitted'
  BY AdmittedGrows
<1>b. WireType /\ HostType /\ wire \in [Ends -> Seq(Messages)] /\ QueuesOk(wire)
  BY TypeParts DEF WireType, WireOk
<1>c. ASSUME UNCHANGED wire
      PROVE  WireOk'
  BY <1>a, <1>b, <1>c, QueuesGrow
<1>d. ASSUME NEW l, NEW n, NEW type \in {"Hello", "MeshHello", "MeshAck", "Bye", "Rejected"},
             wire' = Put(wire, l, n, Msg(type, {}))
      PROVE  WireOk'
  <2>1. Msg(type, {}) \in Messages /\ MsgOk(Other(l, n), Msg(type, {}))
    BY MsgType, PlainMsg DEF MsgTypes
  <2>. QED
    BY <1>a, <1>b, <1>d, <2>1, PutKeepsOk, QueuesGrow
<1>e. ASSUME NEW l, NEW n, NEW type, End(l, n) \in Ends, Arrived(l, n, type),
             wire' = Take(l, n)
      PROVE  WireOk'
  BY <1>a, <1>b, <1>e, TakeKeepsOk, QueuesGrow
<1>1. ASSUME NEW j \in Joiners, JoinThread(j)
      PROVE  WireOk'
  <2>1. CASE JoinConnect(j)
    BY <1>d, <2>1 DEF JoinConnect
  <2>2. CASE AwaitWelcome(j)
    BY <1>e, <2>2, JoinLinkType DEF AwaitWelcome
  <2>3. CASE JoinFails(j) \/ AwaitAttach(j) \/ AwaitRefused(j)
    BY <1>c, <2>3 DEF JoinFails, AwaitAttach, AwaitRefused
  <2>. QED
    BY <1>1, <2>1, <2>2, <2>3 DEF JoinThread
<1>3. ASSUME NEW l \in Links, End(l, Target(l)) \in Ends, ServeLost(l)
      PROVE  WireOk'
  BY <1>3, <1>c DEF ServeLost
<1>4. ASSUME NEW j \in Joiners, ServeJoin(j)
      PROVE  WireOk'
  <2>1. CASE HelloChecked(j)
    <3>1. /\ Arrived(JoinLink(j), Host, "Hello")
          /\ End(JoinLink(j), Host) \in Ends
      BY <2>1, JoinLinkType DEF HelloChecked
    <3>2. /\ Take(JoinLink(j), Host) \in [Ends -> Seq(Messages)]
          /\ QueuesOk(Take(JoinLink(j), Host))
      BY <1>b, <3>1, TakeType, TakeKeepsOk
    <3>. QED
      BY <1>a, <1>e, <2>1, <3>1, <3>2, RejectKeepsOk DEF HelloChecked
  <2>2. CASE Park(j)
    BY <1>c, <2>2 DEF Park
  <2>3. CASE ServeLost(JoinLink(j))
    BY <1>3, <2>3, JoinLinkType
  <2>. QED
    BY <1>4, <2>1, <2>2, <2>3 DEF ServeJoin
<1>5. ASSUME NEW l \in MeshLinks, ServeMesh(l)
      PROVE  WireOk'
  <2>1. CASE MeshHelloRead(l)
    BY <1>e, <2>1, MeshLinkType DEF MeshHelloRead
  <2>2. CASE GraceOver(l) \/ FreeCheck(l)
    BY <1>a, <1>b, <1>c, <2>2, RejectKeepsOk DEF GraceOver, FreeCheck
  <2>3. CASE SendAck(l)
    BY <1>c, <1>d, <2>3 DEF SendAck
  <2>4. CASE AttachInbound(l)
    BY <1>c, <2>4 DEF AttachInbound
  <2>5. CASE ServeLost(l)
    BY <1>3, <2>5, MeshLinkType
  <2>. QED
    BY <1>5, <2>1, <2>2, <2>3, <2>4, <2>5 DEF ServeMesh
<1>6. ASSUME NEW j \in Joiners, NEW k \in Joiners, DialThread(j, k)
      PROVE  WireOk'
  <2>1. CASE DialConnect(j, k)
    BY <1>d, <2>1 DEF DialConnect
  <2>2. CASE DialAcked(j, k)
    <3>. DEFINE l == CurrentLink(j, k)
    <3>1. Arrived(l, j, "MeshAck") /\ wire' = Take(l, j)
      BY <2>2 DEF DialAcked
    <3>2. CASE End(l, j) \in Ends
      BY <1>e, <3>1, <3>2
    <3>3. CASE End(l, j) \notin Ends
      <4>1. wire' = wire
        BY <1>b, <3>1, <3>3 DEF Take
      <4>. QED
        BY <1>c, <4>1
    <3>. QED
      BY <3>2, <3>3
  <2>3. CASE DialBegin(j, k) \/ DialQuits(j, k) \/ DialUnreachable(j, k)
             \/ DialRefused(j, k)
    BY <1>c, <2>3 DEF DialBegin, DialQuits, DialUnreachable, DialRefused
  <2>. QED
    BY <1>6, <2>1, <2>2, <2>3 DEF DialThread
<1>7. ASSUME NEW j \in Joiners, ApproveThread(j)
      PROVE  WireOk'
  <2>0. j \in Nodes
    BY DEF Nodes
  <2>1. CASE Announce(j)
    <3>1. PICK k \in appr[j].todo :
                 wire' = Put(wire, JoinLink(k), Host, Msg("PeerJoined", {j}))
      BY <2>1 DEF Announce
    <3>2. j \in Admitted
      BY <2>1 DEF Announce, Admitted, Approved
    <3>3. /\ Msg("PeerJoined", {j}) \in Messages
          /\ MsgOk(Other(JoinLink(k), Host), Msg("PeerJoined", {j}))
      BY <2>0, <3>2, MsgType DEF MsgTypes, MsgOk, Msg
    <3>. QED
      BY <1>a, <1>b, <3>1, <3>3, PutKeepsOk, QueuesGrow
  <2>2. CASE SendWelcome(j)
    <3>1. j \in Admitted /\ appr[j].met \in SUBSET Nodes
      BY <1>b, <2>2 DEF SendWelcome, Admitted, Approved, HostType
    <3>2. j \notin appr[j].met /\ appr[j].met \cap Joiners \subseteq Admitted
      BY <2>2 DEF SendWelcome, Met
    <3>3. Other(JoinLink(j), Host) = j
      BY JoinLinkType, MeshAssumption DEF Other
    <3>4. /\ Msg("Welcome", appr[j].met) \in Messages
          /\ MsgOk(Other(JoinLink(j), Host), Msg("Welcome", appr[j].met))
      BY <3>1, <3>2, <3>3, MsgType DEF MsgTypes, MsgOk, Msg
    <3>5. CASE wire' = Put(wire, JoinLink(j), Host, Msg("Welcome", appr[j].met))
      BY <1>a, <1>b, <3>4, <3>5, PutKeepsOk, QueuesGrow
    <3>. QED
      BY <1>c, <2>2, <3>5 DEF SendWelcome
  <2>3. CASE Snapshot(j) \/ Admit(j) \/ AttachApproved(j)
    BY <1>c, <2>3 DEF Snapshot, Admit, AttachApproved
  <2>. QED
    BY <1>7, <2>1, <2>2, <2>3 DEF ApproveThread
<1>8. ASSUME NEW e \in Ends, ReaderThread(e)
      PROVE  WireOk'
  <2>1. End(e[1], e[2]) \in Ends
    BY EndType
  <2>2. CASE ReadControl(e) \/ ReadBye(e)
    BY <1>e, <2>1, <2>2 DEF ReadControl, ReadBye
  <2>3. CASE ReadFails(e)
    BY <1>c, <2>3 DEF ReadFails
  <2>4. CASE TellPeers(e)
    <3>. DEFINE msg == Msg("PeerLeft", {Other(e[1], Host)})
    <3>1. \A f \in Ends : wire'[f] \in {wire[f], Append(wire[f], msg)}
      BY <2>4 DEF TellPeers
    <3>2. msg \in Messages
      BY EndType, MsgType DEF MsgTypes, Other, Ends, Links, JoinLinks, JoinLink,
         MeshLinks, Dialer, Target, Nodes
    <3>3. \A n : MsgOk(n, msg)
      BY PlainMsg
    <3>. HIDE DEF msg
    <3>4. ASSUME NEW f \in Ends, NEW i \in 1..Len(wire'[f])
          PROVE  wire'[f][i] = msg \/ (i \in 1..Len(wire[f]) /\ wire'[f][i] = wire[f][i])
      <4>1. wire[f] \in Seq(Messages)
        BY <1>b
      <4>. QED
        BY <3>1, <3>2, <4>1
    <3>5. ASSUME NEW f \in Ends, NEW i \in 1..Len(wire'[f])
          PROVE  MsgOk(f[2], wire'[f][i])
      BY <1>b, <3>3, <3>4 DEF QueuesOk
    <3>. QED
      BY <1>a, <3>5 DEF WireOk, QueuesOk, MsgOk
  <2>5. CASE ShowConnected(e) \/ ShowGone(e)
    BY <1>c, <2>5 DEF ShowConnected, ShowGone
  <2>. QED
    BY <1>8, <2>2, <2>3, <2>4, <2>5 DEF ReaderThread
<1>9. ASSUME NEW n \in Nodes, LeaveThread(n)
      PROVE  WireOk'
  <2>1. CASE LeaveBye(n)
    BY <1>d, <2>1 DEF LeaveBye
  <2>. QED
    BY <1>9, <1>c, <2>1 DEF LeaveThread, LeaveDrain, LeaveEnd
<1>10. CASE Operator
  <2>1. ASSUME NEW j \in Joiners, Decline(j)
        PROVE  WireOk'
    BY <1>d, <2>1 DEF Decline
  <2>. QED
    BY <1>10, <1>c, <2>1 DEF Operator, OpenRoom, Join, Approve, Leave, Crash, Break
<1>11. CASE UNCHANGED vars
  BY <1>c, <1>11 DEF vars
<1>. QED
  BY <1>1, <1>4, <1>5, <1>6, <1>7, <1>8, <1>9, <1>10, <1>11 DEF Next, System

\* A Welcome that has arrived names admitted joiners, and not its reader.
LEMMA WelcomeIsOk ==
    ASSUME TypeOK, WireOk, NEW j \in Joiners, AwaitWelcome(j)
    PROVE  /\ j \in Admitted /\ j \notin Payload(JoinLink(j), j)
           /\ Payload(JoinLink(j), j) \cap Joiners \subseteq Admitted
<1>. DEFINE e == End(JoinLink(j), j)
<1>1. /\ e \in Ends /\ wire[e] \in Seq(Messages) /\ wire[e] # <<>>
      /\ Head(wire[e]).type = "Welcome" /\ e[2] = j
  BY JoinLinkType, TypeParts DEF AwaitWelcome, Arrived, WireType, End
<1>2. 1 \in 1..Len(wire[e]) /\ Head(wire[e]) = wire[e][1]
  <2>. HIDE DEF e
  <2>. QED
    BY <1>1
<1>. QED
  BY <1>1, <1>2 DEF WireOk, QueuesOk, MsgOk, Payload

\* Every step dials admitted joiners only.
LEMMA DiallingStep ==
    ASSUME TypeOK, Asked, WireOk, Dialling, [Next]_vars
    PROVE  Dialling'
<1>. USE DEF chan, hostvars, teardown, node
<1>a. Admitted \subseteq Admitted'
  BY AdmittedGrows
<1>b. DialType
  BY TypeParts
<1>c. ASSUME \A j, k \in Joiners : dial'[j][k].pc # "no" =>
                dial[j][k].pc # "no" \/ (j # k /\ j \in Admitted /\ k \in Admitted)
      PROVE  Dialling'
  BY <1>a, <1>c DEF Dialling
<1>d. ASSUME UNCHANGED dial
      PROVE  Dialling'
  BY <1>c, <1>d
<1>1. ASSUME NEW j \in Joiners, JoinThread(j)
      PROVE  Dialling'
  <2>1. CASE AwaitWelcome(j)
    <3>1. \A i, k \in Joiners : dial'[i][k].pc # "no" =>
             dial[i][k].pc # "no" \/ (i = j /\ k \in Payload(JoinLink(j), j))
      BY <1>b, <2>1 DEF AwaitWelcome, DialType
    <3>. QED
      BY <1>c, <2>1, <3>1, WelcomeIsOk
  <2>2. CASE AwaitAttach(j)
    <3>1. \A i, k \in Joiners : dial'[i][k].pc # "no" => dial[i][k].pc # "no"
      BY <1>b, <2>2 DEF AwaitAttach, DialType
    <3>. QED
      BY <1>c, <3>1
  <2>3. CASE JoinConnect(j) \/ JoinFails(j) \/ AwaitRefused(j)
    BY <1>d, <2>3 DEF JoinConnect, JoinFails, AwaitRefused
  <2>. QED
    BY <1>1, <2>1, <2>2, <2>3 DEF JoinThread
<1>2. ASSUME NEW j \in Joiners, NEW k \in Joiners, DialThread(j, k)
      PROVE  Dialling'
  <2>1. dial[j][k].pc # "no"
    BY <1>2 DEF DialThread, DialBegin, DialQuits, DialConnect, DialUnreachable,
                DialAcked, DialRefused
  <2>2. (\E pc : DialPc(j, k, pc)) \/ DialNext(j, k)
    BY <1>2 DEF DialThread, DialBegin, DialQuits, DialConnect, DialUnreachable,
                DialAcked, DialRefused
  <2>3. \E d : dial' = [dial EXCEPT ![j][k] = d]
    BY <2>2 DEF DialPc, DialNext
  <2>4. \A i, m \in Joiners : dial'[i][m] = dial[i][m] \/ (i = j /\ m = k)
    BY <1>b, <2>3 DEF DialType
  <2>. QED
    BY <1>c, <2>1, <2>4
<1>3. ASSUME NEW j \in Joiners, ServeJoin(j) \/ ApproveThread(j)
      PROVE  Dialling'
  BY <1>3, <1>d DEF ServeJoin, HelloChecked, Park, ServeLost, ApproveThread,
     Snapshot, Announce, Admit, SendWelcome, AttachApproved
<1>4. ASSUME NEW l \in MeshLinks, ServeMesh(l)
      PROVE  Dialling'
  BY <1>4, <1>d DEF ServeMesh, ServeLost, MeshHelloRead, GraceOver, FreeCheck,
     SendAck, AttachInbound
<1>5. ASSUME NEW e \in Ends, ReaderThread(e)
      PROVE  Dialling'
  BY <1>5, <1>d DEF ReaderThread, ReadControl, ReadBye, ReadFails, TellPeers,
     ShowConnected, ShowGone
<1>6. ASSUME NEW n \in Nodes, LeaveThread(n)
      PROVE  Dialling'
  BY <1>6, <1>d DEF LeaveThread, LeaveDrain, LeaveBye, LeaveEnd
<1>7. CASE Operator
  BY <1>7, <1>d DEF Operator, OpenRoom, Join, Approve, Decline, Leave, Crash, Break
<1>8. CASE UNCHANGED vars
  BY <1>8, <1>d DEF vars
<1>. QED
  BY <1>1, <1>2, <1>3, <1>4, <1>5, <1>6, <1>7, <1>8 DEF Next, System

\* Every mesh call in progress is between admitted joiners.
LEMMA ServedStep ==
    ASSUME TypeOK, Asked, Dialling, Served, [Next]_vars
    PROVE  Served'
<1>. USE DEF chan, hostvars, teardown, node
<1>a. Admitted \subseteq Admitted'
  BY AdmittedGrows
<1>b. ServeType
  BY TypeParts
<1>c. ASSUME \A l \in MeshLinks : serve'[l] # "no" =>
                serve[l] # "no" \/ (Dialer(l) \in Admitted /\ Target(l) \in Admitted)
      PROVE  Served'
  BY <1>a, <1>c DEF Served
<1>d. ASSUME UNCHANGED serve
      PROVE  Served'
  BY <1>c, <1>d
<1>e. ASSUME NEW j \in Joiners, NEW s, serve' = [serve EXCEPT ![JoinLink(j)] = s]
      PROVE  Served'
  <2>1. \A l \in MeshLinks : serve'[l] = serve[l]
    BY <1>b, <1>e, JoinLinkType, MeshLinkType DEF ServeType
  <2>. QED
    BY <1>c, <2>1
<1>1. ASSUME NEW j \in Joiners, JoinThread(j) \/ ServeJoin(j) \/ ApproveThread(j)
      PROVE  Served'
  <2>1. UNCHANGED serve \/ \E s : serve' = [serve EXCEPT ![JoinLink(j)] = s]
    BY <1>1 DEF JoinThread, JoinConnect, Connect, JoinFails, AwaitWelcome,
       AwaitAttach, AwaitRefused, ServeJoin, HelloChecked, Park, ServeLost, Reject,
       ServePc, ApproveThread, Snapshot, Announce, Admit, SendWelcome, AttachApproved
  <2>. QED
    BY <1>d, <1>e, <2>1
<1>2. ASSUME NEW j \in Joiners, NEW k \in Joiners, DialThread(j, k)
      PROVE  Served'
  <2>1. CASE DialConnect(j, k)
    <3>1. serve' = [serve EXCEPT ![CurrentLink(j, k)] = "first"]
      BY <2>1 DEF DialConnect, Connect
    <3>2. j \in Admitted /\ k \in Admitted
      BY <2>1 DEF DialConnect, Dialling
    <3>3. Dialer(CurrentLink(j, k)) = j /\ Target(CurrentLink(j, k)) = k
      BY DEF CurrentLink, MeshLink, Dialer, Target
    <3>4. \A l \in MeshLinks : serve'[l] = serve[l] \/ l = CurrentLink(j, k)
      BY <1>b, <3>1, MeshLinkType DEF ServeType
    <3>. QED
      BY <1>c, <3>2, <3>3, <3>4
  <2>2. CASE ~DialConnect(j, k)
    BY <1>2, <1>d, <2>2 DEF DialThread, DialBegin, DialQuits, DialUnreachable,
       DialAcked, DialRefused
  <2>. QED
    BY <2>1, <2>2
<1>4. ASSUME NEW l \in MeshLinks, ServeMesh(l)
      PROVE  Served'
  <2>1. /\ serve[l] # "no"
        /\ UNCHANGED serve \/ \E s : serve' = [serve EXCEPT ![l] = s]
    BY <1>4 DEF ServeMesh, ServeLost, MeshHelloRead, GraceOver, FreeCheck,
       SendAck, AttachInbound, ServePc, Reject
  <2>2. \A k \in MeshLinks : serve'[k] = serve[k] \/ k = l
    BY <1>b, <2>1, MeshLinkType DEF ServeType
  <2>. QED
    BY <1>c, <2>1, <2>2
<1>5. ASSUME NEW e \in Ends, ReaderThread(e)
      PROVE  Served'
  BY <1>5, <1>d DEF ReaderThread, ReadControl, ReadBye, ReadFails, TellPeers,
     ShowConnected, ShowGone
<1>6. ASSUME NEW n \in Nodes, LeaveThread(n)
      PROVE  Served'
  BY <1>6, <1>d DEF LeaveThread, LeaveDrain, LeaveBye, LeaveEnd
<1>7. CASE Operator
  BY <1>7, <1>d DEF Operator, OpenRoom, Join, Approve, Decline, Leave, Crash, Break
<1>8. CASE UNCHANGED vars
  BY <1>8, <1>d DEF vars
<1>. QED
  BY <1>1, <1>2, <1>4, <1>5, <1>6, <1>7, <1>8 DEF Next, System

-----------------------------------------------------------------------------
(* Who is connected, and who is on a roster.                               *)

\* A step that adds nobody, to the peers of a node or to its roster.
NobodyNew == \A n \in Nodes : /\ roster'[n] \subseteq roster[n]
                              /\ \A m \in Nodes : peers'[n][m] # NoLink
                                                    => peers[n][m] # NoLink

\* Attach adds one peer to one node.
LEMMA AttachAdds ==
    ASSUME RegistryType, NEW n \in Nodes, NEW m \in Nodes, NEW l, Attach(n, m, l)
    PROVE  \A i \in Nodes :
             /\ roster'[i] \subseteq roster[i] \cup (IF i = n THEN {m} ELSE {})
             /\ \A k \in Nodes : peers'[i][k] # NoLink
                                   => peers[i][k] # NoLink \/ (i = n /\ k = m)
<1>1. CASE Running(n)
  <2>1. /\ peers' = [peers EXCEPT ![n][m] = l]
        /\ roster' = [roster EXCEPT ![n] = @ \cup {m}]
    BY <1>1 DEF Attach
  <2>. QED
    BY <2>1 DEF RegistryType
<1>2. CASE ~Running(n)
  BY <1>2 DEF Attach
<1>. QED
  BY <1>1, <1>2

\* peer_gone and shutdown_internal only take away.
LEMMA PeerGoneTakes ==
    ASSUME RegistryType, NEW n \in Nodes, NEW m \in Nodes, NEW l, NEW tell, NEW next,
           NEW show, PeerGone(n, m, l, tell, show, next)
    PROVE  NobodyNew
<1>1. CASE peers[n][m] # NoLink
  <2>1. /\ peers' = [peers EXCEPT ![n][m] = NoLink]
        /\ roster' = roster \/ roster' = [roster EXCEPT ![n] = @ \ {m}]
    BY <1>1 DEF PeerGone
  <2>2. \A i \in Nodes : roster'[i] \subseteq roster[i]
    <3>1. roster \in [Nodes -> SUBSET Nodes]
      BY DEF RegistryType
    <3>2. CASE roster' = roster
      BY <3>2
    <3>3. CASE roster' = [roster EXCEPT ![n] = @ \ {m}]
      BY <3>1, <3>3
    <3>. QED
      BY <2>1, <3>2, <3>3
  <2>3. \A i, k \in Nodes : peers'[i][k] # NoLink => peers[i][k] # NoLink
    BY <2>1 DEF RegistryType
  <2>. QED
    BY <2>2, <2>3 DEF NobodyNew
<1>2. CASE peers[n][m] = NoLink
  BY <1>2 DEF PeerGone, NobodyNew
<1>. QED
  BY <1>1, <1>2

\* So does emptying the maps of a node.
LEMMA EmptiedTakes ==
    ASSUME RegistryType, NEW n \in Nodes,
           peers' = [peers EXCEPT ![n] = [m \in Nodes |-> NoLink]],
           roster' = [roster EXCEPT ![n] = {}]
    PROVE  NobodyNew
  BY DEF RegistryType, NobodyNew

\* Whoever a step connects has been approved; the host is the last to attach
\* a newcomer, whose approval is then done.
LEMMA NewPeerIsAdmitted ==
    ASSUME IInv, [Next]_vars, NEW n \in Nodes, NEW m \in Nodes,
           peers'[n][m] # NoLink, peers[n][m] = NoLink
    PROVE  /\ {n, m} \cap Joiners \subseteq Admitted
           /\ n = Host => appr'[m].pc = "done"
<1>. USE DEF chan, hostvars, teardown, node
<1>. DEFINE Goal == /\ {n, m} \cap Joiners \subseteq Admitted
                    /\ n = Host => appr'[m].pc = "done"
<1>a. TypeOK /\ RegistryType /\ HostType /\ Asked /\ Dialling /\ Served
  BY TypeParts DEF IInv
<1>b. Host \in Nodes /\ Host \notin Joiners /\ \A j \in Joiners : j \in Nodes
  BY MeshAssumption DEF Nodes
<1>c. ~NobodyNew
  BY DEF NobodyNew
<1>d. peers' # peers
  OBVIOUS
<1>1. ASSUME NEW j \in Joiners, JoinThread(j)
      PROVE  Goal
  <2>1. CASE AwaitAttach(j)
    <3>1. n = j /\ m = Host
      BY <1>a, <1>b, <2>1, AttachAdds DEF AwaitAttach
    <3>2. j \in Admitted
      BY <1>a, <2>1 DEF AwaitAttach, Asked
    <3>. QED
      BY <1>b, <3>1, <3>2
  <2>2. CASE JoinFails(j) \/ AwaitRefused(j)
    BY <1>a, <1>b, <1>c, <2>2, EmptiedTakes DEF JoinFails, AwaitRefused, Shutdown
  <2>3. CASE JoinConnect(j) \/ AwaitWelcome(j)
    BY <1>d, <2>3 DEF JoinConnect, AwaitWelcome
  <2>. QED
    BY <1>1, <2>1, <2>2, <2>3 DEF JoinThread
<1>2. ASSUME NEW j \in Joiners, NEW k \in Joiners, DialThread(j, k)
      PROVE  Goal
  <2>1. CASE DialAcked(j, k)
    <3>1. n = j /\ m = k
      BY <1>a, <1>b, <2>1, AttachAdds DEF DialAcked
    <3>2. j \in Admitted /\ k \in Admitted
      BY <1>a, <2>1 DEF DialAcked, Dialling
    <3>. QED
      BY <1>b, <3>1, <3>2
  <2>2. CASE ~DialAcked(j, k)
    BY <1>2, <1>d, <2>2 DEF DialThread, DialBegin, DialQuits, DialConnect,
       DialUnreachable, DialRefused
  <2>. QED
    BY <2>1, <2>2
<1>3. ASSUME NEW j \in Joiners, ApproveThread(j)
      PROVE  Goal
  <2>1. CASE AttachApproved(j)
    <3>1. n = Host /\ m = j
      BY <1>a, <1>b, <2>1, AttachAdds DEF AttachApproved
    <3>2. j \in Admitted /\ appr'[j].pc = "done"
      BY <1>a, <2>1 DEF AttachApproved, ApprPc, Admitted, Approved, HostType
    <3>. QED
      BY <1>b, <3>1, <3>2
  <2>2. CASE ~AttachApproved(j)
    BY <1>3, <1>d, <2>2 DEF ApproveThread, Snapshot, Announce, Admit, SendWelcome
  <2>. QED
    BY <2>1, <2>2
<1>4. ASSUME NEW l \in MeshLinks, ServeMesh(l)
      PROVE  Goal
  <2>1. CASE AttachInbound(l)
    <3>1. n = Target(l) /\ m = Dialer(l)
      BY <1>a, <1>b, <2>1, AttachAdds, MeshLinkType DEF AttachInbound
    <3>2. Dialer(l) \in Admitted /\ Target(l) \in Admitted
      BY <1>a, <2>1 DEF AttachInbound, Served
    <3>. QED
      BY <1>b, <3>1, <3>2, MeshLinkType
  <2>2. CASE ~AttachInbound(l)
    BY <1>4, <1>d, <2>2 DEF ServeMesh, ServeLost, MeshHelloRead, GraceOver,
       FreeCheck, SendAck
  <2>. QED
    BY <2>1, <2>2
<1>5. ASSUME NEW e \in Ends, ReaderThread(e)
      PROVE  Goal
  <2>1. CASE ReadBye(e) \/ ReadFails(e)
    BY <1>a, <1>c, <2>1, PeerGoneTakes, EndType DEF ReadBye, ReadFails
  <2>2. CASE ReadControl(e) \/ TellPeers(e) \/ ShowConnected(e) \/ ShowGone(e)
    BY <1>d, <2>2 DEF ReadControl, TellPeers, ShowConnected, ShowGone
  <2>. QED
    BY <1>5, <2>1, <2>2 DEF ReaderThread
<1>6. ASSUME NEW i \in Nodes, LeaveThread(i)
      PROVE  Goal
  <2>1. CASE LeaveDrain(i)
    BY <1>a, <1>c, <2>1, EmptiedTakes DEF LeaveDrain
  <2>. QED
    BY <1>6, <1>d, <2>1 DEF LeaveThread, LeaveBye, LeaveEnd
<1>7. CASE Operator
  <2>1. CASE OpenRoom
    BY <1>a, <1>b, <1>c, <2>1, EmptiedTakes DEF OpenRoom
  <2>2. ASSUME NEW j \in Joiners, Join(j)
        PROVE  FALSE
    BY <1>a, <1>b, <1>c, <2>2, EmptiedTakes DEF Join
  <2>. QED
    BY <1>7, <1>d, <2>1, <2>2 DEF Operator, Approve, Decline, Leave, Crash, Break
<1>8. ASSUME NEW j \in Joiners, ServeJoin(j)
      PROVE  Goal
  BY <1>8, <1>d DEF ServeJoin, HelloChecked, Park, ServeLost
<1>9. CASE UNCHANGED vars
  BY <1>9, <1>d DEF vars
<1>. QED
  BY <1>1, <1>2, <1>3, <1>4, <1>5, <1>6, <1>7, <1>8, <1>9 DEF Next, System

\* Every step connects approved joiners only.
LEMMA ConnectedStep ==
    ASSUME IInv, [Next]_vars
    PROVE  ConnectedOnlyIfApproved'
<1>1. Admitted \subseteq Admitted'
  BY AdmittedGrows DEF IInv
<1>2. ASSUME NEW n \in Nodes, NEW m \in Nodes, peers'[n][m] # NoLink
      PROVE  {n, m} \cap Joiners \subseteq Admitted
  <2>1. CASE peers[n][m] = NoLink
    BY <1>2, <2>1, NewPeerIsAdmitted
  <2>2. CASE peers[n][m] # NoLink
    BY <2>2 DEF IInv, ConnectedOnlyIfApproved, Admitted
  <2>. QED
    BY <2>1, <2>2
<1>. QED
  BY <1>1, <1>2 DEF ConnectedOnlyIfApproved, Admitted

\* What has arrived is good.
LEMMA ArrivedIsOk ==
    ASSUME WireType, WireOk, NEW e \in Ends, NEW type, Arrived(e[1], e[2], type)
    PROVE  MsgOk(e[2], Head(wire[e])) /\ Payload(e[1], e[2]) = Head(wire[e]).who
<1>1. e = End(e[1], e[2])
  BY EndType
<1>2. wire[e] \in Seq(Messages) /\ wire[e] # <<>>
  BY <1>1 DEF Arrived, WireType
<1>3. 1 \in 1..Len(wire[e]) /\ Head(wire[e]) = wire[e][1]
  BY <1>2
<1>. QED
  BY <1>1, <1>3 DEF WireOk, QueuesOk, Payload

\* Whoever a step puts on a roster is the host or has been approved.
LEMMA NewOnRosterIsAdmitted ==
    ASSUME IInv, [Next]_vars, NEW n \in Nodes, NEW m \in Joiners,
           m \in roster'[n], m \notin roster[n]
    PROVE  m \in Admitted
<1>. USE DEF chan, hostvars, teardown, node
<1>a. TypeOK /\ RegistryType /\ WireType /\ Asked /\ Dialling /\ Served /\ WireOk
  BY TypeParts DEF IInv
<1>b. Host \in Nodes /\ Host \notin Joiners /\ \A j \in Joiners : j \in Nodes
  BY MeshAssumption DEF Nodes
<1>c. ~NobodyNew
  BY DEF NobodyNew
<1>d. roster' # roster
  OBVIOUS
<1>1. ASSUME NEW j \in Joiners, JoinThread(j)
      PROVE  m \in Admitted
  <2>1. CASE AwaitAttach(j)
    BY <1>a, <1>b, <2>1, AttachAdds DEF AwaitAttach
  <2>2. CASE JoinFails(j) \/ AwaitRefused(j)
    BY <1>a, <1>b, <1>c, <2>2, EmptiedTakes DEF JoinFails, AwaitRefused, Shutdown
  <2>3. CASE AwaitWelcome(j)
    <3>1. m \in {Host} \cup Payload(JoinLink(j), j)
      BY <1>a, <1>b, <2>3 DEF AwaitWelcome, RegistryType
    <3>. QED
      BY <1>a, <1>b, <2>3, <3>1, WelcomeIsOk
  <2>4. CASE JoinConnect(j)
    BY <1>d, <2>4 DEF JoinConnect
  <2>. QED
    BY <1>1, <2>1, <2>2, <2>3, <2>4 DEF JoinThread
<1>2. ASSUME NEW j \in Joiners, NEW k \in Joiners, DialThread(j, k)
      PROVE  m \in Admitted
  <2>1. CASE DialAcked(j, k)
    <3>1. m = k
      BY <1>a, <1>b, <2>1, AttachAdds DEF DialAcked
    <3>. QED
      BY <1>a, <2>1, <3>1 DEF DialAcked, Dialling
  <2>2. CASE ~DialAcked(j, k)
    BY <1>2, <1>d, <2>2 DEF DialThread, DialBegin, DialQuits, DialConnect,
       DialUnreachable, DialRefused
  <2>. QED
    BY <2>1, <2>2
<1>3. ASSUME NEW j \in Joiners, ApproveThread(j)
      PROVE  m \in Admitted
  <2>1. appr[j].pc \notin {"no", "declined"}
    BY <1>3 DEF ApproveThread, Snapshot, Announce, Admit, SendWelcome, AttachApproved
  <2>2. j \in Admitted
    BY <2>1 DEF Admitted, Approved
  <2>3. CASE AttachApproved(j)
    BY <1>a, <1>b, <2>2, <2>3, AttachAdds DEF AttachApproved
  <2>4. CASE Admit(j)
    BY <1>a, <1>b, <2>2, <2>4 DEF Admit, RegistryType
  <2>5. CASE Snapshot(j) \/ Announce(j) \/ SendWelcome(j)
    BY <1>d, <2>5 DEF Snapshot, Announce, SendWelcome
  <2>. QED
    BY <1>3, <2>3, <2>4, <2>5 DEF ApproveThread
<1>4. ASSUME NEW l \in MeshLinks, ServeMesh(l)
      PROVE  m \in Admitted
  <2>1. CASE AttachInbound(l)
    <3>1. m = Dialer(l)
      BY <1>a, <1>b, <2>1, AttachAdds, MeshLinkType DEF AttachInbound
    <3>. QED
      BY <1>a, <2>1, <3>1 DEF AttachInbound, Served
  <2>2. CASE ~AttachInbound(l)
    BY <1>4, <1>d, <2>2 DEF ServeMesh, ServeLost, MeshHelloRead, GraceOver,
       FreeCheck, SendAck
  <2>. QED
    BY <2>1, <2>2
<1>5. ASSUME NEW e \in Ends, ReaderThread(e)
      PROVE  m \in Admitted
  <2>1. CASE ReadBye(e) \/ ReadFails(e)
    BY <1>a, <1>c, <2>1, PeerGoneTakes, EndType DEF ReadBye, ReadFails
  <2>2. CASE ReadControl(e)
    <3>1. \/ roster' = [roster EXCEPT ![e[2]] = @ \ Payload(e[1], e[2])]
          \/ /\ Arrived(e[1], e[2], "PeerJoined")
             /\ roster' = [roster EXCEPT ![e[2]] = @ \cup Payload(e[1], e[2])]
      BY <2>2 DEF ReadControl
    <3>2. /\ Arrived(e[1], e[2], "PeerJoined")
          /\ m \in Payload(e[1], e[2])
      BY <1>a, <3>1 DEF RegistryType
    <3>3. Head(wire[e]).type = "PeerJoined"
      BY <3>2, EndType DEF Arrived
    <3>. QED
      BY <1>a, <3>2, <3>3, ArrivedIsOk DEF MsgOk
  <2>3. CASE TellPeers(e) \/ ShowConnected(e) \/ ShowGone(e)
    BY <1>d, <2>3 DEF TellPeers, ShowConnected, ShowGone
  <2>. QED
    BY <1>5, <2>1, <2>2, <2>3 DEF ReaderThread
<1>6. ASSUME NEW i \in Nodes, LeaveThread(i)
      PROVE  m \in Admitted
  <2>1. CASE LeaveDrain(i)
    BY <1>a, <1>c, <2>1, EmptiedTakes DEF LeaveDrain
  <2>. QED
    BY <1>6, <1>d, <2>1 DEF LeaveThread, LeaveBye, LeaveEnd
<1>7. CASE Operator
  <2>1. CASE OpenRoom
    BY <1>a, <1>b, <1>c, <2>1, EmptiedTakes DEF OpenRoom
  <2>2. ASSUME NEW j \in Joiners, Join(j)
        PROVE  FALSE
    BY <1>a, <1>b, <1>c, <2>2, EmptiedTakes DEF Join
  <2>. QED
    BY <1>7, <1>d, <2>1, <2>2 DEF Operator, Approve, Decline, Leave, Crash, Break
<1>8. ASSUME NEW j \in Joiners, ServeJoin(j)
      PROVE  m \in Admitted
  BY <1>8, <1>d DEF ServeJoin, HelloChecked, Park, ServeLost
<1>9. CASE UNCHANGED vars
  BY <1>9, <1>d DEF vars
<1>. QED
  BY <1>1, <1>2, <1>3, <1>4, <1>5, <1>6, <1>7, <1>8, <1>9 DEF Next, System

\* Every step authorises approved joiners only.
LEMMA RosterStep ==
    ASSUME IInv, [Next]_vars
    PROVE  RosterIsApproved'
<1>1. Admitted \subseteq Admitted'
  BY AdmittedGrows DEF IInv
<1>2. ASSUME NEW n \in Nodes, NEW m \in Joiners, m \in roster'[n]
      PROVE  m \in Admitted
  BY <1>2, NewOnRosterIsAdmitted DEF IInv, RosterIsApproved, Admitted
<1>. QED
  BY <1>1, <1>2 DEF RosterIsApproved, Admitted

\* A newcomer stays out of the list it is sent.
LEMMA MetStep ==
    ASSUME IInv, [Next]_vars
    PROVE  Met'
<1>. USE DEF chan, hostvars, teardown, node
<1>a. /\ Admitted \subseteq Admitted' /\ HostType /\ Met /\ Asked
      /\ ConnectedOnlyIfApproved
  BY AdmittedGrows, TypeParts DEF IInv
<1>b. Host \in Nodes /\ \A j \in Joiners : j \in Nodes
  BY DEF Nodes
<1>c. ASSUME \A j \in Joiners : appr[j].pc = "done" => appr'[j].pc = "done",
             NEW j \in Joiners, peers'[Host][j] # NoLink
      PROVE  appr'[j].pc = "done"
  BY <1>a, <1>b, <1>c, NewPeerIsAdmitted DEF Met
<1>1. ASSUME NEW j \in Joiners, Approve(j) \/ Decline(j)
      PROVE  Met'
  <2>1. appr[j].pc = "no" /\ (ApprPc(j, "snapshot") \/ ApprPc(j, "declined"))
    BY <1>1, <1>a DEF Approve, Decline, Asked
  <2>2. /\ \A k \in Joiners : appr'[k].met = appr[k].met
        /\ \A k \in Joiners : k # j => appr'[k].pc = appr[k].pc
        /\ appr'[j].pc \in {"snapshot", "declined"}
    BY <1>a, <2>1 DEF ApprPc, HostType
  <2>. QED
    BY <1>a, <1>c, <2>1, <2>2 DEF Met
<1>2. ASSUME NEW j \in Joiners, ApproveThread(j)
      PROVE  Met'
  <2>1. CASE Snapshot(j)
    <3>1. peers[Host][j] = NoLink
      BY <1>a, <2>1 DEF Snapshot, Met
    <3>2. j \notin Connected(Host) /\ Connected(Host) \cap Joiners \subseteq Admitted
      BY <1>a, <1>b, <3>1 DEF Connected, ConnectedOnlyIfApproved, Admitted
    <3>3. /\ appr'[j].met = Connected(Host) /\ appr[j].pc = "snapshot"
          /\ \A k \in Joiners : k # j => appr'[k] = appr[k]
      BY <1>a, <2>1 DEF Snapshot, HostType
    <3>. QED
      BY <1>a, <1>c, <3>2, <3>3 DEF Met
  <2>2. CASE Announce(j)
    <3>1. \A k \in Joiners : appr'[k].met = appr[k].met /\ appr'[k].pc = appr[k].pc
      BY <1>a, <2>2 DEF Announce, HostType
    <3>. QED
      BY <1>a, <1>c, <3>1 DEF Met
  <2>3. CASE Admit(j) \/ SendWelcome(j) \/ AttachApproved(j)
    <3>1. /\ appr[j].pc \in {"announce", "welcome", "attach"}
          /\ \E pc \in {"welcome", "attach", "broken", "done"} :
                ApprPc(j, pc) /\ (pc = "welcome" => appr[j].pc = "announce")
      BY <2>3 DEF Admit, SendWelcome, AttachApproved
    <3>2. /\ \A k \in Joiners : appr'[k].met = appr[k].met
          /\ \A k \in Joiners : k # j => appr'[k].pc = appr[k].pc
          /\ appr'[j].pc \in {"announce", "welcome"}
               => appr[j].pc \in {"announce", "welcome"}
      BY <1>a, <3>1 DEF ApprPc, HostType
    <3>. QED
      BY <1>a, <1>c, <3>1, <3>2 DEF Met
  <2>. QED
    BY <1>2, <2>1, <2>2, <2>3 DEF ApproveThread
<1>3. CASE UNCHANGED appr
  BY <1>a, <1>c, <1>3 DEF Met
<1>. QED
  BY <1>1, <1>2, <1>3, ApprFrame

-----------------------------------------------------------------------------
(* A node that has left.                                                   *)

\* attach_peer looks at `running` where it inserts: whoever a step connects,
\* it connects to a node that is live before and after.
LEMMA NewPeerIsLive ==
    ASSUME TypeOK, [Next]_vars, NEW n \in Nodes, NEW m \in Nodes,
           peers'[n][m] # NoLink, peers[n][m] = NoLink
    PROVE  life[n] = "live" /\ life'[n] = "live"
<1>. USE DEF chan, hostvars, teardown, node
<1>. DEFINE Goal == life[n] = "live" /\ life'[n] = "live"
<1>a. RegistryType /\ LifeType
  BY TypeParts
<1>b. Host \in Nodes /\ \A j \in Joiners : j \in Nodes
  BY DEF Nodes
<1>c. ~NobodyNew /\ peers' # peers
  BY DEF NobodyNew
<1>d. ASSUME NEW i \in Nodes, NEW k \in Nodes, NEW l, Attach(i, k, l), life' = life
      PROVE  Goal
  <2>1. n = i
    BY <1>a, <1>d, AttachAdds
  <2>2. Running(i)
    BY <1>c, <1>d DEF Attach
  <2>. QED
    BY <1>d, <2>1, <2>2 DEF Running
<1>1. ASSUME NEW j \in Joiners, JoinThread(j)
      PROVE  Goal
  <2>1. CASE AwaitAttach(j)
    BY <1>b, <1>d, <2>1 DEF AwaitAttach
  <2>2. CASE JoinFails(j) \/ AwaitRefused(j)
    BY <1>a, <1>b, <1>c, <2>2, EmptiedTakes DEF JoinFails, AwaitRefused, Shutdown
  <2>3. CASE JoinConnect(j) \/ AwaitWelcome(j)
    BY <1>c, <2>3 DEF JoinConnect, AwaitWelcome
  <2>. QED
    BY <1>1, <2>1, <2>2, <2>3 DEF JoinThread
<1>2. ASSUME NEW j \in Joiners, NEW k \in Joiners, DialThread(j, k)
      PROVE  Goal
  <2>1. CASE DialAcked(j, k)
    BY <1>b, <1>d, <2>1 DEF DialAcked
  <2>2. CASE ~DialAcked(j, k)
    BY <1>2, <1>c, <2>2 DEF DialThread, DialBegin, DialQuits, DialConnect,
       DialUnreachable, DialRefused
  <2>. QED
    BY <2>1, <2>2
<1>3. ASSUME NEW j \in Joiners, ApproveThread(j)
      PROVE  Goal
  <2>1. CASE AttachApproved(j)
    BY <1>b, <1>d, <2>1 DEF AttachApproved
  <2>2. CASE ~AttachApproved(j)
    BY <1>3, <1>c, <2>2 DEF ApproveThread, Snapshot, Announce, Admit, SendWelcome
  <2>. QED
    BY <2>1, <2>2
<1>4. ASSUME NEW l \in MeshLinks, ServeMesh(l)
      PROVE  Goal
  <2>1. CASE AttachInbound(l)
    <3>1. Target(l) \in Nodes /\ Dialer(l) \in Nodes
      BY <1>b, MeshLinkType
    <3>. QED
      BY <1>d, <2>1, <3>1 DEF AttachInbound
  <2>2. CASE ~AttachInbound(l)
    BY <1>4, <1>c, <2>2 DEF ServeMesh, ServeLost, MeshHelloRead, GraceOver,
       FreeCheck, SendAck
  <2>. QED
    BY <2>1, <2>2
<1>5. ASSUME NEW e \in Ends, ReaderThread(e)
      PROVE  Goal
  <2>1. CASE ReadBye(e) \/ ReadFails(e)
    BY <1>a, <1>c, <2>1, PeerGoneTakes, EndType DEF ReadBye, ReadFails
  <2>2. CASE ReadControl(e) \/ TellPeers(e) \/ ShowConnected(e) \/ ShowGone(e)
    BY <1>c, <2>2 DEF ReadControl, TellPeers, ShowConnected, ShowGone
  <2>. QED
    BY <1>5, <2>1, <2>2 DEF ReaderThread
<1>6. ASSUME NEW i \in Nodes, LeaveThread(i)
      PROVE  Goal
  <2>1. CASE LeaveDrain(i)
    BY <1>a, <1>c, <2>1, EmptiedTakes DEF LeaveDrain
  <2>. QED
    BY <1>6, <1>c, <2>1 DEF LeaveThread, LeaveBye, LeaveEnd
<1>7. CASE Operator
  <2>1. CASE OpenRoom
    BY <1>a, <1>b, <1>c, <2>1, EmptiedTakes DEF OpenRoom
  <2>2. ASSUME NEW j \in Joiners, Join(j)
        PROVE  FALSE
    BY <1>a, <1>b, <1>c, <2>2, EmptiedTakes DEF Join
  <2>. QED
    BY <1>7, <1>c, <2>1, <2>2 DEF Operator, Approve, Decline, Leave, Crash, Break
<1>8. ASSUME NEW j \in Joiners, ServeJoin(j)
      PROVE  Goal
  BY <1>8, <1>c DEF ServeJoin, HelloChecked, Park, ServeLost
<1>9. CASE UNCHANGED vars
  BY <1>9, <1>c DEF vars
<1>. QED
  BY <1>1, <1>2, <1>3, <1>4, <1>5, <1>6, <1>7, <1>8, <1>9 DEF Next, System

\* Only leave() and shutdown_internal take a node out, and both take its peers
\* in the same lock section.
LEMMA LeaverIsEmptied ==
    ASSUME TypeOK, [Next]_vars, NEW n \in Nodes,
           life'[n] \in {"drained", "out"}, life[n] \notin {"drained", "out"}
    PROVE  \A m \in Nodes : peers'[n][m] = NoLink
<1>. USE DEF chan, hostvars, teardown, node
<1>. DEFINE Goal == \A m \in Nodes : peers'[n][m] = NoLink
<1>a. RegistryType /\ LifeType
  BY TypeParts
<1>b. Host \in Nodes /\ \A j \in Joiners : j \in Nodes
  BY DEF Nodes
<1>c. life' # life
  OBVIOUS
<1>d. ASSUME NEW i \in Nodes, peers' = [peers EXCEPT ![i] = [m \in Nodes |-> NoLink]],
             NEW to, life' = [life EXCEPT ![i] = to]
      PROVE  Goal
  BY <1>a, <1>d DEF RegistryType, LifeType
<1>1. ASSUME NEW j \in Joiners, JoinThread(j)
      PROVE  Goal
  <2>1. CASE JoinFails(j) \/ AwaitRefused(j)
    <3>1. Shutdown(j, JoinLink(j))
      BY <2>1 DEF JoinFails, AwaitRefused
    <3>2. /\ peers' = [peers EXCEPT ![j] = [m \in Nodes |-> NoLink]]
          /\ \E to : life' = [life EXCEPT ![j] = to]
      BY <3>1 DEF Shutdown
    <3>. QED
      BY <1>b, <1>d, <3>2
  <2>2. CASE ~JoinFails(j) /\ ~AwaitRefused(j)
    BY <1>1, <1>c, <2>2 DEF JoinThread, JoinConnect, AwaitWelcome, AwaitAttach
  <2>. QED
    BY <2>1, <2>2
<1>2. ASSUME NEW j \in Joiners, NEW k \in Joiners, DialThread(j, k)
      PROVE  FALSE
  BY <1>2, <1>c DEF DialThread, DialBegin, DialQuits, DialConnect,
     DialUnreachable, DialAcked, DialRefused
<1>3. ASSUME NEW j \in Joiners, ApproveThread(j) \/ ServeJoin(j)
      PROVE  FALSE
  BY <1>3, <1>c DEF ApproveThread, Snapshot, Announce, Admit, SendWelcome,
     AttachApproved, ServeJoin, HelloChecked, Park, ServeLost
<1>4. ASSUME NEW l \in MeshLinks, ServeMesh(l)
      PROVE  FALSE
  BY <1>4, <1>c DEF ServeMesh, ServeLost, MeshHelloRead, GraceOver, FreeCheck,
     SendAck, AttachInbound
<1>5. ASSUME NEW e \in Ends, ReaderThread(e)
      PROVE  FALSE
  BY <1>5, <1>c DEF ReaderThread, ReadControl, ReadBye, ReadFails, TellPeers,
     ShowConnected, ShowGone
<1>6. ASSUME NEW i \in Nodes, LeaveThread(i)
      PROVE  Goal
  <2>1. CASE LeaveDrain(i)
    BY <1>d, <2>1 DEF LeaveDrain
  <2>2. CASE LeaveBye(i)
    BY <1>c, <2>2 DEF LeaveBye
  <2>3. CASE LeaveEnd(i)
    BY <1>a, <2>3 DEF LeaveEnd, LifeType
  <2>. QED
    BY <1>6, <2>1, <2>2, <2>3 DEF LeaveThread
<1>7. CASE Operator
  <2>1. ASSUME NEW i \in Nodes, NEW to \in {"live", "leaving", "crashed"},
               life' = [life EXCEPT ![i] = to]
        PROVE  FALSE
    BY <1>a, <2>1 DEF LifeType
  <2>2. CASE OpenRoom
    BY <1>b, <2>1, <2>2 DEF OpenRoom
  <2>3. ASSUME NEW j \in Joiners, Join(j)
        PROVE  FALSE
    BY <1>b, <2>1, <2>3 DEF Join
  <2>4. ASSUME NEW i \in Nodes, Leave(i) \/ Crash(i)
        PROVE  FALSE
    BY <2>1, <2>4 DEF Leave, Crash
  <2>. QED
    BY <1>7, <1>c, <2>2, <2>3, <2>4 DEF Operator, Approve, Decline, Break
<1>8. CASE UNCHANGED vars
  BY <1>8, <1>c DEF vars
<1>. QED
  BY <1>1, <1>2, <1>3, <1>4, <1>5, <1>6, <1>7, <1>8 DEF Next, System

\* With the types, "a node that has left has no peers" keeps itself.
LEMMA LeftStep ==
    ASSUME TypeOK, LeftMeansEmpty, [Next]_vars
    PROVE  LeftMeansEmpty'
<1>1. ASSUME NEW n \in Nodes, NEW m \in Nodes, life'[n] \in {"drained", "out"}
      PROVE  peers'[n][m] = NoLink
  <2>1. CASE life[n] \in {"drained", "out"}
    <3>1. peers[n][m] = NoLink
      BY <2>1 DEF LeftMeansEmpty, Connected
    <3>. QED
      BY <1>1, <3>1, NewPeerIsLive
  <2>2. CASE life[n] \notin {"drained", "out"}
    BY <1>1, <2>2, LeaverIsEmptied
  <2>. QED
    BY <2>1, <2>2
<1>. QED
  BY <1>1 DEF LeftMeansEmpty, Connected

-----------------------------------------------------------------------------
(* The theorems.                                                           *)

\* The invariant holds at the start and is kept by every step.
LEMMA InvariantStarts == Init => IInv
<1>. SUFFICES ASSUME Init PROVE IInv
  OBVIOUS
<1>1. TypeOK
  BY MeshAssumption DEF Init, TypeOK, LifeStates, JoinStates, DialStates,
     ServeStates, ApprStates, ReaderStates, Shown
<1>2. Asked /\ Dialling /\ Served /\ Met
  BY MeshAssumption, JoinLinkType, MeshLinkType
     DEF Init, Asked, Dialling, Served, Met, Nodes
<1>3. WireOk
  BY DEF Init, WireOk, QueuesOk
<1>. QED
  BY <1>1, <1>2, <1>3 DEF Init, IInv, ConnectedOnlyIfApproved, RosterIsApproved

\* Every step keeps the invariant ...
LEMMA InvariantKept == IInv /\ [Next]_vars => IInv'
<1>. SUFFICES ASSUME IInv, [Next]_vars PROVE IInv'
  OBVIOUS
<1>1. TypeOK /\ Asked /\ WireOk /\ Dialling /\ Served /\ Met
  BY DEF IInv
<1>. QED
  BY <1>1, TypeStep, AskedStep, WireStep, DiallingStep, ServedStep, MetStep,
     ConnectedStep, RosterStep DEF IInv

\* ... which therefore always holds.
LEMMA Invariant == Spec => []IInv
  BY InvariantStarts, InvariantKept, PTL DEF Spec

\* Every variable of the mesh keeps its type, and a node only ever holds, and
\* hangs up on, links it is an end of.
THEOREM MeshTypeCorrect == Spec => []TypeOK
<1>1. IInv => TypeOK
  BY DEF IInv
<1>. QED
  BY <1>1, Invariant, PTL

\* Once leave() has drained the maps, or a joining node has given up, its
\* peers map stays empty, whatever was being dialled, answered or approved.
THEOREM NobodyIsLeftBehind == Spec => []LeftMeansEmpty
<1>1. Init => LeftMeansEmpty
  BY DEF Init, LeftMeansEmpty
<1>2. TypeOK /\ LeftMeansEmpty /\ [Next]_vars => LeftMeansEmpty'
  BY LeftStep
<1>. QED
  BY <1>1, <1>2, MeshTypeCorrect, PTL DEF Spec

\* However messages, approvals, dials, departures and failures interleave, no
\* link is registered on either side before the operator approved its joiners.
THEOREM NobodyUnapprovedIsConnected == Spec => []ConnectedOnlyIfApproved
<1>1. IInv => ConnectedOnlyIfApproved
  BY DEF IInv
<1>. QED
  BY <1>1, Invariant, PTL

\* Nor is anyone on a node's roster, by Welcome, PeerJoined or attach.
THEOREM NobodyUnapprovedIsAuthorised == Spec => []RosterIsApproved
<1>1. IInv => RosterIsApproved
  BY DEF IInv
<1>. QED
  BY <1>1, Invariant, PTL

-----------------------------------------------------------------------------
(* The answer comes first: what a caller's wire holds until it has read it. *)

Answers(l) == {"Rejected"} \cup (IF l \in JoinLinks THEN {"Welcome"} ELSE {"MeshAck"})

\* A dial d has yet to read the answer on its i-th link, or even to make it.
Awaits(d, i) == d.pc \notin {"ok", "failed", "quit"} /\ i >= d.try
Untried(d, i) == \/ d.pc \in {"no", "queued", "begin", "try"} /\ i >= d.try
                 \/ d.pc = "sent" /\ i > d.try

\* The caller has yet to read the answer on l; the called node has given it,
\* or has gone on to attach the caller.
Asking == {"no", "dial", "wait"}
Awaiting(l) ==
    IF l \in JoinLinks THEN join[Dialer(l)] \in Asking
                       ELSE Awaits(dial[Dialer(l)][Target(l)], l[3])
Answered(l) ==
    IF l \in JoinLinks THEN appr[Dialer(l)].pc \in {"attach", "done"}
                       ELSE serve[l] \in {"attach", "done"}
Attached(l) == IF l \in JoinLinks THEN appr[Dialer(l)].pc = "done"
                                  ELSE serve[l] = "done"

\* A link is dialled once, and nobody is dialled before the Welcome.
Fresh ==
    /\ \A l \in MeshLinks :
          Untried(dial[Dialer(l)][Target(l)], l[3]) => serve[l] = "no"
    /\ \A j, k \in Joiners : join[j] \in Asking => dial[j][k].pc = "no"

\* A called node that holds a link, or is about to announce or say Bye on it,
\* has attached its caller; a caller reads a link only when it has the answer.
Held ==
    /\ \A l \in Links : \A m \in Nodes : peers[Target(l)][m] = l => Attached(l)
    /\ \A n \in Nodes : \A l \in byes[n] : Target(l) = n => Attached(l)
    /\ \A j \in Joiners : \A k \in appr[j].todo \cap Joiners : appr[k].pc = "done"
    /\ \A l \in Links : reader[End(l, Dialer(l))] # "no" => ~Awaiting(l)

\* So what a waiting caller finds first is the answer, and there is one if any
\* was given on a link that still stands.
FirstOn(l, q) ==
    /\ q # <<>> => Head(q).type \in Answers(l)
    /\ q = <<>> /\ Answered(l) => Cut(l, Target(l))
AnswerFirst == \A l \in Links : Awaiting(l) => FirstOn(l, wire[End(l, Dialer(l))])

AInv == Fresh /\ Held /\ AnswerFirst

\* The two ends of a link, and what is far from each.
LEMMA LinkEnds ==
    ASSUME NEW l \in Links
    PROVE  /\ Dialer(l) \in Joiners /\ Target(l) \in Nodes /\ Dialer(l) # Target(l)
           /\ l \in MeshLinks <=> l \notin JoinLinks
           /\ l \in JoinLinks => l = JoinLink(Dialer(l)) /\ Target(l) = Host
           /\ l \in MeshLinks => /\ Target(l) \in Joiners /\ l[3] \in Nat
                                 /\ l = MeshLink(Dialer(l), Target(l), l[3])
           /\ End(l, Dialer(l)) \in Ends /\ End(l, Target(l)) \in Ends
           /\ End(l, Dialer(l)) # End(l, Target(l))
           /\ FarEnd(l, Dialer(l)) = End(l, Target(l))
           /\ FarEnd(l, Target(l)) = End(l, Dialer(l))
<1>1. CASE l \in JoinLinks
  <2>1. PICK j \in Joiners : l = JoinLink(j)
    BY <1>1 DEF JoinLinks
  <2>2. /\ Dialer(l) = j /\ Target(l) = Host /\ l \notin MeshLinks
        /\ End(l, j) \in Ends /\ End(l, Host) \in Ends
    BY <2>1, JoinLinkType
  <2>3. j # Host /\ Host \in Nodes
    BY MeshAssumption DEF Nodes
  <2>4. Other(l, j) = Host /\ Other(l, Host) = j
    BY <2>2, <2>3 DEF Other
  <2>. QED
    BY <1>1, <2>1, <2>2, <2>3, <2>4 DEF End, FarEnd
<1>2. CASE l \in MeshLinks
  <2>1. l \notin JoinLinks
    BY <1>2, JoinLinkType DEF JoinLinks
  <2>2. l = MeshLink(Dialer(l), Target(l), l[3]) /\ l[3] \in Nat
    BY <1>2, MeshAssumption DEF MeshLinks, MeshLink, Dialer, Target
  <2>. QED
    BY <1>2, <2>1, <2>2, MeshLinkType DEF End, FarEnd, Other, Nodes
<1>. QED
  BY <1>1, <1>2 DEF Links

\* Sending adds to one wire at most, and only to one that is not cut.
LEMMA PutAt ==
    ASSUME NEW w \in [Ends -> Seq(Messages)], NEW l, NEW n, NEW msg, NEW e \in Ends
    PROVE  \/ Put(w, l, n, msg)[e] = w[e]
           \/ /\ e = FarEnd(l, n) /\ ~Cut(l, n)
              /\ Put(w, l, n, msg)[e] = Append(w[e], msg)
  BY DEF Put

\* Receiving takes from one wire only.
LEMMA TakeAt ==
    ASSUME WireType, NEW l, NEW n, NEW e \in Ends
    PROVE  Take(l, n)[e] = IF e = End(l, n) THEN Tail(wire[e]) ELSE wire[e]
  BY DEF Take, WireType

\* An end that is closed stays closed.
LEMMA ShutGrows ==
    ASSUME [Next]_vars
    PROVE  shut \subseteq shut'
<1>. USE DEF chan
<1>1. ASSUME NEW j \in Joiners, JoinThread(j) \/ ServeJoin(j) \/ ApproveThread(j)
      PROVE  shut \subseteq shut'
  BY <1>1 DEF JoinThread, JoinConnect, JoinFails, AwaitWelcome, AwaitAttach,
     AwaitRefused, Attach, Shutdown, ServeJoin, HelloChecked, Reject, Park, ServeLost,
     ApproveThread, Snapshot, Announce, Admit, SendWelcome, AttachApproved
<1>2. ASSUME NEW j \in Joiners, NEW k \in Joiners, DialThread(j, k)
      PROVE  shut \subseteq shut'
  BY <1>2 DEF DialThread, DialBegin, DialQuits, DialConnect, DialUnreachable,
     DialAcked, DialRefused, Attach
<1>3. ASSUME NEW l, ServeMesh(l)
      PROVE  shut \subseteq shut'
  BY <1>3 DEF ServeMesh, ServeLost, MeshHelloRead, GraceOver, FreeCheck, Reject,
     SendAck, AttachInbound, Attach
<1>4. ASSUME NEW e, ReaderThread(e)
      PROVE  shut \subseteq shut'
  BY <1>4 DEF ReaderThread, ReadControl, ReadBye, ReadFails, TellPeers,
     ShowConnected, ShowGone, PeerGone
<1>5. ASSUME NEW n, LeaveThread(n) \/ Leave(n) \/ Crash(n)
      PROVE  shut \subseteq shut'
  BY <1>5 DEF LeaveThread, LeaveDrain, LeaveBye, LeaveEnd, Leave, Crash
<1>6. ASSUME NEW j, Join(j) \/ Approve(j) \/ Decline(j)
      PROVE  shut \subseteq shut'
  BY <1>6 DEF Join, Approve, Decline
<1>7. CASE OpenRoom \/ UNCHANGED vars
  BY <1>7 DEF OpenRoom, vars
<1>8. ASSUME NEW l, Break(l)
      PROVE  shut \subseteq shut'
  BY <1>8 DEF Break
<1>. QED
  BY <1>1, <1>2, <1>3, <1>4, <1>5, <1>6, <1>7, <1>8 DEF Next, System, Operator

\* A joining thread is moved by its own steps.
LEMMA JoinGoes ==
    ASSUME TypeOK, [Next]_vars, NEW j \in Joiners
    PROVE  join'[j] = join[j] \/ JoinThread(j) \/ Join(j)
<1>t. JoinType
  BY TypeParts
<1>2. ASSUME NEW i \in Joiners, i # j, JoinThread(i) \/ Join(i)
      PROVE  join'[j] = join[j]
  BY <1>t, <1>2 DEF JoinThread, JoinConnect, JoinFails, AwaitWelcome, AwaitAttach,
     AwaitRefused, Join, JoinType
<1>3. ASSUME NEW i \in Joiners,
             ServeJoin(i) \/ ApproveThread(i) \/ Approve(i) \/ Decline(i)
      PROVE  UNCHANGED join
  BY <1>3 DEF ServeJoin, HelloChecked, Park, ServeLost, ApproveThread,
     Snapshot, Announce, Admit, SendWelcome, AttachApproved, Approve, Decline
<1>4. ASSUME NEW i \in Joiners, NEW k \in Joiners, DialThread(i, k)
      PROVE  UNCHANGED join
  BY <1>4 DEF DialThread, DialBegin, DialQuits, DialConnect, DialUnreachable,
     DialAcked, DialRefused
<1>5. ASSUME NEW l, ServeMesh(l) \/ Break(l)
      PROVE  UNCHANGED join
  BY <1>5 DEF ServeMesh, ServeLost, MeshHelloRead, GraceOver, FreeCheck,
     SendAck, AttachInbound, Break
<1>6. ASSUME NEW e, ReaderThread(e)
      PROVE  UNCHANGED join
  BY <1>6 DEF ReaderThread, ReadControl, ReadBye, ReadFails, TellPeers,
     ShowConnected, ShowGone
<1>7. ASSUME NEW n, LeaveThread(n) \/ Leave(n) \/ Crash(n)
      PROVE  UNCHANGED join
  BY <1>7 DEF LeaveThread, LeaveDrain, LeaveBye, LeaveEnd, Leave, Crash
<1>8. CASE OpenRoom \/ UNCHANGED vars
  BY <1>8 DEF OpenRoom, vars
<1>. QED
  BY <1>2, <1>3, <1>4, <1>5, <1>6, <1>7, <1>8 DEF Next, System, Operator

\* A joiner that has its answer does not ask again.
LEMMA JoinMoves ==
    ASSUME TypeOK, Asked, [Next]_vars, NEW j \in Joiners, join'[j] \in Asking
    PROVE  join[j] \in Asking
<1>t. JoinType
  BY TypeParts
<1>1. CASE JoinThread(j) \/ Join(j)
  <2>1. join[j] = "no" \/ join[j] \in Asking \/ join'[j] = "done"
    BY <1>t, <1>1 DEF JoinThread, JoinConnect, JoinFails, AwaitWelcome, AwaitAttach,
       AwaitRefused, Join, Asked, Asking, JoinType
  <2>. QED
    BY <2>1 DEF Asking
<1>. QED
  BY <1>1, JoinGoes

\* A dial moves by its own thread, and with the two halves of the Welcome.
LEMMA DialGoes ==
    ASSUME TypeOK, [Next]_vars, NEW j \in Joiners, NEW k \in Joiners
    PROVE  \/ dial'[j][k] = dial[j][k]
           \/ AwaitWelcome(j) \/ AwaitAttach(j) \/ DialThread(j, k)
<1>. DEFINE d == dial[j][k]
            e == dial'[j][k]
            Goal == e = d \/ AwaitWelcome(j) \/ AwaitAttach(j) \/ DialThread(j, k)
<1>t. DialType
  BY TypeParts
<1>4. ASSUME NEW i \in Joiners, i # j, AwaitWelcome(i) \/ AwaitAttach(i)
      PROVE  e = d
  BY <1>t, <1>4 DEF AwaitWelcome, AwaitAttach, DialType
<1>5. ASSUME NEW i \in Joiners, NEW m \in Joiners, i # j \/ m # k, DialThread(i, m)
      PROVE  e = d
  <2>1. (\E pc : DialPc(i, m, pc)) \/ DialNext(i, m)
    BY <1>5 DEF DialThread, DialBegin, DialQuits, DialConnect, DialUnreachable,
                DialAcked, DialRefused
  <2>2. \E x : dial' = [dial EXCEPT ![i][m] = x]
    BY <2>1 DEF DialPc, DialNext
  <2>. QED
    BY <1>t, <1>5, <2>2 DEF DialType
<1>6. ASSUME NEW i \in Joiners,
             \/ JoinConnect(i) \/ JoinFails(i) \/ AwaitRefused(i) \/ ServeJoin(i)
             \/ ApproveThread(i) \/ Join(i) \/ Approve(i) \/ Decline(i)
      PROVE  UNCHANGED dial
  BY <1>6 DEF JoinConnect, JoinFails, AwaitRefused, ServeJoin, HelloChecked, Park,
     ServeLost, ApproveThread, Snapshot, Announce, Admit, SendWelcome, AttachApproved,
     Join, Approve, Decline
<1>7. ASSUME NEW l, ServeMesh(l) \/ Break(l)
      PROVE  UNCHANGED dial
  BY <1>7 DEF ServeMesh, ServeLost, MeshHelloRead, GraceOver, FreeCheck,
     SendAck, AttachInbound, Break
<1>8. ASSUME NEW f, ReaderThread(f)
      PROVE  UNCHANGED dial
  BY <1>8 DEF ReaderThread, ReadControl, ReadBye, ReadFails, TellPeers,
     ShowConnected, ShowGone
<1>9. ASSUME NEW n, LeaveThread(n) \/ Leave(n) \/ Crash(n)
      PROVE  UNCHANGED dial
  BY <1>9 DEF LeaveThread, LeaveDrain, LeaveBye, LeaveEnd, Leave, Crash
<1>10. OpenRoom \/ UNCHANGED vars => UNCHANGED dial
  BY DEF OpenRoom, vars
<1>11. ASSUME NEW i \in Joiners, JoinThread(i)
       PROVE  Goal
  BY <1>4, <1>6, <1>11 DEF JoinThread
<1>12. ASSUME NEW i \in Joiners, NEW m \in Joiners, DialThread(i, m)
       PROVE  Goal
  BY <1>5, <1>12
<1>. QED
  BY <1>6, <1>7, <1>8, <1>9, <1>10, <1>11, <1>12 DEF Next, System, Operator

\* How a step may move a dial.
DialMove(d, e) ==
    /\ \A i \in Nat : Awaits(e, i) => Awaits(d, i)
    /\ \A i \in Nat : Untried(e, i) => Untried(d, i)

\* One attempt at a time, and never back to one that was made.
LEMMA DialMoves ==
    ASSUME TypeOK, Fresh, [Next]_vars, NEW j \in Joiners, NEW k \in Joiners
    PROVE  /\ DialMove(dial[j][k], dial'[j][k])
           /\ dial'[j][k].pc # "no" => dial[j][k].pc # "no" \/ AwaitWelcome(j)
           /\ dial[j][k].pc # "no" => dial'[j][k].pc # "no"
           /\ dial[j][k].pc \in {"ok", "failed"} => dial'[j][k] = dial[j][k]
<1>. DEFINE d == dial[j][k]
            e == dial'[j][k]
            Goal == /\ DialMove(d, e)
                    /\ e.pc # "no" => d.pc # "no" \/ AwaitWelcome(j)
                    /\ d.pc # "no" => e.pc # "no"
                    /\ d.pc \in {"ok", "failed"} => e = d
<1>t. DialType /\ d.pc \in DialStates /\ d.try \in Nat /\ d.try <= MaxTries /\ MaxTries \in Nat
  BY TypeParts, MeshAssumption DEF DialType
<1>0. e = d => Goal
  BY DEF DialMove
<1>. DEFINE Moved(pc) == e.pc = pc /\ e.try = d.try
<1>m. \/ d.pc = "no" /\ Moved("queued") /\ AwaitWelcome(j)
      \/ d.pc = "queued" /\ Moved("begin")
      \/ d.pc = "begin" /\ Moved("try")
      \/ d.pc = "try" /\ \E pc \in {"sent", "quit", "failed"} : Moved(pc)
      \/ d.pc = "sent" /\ \E pc \in {"ok", "failed"} : Moved(pc)
      \/ d.pc \in {"try", "sent"} /\ e.pc = "try" /\ e.try = d.try + 1
      => Goal
  <2>. HIDE DEF d, e
  <2>. QED
    BY <1>t DEF DialMove, Awaits, Untried
<1>p. ASSUME NEW pc, DialPc(j, k, pc)
      PROVE  Moved(pc)
  BY <1>t, <1>p DEF DialPc, DialType
<1>n. ASSUME DialNext(j, k)
      PROVE  Moved("failed") \/ (e.pc = "try" /\ e.try = d.try + 1)
  BY <1>t, <1>p, <1>n DEF DialNext, DialType
<1>1. CASE AwaitWelcome(j)
  <2>1. d.pc = "no"
    BY <1>1 DEF AwaitWelcome, Fresh, Asking
  <2>2. e = d \/ Moved("queued")
    BY <1>t, <1>1 DEF AwaitWelcome, DialType
  <2>. QED
    BY <1>0, <1>1, <1>m, <2>1, <2>2
<1>2. CASE AwaitAttach(j)
  <2>1. e = d \/ (d.pc = "queued" /\ Moved("begin"))
    BY <1>t, <1>2 DEF AwaitAttach, DialType
  <2>. QED
    BY <1>0, <1>m, <2>1
<1>3. CASE DialThread(j, k)
  <2>1. CASE DialBegin(j, k) \/ DialQuits(j, k) \/ DialConnect(j, k) \/ DialAcked(j, k)
    <3>1. \/ d.pc = "begin" /\ DialPc(j, k, "try")
          \/ d.pc = "try" /\ (DialPc(j, k, "quit") \/ DialPc(j, k, "sent"))
          \/ d.pc = "sent" /\ DialPc(j, k, "ok")
      BY <2>1 DEF DialBegin, DialQuits, DialConnect, DialAcked
    <3>. QED
      BY <1>m, <1>p, <3>1
  <2>2. CASE DialUnreachable(j, k) \/ DialRefused(j, k)
    <3>1. d.pc \in {"try", "sent"} /\ DialNext(j, k)
      BY <2>2 DEF DialUnreachable, DialRefused
    <3>. QED
      BY <1>m, <1>n, <3>1
  <2>. QED
    BY <1>3, <2>1, <2>2 DEF DialThread
<1>. HIDE DEF d, e
<1>. QED
  BY <1>0, <1>1, <1>2, <1>3, DialGoes DEF d, e

\* A caller that has its answer, or has given up, does not wait again.
LEMMA AwaitingEnds ==
    ASSUME TypeOK, Asked, Fresh, [Next]_vars, NEW l \in Links, Awaiting(l)'
    PROVE  Awaiting(l)
  BY LinkEnds, JoinMoves, DialMoves DEF Awaiting, DialMove

\* How a call at the called node may move: only from its own thread, until
\* that ends, or when the call is made.
LEMMA ServeMoves ==
    ASSUME TypeOK, [Next]_vars, NEW l \in MeshLinks
    PROVE  \/ serve'[l] = serve[l]
           \/ serve[l] \notin {"no", "done"} /\ ServeMesh(l)
           \/ DialConnect(Dialer(l), Target(l)) /\ l = CurrentLink(Dialer(l), Target(l))
<1>. DEFINE Goal == \/ serve'[l] = serve[l]
                    \/ serve[l] \notin {"no", "done"} /\ ServeMesh(l)
                    \/ /\ DialConnect(Dialer(l), Target(l))
                       /\ l = CurrentLink(Dialer(l), Target(l))
<1>t. ServeType
  BY TypeParts
<1>1. ASSUME NEW j \in Joiners, JoinThread(j) \/ ServeJoin(j) \/ ApproveThread(j)
      PROVE  Goal
  <2>1. UNCHANGED serve \/ \E s : serve' = [serve EXCEPT ![JoinLink(j)] = s]
    BY <1>1 DEF JoinThread, JoinConnect, Connect, JoinFails, AwaitWelcome,
       AwaitAttach, AwaitRefused, ServeJoin, HelloChecked, Park, ServeLost, Reject,
       ServePc, ApproveThread, Snapshot, Announce, Admit, SendWelcome, AttachApproved
  <2>2. JoinLink(j) # l /\ l \in Links
    BY JoinLinkType, MeshLinkType
  <2>. QED
    BY <1>t, <2>1, <2>2 DEF ServeType
<1>2. ASSUME NEW j \in Joiners, NEW k \in Joiners, DialThread(j, k)
      PROVE  Goal
  <2>1. CASE DialConnect(j, k)
    <3>1. serve' = [serve EXCEPT ![CurrentLink(j, k)] = "first"]
      BY <2>1 DEF DialConnect, Connect
    <3>2. Dialer(CurrentLink(j, k)) = j /\ Target(CurrentLink(j, k)) = k
      BY DEF CurrentLink, MeshLink, Dialer, Target
    <3>3. serve'[l] = serve[l] \/ l = CurrentLink(j, k)
      BY <1>t, <3>1, MeshLinkType DEF ServeType
    <3>. QED
      BY <2>1, <3>2, <3>3
  <2>2. CASE ~DialConnect(j, k)
    BY <1>2, <2>2 DEF DialThread, DialBegin, DialQuits, DialUnreachable,
       DialAcked, DialRefused
  <2>. QED
    BY <2>1, <2>2
<1>3. ASSUME NEW k \in MeshLinks, ServeMesh(k)
      PROVE  Goal
  <2>1. /\ serve[k] \notin {"no", "done"}
        /\ UNCHANGED serve \/ \E s : serve' = [serve EXCEPT ![k] = s]
    BY <1>3 DEF ServeMesh, ServeLost, MeshHelloRead, GraceOver, FreeCheck,
       SendAck, AttachInbound, ServePc, Reject
  <2>2. serve'[l] = serve[l] \/ k = l
    BY <1>t, <2>1, MeshLinkType DEF ServeType
  <2>. QED
    BY <1>3, <2>1, <2>2
<1>4. ASSUME NEW e, ReaderThread(e)
      PROVE  UNCHANGED serve
  BY <1>4 DEF ReaderThread, ReadControl, ReadBye, ReadFails, TellPeers,
     ShowConnected, ShowGone
<1>5. ASSUME NEW n, LeaveThread(n)
      PROVE  UNCHANGED serve
  BY <1>5 DEF LeaveThread, LeaveDrain, LeaveBye, LeaveEnd
<1>6. Operator \/ UNCHANGED vars => UNCHANGED serve
  BY DEF Operator, OpenRoom, Join, Approve, Decline, Leave, Crash, Break, vars
<1>. QED
  BY <1>1, <1>2, <1>3, <1>4, <1>5, <1>6 DEF Next, System

\* How an approval may move.
LEMMA ApprMoves ==
    ASSUME TypeOK, Asked, [Next]_vars, NEW j \in Joiners
    PROVE  /\ appr[j].pc = "done" => appr'[j].pc = "done"
           /\ appr[j].pc = "attach" => appr'[j].pc \in {"attach", "done"}
           /\ \/ appr'[j].todo \subseteq appr[j].todo
              \/ appr'[j].todo = Connected(Host)
<1>. DEFINE Goal == /\ appr[j].pc = "done" => appr'[j].pc = "done"
                    /\ appr[j].pc = "attach" => appr'[j].pc \in {"attach", "done"}
                    /\ \/ appr'[j].todo \subseteq appr[j].todo
                       \/ appr'[j].todo = Connected(Host)
<1>t. HostType
  BY TypeParts
<1>1. CASE UNCHANGED appr
  BY <1>1
<1>2. ASSUME NEW i \in Joiners, Approve(i) \/ Decline(i)
      PROVE  Goal
  BY <1>t, <1>2 DEF Approve, Decline, ApprPc, Asked, HostType
<1>3. ASSUME NEW i \in Joiners, ApproveThread(i)
      PROVE  Goal
  <2>1. CASE Snapshot(i)
    BY <1>t, <2>1 DEF Snapshot, HostType
  <2>2. CASE Announce(i)
    <3>1. PICK k \in appr[i].todo : appr' = [appr EXCEPT ![i].todo = @ \ {k}]
      BY <2>2 DEF Announce
    <3>. QED
      BY <1>t, <3>1 DEF HostType
  <2>3. CASE Admit(i) \/ SendWelcome(i) \/ AttachApproved(i)
    <3>1. \/ appr[i].pc \notin {"attach", "done"} /\ \E pc : ApprPc(i, pc)
          \/ ApprPc(i, "done")
      BY <2>3 DEF Admit, SendWelcome, AttachApproved
    <3>. QED
      BY <1>t, <3>1 DEF ApprPc, HostType
  <2>. QED
    BY <1>3, <2>1, <2>2, <2>3 DEF ApproveThread
<1>4. ASSUME \A i \in Joiners : ~Approve(i) /\ ~Decline(i) /\ ~ApproveThread(i)
      PROVE  UNCHANGED appr
  BY <1>4, ApprFrame
<1>. QED
  BY <1>1, <1>2, <1>3, <1>4

\* Who has attached a caller, or answered it, stays so.
LEMMA AttachedStays ==
    ASSUME TypeOK, Asked, Fresh, [Next]_vars, NEW l \in Links
    PROVE  Attached(l) => Attached(l)'
<1>1. CASE l \in JoinLinks
  BY <1>1, LinkEnds, ApprMoves DEF Attached
<1>2. CASE l \in MeshLinks
  <2>1. ASSUME l = CurrentLink(Dialer(l), Target(l)), DialConnect(Dialer(l), Target(l))
        PROVE  serve[l] = "no"
    <3>1. l[3] = dial[Dialer(l)][Target(l)].try
      BY <2>1 DEF CurrentLink, MeshLink
    <3>2. l[3] \in Nat
      BY LinkEnds, <1>2
    <3>. QED
      BY <1>2, <2>1, <3>1, <3>2 DEF DialConnect, Fresh, Untried
  <2>. QED
    BY <1>2, <2>1, LinkEnds, ServeMoves DEF Attached
<1>. QED
  BY <1>1, <1>2 DEF Links

\* Every step keeps links and dials fresh.
LEMMA FreshStep ==
    ASSUME TypeOK, Asked, Fresh, [Next]_vars
    PROVE  Fresh'
<1>1. ASSUME NEW l \in MeshLinks, Untried(dial'[Dialer(l)][Target(l)], l[3])
      PROVE  serve'[l] = "no"
  <2>. DEFINE j == Dialer(l)
              k == Target(l)
  <2>1. j \in Joiners /\ k \in Joiners /\ l[3] \in Nat /\ l \in Links
    BY LinkEnds DEF Links
  <2>2. serve[l] = "no"
    BY <1>1, <2>1, DialMoves DEF DialMove, Fresh
  <2>3. ASSUME DialConnect(j, k), l = CurrentLink(j, k)
        PROVE  FALSE
    <3>1. l[3] = dial[j][k].try
      BY <2>3 DEF CurrentLink, MeshLink
    <3>2. dial'[j][k].pc = "sent" /\ dial'[j][k].try = dial[j][k].try
      BY <2>1, <2>3, TypeParts DEF DialConnect, DialPc, DialType
    <3>. QED
      BY <1>1, <2>1, <3>1, <3>2 DEF Untried
  <2>. QED
    BY <2>2, <2>3, ServeMoves
<1>2. ASSUME NEW j \in Joiners, NEW k \in Joiners, join'[j] \in Asking
      PROVE  dial'[j][k].pc = "no"
  <2>1. join[j] \in Asking /\ dial[j][k].pc = "no"
    BY <1>2, JoinMoves DEF Fresh
  <2>2. ~AwaitWelcome(j)
    BY <1>2, TypeParts DEF AwaitWelcome, Asking, JoinType
  <2>. QED
    BY <2>1, <2>2, DialMoves
<1>. QED
  BY <1>1, <1>2 DEF Fresh

\* What attaching a peer writes.
LEMMA AttachWrites ==
    ASSUME RegistryType, NEW n \in Nodes, NEW m \in Nodes, NEW l \in Links, Attach(n, m, l)
    PROVE  /\ \A i, k \in Nodes : \/ peers'[i][k] = peers[i][k]
                                  \/ i = n /\ k = m /\ peers'[i][k] = l
           /\ \A e \in Ends : reader'[e] = reader[e] \/ e = End(l, n)
<1>1. CASE Running(n)
  BY <1>1 DEF Attach, RegistryType
<1>2. CASE ~Running(n)
  BY <1>2 DEF Attach
<1>. QED
  BY <1>1, <1>2

\* Attaching is the only way to a link, and at the called node it comes last;
\* a caller attaches when it has the answer.
LEMMA HoldMoves ==
    ASSUME IInv, Fresh, [Next]_vars
    PROVE  /\ \A l \in Links : \A m \in Nodes :
                peers'[Target(l)][m] = l => peers[Target(l)][m] = l \/ Attached(l)'
           /\ \A l \in Links : reader'[End(l, Dialer(l))] # "no"
                                 => reader[End(l, Dialer(l))] # "no" \/ ~Awaiting(l)'
<1>. USE DEF chan, hostvars, teardown, node
<1>. DEFINE Goal ==
       /\ \A l \in Links : \A m \in Nodes :
             peers'[Target(l)][m] = l => peers[Target(l)][m] = l \/ Attached(l)'
       /\ \A l \in Links : reader'[End(l, Dialer(l))] # "no"
                             => reader[End(l, Dialer(l))] # "no" \/ ~Awaiting(l)'
<1>t. /\ RegistryType /\ HostType /\ JoinType /\ DialType /\ ServeType
      /\ Host \in Nodes /\ NoLink \notin Links /\ \A j \in Joiners : j \in Nodes
      /\ \A l \in Links : Target(l) \in Nodes /\ End(l, Dialer(l)) \in Ends
  BY TypeParts, LinkEnds, MeshAssumption DEF IInv, Nodes
<1>0. ASSUME \A n, m \in Nodes : peers'[n][m] \in {peers[n][m], NoLink},
             \A e \in Ends : reader'[e] # "no" => reader[e] # "no"
      PROVE  Goal
  BY <1>0, <1>t
<1>1. ASSUME NEW n \in Nodes, NEW m \in Nodes, NEW l \in Links, Attach(n, m, l),
             Target(l) = n => Attached(l)', Dialer(l) = n => ~Awaiting(l)'
      PROVE  Goal
  <2>1. /\ \A i, k \in Nodes : \/ peers'[i][k] = peers[i][k]
                               \/ i = n /\ k = m /\ peers'[i][k] = l
        /\ \A e \in Ends : reader'[e] = reader[e] \/ e = End(l, n)
    BY <1>t, <1>1, AttachWrites
  <2>2. ASSUME NEW k \in Links, NEW i \in Nodes, peers'[Target(k)][i] = k
        PROVE  peers[Target(k)][i] = k \/ Attached(k)'
    BY <1>1, <1>t, <2>1, <2>2
  <2>3. ASSUME NEW k \in Links, reader'[End(k, Dialer(k))] # "no"
        PROVE  reader[End(k, Dialer(k))] # "no" \/ ~Awaiting(k)'
    BY <1>1, <1>t, <2>1, <2>3 DEF End
  <2>. QED
    BY <2>2, <2>3
<1>2. ASSUME NEW n \in Nodes, peers' = [peers EXCEPT ![n] = [m \in Nodes |-> NoLink]],
             UNCHANGED reader
      PROVE  Goal
  <2>. HIDE DEF Goal
  <2>1. \A i, m \in Nodes : peers'[i][m] \in {peers[i][m], NoLink}
    BY <1>t, <1>2 DEF RegistryType
  <2>. QED
    BY <1>0, <1>2, <2>1
<1>3. ASSUME UNCHANGED <<peers, reader>>
      PROVE  Goal
  BY <1>3
<1>4. ASSUME NEW j \in Joiners, JoinThread(j)
      PROVE  Goal
  <2>1. CASE AwaitAttach(j)
    <3>. DEFINE l == JoinLink(j)
    <3>1. l \in Links /\ l \in JoinLinks /\ Dialer(l) = j /\ Target(l) = Host /\ Host # j
      BY JoinLinkType, MeshAssumption DEF JoinLinks
    <3>2. join'[j] = "done" /\ Attach(j, Host, l)
      BY <1>t, <2>1 DEF AwaitAttach, JoinType
    <3>. HIDE DEF l
    <3>3. ~Awaiting(l)'
      BY <3>1, <3>2 DEF Awaiting, Asking
    <3>. QED
      BY <1>1, <1>t, <3>1, <3>2, <3>3
  <2>2. CASE JoinFails(j) \/ AwaitRefused(j)
    BY <1>2, <1>t, <2>2 DEF JoinFails, AwaitRefused, Shutdown
  <2>3. CASE JoinConnect(j) \/ AwaitWelcome(j)
    BY <1>3, <2>3 DEF JoinConnect, AwaitWelcome
  <2>. QED
    BY <1>4, <2>1, <2>2, <2>3 DEF JoinThread
<1>5. ASSUME NEW j \in Joiners, NEW k \in Joiners, DialThread(j, k)
      PROVE  Goal
  <2>1. CASE DialAcked(j, k)
    <3>1. j # k /\ dial[j][k].try \in 1..MaxTries
      BY <1>t, <2>1 DEF DialAcked, IInv, Dialling, DialType
    <3>0. /\ CurrentLink(j, k) \in MeshLinks
          /\ Dialer(CurrentLink(j, k)) = j /\ Target(CurrentLink(j, k)) = k
      BY <3>1 DEF CurrentLink, MeshLink, MeshLinks, Dialer, Target
    <3>2. PICK l \in MeshLinks : l = CurrentLink(j, k) /\ Dialer(l) = j /\ Target(l) = k
      BY <3>0
    <3>3. dial'[j][k].pc = "ok" /\ Attach(j, k, l)
      BY <1>t, <2>1, <3>2 DEF DialAcked, DialPc, DialType
    <3>4. l \in Links /\ l \notin JoinLinks
      BY <3>2, LinkEnds DEF Links
    <3>5. ~Awaiting(l)'
      BY <3>2, <3>3, <3>4 DEF Awaiting, Awaits
    <3>. QED
      BY <1>1, <1>t, <3>1, <3>2, <3>3, <3>4, <3>5
  <2>2. CASE ~DialAcked(j, k)
    BY <1>3, <1>5, <2>2 DEF DialThread, DialBegin, DialQuits, DialConnect,
       DialUnreachable, DialRefused
  <2>. QED
    BY <2>1, <2>2
<1>6. ASSUME NEW j \in Joiners, ApproveThread(j)
      PROVE  Goal
  <2>1. CASE AttachApproved(j)
    <3>. DEFINE l == JoinLink(j)
    <3>1. l \in Links /\ l \in JoinLinks /\ Dialer(l) = j /\ Target(l) = Host /\ Host # j
      BY JoinLinkType, MeshAssumption DEF JoinLinks
    <3>2. appr'[j].pc = "done" /\ Attach(Host, j, l)
      BY <1>t, <2>1 DEF AttachApproved, ApprPc, HostType
    <3>. HIDE DEF l
    <3>3. Attached(l)'
      BY <3>1, <3>2 DEF Attached
    <3>. QED
      BY <1>1, <1>t, <3>1, <3>2, <3>3
  <2>2. CASE ~AttachApproved(j)
    BY <1>3, <1>6, <2>2 DEF ApproveThread, Snapshot, Announce, Admit, SendWelcome
  <2>. QED
    BY <2>1, <2>2
<1>7. ASSUME NEW l \in MeshLinks, ServeMesh(l)
      PROVE  Goal
  <2>1. CASE AttachInbound(l)
    <3>1. /\ l \in Links /\ l \notin JoinLinks /\ Dialer(l) # Target(l)
          /\ Dialer(l) \in Nodes /\ Target(l) \in Nodes
      BY <1>t, LinkEnds DEF Links
    <3>2. serve'[l] = "done" /\ Attach(Target(l), Dialer(l), l)
      BY <1>t, <2>1, <3>1 DEF AttachInbound, ServePc, ServeType
    <3>3. Attached(l)'
      BY <3>1, <3>2 DEF Attached
    <3>. QED
      BY <1>1, <3>1, <3>2, <3>3
  <2>2. CASE ~AttachInbound(l)
    BY <1>3, <1>7, <2>2 DEF ServeMesh, ServeLost, MeshHelloRead, GraceOver,
       FreeCheck, SendAck
  <2>. QED
    BY <2>1, <2>2
<1>8. ASSUME NEW e \in Ends, ReaderThread(e)
      PROVE  Goal
  <2>1. \A f \in Ends : reader'[f] # "no" => reader[f] # "no"
    <3>1. reader[e] # "no" /\ e = End(e[1], e[2])
      BY <1>8, EndType DEF ReaderThread, ReadControl, ReadBye, ReadFails, TellPeers,
     ShowConnected, ShowGone, Reading
    <3>2. UNCHANGED reader \/ \E r : reader' = [reader EXCEPT ![e] = r]
      BY <1>8, <3>1 DEF ReaderThread, ReadControl, ReadBye, ReadFails, TellPeers,
     ShowConnected, ShowGone, PeerGone
    <3>. QED
      BY <1>t, <3>1, <3>2 DEF RegistryType
  <2>2. UNCHANGED peers \/ \E n, m : peers' = [peers EXCEPT ![n][m] = NoLink]
    BY <1>8 DEF ReaderThread, ReadControl, ReadBye, ReadFails, TellPeers,
     ShowConnected, ShowGone, PeerGone
  <2>3. \A n, m \in Nodes : peers'[n][m] \in {peers[n][m], NoLink}
    <3>1. ASSUME NEW n, NEW m, peers' = [peers EXCEPT ![n][m] = NoLink]
          PROVE  \A i, k \in Nodes : peers'[i][k] \in {peers[i][k], NoLink}
      BY <1>t, <3>1 DEF RegistryType
    <3>. QED
      BY <2>2, <3>1
  <2>. HIDE DEF Goal
  <2>. QED
    BY <1>0, <2>1, <2>3
<1>9. ASSUME NEW n \in Nodes, LeaveThread(n)
      PROVE  Goal
  BY <1>2, <1>3, <1>9 DEF LeaveThread, LeaveDrain, LeaveBye, LeaveEnd
<1>10. ASSUME Operator
       PROVE  Goal
  <2>1. ASSUME NEW j \in Joiners, Join(j)
        PROVE  Goal
    BY <1>2, <1>t, <2>1 DEF Join
  <2>2. OpenRoom => Goal
    BY <1>2, <1>t DEF OpenRoom
  <2>3. \/ OpenRoom \/ UNCHANGED <<peers, reader>> \/ \E j \in Joiners : Join(j)
    BY <1>10 DEF Operator, Approve, Decline, Leave, Crash, Break
  <2>4. UNCHANGED <<peers, reader>> => Goal
    BY <1>3
  <2>. HIDE DEF Goal
  <2>. QED
    BY <2>1, <2>2, <2>3, <2>4
<1>11. ASSUME NEW j \in Joiners, ServeJoin(j)
       PROVE  Goal
  BY <1>3, <1>11 DEF ServeJoin, HelloChecked, Park, ServeLost
<1>12. ASSUME UNCHANGED vars
       PROVE  Goal
  BY <1>3, <1>12 DEF vars
<1>. HIDE DEF Goal
<1>13. ASSUME System
       PROVE  Goal
  BY <1>4, <1>5, <1>6, <1>7, <1>8, <1>9, <1>11, <1>13 DEF System
<1>14. Goal
  BY <1>10, <1>12, <1>13 DEF Next
<1>. QED
  BY <1>14 DEF Goal

\* Only leave() touches what it has yet to hang up on.
LEMMA TeardownFrame ==
    ASSUME [Next]_vars, ~\E i \in Nodes : LeaveThread(i)
    PROVE  UNCHANGED teardown
<1>1. ASSUME NEW j \in Joiners, JoinThread(j) \/ ServeJoin(j) \/ ApproveThread(j)
      PROVE  UNCHANGED teardown
  BY <1>1 DEF JoinThread, JoinConnect, JoinFails, AwaitWelcome, AwaitAttach,
     AwaitRefused, ServeJoin, HelloChecked, Park, ServeLost, ApproveThread,
     Snapshot, Announce, Admit, SendWelcome, AttachApproved
<1>2. ASSUME NEW j \in Joiners, NEW k \in Joiners, DialThread(j, k)
      PROVE  UNCHANGED teardown
  BY <1>2 DEF DialThread, DialBegin, DialQuits, DialConnect, DialUnreachable,
     DialAcked, DialRefused
<1>3. ASSUME NEW k, ServeMesh(k)
      PROVE  UNCHANGED teardown
  BY <1>3 DEF ServeMesh, ServeLost, MeshHelloRead, GraceOver, FreeCheck,
     SendAck, AttachInbound
<1>4. ASSUME NEW e, ReaderThread(e)
      PROVE  UNCHANGED teardown
  BY <1>4 DEF ReaderThread, ReadControl, ReadBye, ReadFails, TellPeers,
     ShowConnected, ShowGone
<1>5. Operator \/ UNCHANGED vars => UNCHANGED teardown
  BY DEF Operator, OpenRoom, Join, Approve, Decline, Leave, Crash, Break, vars, teardown
<1>. QED
  BY <1>1, <1>2, <1>3, <1>4, <1>5 DEF Next, System

LEMMA ByesGoes ==
    ASSUME TypeOK, [Next]_vars, NEW n \in Nodes
    PROVE  byes'[n] = byes[n] \/ LeaveDrain(n) \/ LeaveBye(n)
<1>t. HangupType
  BY TypeParts
<1>1. ASSUME NEW i \in Nodes, i # n, LeaveDrain(i) \/ LeaveBye(i)
      PROVE  byes'[n] = byes[n]
  <2>1. \E S : byes' = [byes EXCEPT ![i] = S]
    BY <1>1 DEF LeaveDrain, LeaveBye
  <2>. QED
    BY <1>1, <1>t, <2>1 DEF HangupType
<1>. QED
  BY <1>1, TeardownFrame DEF teardown, LeaveThread, LeaveEnd

\* leave() says Bye on the links the node held.
LEMMA ByesMove ==
    ASSUME TypeOK, [Next]_vars, NEW n \in Nodes, NEW l \in byes'[n]
    PROVE  \/ l \in byes[n]
           \/ LeaveDrain(n) /\ \E m \in Nodes : peers[n][m] = l /\ l # NoLink
<1>t. HangupType
  BY TypeParts
<1>1. CASE LeaveDrain(n)
  BY <1>t, <1>1 DEF LeaveDrain, HangupType, Connected
<1>2. CASE LeaveBye(n)
  <2>1. \E k : byes' = [byes EXCEPT ![n] = @ \ {k}]
    BY <1>2 DEF LeaveBye
  <2>. QED
    BY <1>t, <2>1 DEF HangupType
<1>. QED
  BY <1>1, <1>2, ByesGoes

\* Every step keeps what a called node holds attached.
LEMMA HeldStep ==
    ASSUME IInv, Fresh, Held, [Next]_vars
    PROVE  Held'
<1>t. TypeOK /\ TypeOK' /\ Asked /\ Met
  BY TypeStep DEF IInv
<1>a. /\ \A l \in Links : Attached(l) => Attached(l)'
      /\ \A l \in Links : Awaiting(l)' => Awaiting(l)
  BY <1>t, AttachedStays, AwaitingEnds
<1>1. ASSUME NEW l \in Links, NEW m \in Nodes, peers'[Target(l)][m] = l
      PROVE  Attached(l)'
  BY <1>1, <1>a, HoldMoves DEF Held
<1>2. ASSUME NEW n \in Nodes, NEW l \in byes'[n], Target(l) = n
      PROVE  Attached(l)'
  <2>1. l \in Links
    BY <1>t, TypePartsPrimed DEF HangupType
  <2>2. Attached(l)
    BY <1>2, <1>t, <2>1, ByesMove DEF Held
  <2>. QED
    BY <1>a, <2>1, <2>2
<1>3. ASSUME NEW j \in Joiners, NEW k \in appr'[j].todo \cap Joiners
      PROVE  appr'[k].pc = "done"
  <2>1. k \in appr[j].todo \/ peers[Host][k] # NoLink
    BY <1>t, ApprMoves DEF Connected
  <2>2. appr[k].pc = "done"
    BY <1>t, <2>1 DEF Held, Met
  <2>. QED
    BY <1>t, <2>2, ApprMoves
<1>4. ASSUME NEW l \in Links, reader'[End(l, Dialer(l))] # "no"
      PROVE  ~Awaiting(l)'
  BY <1>4, <1>a, HoldMoves DEF Held
<1>. QED
  BY <1>1, <1>2, <1>3, <1>4 DEF Held

\* What a step may do to the wire on which a caller awaits its answer: leave
\* it, put the answer on it, put more on it once the caller is attached, or
\* take from it once the caller has its answer.
CallerEnd(l) == End(l, Dialer(l))
Speaks(l, q, r) ==
    \/ r = q
    \/ \E msg \in Messages :
          /\ r = Append(q, msg)
          /\ msg.type \in Answers(l) \/ (Attached(l) /\ ~Cut(l, Target(l)))
    \/ q # <<>> /\ r = Tail(q) /\ ~Awaiting(l)'

\* Only the called node's side of a link writes there.
LEMMA SaidAt ==
    ASSUME WireType, NEW l \in Links, NEW k \in Links, NEW n \in {Dialer(k), Target(k)},
           NEW msg \in Messages, NEW w \in [Ends -> Seq(Messages)],
           w[CallerEnd(l)] = wire[CallerEnd(l)], wire' = Put(w, k, n, msg),
           k = l /\ n = Target(l) => msg.type \in Answers(l) \/ Attached(l)
    PROVE  Speaks(l, wire[CallerEnd(l)], wire'[CallerEnd(l)])
<1>1. CallerEnd(l) \in Ends
  BY LinkEnds DEF CallerEnd
<1>2. \/ wire'[CallerEnd(l)] = wire[CallerEnd(l)]
      \/ /\ CallerEnd(l) = FarEnd(k, n) /\ ~Cut(k, n)
         /\ wire'[CallerEnd(l)] = Append(wire[CallerEnd(l)], msg)
  BY <1>1, PutAt
<1>3. CallerEnd(l) = FarEnd(k, n) => k = l /\ n = Target(l)
  BY LinkEnds DEF CallerEnd, FarEnd, End
<1>. QED
  BY <1>2, <1>3 DEF Speaks

\* Nor does receiving at another end take from it.
LEMMA TookAt ==
    ASSUME WireType, NEW l \in Links, NEW k, NEW n, wire' = Take(k, n),
           \/ End(k, n) # CallerEnd(l)
           \/ wire[CallerEnd(l)] # <<>> /\ ~Awaiting(l)'
    PROVE  Speaks(l, wire[CallerEnd(l)], wire'[CallerEnd(l)])
<1>1. CallerEnd(l) \in Ends
  BY LinkEnds DEF CallerEnd
<1>. QED
  BY <1>1, TakeAt DEF Speaks

\* The called node's own threads: its answers, and what closes the link.
LEMMA ServeSpeaks ==
    ASSUME TypeOK, NEW l \in Links,
           \/ \E j \in Joiners : ServeJoin(j) \/ Decline(j)
           \/ \E k \in MeshLinks : ServeMesh(k)
    PROVE  Speaks(l, wire[CallerEnd(l)], wire'[CallerEnd(l)])
<1>. USE DEF chan, hostvars
<1>t. WireType /\ wire \in [Ends -> Seq(Messages)]
  BY TypeParts DEF WireType
<1>m. /\ Msg("Rejected", {}) \in Messages /\ Msg("MeshAck", {}) \in Messages
      /\ Msg("Rejected", {}).type = "Rejected" /\ Msg("MeshAck", {}).type = "MeshAck"
  BY MsgType DEF MsgTypes, Msg
<1>0. UNCHANGED wire => Speaks(l, wire[CallerEnd(l)], wire'[CallerEnd(l)])
  BY DEF Speaks
<1>r. ASSUME NEW k \in Links, NEW w \in [Ends -> Seq(Messages)], Reject(w, k),
             w[CallerEnd(l)] = wire[CallerEnd(l)]
      PROVE  Speaks(l, wire[CallerEnd(l)], wire'[CallerEnd(l)])
  BY <1>m, <1>r, <1>t, SaidAt DEF Reject, Answers
<1>k. ASSUME NEW k \in Links, NEW type, Arrived(k, Target(k), type)
      PROVE  /\ Take(k, Target(k)) \in [Ends -> Seq(Messages)]
             /\ Take(k, Target(k))[CallerEnd(l)] = wire[CallerEnd(l)]
             /\ End(k, Target(k)) # CallerEnd(l)
  <2>1. End(k, Target(k)) # CallerEnd(l)
    BY LinkEnds DEF CallerEnd, End
  <2>2. End(k, Target(k)) \in Ends /\ CallerEnd(l) \in Ends
    BY LinkEnds DEF CallerEnd
  <2>. QED
    BY <1>k, <1>t, <2>1, <2>2, TakeType, TakeAt
<1>1. ASSUME NEW j \in Joiners, ServeJoin(j) \/ Decline(j)
      PROVE  Speaks(l, wire[CallerEnd(l)], wire'[CallerEnd(l)])
  <2>1. JoinLink(j) \in Links /\ Target(JoinLink(j)) = Host
    BY JoinLinkType
  <2>2. CASE HelloChecked(j)
    <3>1. Arrived(JoinLink(j), Host, "Hello")
      BY <2>2 DEF HelloChecked
    <3>2. wire' = Take(JoinLink(j), Host) \/ Reject(Take(JoinLink(j), Host), JoinLink(j))
      BY <2>2 DEF HelloChecked
    <3>. QED
      BY <1>k, <1>r, <1>t, <2>1, <3>1, <3>2, TookAt
  <2>3. CASE Decline(j)
    <3>1. wire' = Put(wire, JoinLink(j), Host, Msg("Rejected", {}))
      BY <2>3 DEF Decline
    <3>. QED
      BY <1>m, <1>t, <2>1, <3>1, SaidAt DEF Answers
  <2>4. CASE Park(j) \/ ServeLost(JoinLink(j))
    BY <1>0, <2>4 DEF Park, ServeLost
  <2>. QED
    BY <1>1, <2>2, <2>3, <2>4 DEF ServeJoin
<1>2. ASSUME NEW k \in MeshLinks, ServeMesh(k)
      PROVE  Speaks(l, wire[CallerEnd(l)], wire'[CallerEnd(l)])
  <2>1. k \in Links /\ (k = l => "MeshAck" \in Answers(l))
    BY LinkEnds DEF Links, Answers
  <2>2. CASE MeshHelloRead(k)
    BY <1>k, <1>t, <2>1, <2>2, TookAt DEF MeshHelloRead
  <2>3. CASE GraceOver(k) \/ FreeCheck(k)
    BY <1>0, <1>r, <1>t, <2>1, <2>3 DEF GraceOver, FreeCheck
  <2>4. CASE SendAck(k)
    <3>1. UNCHANGED wire \/ wire' = Put(wire, k, Target(k), Msg("MeshAck", {}))
      BY <2>4 DEF SendAck
    <3>. QED
      BY <1>0, <1>m, <1>t, <2>1, <3>1, SaidAt
  <2>5. CASE ServeLost(k) \/ AttachInbound(k)
    BY <1>0, <2>5 DEF ServeLost, AttachInbound
  <2>. QED
    BY <1>2, <2>2, <2>3, <2>4, <2>5 DEF ServeMesh
<1>. QED
  BY <1>1, <1>2

\* Every step treats the wire so.
LEMMA SpeaksStep ==
    ASSUME IInv, Fresh, Held, [Next]_vars, NEW l \in Links
    PROVE  Speaks(l, wire[CallerEnd(l)], wire'[CallerEnd(l)])
<1>. USE DEF chan, hostvars, teardown
<1>. DEFINE Goal == Speaks(l, wire[CallerEnd(l)], wire'[CallerEnd(l)])
<1>t. /\ TypeOK /\ Asked /\ WireType /\ JoinType /\ DialType /\ HostType /\ HangupType
      /\ wire \in [Ends -> Seq(Messages)]
  BY TypeParts DEF IInv, WireType
<1>l. CallerEnd(l) \in Ends /\ CallerEnd(l) = End(l, Dialer(l)) /\ Dialer(l) # Target(l)
  BY LinkEnds DEF CallerEnd
<1>0. UNCHANGED wire => Goal
  BY DEF Speaks
<1>1. ASSUME NEW j \in Joiners, JoinThread(j)
      PROVE  Goal
  <2>. DEFINE k == JoinLink(j)
  <2>1. k \in Links /\ k \in JoinLinks /\ Dialer(k) = j /\ Target(k) = Host /\ j # Host
    BY JoinLinkType, MeshAssumption DEF JoinLinks
  <2>2. CASE JoinConnect(j)
    <3>1. wire' = Put(wire, k, j, Msg("Hello", {})) /\ Msg("Hello", {}) \in Messages
      BY <2>2, MsgType DEF JoinConnect, MsgTypes
    <3>. HIDE DEF k
    <3>. QED
      BY <1>t, <2>1, <3>1, SaidAt
  <2>3. CASE AwaitWelcome(j)
    <3>1. wire' = Take(k, j) /\ wire[End(k, j)] # <<>> /\ join'[j] = "attach"
      BY <1>t, <2>3 DEF AwaitWelcome, Arrived, JoinType
    <3>. HIDE DEF k
    <3>2. End(k, j) = CallerEnd(l) => k = l
      BY DEF CallerEnd, End
    <3>3. k = l => ~Awaiting(l)'
      BY <2>1, <3>1 DEF Awaiting, Asking
    <3>. QED
      BY <1>t, <3>1, <3>2, <3>3, TookAt
  <2>4. CASE JoinFails(j) \/ AwaitAttach(j) \/ AwaitRefused(j)
    BY <1>0, <2>4 DEF JoinFails, AwaitAttach, AwaitRefused
  <2>. QED
    BY <1>1, <2>2, <2>3, <2>4 DEF JoinThread
<1>2. ASSUME NEW j \in Joiners, NEW i \in Joiners, DialThread(j, i)
      PROVE  Goal
  <2>1. CASE DialConnect(j, i) \/ DialAcked(j, i)
    <3>1. j # i /\ dial[j][i].try \in 1..MaxTries
      BY <1>t, <2>1 DEF DialConnect, DialAcked, IInv, Dialling, DialType
    <3>2. /\ CurrentLink(j, i) \in MeshLinks
          /\ Dialer(CurrentLink(j, i)) = j /\ Target(CurrentLink(j, i)) = i
      BY <3>1 DEF CurrentLink, MeshLink, MeshLinks, Dialer, Target
    <3>3. PICK k \in MeshLinks : k = CurrentLink(j, i) /\ Dialer(k) = j /\ Target(k) = i
      BY <3>2
    <3>4. k \in Links /\ k \notin JoinLinks
      BY LinkEnds DEF Links
    <3>5. CASE DialConnect(j, i)
      <4>1. wire' = Put(wire, k, j, Msg("MeshHello", {})) /\ Msg("MeshHello", {}) \in Messages
        BY <3>3, <3>5, MsgType DEF DialConnect, MsgTypes
      <4>. QED
        BY <1>t, <3>1, <3>3, <3>4, <4>1, SaidAt
    <3>6. CASE DialAcked(j, i)
      <4>1. wire' = Take(k, j) /\ wire[End(k, j)] # <<>> /\ dial'[j][i].pc = "ok"
        BY <1>t, <3>3, <3>6 DEF DialAcked, Arrived, DialPc, DialType
      <4>2. End(k, j) = CallerEnd(l) => k = l
        BY DEF CallerEnd, End
      <4>3. k = l => ~Awaiting(l)'
        BY <3>3, <3>4, <4>1 DEF Awaiting, Awaits
      <4>. QED
        BY <1>t, <4>1, <4>2, <4>3, TookAt
    <3>. QED
      BY <2>1, <3>5, <3>6
  <2>2. CASE DialBegin(j, i) \/ DialQuits(j, i) \/ DialUnreachable(j, i) \/ DialRefused(j, i)
    BY <1>0, <2>2 DEF DialBegin, DialQuits, DialUnreachable, DialRefused
  <2>. QED
    BY <1>2, <2>1, <2>2 DEF DialThread
<1>3. ASSUME NEW j \in Joiners, ApproveThread(j)
      PROVE  Goal
  <2>1. CASE Announce(j)
    <3>1. PICK k \in appr[j].todo :
            wire' = Put(wire, JoinLink(k), Host, Msg("PeerJoined", {j}))
      BY <2>1 DEF Announce
    <3>2. k \in Nodes /\ Msg("PeerJoined", {j}) \in Messages
      BY <1>t, MsgType DEF HostType, MsgTypes, Nodes
    <3>3. CASE k \in Joiners
      <4>1. JoinLink(k) \in Links /\ JoinLink(k) \in JoinLinks /\ Attached(JoinLink(k))
        BY <3>1, <3>3, JoinLinkType DEF JoinLinks, Held, Attached
      <4>2. Target(JoinLink(k)) = Host
        BY <3>3, JoinLinkType
      <4>. QED
        BY <1>t, <3>1, <3>2, <4>1, <4>2, SaidAt
    <3>4. CASE k = Host
      <4>1. CallerEnd(l) # FarEnd(JoinLink(k), Host)
        BY <3>4, LinkEnds, MeshAssumption DEF CallerEnd, FarEnd, End, JoinLink, Dialer
      <4>. QED
        BY <1>l, <1>t, <3>1, <4>1, PutAt DEF Speaks
    <3>. QED
      BY <3>2, <3>3, <3>4 DEF Nodes
  <2>2. CASE SendWelcome(j)
    <3>1. /\ UNCHANGED wire \/ wire' = Put(wire, JoinLink(j), Host, Msg("Welcome", appr[j].met))
          /\ Msg("Welcome", appr[j].met) \in Messages
          /\ Msg("Welcome", appr[j].met).type = "Welcome"
      BY <1>t, <2>2, MsgType DEF SendWelcome, HostType, MsgTypes, Msg
    <3>2. /\ JoinLink(j) \in Links /\ Target(JoinLink(j)) = Host
          /\ JoinLink(j) = l => "Welcome" \in Answers(l)
      BY JoinLinkType DEF Answers, JoinLinks
    <3>. QED
      BY <1>0, <1>t, <3>1, <3>2, SaidAt
  <2>3. CASE Snapshot(j) \/ Admit(j) \/ AttachApproved(j)
    BY <1>0, <2>3 DEF Snapshot, Admit, AttachApproved
  <2>. QED
    BY <1>3, <2>1, <2>2, <2>3 DEF ApproveThread
<1>4. ASSUME NEW e \in Ends, ReaderThread(e)
      PROVE  Goal
  <2>1. CASE ReadControl(e) \/ ReadBye(e)
    <3>1. /\ wire' = Take(e[1], e[2]) /\ wire[End(e[1], e[2])] # <<>> /\ reader[e] # "no"
          /\ e = End(e[1], e[2])
      BY <2>1, EndType DEF ReadControl, ReadBye, Reading, Arrived
    <3>2. e = CallerEnd(l) => ~Awaiting(l)'
      BY <1>l, <1>t, <3>1, AwaitingEnds DEF Held
    <3>. QED
      BY <1>t, <3>1, <3>2, TookAt
  <2>2. CASE ReadFails(e)
    BY <1>0, <2>2 DEF ReadFails
  <2>3. CASE TellPeers(e)
    <3>. DEFINE f == CallerEnd(l)
                msg == Msg("PeerLeft", {Other(e[1], Host)})
    <3>1. \/ wire'[f] = wire[f]
          \/ /\ f[1] = peers[Host][f[2]] /\ ~Cut(f[1], Host)
             /\ wire'[f] = Append(wire[f], msg)
      BY <1>l, <2>3 DEF TellPeers
    <3>2. msg \in Messages
      <4>1. Other(e[1], Host) \in Nodes
        BY EndType, LinkEnds DEF Other, Nodes
      <4>. QED
        BY <4>1, MsgType DEF MsgTypes
    <3>3. ASSUME f[1] = peers[Host][f[2]], ~Cut(f[1], Host)
          PROVE  Attached(l) /\ ~Cut(l, Target(l))
      <4>1. peers[Host][Dialer(l)] = l /\ Dialer(l) \in Nodes /\ Dialer(l) \in Joiners
        BY <3>3, LinkEnds DEF CallerEnd, End, Nodes
      <4>2. <<l, Host>> \in Ends
        BY <1>t, <4>1, TypeParts, MeshAssumption DEF RegistryType, Nodes, Links
      <4>3. Target(l) = Host
        BY <4>1, <4>2, MeshAssumption DEF Ends
      <4>. QED
        BY <3>3, <4>1, <4>3 DEF Held, CallerEnd, End
    <3>. HIDE DEF msg
    <3>. QED
      BY <3>1, <3>2, <3>3 DEF Speaks
  <2>4. CASE ShowConnected(e) \/ ShowGone(e)
    BY <1>0, <2>4 DEF ShowConnected, ShowGone
  <2>. QED
    BY <1>4, <2>1, <2>2, <2>3, <2>4 DEF ReaderThread
<1>5. ASSUME NEW n \in Nodes, LeaveThread(n)
      PROVE  Goal
  <2>1. CASE LeaveBye(n)
    <3>1. PICK k \in byes[n] : wire' = Put(wire, k, n, Msg("Bye", {}))
      BY <2>1 DEF LeaveBye
    <3>2. k \in Links /\ <<k, n>> \in Ends /\ Msg("Bye", {}) \in Messages
      BY <1>t, MsgType DEF HangupType, MsgTypes
    <3>3. n \in {Dialer(k), Target(k)}
      BY <3>2 DEF Ends
    <3>4. k = l /\ n = Target(l) => Attached(l)
      BY <3>1 DEF Held
    <3>. QED
      BY <1>t, <3>1, <3>2, <3>3, <3>4, SaidAt
  <2>2. CASE LeaveDrain(n) \/ LeaveEnd(n)
    BY <1>0, <2>2 DEF LeaveDrain, LeaveEnd
  <2>. QED
    BY <1>5, <2>1, <2>2 DEF LeaveThread
<1>6. ASSUME Operator, ~\E j \in Joiners : Decline(j)
      PROVE  Goal
  BY <1>0, <1>6 DEF Operator, OpenRoom, Join, Approve, Leave, Crash, Break
<1>7. (\E j \in Joiners : ServeJoin(j) \/ Decline(j)) \/ (\E k \in MeshLinks : ServeMesh(k))
        => Goal
  BY <1>t, ServeSpeaks
<1>8. UNCHANGED vars => Goal
  BY <1>0 DEF vars
<1>. HIDE DEF Goal
<1>9. ASSUME System
      PROVE  Goal
  BY <1>1, <1>2, <1>3, <1>4, <1>5, <1>7, <1>9 DEF System
<1>10. Goal
  BY <1>6, <1>7, <1>8, <1>9 DEF Next
<1>. QED
  BY <1>10 DEF Goal

\* Sending on a link that is not cut leaves something on it.
LEMMA PutFills ==
    ASSUME NEW l \in Links, NEW msg, WireType, ~Cut(l, Target(l)),
           wire' = Put(wire, l, Target(l), msg)
    PROVE  wire'[CallerEnd(l)] # <<>>
<1>1. FarEnd(l, Target(l)) = CallerEnd(l) /\ CallerEnd(l) \in Ends
  BY LinkEnds DEF CallerEnd
<1>2. wire'[CallerEnd(l)] = Append(wire[CallerEnd(l)], msg)
  BY <1>1 DEF Put, WireType
<1>3. wire[CallerEnd(l)] \in Seq(Messages)
  BY <1>1 DEF WireType
<1>. QED
  BY <1>2, <1>3

\* Who answers puts the answer on the wire, or the link is cut.
LEMMA GivenStep ==
    ASSUME IInv, Fresh, [Next]_vars, NEW l \in Links, Answered(l)'
    PROVE  Answered(l) \/ Cut(l, Target(l))' \/ wire'[CallerEnd(l)] # <<>>
<1>. DEFINE Goal == Answered(l) \/ Cut(l, Target(l))' \/ wire'[CallerEnd(l)] # <<>>
<1>t. TypeOK /\ Asked /\ HostType /\ ServeType /\ WireType
  BY TypeParts DEF IInv
<1>1. CASE l \in JoinLinks
  <2>. DEFINE j == Dialer(l)
  <2>1. j \in Joiners /\ l = JoinLink(j) /\ Target(l) = Host
    BY <1>1, LinkEnds
  <2>2. appr'[j].pc \in {"attach", "done"}
    BY <1>1 DEF Answered
  <2>3. CASE SendWelcome(j)
    <3>1. CASE Cut(l, Host) /\ UNCHANGED shut
      BY <2>1, <3>1 DEF Cut
    <3>2. CASE ~Cut(l, Host) /\ wire' = Put(wire, l, Host, Msg("Welcome", appr[j].met))
      BY <1>t, <2>1, <3>2, PutFills
    <3>3. CASE ApprPc(j, "broken")
      BY <1>t, <2>1, <2>2, <3>3 DEF ApprPc, HostType
    <3>. QED
      BY <2>1, <2>3, <3>1, <3>2, <3>3 DEF SendWelcome
  <2>4. CASE AttachApproved(j)
    BY <1>1, <2>4 DEF AttachApproved, Answered
  <2>5. ASSUME NEW i \in Joiners, i # j, SendWelcome(i) \/ AttachApproved(i)
        PROVE  appr'[j] = appr[j]
    BY <1>t, <2>1, <2>5 DEF SendWelcome, AttachApproved, ApprPc, HostType
  <2>6. ASSUME NEW i \in Joiners, Snapshot(i) \/ Announce(i) \/ Admit(i)
        PROVE  appr'[j].pc = appr[j].pc
    <3>1. CASE Snapshot(i)
      BY <1>t, <2>1, <2>2, <3>1 DEF Snapshot, HostType
    <3>2. CASE Announce(i)
      <4>1. PICK k : appr' = [appr EXCEPT ![i].todo = @ \ {k}]
        BY <3>2 DEF Announce
      <4>. QED
        BY <1>t, <2>1, <4>1 DEF HostType
    <3>3. CASE Admit(i)
      BY <1>t, <2>1, <2>2, <3>3 DEF Admit, ApprPc, HostType
    <3>. QED
      BY <2>6, <3>1, <3>2, <3>3
  <2>7. ASSUME NEW i \in Joiners, Approve(i) \/ Decline(i)
        PROVE  appr'[j].pc = appr[j].pc
    BY <1>t, <2>1, <2>2, <2>7 DEF Approve, Decline, ApprPc, HostType
  <2>8. ASSUME \A i \in Joiners : ~Approve(i) /\ ~Decline(i) /\ ~ApproveThread(i)
        PROVE  UNCHANGED appr
    BY <2>8, ApprFrame
  <2>9. CASE appr'[j].pc = appr[j].pc
    BY <1>1, <2>2, <2>9 DEF Answered
  <2>. HIDE DEF j
  <2>. QED
    BY <2>1, <2>3, <2>4, <2>5, <2>6, <2>7, <2>8, <2>9 DEF ApproveThread
<1>2. CASE l \in MeshLinks
  <2>1. l \notin JoinLinks /\ serve'[l] \in {"attach", "done"}
    BY <1>2, LinkEnds DEF Answered
  <2>2. ASSUME ServeMesh(l)
        PROVE  Goal
    <3>. DEFINE n == Target(l)
    <3>1. CASE SendAck(l)
      <4>1. CASE Cut(l, n) /\ UNCHANGED shut
        BY <4>1 DEF Cut
      <4>2. CASE ~Cut(l, n) /\ wire' = Put(wire, l, n, Msg("MeshAck", {}))
        BY <1>t, <4>2, PutFills
      <4>3. CASE End(l, n) \in shut'
        BY <4>3 DEF Cut
      <4>. QED
        BY <3>1, <4>1, <4>2, <4>3 DEF SendAck
    <3>2. CASE (\E w : Reject(w, l)) \/ ServeLost(l)
      BY <3>2 DEF Reject, ServeLost, Cut
    <3>3. CASE AttachInbound(l)
      BY <2>1, <3>3 DEF AttachInbound, Answered
    <3>4. ASSUME NEW pc \in {"grace", "free", "ack"}, ServePc(l, pc)
          PROVE  FALSE
      BY <1>t, <2>1, <3>4 DEF ServePc, ServeType
    <3>5. CASE MeshHelloRead(l) \/ GraceOver(l) \/ FreeCheck(l)
      BY <3>2, <3>4, <3>5 DEF MeshHelloRead, GraceOver, FreeCheck
    <3>. QED
      BY <2>2, <3>1, <3>2, <3>3, <3>5 DEF ServeMesh
  <2>3. CASE serve'[l] = serve[l]
    BY <2>1, <2>3 DEF Answered
  <2>4. ASSUME DialConnect(Dialer(l), Target(l)), l = CurrentLink(Dialer(l), Target(l))
        PROVE  FALSE
    BY <1>t, <2>1, <2>4 DEF DialConnect, Connect, ServeType
  <2>. QED
    BY <1>2, <1>t, <2>2, <2>3, <2>4, ServeMoves
<1>. QED
  BY <1>1, <1>2 DEF Links

\* Every step keeps the answer first.
LEMMA AnswerStep ==
    ASSUME IInv, AInv, [Next]_vars
    PROVE  AnswerFirst'
<1>t. TypeOK /\ Asked /\ WireType /\ Fresh /\ Held /\ AnswerFirst
  BY TypeParts DEF IInv, AInv
<1>1. SUFFICES ASSUME NEW l \in Links, Awaiting(l)'
               PROVE  FirstOn(l, wire[CallerEnd(l)])'
  BY DEF AnswerFirst, CallerEnd
<1>. DEFINE q == wire[CallerEnd(l)]
            r == wire'[CallerEnd(l)]
<1>2. q \in Seq(Messages)
  BY <1>t, LinkEnds DEF WireType, CallerEnd
<1>3. FirstOn(l, q)
  BY <1>t, <1>1, AwaitingEnds DEF AnswerFirst, CallerEnd
<1>4. Cut(l, Target(l)) => Cut(l, Target(l))'
  BY ShutGrows DEF Cut
<1>5. Attached(l) => Answered(l)
  BY DEF Attached, Answered
<1>6. CASE r = q
  <2>1. r = <<>> /\ Answered(l)' => Cut(l, Target(l))'
    BY <1>t, <1>3, <1>4, <1>6, GivenStep DEF FirstOn
  <2>. HIDE DEF q, r
  <2>. QED
    BY <1>3, <1>6, <2>1 DEF FirstOn, r
<1>7. ASSUME NEW msg \in Messages, r = Append(q, msg),
             msg.type \in Answers(l) \/ (Attached(l) /\ ~Cut(l, Target(l)))
      PROVE  FirstOn(l, wire[CallerEnd(l)])'
  <2>. HIDE DEF q, r
  <2>1. r # <<>>
    BY <1>2, <1>7
  <2>2. CASE q = <<>>
    <3>1. Head(r) = msg
      BY <1>2, <1>7, <2>2
    <3>2. msg.type \in Answers(l)
      BY <1>3, <1>5, <1>7, <2>2 DEF FirstOn
    <3>. QED
      BY <2>1, <3>1, <3>2 DEF FirstOn, r
  <2>3. CASE q # <<>>
    <3>1. Head(r) = Head(q)
      BY <1>2, <1>7, <2>3
    <3>. QED
      BY <1>3, <2>1, <2>3, <3>1 DEF FirstOn, r
  <2>. QED
    BY <2>2, <2>3
<1>8. Speaks(l, q, r)
  BY <1>t, SpeaksStep
<1>. HIDE DEF q, r
<1>. QED
  BY <1>1, <1>6, <1>7, <1>8 DEF Speaks

\* Nothing has been dialled, answered or held at first.
LEMMA AnswerStarts == Init => AInv
<1>. SUFFICES ASSUME Init
              PROVE  AInv
  OBVIOUS
<1>1. Fresh
  BY MeshLinkType DEF Init, Fresh
<1>2. Held
  <2>1. \A l \in Links : End(l, Dialer(l)) \in Ends /\ Target(l) \in Nodes /\ l # NoLink
    BY LinkEnds, MeshAssumption
  <2>. QED
    BY <2>1 DEF Init, Held
<1>3. AnswerFirst
  <2>1. \A l \in Links : wire[End(l, Dialer(l))] = <<>> /\ ~Answered(l)
    BY LinkEnds DEF Init, Answered, Links
  <2>. QED
    BY <2>1 DEF AnswerFirst, FirstOn
<1>. QED
  BY <1>1, <1>2, <1>3 DEF AInv

\* A waiting caller awaits the answer of its own link.
LEMMA AnswerShows ==
    ASSUME IInv, AInv
    PROVE  AnswerComesFirst
<1>1. ASSUME NEW j \in Joiners, join[j] = "wait", wire[End(JoinLink(j), j)] # <<>>
      PROVE  Head(wire[End(JoinLink(j), j)]).type \in {"Welcome", "Rejected"}
  <2>1. PICK l \in Links : l = JoinLink(j) /\ l \in JoinLinks /\ Dialer(l) = j
    BY JoinLinkType DEF JoinLinks
  <2>2. Awaiting(l)
    BY <1>1, <2>1 DEF Awaiting, Asking
  <2>. QED
    BY <1>1, <2>1, <2>2 DEF AInv, AnswerFirst, FirstOn, Answers
<1>2. ASSUME NEW j \in Joiners, NEW k \in Joiners, dial[j][k].pc = "sent",
             wire[End(CurrentLink(j, k), j)] # <<>>
      PROVE  Head(wire[End(CurrentLink(j, k), j)]).type \in {"MeshAck", "Rejected"}
  <2>1. j # k /\ dial[j][k].try \in 1..MaxTries
    BY <1>2, TypeParts DEF IInv, Dialling, DialType
  <2>2. /\ CurrentLink(j, k) \in MeshLinks /\ Dialer(CurrentLink(j, k)) = j
        /\ Target(CurrentLink(j, k)) = k /\ CurrentLink(j, k)[3] = dial[j][k].try
    BY <2>1 DEF CurrentLink, MeshLink, MeshLinks, Dialer, Target
  <2>3. PICK l \in MeshLinks : /\ l = CurrentLink(j, k) /\ Dialer(l) = j /\ Target(l) = k
                               /\ l[3] = dial[j][k].try
    BY <2>2
  <2>4. l \in Links /\ l \notin JoinLinks
    BY LinkEnds DEF Links
  <2>5. Awaiting(l)
    BY <1>2, <2>1, <2>3, <2>4, MeshAssumption DEF Awaiting, Awaits
  <2>. QED
    BY <1>2, <2>3, <2>4, <2>5 DEF AInv, AnswerFirst, FirstOn, Answers
<1>. QED
  BY <1>1, <1>2 DEF AnswerComesFirst

\* So the answer is first throughout.
LEMMA AnswerInvariant == Spec => []AInv
<1>1. IInv /\ AInv /\ [Next]_vars => AInv'
  <2>1. ASSUME IInv, AInv, [Next]_vars
        PROVE  AInv'
    <3>1. TypeOK /\ Asked /\ Fresh /\ Held
      BY <2>1 DEF IInv, AInv
    <3>2. Fresh' /\ Held' /\ AnswerFirst'
      BY <2>1, <3>1, FreshStep, HeldStep, AnswerStep
    <3>. QED
      BY <3>2 DEF AInv
  <2>. QED
    BY <2>1
<1>. QED
  BY <1>1, AnswerStarts, Invariant, PTL DEF Spec

\* Whatever is announced and whoever leaves while a call is in progress, what a
\* caller reads first is the answer to its own Hello or MeshHello: on_hello,
\* on_mesh_hello and approve send it before the link is given to anybody else
\* who might speak on it (await_welcome and try_dial take anything else for a
\* failure).
THEOREM AnswerStaysFirst == Spec => []AnswerComesFirst
<1>1. IInv /\ AInv => AnswerComesFirst
  BY AnswerShows
<1>. QED
  BY <1>1, AnswerInvariant, Invariant, PTL

-----------------------------------------------------------------------------
(* Announced before dialled: what became of the host's word about j on its  *)
(* way to k, from approve() to k's roster.                                  *)

\* A node that has begun to leave, or crashed; nothing brings it back.
Lost(n) == life[n] \notin {"idle", "live"}

\* What may be on the wire to e, and what may be read there.
On(q) == {q[i] : i \in 1..Len(q)}
Refuses(e) ==
    e[1] \in MeshLinks => /\ e[2] = Dialer(e[1])
                          /\ serve[e[1]] \notin {"no", "done"} /\ serve'[e[1]] = "done"
Says(e, msg) ==
    \/ msg.type \in {"Hello", "MeshHello", "MeshAck"}
    \/ msg.type = "Rejected" /\ Refuses(e)
    \/ msg.type = "PeerJoined" /\ e[2] # Host
    \/ \E j \in Joiners : /\ e = End(JoinLink(j), j)
                          /\ msg = Msg("Welcome", appr[j].met)
                          /\ appr[j].pc = "welcome" /\ ApprPc(j, "attach")
    \/ /\ \E f \in Ends : TellPeers(f) /\ msg = Msg("PeerLeft", {Other(f[1], Host)})
       /\ e[2] \in Connected(Host) /\ e[1] = peers[Host][e[2]]
    \/ msg.type = "Bye" /\ Lost(Other(e[1], e[2]))
Hears(e) ==
    /\ Head(wire[e]).type = "PeerJoined" => ReadControl(e)
    /\ Head(wire[e]).type = "Welcome" =>
          e[2] \in Joiners /\ e = End(JoinLink(e[2]), e[2]) /\ AwaitWelcome(e[2])
Carries(e) ==
    \/ wire'[e] = wire[e]
    \/ \E msg \in Messages : wire'[e] = Append(wire[e], msg) /\ Says(e, msg)
    \/ wire[e] # <<>> /\ wire'[e] = Tail(wire[e]) /\ Hears(e)

LEMMA SentAt ==
    ASSUME NEW e \in Ends, NEW k, NEW n, NEW msg \in Messages,
           NEW w \in [Ends -> Seq(Messages)], w[e] = wire[e],
           wire' = Put(w, k, n, msg), e = FarEnd(k, n) => Says(e, msg)
    PROVE  Carries(e)
  BY PutAt DEF Carries

LEMMA HeardAt ==
    ASSUME WireType, NEW e \in Ends, NEW k, NEW n, wire' = Take(k, n),
           e = End(k, n) => wire[e] # <<>> /\ Hears(e)
    PROVE  Carries(e)
  BY TakeAt DEF Carries

\* A message of another kind is read without one of these being lost.
LEMMA PlainlyHeard ==
    ASSUME WireType, NEW e \in Ends, NEW l, NEW n, NEW type,
           type \notin {"PeerJoined", "Welcome"},
           Arrived(l, n, type), wire' = Take(l, n)
    PROVE  Carries(e)
<1>1. e = End(l, n) => wire[e] # <<>> /\ Hears(e)
  BY DEF Arrived, Hears
<1>. QED
  BY <1>1, HeardAt

\* What the called node's own threads do.
LEMMA ServeCarries ==
    ASSUME TypeOK, NEW e \in Ends,
           \/ \E j \in Joiners : ServeJoin(j) \/ Decline(j)
           \/ \E k \in MeshLinks : ServeMesh(k)
    PROVE  Carries(e)
<1>. USE DEF chan, hostvars
<1>t. WireType /\ wire \in [Ends -> Seq(Messages)]
  BY TypeParts DEF WireType
<1>m. /\ Msg("Rejected", {}) \in Messages /\ Msg("MeshAck", {}) \in Messages
      /\ Says(e, Msg("MeshAck", {}))
      /\ Refuses(e) => Says(e, Msg("Rejected", {}))
  BY MsgType DEF MsgTypes, Msg, Says
<1>0. UNCHANGED wire => Carries(e)
  BY DEF Carries
<1>r. ASSUME NEW k \in MeshLinks, serve[k] \notin {"no", "done"}, Reject(wire, k)
      PROVE  Carries(e)
  <2>1. serve'[k] = "done" /\ wire' = Put(wire, k, Target(k), Msg("Rejected", {}))
    BY <1>r, TypeParts, MeshLinkType DEF Reject, ServePc, ServeType
  <2>2. FarEnd(k, Target(k)) = End(k, Dialer(k))
    BY LinkEnds DEF Links
  <2>3. e = FarEnd(k, Target(k)) => Refuses(e)
    BY <1>r, <2>1, <2>2 DEF Refuses, End
  <2>. QED
    BY <1>m, <1>t, <2>1, <2>3, SentAt
<1>1. ASSUME NEW j \in Joiners, ServeJoin(j) \/ Decline(j)
      PROVE  Carries(e)
  <2>. DEFINE k == JoinLink(j)
              w == Take(k, Host)
  <2>1. End(k, Host) \in Ends /\ FarEnd(k, Host) # End(k, Host)
    BY JoinLinkType, LinkEnds
  <2>r. e = FarEnd(k, Host) => Refuses(e)
    BY JoinLinkType DEF FarEnd, Refuses
  <2>2. CASE HelloChecked(j)
    <3>1. Arrived(k, Host, "Hello")
      BY <2>2 DEF HelloChecked
    <3>2. CASE wire' = w
      BY <1>t, <3>1, <3>2, PlainlyHeard
    <3>3. CASE Reject(w, k)
      <4>1. wire' = Put(w, k, Host, Msg("Rejected", {}))
        BY <3>3, JoinLinkType DEF Reject
      <4>2. w \in [Ends -> Seq(Messages)]
        BY <1>t, <2>1, <3>1, TakeType
      <4>3. w[e] = IF e = End(k, Host) THEN Tail(wire[e]) ELSE wire[e]
        BY <1>t, TakeAt
      <4>4. CASE e # End(k, Host)
        <5>. HIDE DEF w, k
        <5>. QED
          BY <1>m, <2>r, <4>1, <4>2, <4>3, <4>4, SentAt
      <4>5. CASE e = End(k, Host)
        <5>. HIDE DEF w, k
        <5>1. wire'[e] = w[e]
          BY <2>1, <4>1, <4>2, <4>5, <1>m, PutAt
        <5>. QED
          BY <3>1, <4>3, <4>5, <5>1 DEF Carries, Hears, Arrived
      <4>. QED
        BY <4>4, <4>5
    <3>. QED
      BY <2>2, <3>2, <3>3 DEF HelloChecked
  <2>3. CASE Decline(j)
    <3>1. wire' = Put(wire, k, Host, Msg("Rejected", {}))
      BY <2>3 DEF Decline
    <3>. QED
      BY <1>m, <1>t, <2>r, <3>1, SentAt
  <2>4. CASE Park(j) \/ ServeLost(k)
    BY <1>0, <2>4 DEF Park, ServeLost
  <2>. QED
    BY <1>1, <2>2, <2>3, <2>4 DEF ServeJoin
<1>2. ASSUME NEW k \in MeshLinks, ServeMesh(k)
      PROVE  Carries(e)
  <2>1. CASE MeshHelloRead(k)
    <3>1. Arrived(k, Target(k), "MeshHello") /\ wire' = Take(k, Target(k))
      BY <2>1 DEF MeshHelloRead
    <3>. QED
      BY <1>t, <3>1, PlainlyHeard
  <2>2. CASE GraceOver(k) \/ FreeCheck(k)
    <3>1. /\ serve[k] \in {"grace", "free"}
          /\ UNCHANGED wire \/ Reject(wire, k)
      BY <2>2 DEF GraceOver, FreeCheck
    <3>. QED
      BY <1>0, <1>r, <3>1
  <2>3. CASE SendAck(k)
    <3>1. UNCHANGED wire \/ wire' = Put(wire, k, Target(k), Msg("MeshAck", {}))
      BY <2>3 DEF SendAck
    <3>. QED
      BY <1>0, <1>m, <1>t, <3>1, SentAt
  <2>4. CASE ServeLost(k) \/ AttachInbound(k)
    BY <1>0, <2>4 DEF ServeLost, AttachInbound
  <2>. QED
    BY <1>2, <2>1, <2>2, <2>3, <2>4 DEF ServeMesh
<1>. QED
  BY <1>1, <1>2

\* Every step treats every wire so.
LEMMA CarriesStep ==
    ASSUME TypeOK, [Next]_vars, NEW e \in Ends
    PROVE  Carries(e)
<1>. USE DEF chan, hostvars, teardown
<1>t. /\ WireType /\ JoinType /\ DialType /\ HostType /\ HangupType
      /\ wire \in [Ends -> Seq(Messages)]
  BY TypeParts DEF WireType
<1>0. UNCHANGED wire => Carries(e)
  BY DEF Carries
<1>p. \A type \in {"Hello", "MeshHello"} :
         Msg(type, {}) \in Messages /\ Says(e, Msg(type, {}))
  BY MsgType DEF MsgTypes, Msg, Says
<1>q. ASSUME NEW k, NEW n, NEW type \in {"Hello", "MeshHello"},
             wire' = Put(wire, k, n, Msg(type, {}))
      PROVE  Carries(e)
  BY <1>p, <1>q, <1>t, SentAt
<1>1. ASSUME NEW j \in Joiners, JoinThread(j)
      PROVE  Carries(e)
  <2>1. CASE JoinConnect(j)
    <3>1. wire' = Put(wire, JoinLink(j), j, Msg("Hello", {}))
      BY <2>1 DEF JoinConnect
    <3>. QED
      BY <1>q, <3>1
  <2>2. CASE AwaitWelcome(j)
    <3>1. Arrived(JoinLink(j), j, "Welcome") /\ wire' = Take(JoinLink(j), j)
      BY <2>2 DEF AwaitWelcome
    <3>2. e = End(JoinLink(j), j) => wire[e] # <<>> /\ Hears(e)
      BY <2>2, <3>1 DEF Arrived, Hears, End
    <3>. QED
      BY <1>t, <3>1, <3>2, HeardAt
  <2>3. CASE JoinFails(j) \/ AwaitAttach(j) \/ AwaitRefused(j)
    BY <1>0, <2>3 DEF JoinFails, AwaitAttach, AwaitRefused
  <2>. QED
    BY <1>1, <2>1, <2>2, <2>3 DEF JoinThread
<1>2. ASSUME NEW j \in Joiners, NEW i \in Joiners, DialThread(j, i)
      PROVE  Carries(e)
  <2>1. CASE DialConnect(j, i)
    <3>1. wire' = Put(wire, CurrentLink(j, i), j, Msg("MeshHello", {}))
      BY <2>1 DEF DialConnect
    <3>. QED
      BY <1>q, <3>1
  <2>2. CASE DialAcked(j, i)
    <3>1. Arrived(CurrentLink(j, i), j, "MeshAck") /\ wire' = Take(CurrentLink(j, i), j)
      BY <2>2 DEF DialAcked
    <3>. QED
      BY <1>t, <3>1, PlainlyHeard
  <2>3. CASE DialBegin(j, i) \/ DialQuits(j, i) \/ DialUnreachable(j, i) \/ DialRefused(j, i)
    BY <1>0, <2>3 DEF DialBegin, DialQuits, DialUnreachable, DialRefused
  <2>. QED
    BY <1>2, <2>1, <2>2, <2>3 DEF DialThread
<1>3. ASSUME NEW j \in Joiners, ApproveThread(j)
      PROVE  Carries(e)
  <2>1. CASE Announce(j)
    <3>1. PICK k : wire' = Put(wire, JoinLink(k), Host, Msg("PeerJoined", {j}))
      BY <2>1 DEF Announce
    <3>2. e = FarEnd(JoinLink(k), Host) => e[2] # Host
      <4>1. ASSUME e = FarEnd(JoinLink(k), Host)
            PROVE  e[2] # Host
        <5>1. e[1] = <<k, Host, 1>> /\ e[1] \in Links
          BY <4>1, EndType DEF FarEnd, JoinLink
        <5>2. Dialer(e[1]) = k /\ k # Host
          BY <5>1, LinkEnds, MeshAssumption DEF Dialer
        <5>. QED
          BY <4>1, <5>1, <5>2 DEF FarEnd, JoinLink, Other
      <4>. QED
        BY <4>1
    <3>3. Msg("PeerJoined", {j}) \in Messages /\ Msg("PeerJoined", {j}).type = "PeerJoined"
      BY MsgType DEF MsgTypes, Nodes, Msg
    <3>. QED
      BY <1>t, <3>1, <3>2, <3>3, SentAt DEF Says
  <2>2. CASE SendWelcome(j)
    <3>1. \/ UNCHANGED wire
          \/ /\ wire' = Put(wire, JoinLink(j), Host, Msg("Welcome", appr[j].met))
             /\ appr[j].pc = "welcome" /\ ApprPc(j, "attach")
      BY <2>2 DEF SendWelcome
    <3>2. Msg("Welcome", appr[j].met) \in Messages
      BY <1>t, MsgType DEF HostType, MsgTypes
    <3>3. FarEnd(JoinLink(j), Host) = End(JoinLink(j), j)
      BY JoinLinkType, LinkEnds
    <3>4. CASE UNCHANGED wire
      BY <1>0, <3>4
    <3>5. CASE ~UNCHANGED wire
      <4>1. e = FarEnd(JoinLink(j), Host) => Says(e, Msg("Welcome", appr[j].met))
        BY <3>1, <3>3, <3>5 DEF Says
      <4>. QED
        BY <1>t, <3>1, <3>2, <3>5, <4>1, SentAt
    <3>. QED
      BY <3>4, <3>5
  <2>3. CASE Snapshot(j) \/ Admit(j) \/ AttachApproved(j)
    BY <1>0, <2>3 DEF Snapshot, Admit, AttachApproved
  <2>. QED
    BY <1>3, <2>1, <2>2, <2>3 DEF ApproveThread
<1>4. ASSUME NEW f \in Ends, ReaderThread(f)
      PROVE  Carries(e)
  <2>1. CASE ReadControl(f)
    <3>1. wire' = Take(f[1], f[2]) /\ wire[End(f[1], f[2])] # <<>> /\ f = End(f[1], f[2])
      BY <2>1, EndType DEF ReadControl, Arrived
    <3>2. e = f => Hears(e)
      BY <2>1, <3>1 DEF ReadControl, Arrived, Hears
    <3>. QED
      BY <1>t, <3>1, <3>2, HeardAt
  <2>2. CASE ReadBye(f)
    <3>1. Arrived(f[1], f[2], "Bye") /\ wire' = Take(f[1], f[2])
      BY <2>2 DEF ReadBye
    <3>. QED
      BY <1>t, <3>1, PlainlyHeard
  <2>3. CASE ReadFails(f)
    BY <1>0, <2>3 DEF ReadFails
  <2>4. CASE TellPeers(f)
    <3>. DEFINE msg == Msg("PeerLeft", {Other(f[1], Host)})
    <3>1. \/ wire'[e] = wire[e]
          \/ /\ wire'[e] = Append(wire[e], msg)
             /\ e[2] \in Connected(Host) /\ e[1] = peers[Host][e[2]]
      BY <2>4 DEF TellPeers
    <3>2. msg \in Messages
      <4>1. Other(f[1], Host) \in Nodes
        BY EndType, LinkEnds DEF Other, Nodes
      <4>. QED
        BY <4>1, MsgType DEF MsgTypes
    <3>3. e[2] \in Connected(Host) /\ e[1] = peers[Host][e[2]] => Says(e, msg)
      BY <2>4 DEF Says
    <3>. QED
      BY <3>1, <3>2, <3>3 DEF Carries
  <2>5. CASE ShowConnected(f) \/ ShowGone(f)
    BY <1>0, <2>5 DEF ShowConnected, ShowGone
  <2>. QED
    BY <1>4, <2>1, <2>2, <2>3, <2>4, <2>5 DEF ReaderThread
<1>5. ASSUME NEW n \in Nodes, LeaveThread(n)
      PROVE  Carries(e)
  <2>1. CASE LeaveBye(n)
    <3>1. PICK k \in byes[n] : wire' = Put(wire, k, n, Msg("Bye", {}))
      BY <2>1 DEF LeaveBye
    <3>2. k \in Links /\ <<k, n>> \in Ends /\ Msg("Bye", {}) \in Messages
      BY <1>t, MsgType DEF HangupType, MsgTypes
    <3>3. n \in {Dialer(k), Target(k)} /\ Dialer(k) # Target(k)
      BY <3>2, LinkEnds DEF Ends
    <3>4. e = FarEnd(k, n) => Other(e[1], e[2]) = n
      BY <3>3 DEF FarEnd, Other
    <3>5. Lost(n)
      BY <2>1 DEF LeaveBye, Lost
    <3>6. e = FarEnd(k, n) => Says(e, Msg("Bye", {}))
      BY <3>4, <3>5 DEF Says, Msg
    <3>. QED
      BY <1>t, <3>1, <3>2, <3>6, SentAt
  <2>2. CASE LeaveDrain(n) \/ LeaveEnd(n)
    BY <1>0, <2>2 DEF LeaveDrain, LeaveEnd
  <2>. QED
    BY <1>5, <2>1, <2>2 DEF LeaveThread
<1>6. ASSUME Operator, ~\E j \in Joiners : Decline(j)
      PROVE  Carries(e)
  BY <1>0, <1>6 DEF Operator, OpenRoom, Join, Approve, Leave, Crash, Break
<1>7. (\E j \in Joiners : ServeJoin(j) \/ Decline(j)) \/ (\E k \in MeshLinks : ServeMesh(k))
        => Carries(e)
  BY ServeCarries
<1>8. UNCHANGED vars => Carries(e)
  BY <1>0 DEF vars
<1>9. ASSUME System
      PROVE  Carries(e)
  BY <1>1, <1>2, <1>3, <1>4, <1>5, <1>7, <1>9 DEF System
<1>. QED
  BY <1>6, <1>7, <1>8, <1>9 DEF Next

\* How a node's life may go on.
LEMMA LifeGoes ==
    ASSUME TypeOK, [Next]_vars, NEW n \in Nodes
    PROVE  \/ life'[n] = life[n]
           \/ life[n] = "idle" /\ life'[n] = "live"
           \/ life[n] = "live" /\ life'[n] \in {"leaving", "out"}
           \/ LeaveDrain(n) /\ life'[n] = "drained"
           \/ LeaveEnd(n) /\ life'[n] = "out"
           \/ life[n] \notin {"idle", "out"} /\ life'[n] = "crashed"
<1>. USE DEF node
<1>. DEFINE Goal == \/ life'[n] = life[n]
                    \/ life[n] = "idle" /\ life'[n] = "live"
                    \/ life[n] = "live" /\ life'[n] \in {"leaving", "out"}
                    \/ LeaveDrain(n) /\ life'[n] = "drained"
                    \/ LeaveEnd(n) /\ life'[n] = "out"
                    \/ life[n] \notin {"idle", "out"} /\ life'[n] = "crashed"
<1>t. LifeType
  BY TypeParts
<1>0. UNCHANGED life => Goal
  OBVIOUS
<1>1. ASSUME NEW i \in Nodes, i # n, NEW s, life' = [life EXCEPT ![i] = s]
      PROVE  life'[n] = life[n]
  BY <1>t, <1>1 DEF LifeType
<1>2. ASSUME NEW i \in Joiners, NEW l, Shutdown(i, l)
      PROVE  Goal
  BY <1>t, <1>2 DEF Shutdown, LifeType, Nodes
<1>3. ASSUME NEW j \in Joiners, JoinThread(j) \/ ServeJoin(j) \/ ApproveThread(j)
      PROVE  Goal
  BY <1>0, <1>2, <1>3 DEF JoinThread, JoinConnect, JoinFails, AwaitWelcome,
     AwaitAttach, AwaitRefused, ServeJoin, HelloChecked, Park, ServeLost,
     ApproveThread, Snapshot, Announce, Admit, SendWelcome, AttachApproved
<1>4. ASSUME NEW j \in Joiners, NEW k \in Joiners, DialThread(j, k)
      PROVE  UNCHANGED life
  BY <1>4 DEF DialThread, DialBegin, DialQuits, DialConnect, DialUnreachable,
     DialAcked, DialRefused
<1>5. ASSUME NEW l, ServeMesh(l) \/ Break(l)
      PROVE  UNCHANGED life
  BY <1>5 DEF ServeMesh, ServeLost, MeshHelloRead, GraceOver, FreeCheck, SendAck,
     AttachInbound, Break
<1>6. ASSUME NEW e, ReaderThread(e)
      PROVE  UNCHANGED life
  BY <1>6 DEF ReaderThread, ReadControl, ReadBye, ReadFails, TellPeers,
     ShowConnected, ShowGone
<1>7. ASSUME NEW i \in Nodes, LeaveThread(i) \/ Leave(i) \/ Crash(i)
      PROVE  Goal
  <2>1. UNCHANGED life \/ \E s : life' = [life EXCEPT ![i] = s]
    BY <1>7 DEF LeaveThread, LeaveDrain, LeaveBye, LeaveEnd, Leave, Crash
  <2>2. CASE i = n
    BY <1>0, <1>t, <1>7, <2>2 DEF LeaveThread, LeaveDrain, LeaveBye, LeaveEnd, Leave, Crash,
       Running, LifeType
  <2>. QED
    BY <1>0, <1>1, <2>1, <2>2
<1>8. ASSUME NEW j \in Joiners, Join(j) \/ Approve(j) \/ Decline(j)
      PROVE  Goal
  BY <1>0, <1>t, <1>8 DEF Join, Approve, Decline, Nodes, LifeType
<1>9. OpenRoom \/ UNCHANGED vars => Goal
  BY <1>0, <1>t DEF OpenRoom, vars, Nodes, LifeType
<1>. QED
  BY <1>3, <1>4, <1>5, <1>6, <1>7, <1>8, <1>9 DEF Next, System, Operator

LEMMA LifeMoves ==
    ASSUME TypeOK, [Next]_vars, NEW n \in Nodes
    PROVE  /\ Lost(n) => Lost(n)'
           /\ life'[n] = "idle" => life[n] = "idle"
  BY LifeGoes DEF Lost

\* The four places that call attach_peer.
Attaches(n, m, l) ==
    \/ n \in Joiners /\ AwaitAttach(n) /\ m = Host /\ l = JoinLink(n)
    \/ n = Host /\ m \in Joiners /\ AttachApproved(m) /\ l = JoinLink(m)
    \/ n \in Joiners /\ m \in Joiners /\ DialAcked(n, m) /\ l = CurrentLink(n, m)
    \/ l \in MeshLinks /\ AttachInbound(l) /\ Target(l) = n /\ Dialer(l) = m

\* A running node starts a reader with the link it attaches.
Spawns(e) == Running(e[2]) /\ \E m \in Nodes : Attaches(e[2], m, e[1])
LEMMA AttachSpawns ==
    ASSUME RegistryType, NEW n \in Nodes, NEW m \in Nodes, NEW l, Attach(n, m, l),
           Attaches(n, m, l), NEW e \in Ends
    PROVE  reader'[e] = reader[e] \/ (reader'[e] = "begin" /\ Spawns(e))
<1>1. CASE Running(n)
  <2>1. reader' = [reader EXCEPT ![End(l, n)] = "begin"]
    BY <1>1 DEF Attach
  <2>2. End(l, n)[1] = l /\ End(l, n)[2] = n
    BY DEF End
  <2>3. e = End(l, n) => Spawns(e)
    BY <1>1, <2>2 DEF Spawns
  <2>. QED
    BY <2>1, <2>3 DEF RegistryType
<1>2. CASE ~Running(n)
  BY <1>2 DEF Attach
<1>. QED
  BY <1>1, <1>2

\* How a reader may move.
LEMMA ReaderMoves ==
    ASSUME TypeOK, [Next]_vars, NEW e \in Ends
    PROVE  \/ reader'[e] = reader[e]
           \/ reader'[e] = "begin" /\ Spawns(e)
           \/ ReadBye(e) \/ ReadFails(e) \/ TellPeers(e)
           \/ ShowConnected(e) \/ ShowGone(e)
<1>. DEFINE Goal == \/ reader'[e] = reader[e]
                    \/ reader'[e] = "begin" /\ Spawns(e)
                    \/ ReadBye(e) \/ ReadFails(e) \/ TellPeers(e)
                    \/ ShowConnected(e) \/ ShowGone(e)
<1>t. RegistryType /\ Host \in Nodes /\ Joiners \subseteq Nodes
  BY TypeParts DEF Nodes
<1>a. ASSUME NEW n \in Nodes, NEW m \in Nodes, NEW l, Attach(n, m, l), Attaches(n, m, l)
      PROVE  Goal
  BY <1>a, <1>t, AttachSpawns
<1>1. ASSUME NEW j \in Joiners, JoinThread(j) \/ ServeJoin(j)
      PROVE  Goal
  <2>1. AwaitAttach(j) => Goal
    BY <1>a, <1>t DEF AwaitAttach, Attaches
  <2>. QED
    BY <1>1, <2>1 DEF JoinThread, JoinConnect, JoinFails, AwaitWelcome, AwaitRefused,
       ServeJoin, HelloChecked, Park, ServeLost
<1>2. ASSUME NEW j \in Joiners, ApproveThread(j)
      PROVE  Goal
  <2>1. AttachApproved(j) => Goal
    BY <1>a, <1>t DEF AttachApproved, Attaches
  <2>. QED
    BY <1>2, <2>1 DEF ApproveThread, Snapshot, Announce, Admit, SendWelcome
<1>3. ASSUME NEW j \in Joiners, NEW k \in Joiners, DialThread(j, k)
      PROVE  Goal
  <2>1. DialAcked(j, k) => Goal
    BY <1>a, <1>t DEF DialAcked, Attaches
  <2>. QED
    BY <1>3, <2>1 DEF DialThread, DialBegin, DialQuits, DialConnect, DialUnreachable,
       DialRefused
<1>4. ASSUME NEW l \in MeshLinks, ServeMesh(l)
      PROVE  Goal
  <2>1. AttachInbound(l) => Goal
    BY <1>a, <1>t, MeshLinkType DEF AttachInbound, Attaches
  <2>. QED
    BY <1>4, <2>1 DEF ServeMesh, ServeLost, MeshHelloRead, GraceOver, FreeCheck, SendAck
<1>5. ASSUME NEW f \in Ends, ReaderThread(f)
      PROVE  Goal
  <2>1. UNCHANGED reader \/ \E s : reader' = [reader EXCEPT ![f] = s]
    BY <1>5, EndType DEF ReaderThread, ReadControl, ReadBye, ReadFails, TellPeers,
     ShowConnected, ShowGone, PeerGone
  <2>2. reader'[e] = reader[e] \/ f = e
    BY <1>t, <2>1 DEF RegistryType
  <2>. QED
    BY <1>5, <2>2 DEF ReaderThread, ReadControl
<1>6. ASSUME NEW n, LeaveThread(n) \/ Leave(n) \/ Crash(n)
      PROVE  UNCHANGED reader
  BY <1>6 DEF LeaveThread, LeaveDrain, LeaveBye, LeaveEnd, Leave, Crash
<1>7. ASSUME NEW j, Join(j) \/ Approve(j) \/ Decline(j)
      PROVE  UNCHANGED reader
  BY <1>7 DEF Join, Approve, Decline
<1>8. ASSUME NEW l, Break(l)
      PROVE  UNCHANGED reader
  BY <1>8 DEF Break
<1>9. OpenRoom \/ UNCHANGED vars => UNCHANGED reader
  BY DEF OpenRoom, vars
<1>. QED
  BY <1>1, <1>2, <1>3, <1>4, <1>5, <1>6, <1>7, <1>8, <1>9 DEF Next, System, Operator

\* How a joiner's roster may change.
LEMMA RosterMoves ==
    ASSUME TypeOK, Asked, [Next]_vars, NEW k \in Joiners
    PROVE  \/ roster'[k] = roster[k]
           \/ Lost(k)'
           \/ Join(k) /\ roster'[k] = {}
           \/ life[k] # "idle" /\ roster[k] \subseteq roster'[k]
           \/ \E e \in Ends : /\ ReadControl(e) /\ e[2] = k
                              /\ \/ roster[k] \subseteq roster'[k]
                                 \/ /\ Arrived(e[1], k, "PeerLeft")
                                    /\ roster'[k] = roster[k] \ Payload(e[1], k)
<1>. DEFINE Goal ==
       \/ roster'[k] = roster[k]
       \/ Lost(k)'
       \/ Join(k) /\ roster'[k] = {}
       \/ life[k] # "idle" /\ roster[k] \subseteq roster'[k]
       \/ \E e \in Ends : /\ ReadControl(e) /\ e[2] = k
                          /\ \/ roster[k] \subseteq roster'[k]
                             \/ /\ Arrived(e[1], k, "PeerLeft")
                                /\ roster'[k] = roster[k] \ Payload(e[1], k)
<1>. USE DEF node
<1>t. /\ RegistryType /\ LifeType /\ k \in Nodes /\ k # Host /\ Host \in Nodes
      /\ Joiners \subseteq Nodes /\ roster \in [Nodes -> SUBSET Nodes]
  BY TypeParts, MeshAssumption DEF Nodes, RegistryType
<1>0. UNCHANGED roster => Goal
  OBVIOUS
<1>a. ASSUME NEW n \in Nodes, NEW m, NEW l, Attach(n, m, l)
      PROVE  Goal
  <2>1. CASE Running(n)
    <3>1. roster' = [roster EXCEPT ![n] = @ \cup {m}] /\ life[n] # "idle"
      BY <1>a, <2>1 DEF Attach, Running
    <3>. QED
      BY <1>t, <3>1
  <2>2. CASE ~Running(n)
    BY <1>0, <1>a, <2>2 DEF Attach
  <2>. QED
    BY <2>1, <2>2
<1>1. ASSUME NEW j \in Joiners, JoinThread(j)
      PROVE  Goal
  <2>1. CASE JoinFails(j) \/ AwaitRefused(j)
    <3>1. Shutdown(j, JoinLink(j)) /\ life[j] # "idle"
      BY <2>1 DEF JoinFails, AwaitRefused, Asked
    <3>2. roster' = [roster EXCEPT ![j] = {}]
      BY <3>1 DEF Shutdown
    <3>3. j = k => Lost(k)'
      BY <1>t, <3>1 DEF Shutdown, LifeType, Lost
    <3>. QED
      BY <1>t, <3>2, <3>3
  <2>2. CASE AwaitWelcome(j)
    <3>1. /\ roster' = [roster EXCEPT ![j] = @ \cup {Host} \cup Payload(JoinLink(j), j)]
          /\ life[j] # "idle"
      BY <2>2 DEF AwaitWelcome, Asked
    <3>. QED
      BY <1>t, <3>1
  <2>3. CASE AwaitAttach(j)
    BY <1>a, <1>t, <2>3 DEF AwaitAttach
  <2>4. CASE JoinConnect(j)
    BY <1>0, <2>4 DEF JoinConnect
  <2>. QED
    BY <1>1, <2>1, <2>2, <2>3, <2>4 DEF JoinThread
<1>2. ASSUME NEW j \in Joiners, ServeJoin(j) \/ ApproveThread(j)
      PROVE  Goal
  <2>1. CASE AttachApproved(j)
    BY <1>a, <1>t, <2>1 DEF AttachApproved
  <2>2. CASE Admit(j)
    <3>1. roster' = [roster EXCEPT ![Host] = @ \cup {j}]
      BY <2>2 DEF Admit
    <3>. QED
      BY <1>t, <3>1
  <2>3. CASE ServeJoin(j) \/ Snapshot(j) \/ Announce(j) \/ SendWelcome(j)
    BY <1>0, <2>3 DEF ServeJoin, HelloChecked, Park, ServeLost, Snapshot, Announce,
       SendWelcome
  <2>. QED
    BY <1>2, <2>1, <2>2, <2>3 DEF ApproveThread
<1>3. ASSUME NEW j \in Joiners, NEW i \in Joiners, DialThread(j, i)
      PROVE  Goal
  <2>1. CASE DialAcked(j, i)
    BY <1>a, <1>t, <2>1 DEF DialAcked
  <2>2. CASE ~DialAcked(j, i)
    BY <1>0, <1>3, <2>2 DEF DialThread, DialBegin, DialQuits, DialConnect,
       DialUnreachable, DialRefused
  <2>. QED
    BY <2>1, <2>2
<1>4. ASSUME NEW l \in MeshLinks, ServeMesh(l)
      PROVE  Goal
  <2>1. CASE AttachInbound(l)
    <3>1. Target(l) \in Nodes
      BY <1>t, MeshLinkType
    <3>. QED
      BY <1>a, <2>1, <3>1 DEF AttachInbound
  <2>2. CASE ~AttachInbound(l)
    BY <1>0, <1>4, <2>2 DEF ServeMesh, ServeLost, MeshHelloRead, GraceOver, FreeCheck,
       SendAck
  <2>. QED
    BY <2>1, <2>2
<1>5. ASSUME NEW e \in Ends, ReaderThread(e)
      PROVE  Goal
  <2>1. e[2] \in Nodes /\ Other(e[1], e[2]) \in Nodes
    BY EndType
  <2>2. CASE ReadControl(e)
    <3>1. PICK R : /\ roster' = [roster EXCEPT ![e[2]] = R]
                   /\ \/ roster[e[2]] \subseteq R
                      \/ /\ Arrived(e[1], e[2], "PeerLeft")
                         /\ R = roster[e[2]] \ Payload(e[1], e[2])
      <4>1. \/ roster' = [roster EXCEPT ![e[2]] = roster[e[2]] \cup Payload(e[1], e[2])]
            \/ /\ Arrived(e[1], e[2], "PeerLeft")
               /\ roster' = [roster EXCEPT ![e[2]] = roster[e[2]] \ Payload(e[1], e[2])]
        BY <2>2 DEF ReadControl
      <4>. QED
        BY <4>1
    <3>2. CASE e[2] = k
      <4>1. roster'[k] = R
        BY <1>t, <3>1, <3>2
      <4>. QED
        BY <2>2, <3>1, <3>2, <4>1
    <3>3. CASE e[2] # k
      BY <1>t, <3>1, <3>3
    <3>. QED
      BY <3>2, <3>3
  <2>3. CASE ReadBye(e) \/ ReadFails(e)
    <3>1. UNCHANGED roster \/ \E R : roster' = [roster EXCEPT ![Host] = R]
      BY <2>3 DEF ReadBye, ReadFails, PeerGone
    <3>. QED
      BY <1>t, <3>1
  <2>4. CASE TellPeers(e) \/ ShowConnected(e) \/ ShowGone(e)
    BY <1>0, <2>4 DEF TellPeers, ShowConnected, ShowGone
  <2>. QED
    BY <1>5, <2>2, <2>3, <2>4 DEF ReaderThread
<1>6. ASSUME NEW n \in Nodes, LeaveThread(n)
      PROVE  Goal
  <2>1. CASE LeaveDrain(n)
    <3>1. /\ roster' = [roster EXCEPT ![n] = {}]
          /\ life' = [life EXCEPT ![n] = "drained"]
      BY <2>1 DEF LeaveDrain
    <3>2. n = k => Lost(k)'
      BY <1>t, <3>1 DEF LifeType, Lost
    <3>. QED
      BY <1>t, <3>1, <3>2
  <2>2. CASE LeaveBye(n) \/ LeaveEnd(n)
    BY <1>0, <2>2 DEF LeaveBye, LeaveEnd
  <2>. QED
    BY <1>6, <2>1, <2>2 DEF LeaveThread
<1>7. ASSUME NEW j \in Joiners, Join(j)
      PROVE  Goal
  <2>1. roster' = [roster EXCEPT ![j] = {}]
    BY <1>7 DEF Join
  <2>. QED
    BY <1>7, <1>t, <2>1
<1>8. ASSUME OpenRoom
      PROVE  Goal
  <2>1. roster' = [roster EXCEPT ![Host] = {}]
    BY <1>8 DEF OpenRoom
  <2>. QED
    BY <1>t, <2>1
<1>9. ASSUME Operator, ~OpenRoom, ~\E j \in Joiners : Join(j)
      PROVE  Goal
  BY <1>0, <1>9 DEF Operator, Approve, Decline, Leave, Crash, Break
<1>10. UNCHANGED vars => Goal
  BY <1>0 DEF vars
<1>. HIDE DEF Goal
<1>11. ASSUME System
       PROVE  Goal
  BY <1>1, <1>2, <1>3, <1>4, <1>5, <1>6, <1>11 DEF System
<1>12. Goal
  BY <1>7, <1>8, <1>9, <1>10, <1>11 DEF Next
<1>. QED
  BY <1>12 DEF Goal

\* The host may have lost j, and j may have lost the host.
Gone(j) == Lost(j) \/ Cut(JoinLink(j), j)

\* The host's word about j has reached k, or is on its way.
Told(j, k) ==
    \/ Lost(Host) \/ Gone(j) \/ Gone(k)
    \/ j \in roster[k]
    \/ Msg("PeerJoined", {j}) \in On(wire[End(JoinLink(k), k)])

\* A joiner that has not asked yet has no roster and reads nothing.
Quiet ==
    \A k \in Joiners :
        life[k] = "idle" => /\ roster[k] = {}
                            /\ \A e \in Ends : e[2] = k => reader[e] = "no"

\* What is in flight is true: a Welcome lists who has been told, and only
\* those that have gone are announced as gone, or say so themselves.
Settled(j) == appr[j].pc \in {"attach", "done"}
News(e, msg) ==
    /\ msg.type = "Welcome" => /\ e[2] \in Joiners /\ Settled(e[2])
                               /\ msg.who = appr[e[2]].met
    /\ msg.type = "PeerLeft" => \A x \in msg.who \cap Joiners : Gone(x)
    /\ msg.type = "Bye" => Lost(Other(e[1], e[2]))
Reported == \A e \in Ends : \A msg \in On(wire[e]) : News(e, msg)
Telling ==
    \A e \in Ends : reader[e] \in {"tellBye", "tellErr"}
                      => e[2] = Host /\ Gone(Dialer(e[1]))

\* A newcomer is welcomed when everyone it is to meet has been told, and dials
\* nobody else.
Welcomed ==
    \A j \in Joiners :
        /\ appr[j].pc \in {"welcome", "attach", "done"} => appr[j].todo = {}
        /\ \A k \in Joiners : dial[j][k].pc # "no" => Settled(j) /\ k \in appr[j].met
Announced ==
    \A j, k \in Joiners : k \in appr[j].met \ appr[j].todo => Told(j, k)

TInv == Quiet /\ Reported /\ Telling /\ Welcomed /\ Announced

\* What is on a queue after one more message, or one fewer.
LEMMA OnAppend ==
    ASSUME NEW q \in Seq(Messages), NEW msg \in Messages
    PROVE  On(Append(q, msg)) = On(q) \cup {msg}
<1>. DEFINE r == Append(q, msg)
<1>1. /\ Len(r) = Len(q) + 1 /\ Len(q) \in Nat
      /\ \A i \in 1..Len(q) : r[i] = q[i]
      /\ r[Len(q) + 1] = msg
  OBVIOUS
<1>. HIDE DEF r
<1>2. On(r) = On(q) \cup {msg}
  BY <1>1 DEF On
<1>. QED
  BY <1>2 DEF r

LEMMA OnTail ==
    ASSUME NEW q \in Seq(Messages), q # <<>>
    PROVE  /\ Head(q) \in On(q)
           /\ On(q) = On(Tail(q)) \cup {Head(q)}
<1>. DEFINE r == Tail(q)
<1>1. /\ Len(r) = Len(q) - 1 /\ Len(q) \in Nat \ {0} /\ Head(q) = q[1]
      /\ \A i \in 1..Len(r) : r[i] = q[i + 1]
  OBVIOUS
<1>. HIDE DEF r
<1>2. \A i \in 1..Len(q) : i = 1 \/ (i - 1 \in 1..Len(r) /\ q[i] = r[i - 1])
  BY <1>1
<1>3. Head(q) \in On(q) /\ On(q) = On(r) \cup {Head(q)}
  BY <1>1, <1>2 DEF On
<1>. QED
  BY <1>3 DEF r

\* The host's end of a link is the far end of its dialler's.
LEMMA HostEnd ==
    ASSUME NEW e \in Ends, e[2] = Host
    PROVE  /\ Dialer(e[1]) \in Joiners /\ e[1] = JoinLink(Dialer(e[1]))
           /\ Other(e[1], Host) = Dialer(e[1])
           /\ Cut(e[1], Host) <=> Cut(e[1], Dialer(e[1]))
<1>1. e[1] \in Links /\ e = End(e[1], Host) /\ Host \in {Dialer(e[1]), Target(e[1])}
  BY EndType DEF Ends
<1>2. Dialer(e[1]) \in Joiners /\ Dialer(e[1]) # Host /\ Target(e[1]) = Host
  BY <1>1, LinkEnds, MeshAssumption
<1>3. e[1] \in JoinLinks /\ e[1] = JoinLink(Dialer(e[1]))
  BY <1>1, <1>2, LinkEnds, MeshLinkType, MeshAssumption
<1>. QED
  BY <1>1, <1>2, <1>3 DEF Other, Cut, End, FarEnd

\* Whoever has gone has gone for good.
LEMMA GoneStays ==
    ASSUME TypeOK, [Next]_vars, NEW j \in Joiners, Gone(j)
    PROVE  Gone(j)'
  BY LifeMoves, ShutGrows DEF Gone, Cut, Nodes

\* How an approval may move, and whom the host has told.
LEMMA ApprTells ==
    ASSUME TypeOK, Asked, [Next]_vars, NEW j \in Joiners
    PROVE  /\ Settled(j) => /\ Settled(j)' /\ appr'[j].met = appr[j].met
                            /\ appr'[j].todo = appr[j].todo
           /\ appr'[j].pc \in {"welcome", "attach", "done"}
                => /\ appr'[j].todo = appr[j].todo
                   /\ \/ appr[j].pc \in {"welcome", "attach", "done"}
                      \/ appr[j].todo = {}
           /\ \A k \in appr'[j].met \ appr'[j].todo :
                \/ k \in appr[j].met \ appr[j].todo
                \/ wire' = Put(wire, JoinLink(k), Host, Msg("PeerJoined", {j}))
<1>. DEFINE Goal ==
           /\ Settled(j) => /\ Settled(j)' /\ appr'[j].met = appr[j].met
                            /\ appr'[j].todo = appr[j].todo
           /\ appr'[j].pc \in {"welcome", "attach", "done"}
                => /\ appr'[j].todo = appr[j].todo
                   /\ \/ appr[j].pc \in {"welcome", "attach", "done"}
                      \/ appr[j].todo = {}
           /\ \A k \in appr'[j].met \ appr'[j].todo :
                \/ k \in appr[j].met \ appr[j].todo
                \/ wire' = Put(wire, JoinLink(k), Host, Msg("PeerJoined", {j}))
<1>. USE DEF Settled
<1>t. HostType
  BY TypeParts
<1>0. appr'[j] = appr[j] => Goal
  OBVIOUS
<1>1. ASSUME NEW i \in Joiners, Approve(i) \/ Decline(i)
      PROVE  Goal
  <2>1. appr[i].pc = "no" /\ (ApprPc(i, "snapshot") \/ ApprPc(i, "declined"))
    BY <1>1 DEF Approve, Decline, Asked
  <2>. QED
    BY <1>t, <2>1 DEF ApprPc, HostType
<1>2. ASSUME NEW i \in Joiners, ApproveThread(i)
      PROVE  Goal
  <2>1. CASE Snapshot(i)
    BY <1>t, <2>1 DEF Snapshot, HostType
  <2>2. CASE Announce(i)
    <3>1. PICK k \in appr[i].todo :
            /\ appr' = [appr EXCEPT ![i].todo = @ \ {k}]
            /\ wire' = Put(wire, JoinLink(k), Host, Msg("PeerJoined", {i}))
      BY <2>2 DEF Announce
    <3>2. CASE i # j
      BY <1>t, <3>1, <3>2 DEF HostType
    <3>3. CASE i = j
      <4>1. /\ appr[j].pc = "announce" /\ appr'[j].pc = "announce"
            /\ appr'[j].met = appr[j].met /\ appr'[j].todo = appr[j].todo \ {k}
        BY <1>t, <2>2, <3>1, <3>3 DEF Announce, HostType
      <4>. QED
        BY <3>1, <3>3, <4>1
    <3>. QED
      BY <3>2, <3>3
  <2>3. CASE Admit(i) \/ SendWelcome(i) \/ AttachApproved(i)
    <3>1. \/ appr[i].pc = "announce" /\ appr[i].todo = {} /\ ApprPc(i, "welcome")
          \/ appr[i].pc = "welcome" /\ (ApprPc(i, "attach") \/ ApprPc(i, "broken"))
          \/ appr[i].pc = "attach" /\ ApprPc(i, "done")
      BY <2>3 DEF Admit, SendWelcome, AttachApproved
    <3>. QED
      BY <1>t, <3>1 DEF ApprPc, HostType
  <2>. QED
    BY <1>2, <2>1, <2>2, <2>3 DEF ApproveThread
<1>3. ASSUME \A i \in Joiners : ~Approve(i) /\ ~Decline(i) /\ ~ApproveThread(i)
      PROVE  UNCHANGED appr
  BY <1>3, ApprFrame
<1>. QED
  BY <1>0, <1>1, <1>2, <1>3

\* An announcement stays on its way until k reads it, and then counts for k
\* until j has gone.
LEMMA ToldStep ==
    ASSUME TypeOK, Asked, Quiet, Reported, [Next]_vars,
           NEW j \in Joiners, NEW k \in Joiners, Told(j, k)
    PROVE  Told(j, k)'
<1>. DEFINE f == End(JoinLink(k), k)
            m == Msg("PeerJoined", {j})
<1>t. /\ wire \in [Ends -> Seq(Messages)] /\ roster \in [Nodes -> SUBSET Nodes]
      /\ f \in Ends /\ f[1] = JoinLink(k) /\ f[2] = k /\ k \in Nodes
      /\ m \in Messages /\ m.type = "PeerJoined" /\ m.who = {j}
  <2>1. wire \in [Ends -> Seq(Messages)] /\ roster \in [Nodes -> SUBSET Nodes]
    BY TypeParts DEF WireType, RegistryType
  <2>2. f \in Ends /\ f[1] = JoinLink(k) /\ f[2] = k /\ k \in Nodes
    BY JoinLinkType DEF End, Nodes
  <2>3. m \in Messages /\ m.type = "PeerJoined" /\ m.who = {j}
    BY MsgType DEF MsgTypes, Msg, Nodes
  <2>. QED
    BY <2>1, <2>2, <2>3
<1>1. ASSUME Lost(Host) \/ Gone(j) \/ Gone(k)
      PROVE  Lost(Host)' \/ Gone(j)' \/ Gone(k)'
  BY <1>1, LifeMoves, GoneStays DEF Nodes
<1>2. ASSUME j \in roster[k]
      PROVE  Told(j, k)'
  <2>1. CASE Lost(k)' \/ j \in roster'[k]
    BY <2>1 DEF Told, Gone
  <2>2. CASE Join(k)
    BY <1>2, <2>2 DEF Join, Quiet
  <2>3. ASSUME NEW e \in Ends, Arrived(e[1], k, "PeerLeft"), e[2] = k,
               j \in Payload(e[1], k)
        PROVE  Gone(j)
    <3>1. wire[e] # <<>> /\ Head(wire[e]).type = "PeerLeft" /\ j \in Head(wire[e]).who
      BY <2>3, EndType DEF Arrived, Payload
    <3>2. Head(wire[e]) \in On(wire[e])
      BY <1>t, <3>1, OnTail
    <3>. QED
      BY <3>1, <3>2 DEF Reported, News
  <2>. QED
    BY <1>1, <1>2, <2>1, <2>2, <2>3, RosterMoves DEF Told
<1>3. ASSUME m \in On(wire[f])
      PROVE  j \in roster'[k] \/ m \in On(wire'[f])
  <2>. HIDE DEF f, m
  <2>1. CASE \E msg \in Messages : wire'[f] = Append(wire[f], msg)
    BY <1>3, <1>t, <2>1, OnAppend
  <2>2. CASE wire[f] # <<>> /\ wire'[f] = Tail(wire[f]) /\ m # Head(wire[f])
    BY <1>3, <1>t, <2>2, OnTail
  <2>3. CASE ReadControl(f) /\ m = Head(wire[f])
    <3>1. Payload(f[1], f[2]) = {j} /\ Arrived(f[1], f[2], "PeerJoined")
      BY <1>t, <2>3, EndType DEF ReadControl, Arrived, Payload
    <3>2. roster' = [roster EXCEPT ![k] = @ \cup {j}]
      BY <1>t, <2>3, <3>1 DEF ReadControl, Arrived
    <3>. QED
      BY <1>t, <3>2
  <2>4. Carries(f)
    BY <1>t, CarriesStep
  <2>. QED
    BY <1>3, <1>t, <2>1, <2>2, <2>3, <2>4 DEF Carries, Hears
<1>. QED
  BY <1>1, <1>2, <1>3 DEF Told

\* What was true of a message stays so while it is in flight.
LEMMA NewsStays ==
    ASSUME TypeOK, Asked, [Next]_vars, NEW e \in Ends, NEW msg, News(e, msg)
    PROVE  News(e, msg)'
<1>1. Other(e[1], e[2]) \in Nodes
  BY EndType
<1>. QED
  BY <1>1, ApprTells, GoneStays, LifeMoves DEF News

\* What is sent is true when it is sent.
LEMMA ReportedStep ==
    ASSUME TypeOK, Asked, Reported, Telling, [Next]_vars
    PROVE  Reported'
<1>1. SUFFICES ASSUME NEW e \in Ends, NEW msg \in On(wire'[e])
               PROVE  News(e, msg)'
  BY DEF Reported
<1>t. WireType /\ HostType /\ wire[e] \in Seq(Messages)
  BY TypeParts DEF WireType
<1>2. CASE msg \in On(wire[e])
  BY <1>2, NewsStays DEF Reported
<1>3. CASE Says(e, msg)
  <2>1. CASE msg.type \in {"Hello", "MeshHello", "MeshAck", "Rejected", "PeerJoined"}
    BY <2>1 DEF News
  <2>2. ASSUME NEW j \in Joiners, e = End(JoinLink(j), j),
               msg = Msg("Welcome", appr[j].met), ApprPc(j, "attach")
        PROVE  News(e, msg)'
    <3>1. appr'[j].pc = "attach" /\ appr'[j].met = appr[j].met
      BY <1>t, <2>2 DEF ApprPc, HostType
    <3>2. e[2] = j /\ msg.type = "Welcome" /\ msg.who = appr[j].met
      BY <2>2 DEF End, Msg
    <3>. QED
      BY <3>1, <3>2 DEF News, Settled
  <2>3. ASSUME NEW f \in Ends, TellPeers(f), msg = Msg("PeerLeft", {Other(f[1], Host)})
        PROVE  News(e, msg)'
    <3>1. f[2] = Host /\ Gone(Dialer(f[1]))
      BY <2>3 DEF TellPeers, Telling
    <3>2. Gone(Dialer(f[1]))' /\ Other(f[1], Host) = Dialer(f[1])
      BY <3>1, HostEnd, GoneStays
    <3>3. msg.type = "PeerLeft" /\ msg.who = {Dialer(f[1])}
      BY <2>3, <3>2 DEF Msg
    <3>. QED
      BY <3>2, <3>3 DEF News
  <2>4. CASE msg.type = "Bye" /\ Lost(Other(e[1], e[2]))
    BY <2>4, EndType, LifeMoves DEF News
  <2>. QED
    BY <1>3, <2>1, <2>2, <2>3, <2>4 DEF Says
<1>4. CASE \E x \in Messages : wire'[e] = Append(wire[e], x) /\ Says(e, x)
  <2>1. PICK x \in Messages : wire'[e] = Append(wire[e], x) /\ Says(e, x)
    BY <1>4
  <2>2. On(wire'[e]) = On(wire[e]) \cup {x}
    BY <1>t, <2>1, OnAppend
  <2>. QED
    BY <1>1, <1>2, <1>3, <2>1, <2>2
<1>5. CASE wire[e] # <<>> /\ wire'[e] = Tail(wire[e])
  BY <1>1, <1>2, <1>5, <1>t, OnTail
<1>6. Carries(e)
  BY CarriesStep
<1>. QED
  BY <1>1, <1>2, <1>4, <1>5, <1>6 DEF Carries

\* The host tells the others of those only that have gone.
LEMMA TellingStep ==
    ASSUME TypeOK, Asked, Reported, Telling, [Next]_vars
    PROVE  Telling'
<1>1. SUFFICES ASSUME NEW e \in Ends, reader'[e] \in {"tellBye", "tellErr"}
               PROVE  e[2] = Host /\ Gone(Dialer(e[1]))'
  BY DEF Telling
<1>t. /\ reader \in [Ends -> ReaderStates] /\ wire[e] \in Seq(Messages)
      /\ e = End(e[1], e[2])
  BY TypeParts, EndType DEF RegistryType, WireType
<1>2. e[2] = Host => Dialer(e[1]) \in Joiners
  BY HostEnd
<1>3. CASE reader'[e] = reader[e]
  BY <1>1, <1>2, <1>3, GoneStays DEF Telling
<1>4. CASE ReadBye(e) \/ ReadFails(e)
  <2>1. e[2] = Host
    BY <1>1, <1>4, <1>t DEF ReadBye, ReadFails, PeerGone, Reading
  <2>2. CASE ReadBye(e)
    <3>1. wire[e] # <<>> /\ Head(wire[e]).type = "Bye"
      BY <1>t, <2>2 DEF ReadBye, Arrived
    <3>2. Head(wire[e]) \in On(wire[e])
      BY <1>t, <3>1, OnTail
    <3>3. Lost(Dialer(e[1]))
      BY <2>1, <3>1, <3>2, HostEnd DEF Reported, News
    <3>. QED
      BY <1>2, <2>1, <3>3, GoneStays DEF Gone
  <2>3. CASE ReadFails(e)
    <3>1. Cut(e[1], Host)
      BY <2>1, <2>3 DEF ReadFails
    <3>2. Gone(Dialer(e[1]))
      BY <2>1, <3>1, HostEnd DEF Gone
    <3>. QED
      BY <1>2, <2>1, <3>2, GoneStays
  <2>. QED
    BY <1>4, <2>2, <2>3
<1>5. TellPeers(e) \/ ShowConnected(e) \/ ShowGone(e)
        => reader'[e] \notin {"tellBye", "tellErr"}
  BY <1>t DEF TellPeers, ShowConnected, ShowGone
<1>. QED
  BY <1>1, <1>3, <1>4, <1>5, ReaderMoves

\* Until it asks, a joiner keeps nothing.
LEMMA QuietStep ==
    ASSUME TypeOK, Asked, Quiet, [Next]_vars
    PROVE  Quiet'
<1>1. SUFFICES ASSUME NEW k \in Joiners, life'[k] = "idle"
               PROVE  roster'[k] = {} /\ \A e \in Ends : e[2] = k => reader'[e] = "no"
  BY DEF Quiet
<1>2. /\ life[k] = "idle" /\ roster[k] = {}
      /\ \A e \in Ends : e[2] = k => reader[e] = "no"
  BY <1>1, LifeMoves DEF Quiet, Nodes
<1>3. roster'[k] = {}
  <2>1. ASSUME NEW e \in Ends, ReadControl(e), e[2] = k
        PROVE  FALSE
    BY <1>2, <2>1 DEF ReadControl, Reading
  <2>. QED
    BY <1>1, <1>2, <2>1, RosterMoves DEF Lost
<1>4. ASSUME NEW e \in Ends, e[2] = k
      PROVE  reader'[e] = "no"
  <2>1. reader[e] = "no" /\ ~Running(e[2])
    BY <1>2, <1>4 DEF Running
  <2>. QED
    BY <2>1, ReaderMoves DEF Spawns, ReadBye, ReadFails, TellPeers, Reading,
       ShowConnected, ShowGone
<1>. QED
  BY <1>3, <1>4

\* A dialling joiner dials those its Welcome named.
LEMMA WelcomedStep ==
    ASSUME TypeOK, Asked, Fresh, Reported, Welcomed, [Next]_vars
    PROVE  Welcomed'
<1>1. ASSUME NEW j \in Joiners, appr'[j].pc \in {"welcome", "attach", "done"}
      PROVE  appr'[j].todo = {}
  BY <1>1, ApprTells DEF Welcomed
<1>2. ASSUME NEW j \in Joiners, NEW k \in Joiners, dial'[j][k].pc # "no"
      PROVE  Settled(j)' /\ k \in appr'[j].met
  <2>1. CASE dial[j][k].pc # "no"
    BY <2>1, ApprTells DEF Welcomed
  <2>2. CASE dial[j][k].pc = "no" /\ AwaitWelcome(j)
    <3>. DEFINE e == End(JoinLink(j), j)
    <3>t. e \in Ends /\ e[2] = j /\ wire[e] \in Seq(Messages) /\ DialType
      BY JoinLinkType, TypeParts DEF WireType, End
    <3>1. k \in Payload(JoinLink(j), j)
      BY <1>2, <2>2, <3>t DEF AwaitWelcome, DialType
    <3>2. wire[e] # <<>> /\ Head(wire[e]).type = "Welcome" /\ k \in Head(wire[e]).who
      BY <2>2, <3>1 DEF AwaitWelcome, Arrived, Payload
    <3>. HIDE DEF e
    <3>3. Head(wire[e]) \in On(wire[e])
      BY <3>2, <3>t, OnTail
    <3>4. Settled(j) /\ k \in appr[j].met
      BY <3>2, <3>3, <3>t DEF Reported, News
    <3>. QED
      BY <3>4, ApprTells
  <2>. QED
    BY <1>2, <2>1, <2>2, DialMoves
<1>. QED
  BY <1>1, <1>2 DEF Welcomed

\* Everyone a newcomer is to meet has been told, or is about to be.
LEMMA AnnouncedStep ==
    ASSUME TypeOK, Asked, Quiet, Reported, Announced, [Next]_vars
    PROVE  Announced'
<1>1. SUFFICES ASSUME NEW j \in Joiners, NEW k \in Joiners,
                      k \in appr'[j].met \ appr'[j].todo
               PROVE  Told(j, k)'
  BY DEF Announced
<1>2. CASE k \in appr[j].met \ appr[j].todo
  BY <1>2, ToldStep DEF Announced
<1>3. CASE wire' = Put(wire, JoinLink(k), Host, Msg("PeerJoined", {j}))
  <2>. DEFINE l == JoinLink(k)
              m == Msg("PeerJoined", {j})
  <2>t. /\ WireType /\ l \in Links /\ Dialer(l) = k /\ Target(l) = Host
        /\ End(l, k) \in Ends /\ FarEnd(l, Host) = End(l, k) /\ m \in Messages
        /\ wire[End(l, k)] \in Seq(Messages)
    <3>1. /\ l \in Links /\ Dialer(l) = k /\ Target(l) = Host /\ End(l, k) \in Ends
      BY JoinLinkType
    <3>2. m \in Messages
      BY MsgType DEF MsgTypes, Nodes
    <3>. QED
      BY <3>1, <3>2, LinkEnds, TypeParts DEF WireType
  <2>1. CASE Cut(l, Host)
    <3>1. Cut(l, k)
      BY <2>1, <2>t, LinkEnds DEF Cut
    <3>2. Gone(k)'
      BY <3>1, GoneStays DEF Gone
    <3>. QED
      BY <3>2 DEF Told
  <2>2. CASE ~Cut(l, Host)
    <3>1. wire'[End(l, k)] = Append(wire[End(l, k)], m)
      BY <1>3, <2>2, <2>t DEF Put, WireType
    <3>2. m \in On(wire'[End(l, k)])
      BY <2>t, <3>1, OnAppend
    <3>. QED
      BY <3>2 DEF Told
  <2>. QED
    BY <2>1, <2>2
<1>. QED
  BY <1>1, <1>2, <1>3, ApprTells

LEMMA ToldInvariant == Spec => []TInv
<1>1. ASSUME Init
      PROVE  TInv
  <2>1. \A e \in Ends : On(wire[e]) = {}
    BY <1>1 DEF Init, On
  <2>2. Reported
    BY <2>1 DEF Reported
  <2>3. Quiet /\ Telling
    BY <1>1 DEF Init, Quiet, Telling, Nodes
  <2>4. Welcomed /\ Announced
    BY <1>1 DEF Init, Welcomed, Announced
  <2>. QED
    BY <2>2, <2>3, <2>4 DEF TInv
<1>2. IInv /\ AInv /\ TInv /\ [Next]_vars => TInv'
  <2>1. ASSUME IInv, AInv, TInv, [Next]_vars
        PROVE  TInv'
    <3>1. /\ TypeOK /\ Asked /\ Fresh /\ Quiet /\ Reported /\ Telling /\ Welcomed
          /\ Announced
      BY <2>1 DEF IInv, AInv, TInv
    <3>2. Quiet' /\ Reported' /\ Telling' /\ Welcomed' /\ Announced'
      BY <2>1, <3>1, QuietStep, ReportedStep, TellingStep, WelcomedStep, AnnouncedStep
    <3>. QED
      BY <3>2 DEF TInv
  <2>. QED
    BY <2>1
<1>. QED
  BY <1>1, <1>2, AnswerInvariant, Invariant, PTL DEF Spec

\* approve() announces a newcomer to everyone the Welcome will list before it
\* sends the Welcome, and the newcomer dials nobody else: whenever j waits for
\* k's answer, k lets j in, or the announcement is on its way to k -- or one of
\* them, or the host, is leaving or has lost its link to the others.
THEOREM NobodyDialsUnannounced == Spec => []AnnouncedBeforeDial
<1>1. TInv => AnnouncedBeforeDial
  <2>1. ASSUME TInv, NEW j \in Joiners, NEW k \in Joiners, dial[j][k].pc = "sent"
        PROVE  Told(j, k)
    <3>1. Settled(j) /\ k \in appr[j].met /\ appr[j].todo = {}
      BY <2>1 DEF TInv, Welcomed, Settled
    <3>. QED
      BY <2>1, <3>1 DEF TInv, Announced
  <2>. QED
    BY <2>1 DEF AnnouncedBeforeDial, Told, Gone, Lost, Running, On
<1>. QED
  BY <1>1, ToldInvariant, PTL


-----------------------------------------------------------------------------
(* How a node's entry for a peer changes, and what its operator is shown.   *)

\* m is attached, or lost, or everybody is; or only what is shown changes.
Enters(n, m, l) ==
    /\ Attaches(n, m, l) /\ Running(n)
    /\ End(l, n) \in Ends /\ Other(l, n) = m
    /\ peers'[n][m] = l /\ status'[n][m] = status[n][m] /\ reader'[End(l, n)] = "begin"
Parting == {"tellBye", "tellErr", "showBye", "showErr"}
Drops(n, m, l) ==
    /\ End(l, n) \in Ends /\ Other(l, n) = m
    /\ ReadBye(End(l, n)) \/ ReadFails(End(l, n))
    /\ Linked(n, m)
    /\ peers'[n][m] = NoLink /\ status'[n][m] = status[n][m]
    /\ reader'[End(l, n)] \in Parting /\ End(l, n) \in shut'
Empties(n) ==
    /\ \A m \in Nodes : peers'[n][m] = NoLink /\ status'[n][m] = status[n][m]
    /\ \/ life[n] = "idle"
       \/ /\ Lost(n)'
          /\ \A m \in Connected(n) :
                End(peers[n][m], n) \in shut' \/ peers[n][m] \in byes'[n]
Tells(n, m) ==
    /\ peers'[n][m] = peers[n][m]
    /\ \/ status'[n][m] = status[n][m]
       \/ /\ n \in Joiners /\ m \in Joiners /\ dial[n][m].pc = "begin"
          /\ status'[n][m] = "Connecting" /\ dial'[n][m].pc = "try"
       \/ /\ n \in Joiners /\ m \in Joiners /\ dial[n][m].pc \in {"try", "sent"}
          /\ status'[n][m] = "Failed" /\ dial'[n][m].pc = "failed"
       \/ \E e \in Ends :
             /\ e[2] = n /\ Other(e[1], n) = m
             /\ \/ ShowConnected(e) /\ status'[n][m] = "Connected"
                \/ ShowGone(e) /\ status'[n][m] = "Disconnected"
Keeps(n, m) ==
    \/ Tells(n, m) \/ Empties(n)
    \/ \E l \in Links : Enters(n, m, l) \/ Drops(n, m, l)

\* A dial that has begun is on a link of its own.
LEMMA CurrentIsLink ==
    ASSUME TypeOK, Dialling, NEW j \in Joiners, NEW k \in Joiners, dial[j][k].pc # "no"
    PROVE  /\ CurrentLink(j, k) \in MeshLinks /\ CurrentLink(j, k) \in Links
           /\ Dialer(CurrentLink(j, k)) = j /\ Target(CurrentLink(j, k)) = k
<1>1. j # k /\ dial[j][k].try \in 1..MaxTries
  BY TypeParts DEF Dialling, DialType
<1>. QED
  BY <1>1 DEF CurrentLink, MeshLink, MeshLinks, Links, Dialer, Target

\* Attaching one peer leaves the entries of the others.
LEMMA AttachKeeps ==
    ASSUME RegistryType, NEW x \in Nodes, NEW y \in Nodes, NEW l \in Links,
           End(l, x) \in Ends, Other(l, x) = y, Attach(x, y, l), Attaches(x, y, l),
           NEW n \in Nodes, NEW m \in Nodes
    PROVE  Keeps(n, m)
<1>1. CASE Running(x)
  <2>1. /\ peers' = [peers EXCEPT ![x][y] = l]
        /\ reader' = [reader EXCEPT ![End(l, x)] = "begin"] /\ UNCHANGED status
    BY <1>1 DEF Attach
  <2>2. CASE n = x /\ m = y
    <3>1. /\ peers'[n][m] = l /\ reader'[End(l, n)] = "begin"
          /\ status'[n][m] = status[n][m]
      BY <2>1, <2>2 DEF RegistryType
    <3>. QED
      BY <1>1, <2>2, <3>1 DEF Keeps, Enters
  <2>3. CASE ~(n = x /\ m = y)
    <3>1. peers'[n][m] = peers[n][m] /\ status'[n][m] = status[n][m]
      BY <2>1, <2>3 DEF RegistryType
    <3>. QED
      BY <3>1 DEF Keeps, Tells
  <2>. QED
    BY <2>2, <2>3
<1>2. CASE ~Running(x)
  BY <1>2 DEF Attach, Keeps, Tells
<1>. QED
  BY <1>1, <1>2

\* So does losing one.
LEMMA GoneKeeps ==
    ASSUME RegistryType, NEW e \in Ends, ReadBye(e) \/ ReadFails(e),
           NEW n \in Nodes, NEW m \in Nodes
    PROVE  Keeps(n, m)
<1>. DEFINE l == e[1]
            x == e[2]
            y == Other(l, x)
<1>1. l \in Links /\ x \in Nodes /\ y \in Nodes /\ e = End(l, x)
  BY EndType
<1>2. \E tell \in Parting, show \in Parting, next \in {"run", "done"} :
         PeerGone(x, y, l, tell, show, next)
  BY DEF ReadBye, ReadFails, Parting
<1>3. CASE peers[x][y] = NoLink
  BY <1>2, <1>3 DEF PeerGone, Keeps, Tells
<1>4. CASE peers[x][y] # NoLink
  <2>1. /\ peers' = [peers EXCEPT ![x][y] = NoLink]
        /\ UNCHANGED status /\ End(l, x) \in shut'
        /\ \E r \in Parting : reader' = [reader EXCEPT ![End(l, x)] = r]
    BY <1>2, <1>4 DEF PeerGone
  <2>2. CASE n = x /\ m = y
    <3>1. /\ peers'[n][m] = NoLink /\ status'[n][m] = status[n][m]
          /\ reader'[End(l, x)] \in Parting
      BY <1>1, <2>1, <2>2 DEF RegistryType
    <3>. QED
      BY <1>1, <1>4, <2>1, <2>2, <3>1 DEF Keeps, Drops, Linked
  <2>3. CASE ~(n = x /\ m = y)
    <3>1. peers'[n][m] = peers[n][m] /\ status'[n][m] = status[n][m]
      BY <2>1, <2>3 DEF RegistryType
    <3>. QED
      BY <3>1 DEF Keeps, Tells
  <2>. QED
    BY <2>2, <2>3
<1>. QED
  BY <1>3, <1>4

\* What a thread shows once it has changed the map is about its link's far end.
LEMMA ShowKeeps ==
    ASSUME RegistryType, NEW e \in Ends, ShowConnected(e) \/ ShowGone(e),
           NEW n \in Nodes, NEW m \in Nodes
    PROVE  Keeps(n, m)
<1>. DEFINE x == e[2]
            y == Other(e[1], x)
<1>1. x \in Nodes /\ y \in Nodes
  BY EndType
<1>2. /\ UNCHANGED peers
      /\ \/ ShowConnected(e) /\ status' = [status EXCEPT ![x][y] = "Connected"]
         \/ ShowGone(e) /\ status' = [status EXCEPT ![x][y] = "Disconnected"]
  BY DEF ShowConnected, ShowGone, Show
<1>3. CASE n = x /\ m = y
  <2>1. \/ ShowConnected(e) /\ status'[n][m] = "Connected"
        \/ ShowGone(e) /\ status'[n][m] = "Disconnected"
    BY <1>1, <1>2, <1>3 DEF RegistryType
  <2>. QED
    BY <1>2, <1>3, <2>1 DEF Keeps, Tells
<1>4. CASE ~(n = x /\ m = y)
  <2>1. status'[n][m] = status[n][m]
    BY <1>2, <1>4 DEF RegistryType
  <2>. QED
    BY <1>2, <2>1 DEF Keeps, Tells
<1>. QED
  BY <1>3, <1>4

\* So does emptying the map of one node.
LEMMA EmptiesKeeps ==
    ASSUME RegistryType, NEW x \in Nodes, UNCHANGED status,
           peers' = [peers EXCEPT ![x] = [y \in Nodes |-> NoLink]],
           \/ life[x] = "idle"
           \/ /\ Lost(x)'
              /\ \A y \in Connected(x) :
                    End(peers[x][y], x) \in shut' \/ peers[x][y] \in byes'[x],
           NEW n \in Nodes, NEW m \in Nodes
    PROVE  Keeps(n, m)
<1>1. CASE n = x
  <2>1. \A y \in Nodes : peers'[n][y] = NoLink
    BY <1>1 DEF RegistryType
  <2>. QED
    BY <1>1, <2>1 DEF Keeps, Empties
<1>2. CASE n # x
  BY <1>2 DEF RegistryType, Keeps, Tells
<1>. QED
  BY <1>1, <1>2

\* The steps of a dialling thread show how the dial goes.
LEMMA DialKeeps ==
    ASSUME TypeOK, Dialling, NEW j \in Joiners, NEW k \in Joiners, DialThread(j, k),
           NEW n \in Nodes, NEW m \in Nodes
    PROVE  Keeps(n, m)
<1>. USE DEF node
<1>t. RegistryType /\ DialType /\ j \in Nodes /\ k \in Nodes
  BY TypeParts DEF Nodes
<1>0. UNCHANGED <<peers, status>> => Keeps(n, m)
  BY DEF Keeps, Tells
<1>1. CASE DialBegin(j, k)
  <2>1. /\ peers' = peers /\ status' = [status EXCEPT ![j][k] = "Connecting"]
        /\ dial[j][k].pc = "begin" /\ dial'[j][k].pc = "try"
    BY <1>1, <1>t DEF DialBegin, Show, DialPc, DialType
  <2>2. status'[n][m] = status[n][m] \/ (n = j /\ m = k /\ status'[n][m] = "Connecting")
    BY <1>t, <2>1 DEF RegistryType
  <2>. QED
    BY <2>1, <2>2 DEF Keeps, Tells
<1>2. CASE DialUnreachable(j, k) \/ DialRefused(j, k)
  <2>1. peers' = peers /\ dial[j][k].pc \in {"try", "sent"} /\ DialNext(j, k)
    BY <1>2 DEF DialUnreachable, DialRefused
  <2>2. CASE dial[j][k].try < MaxTries
    BY <1>0, <2>1, <2>2 DEF DialNext
  <2>3. CASE ~(dial[j][k].try < MaxTries)
    <3>1. status' = [status EXCEPT ![j][k] = "Failed"] /\ dial'[j][k].pc = "failed"
      BY <1>t, <2>1, <2>3 DEF DialNext, Show, DialPc, DialType
    <3>2. status'[n][m] = status[n][m] \/ (n = j /\ m = k /\ status'[n][m] = "Failed")
      BY <1>t, <3>1 DEF RegistryType
    <3>. QED
      BY <2>1, <3>1, <3>2 DEF Keeps, Tells
  <2>. QED
    BY <2>2, <2>3
<1>3. CASE DialAcked(j, k)
  <2>3. PICK l \in MeshLinks : l = CurrentLink(j, k) /\ Dialer(l) = j /\ Target(l) = k
    BY <1>3, CurrentIsLink DEF DialAcked
  <2>4. l \in Links /\ End(l, j) \in Ends /\ Other(l, j) = k
    BY <2>3, MeshLinkType DEF Other
  <2>5. Attach(j, k, l) /\ Attaches(j, k, l)
    BY <1>3, <2>3 DEF DialAcked, Attaches
  <2>. QED
    BY <1>t, <2>4, <2>5, AttachKeeps
<1>4. CASE DialQuits(j, k) \/ DialConnect(j, k)
  BY <1>0, <1>4 DEF DialQuits, DialConnect
<1>. QED
  BY <1>1, <1>2, <1>3, <1>4 DEF DialThread

\* Every step treats every entry so.
LEMMA RegistryMoves ==
    ASSUME TypeOK, Asked, Dialling, [Next]_vars, NEW n \in Nodes, NEW m \in Nodes
    PROVE  Keeps(n, m)
<1>. USE DEF node
<1>t. /\ RegistryType /\ LifeType /\ HangupType /\ Host \in Nodes /\ Joiners \subseteq Nodes
      /\ Host \notin Joiners
  BY TypeParts, MeshAssumption DEF Nodes
<1>0. UNCHANGED <<peers, status>> => Keeps(n, m)
  BY DEF Keeps, Tells
<1>1. ASSUME NEW j \in Joiners, JoinThread(j)
      PROVE  Keeps(n, m)
  <2>1. CASE JoinFails(j) \/ AwaitRefused(j)
    <3>1. Shutdown(j, JoinLink(j)) /\ UNCHANGED status /\ life[j] # "idle"
      BY <2>1 DEF JoinFails, AwaitRefused, Asked
    <3>2. Lost(j)'
      BY <1>t, <3>1 DEF Shutdown, LifeType, Lost
    <3>3. /\ peers' = [peers EXCEPT ![j] = [y \in Nodes |-> NoLink]]
          /\ \A y \in Connected(j) : End(peers[j][y], j) \in shut'
      BY <3>1 DEF Shutdown
    <3>. QED
      BY <1>t, <3>1, <3>2, <3>3, EmptiesKeeps
  <2>2. CASE AwaitAttach(j)
    <3>1. /\ JoinLink(j) \in Links /\ End(JoinLink(j), j) \in Ends
          /\ Other(JoinLink(j), j) = Host
      BY JoinLinkType DEF Other
    <3>2. Attach(j, Host, JoinLink(j)) /\ Attaches(j, Host, JoinLink(j))
      BY <2>2 DEF AwaitAttach, Attaches
    <3>. QED
      BY <1>t, <3>1, <3>2, AttachKeeps
  <2>3. CASE JoinConnect(j) \/ AwaitWelcome(j)
    BY <1>0, <2>3 DEF JoinConnect, AwaitWelcome
  <2>. QED
    BY <1>1, <2>1, <2>2, <2>3 DEF JoinThread
<1>2. ASSUME NEW j \in Joiners, ServeJoin(j) \/ ApproveThread(j)
      PROVE  Keeps(n, m)
  <2>1. CASE AttachApproved(j)
    <3>1. /\ JoinLink(j) \in Links /\ End(JoinLink(j), Host) \in Ends
          /\ Other(JoinLink(j), Host) = j
      BY <1>t, JoinLinkType DEF Other
    <3>2. Attach(Host, j, JoinLink(j)) /\ Attaches(Host, j, JoinLink(j))
      BY <2>1 DEF AttachApproved, Attaches
    <3>. QED
      BY <1>t, <3>1, <3>2, AttachKeeps
  <2>2. CASE ~AttachApproved(j)
    BY <1>0, <1>2, <2>2 DEF ServeJoin, HelloChecked, Park, ServeLost, ApproveThread,
       Snapshot, Announce, Admit, SendWelcome
  <2>. QED
    BY <2>1, <2>2
<1>3. ASSUME NEW j \in Joiners, NEW k \in Joiners, DialThread(j, k)
      PROVE  Keeps(n, m)
  BY <1>3, DialKeeps
<1>4. ASSUME NEW l \in MeshLinks, ServeMesh(l)
      PROVE  Keeps(n, m)
  <2>1. CASE AttachInbound(l)
    <3>1. /\ l \in Links /\ End(l, Target(l)) \in Ends /\ Other(l, Target(l)) = Dialer(l)
          /\ Target(l) \in Nodes /\ Dialer(l) \in Nodes
      BY <1>t, MeshLinkType DEF Other
    <3>2. Attach(Target(l), Dialer(l), l) /\ Attaches(Target(l), Dialer(l), l)
      BY <2>1 DEF AttachInbound, Attaches
    <3>. QED
      BY <1>t, <3>1, <3>2, AttachKeeps
  <2>2. CASE ~AttachInbound(l)
    BY <1>0, <1>4, <2>2 DEF ServeMesh, ServeLost, MeshHelloRead, GraceOver, FreeCheck,
       SendAck
  <2>. QED
    BY <2>1, <2>2
<1>5. ASSUME NEW e \in Ends, ReaderThread(e)
      PROVE  Keeps(n, m)
  BY <1>0, <1>t, <1>5, GoneKeeps, ShowKeeps DEF ReaderThread, ReadControl, TellPeers
<1>6. ASSUME NEW x \in Nodes, LeaveThread(x)
      PROVE  Keeps(n, m)
  <2>1. CASE LeaveDrain(x)
    <3>1. /\ peers' = [peers EXCEPT ![x] = [y \in Nodes |-> NoLink]]
          /\ life' = [life EXCEPT ![x] = "drained"] /\ UNCHANGED status
          /\ byes' = [byes EXCEPT ![x] = {peers[x][y] : y \in Connected(x)}]
      BY <2>1 DEF LeaveDrain
    <3>2. Lost(x)' /\ \A y \in Connected(x) : peers[x][y] \in byes'[x]
      BY <1>t, <3>1 DEF LifeType, HangupType, Lost
    <3>. QED
      BY <1>t, <3>1, <3>2, EmptiesKeeps
  <2>2. CASE LeaveBye(x) \/ LeaveEnd(x)
    BY <1>0, <2>2 DEF LeaveBye, LeaveEnd
  <2>. QED
    BY <1>6, <2>1, <2>2 DEF LeaveThread
<1>7. ASSUME NEW j \in Joiners, Join(j)
      PROVE  Keeps(n, m)
  <2>1. peers' = [peers EXCEPT ![j] = [y \in Nodes |-> NoLink]] /\ life[j] = "idle"
    BY <1>7 DEF Join
  <2>2. UNCHANGED status
    BY <1>7 DEF Join
  <2>. QED
    BY <1>t, <2>1, <2>2, EmptiesKeeps
<1>8. ASSUME OpenRoom
      PROVE  Keeps(n, m)
  <2>1. /\ peers' = [peers EXCEPT ![Host] = [y \in Nodes |-> NoLink]]
        /\ life[Host] = "idle" /\ UNCHANGED status
    BY <1>8 DEF OpenRoom
  <2>. QED
    BY <1>t, <2>1, EmptiesKeeps
<1>9. ASSUME Operator, ~OpenRoom, ~\E j \in Joiners : Join(j)
      PROVE  Keeps(n, m)
  BY <1>0, <1>9 DEF Operator, Approve, Decline, Leave, Crash, Break
<1>10. UNCHANGED vars => Keeps(n, m)
  BY <1>0 DEF vars
<1>11. ASSUME System
       PROVE  Keeps(n, m)
  BY <1>1, <1>2, <1>3, <1>4, <1>5, <1>6, <1>11 DEF System
<1>. QED
  BY <1>7, <1>8, <1>9, <1>10, <1>11 DEF Next


\* A node that has not started is called by nobody, and knows nobody.
Idle ==
    /\ \A l \in Links : life[Target(l)] = "idle" => serve[l] = "no"
    /\ \A e \in Ends : life[e[2]] = "idle" => reader[e] = "no"
    /\ \A n, m \in Nodes : life[n] = "idle" => peers[n][m] = NoLink /\ status[n][m] = "none"

\* Of two joiners the one that was admitted later was told of the other, if any
\* was: at most one of them dials.
Earlier == \A j \in Joiners : \A k \in appr[j].met \cap Joiners : appr[k].pc = "done"
OneDials == \A j, k \in Joiners : k \in appr[j].met => j \notin appr[k].met

\* A mesh link was made by a dial.
Dialled == \A l \in MeshLinks : Made(l) => dial[Dialer(l)][Target(l)].pc # "no"

SInv == Idle /\ Earlier /\ OneDials /\ Dialled

\* How the call of a joiner may move at the host.
LEMMA HelloMoves ==
    ASSUME TypeOK, [Next]_vars, NEW j \in Joiners
    PROVE  \/ serve'[JoinLink(j)] = serve[JoinLink(j)]
           \/ serve[JoinLink(j)] \notin {"no", "done"} /\ ServeJoin(j)
           \/ JoinConnect(j)
<1>. DEFINE l == JoinLink(j)
            Goal == \/ serve'[l] = serve[l]
                    \/ serve[l] \notin {"no", "done"} /\ ServeJoin(j)
                    \/ JoinConnect(j)
<1>t. ServeType /\ l \in Links /\ l \notin MeshLinks
  BY TypeParts, JoinLinkType
<1>1. ASSUME NEW i \in Joiners, JoinThread(i) \/ ServeJoin(i)
      PROVE  Goal
  <2>1. CASE i = j
    BY <1>1, <2>1 DEF JoinThread, JoinFails, AwaitWelcome, AwaitAttach, AwaitRefused,
       ServeJoin, HelloChecked, Park, ServeLost
  <2>2. CASE i # j
    <3>1. UNCHANGED serve \/ \E s : serve' = [serve EXCEPT ![JoinLink(i)] = s]
      BY <1>1 DEF JoinThread, JoinConnect, Connect, JoinFails, AwaitWelcome,
         AwaitAttach, AwaitRefused, ServeJoin, HelloChecked, Park, ServeLost, Reject,
         ServePc
    <3>2. JoinLink(i) # l
      BY <2>2, JoinLinksDiffer
    <3>. QED
      BY <1>t, <3>1, <3>2 DEF ServeType
  <2>. QED
    BY <2>1, <2>2
<1>2. ASSUME NEW i \in Joiners, ApproveThread(i)
      PROVE  Goal
  BY <1>2 DEF ApproveThread, Snapshot, Announce, Admit, SendWelcome, AttachApproved
<1>3. ASSUME NEW i \in Joiners, NEW k \in Joiners, DialThread(i, k)
      PROVE  Goal
  <2>1. UNCHANGED serve \/ \E s : serve' = [serve EXCEPT ![CurrentLink(i, k)] = s]
    BY <1>3 DEF DialThread, DialBegin, DialQuits, DialConnect, Connect,
       DialUnreachable, DialAcked, DialRefused
  <2>2. CurrentLink(i, k) # l
    BY MeshAssumption DEF CurrentLink, MeshLink, JoinLink
  <2>. QED
    BY <1>t, <2>1, <2>2 DEF ServeType
<1>4. ASSUME NEW k \in MeshLinks, ServeMesh(k)
      PROVE  Goal
  <2>1. UNCHANGED serve \/ \E s : serve' = [serve EXCEPT ![k] = s]
    BY <1>4 DEF ServeMesh, ServeLost, MeshHelloRead, GraceOver, FreeCheck,
       SendAck, AttachInbound, ServePc, Reject
  <2>. QED
    BY <1>t, <2>1 DEF ServeType
<1>5. ASSUME NEW e, ReaderThread(e)
      PROVE  Goal
  BY <1>5 DEF ReaderThread, ReadControl, ReadBye, ReadFails, TellPeers,
     ShowConnected, ShowGone
<1>6. ASSUME NEW n, LeaveThread(n)
      PROVE  Goal
  BY <1>6 DEF LeaveThread, LeaveDrain, LeaveBye, LeaveEnd
<1>7. Operator \/ UNCHANGED vars => Goal
  BY DEF Operator, OpenRoom, Join, Approve, Decline, Leave, Crash, Break, vars
<1>. QED
  BY <1>1, <1>2, <1>3, <1>4, <1>5, <1>6, <1>7 DEF Next, System

\* Whom a newcomer is to meet is settled by its snapshot.
LEMMA MetMoves ==
    ASSUME TypeOK, [Next]_vars, NEW j \in Joiners
    PROVE  \/ appr'[j].met = appr[j].met
           \/ Snapshot(j) /\ appr'[j].met = Connected(Host)
<1>t. HostType
  BY TypeParts
<1>1. ASSUME NEW i \in Joiners, Approve(i) \/ Decline(i)
      PROVE  appr'[j].met = appr[j].met
  BY <1>t, <1>1 DEF Approve, Decline, ApprPc, HostType
<1>2. ASSUME NEW i \in Joiners, ApproveThread(i)
      PROVE  appr'[j].met = appr[j].met \/ (Snapshot(j) /\ appr'[j].met = Connected(Host))
  <2>1. CASE Snapshot(i)
    BY <1>t, <2>1 DEF Snapshot, HostType
  <2>2. CASE Announce(i)
    <3>1. PICK k \in appr[i].todo : appr' = [appr EXCEPT ![i].todo = @ \ {k}]
      BY <2>2 DEF Announce
    <3>. QED
      BY <1>t, <3>1 DEF HostType
  <2>3. CASE Admit(i) \/ SendWelcome(i) \/ AttachApproved(i)
    BY <1>t, <2>3 DEF Admit, SendWelcome, AttachApproved, ApprPc, HostType
  <2>. QED
    BY <1>2, <2>1, <2>2, <2>3 DEF ApproveThread
<1>3. ASSUME \A i \in Joiners : ~Approve(i) /\ ~Decline(i) /\ ~ApproveThread(i)
      PROVE  UNCHANGED appr
  BY <1>3, ApprFrame
<1>. QED
  BY <1>1, <1>2, <1>3

\* Every step keeps a node that has not started unknown.
LEMMA IdleStep ==
    ASSUME TypeOK, Asked, Fresh, Dialling, Idle, [Next]_vars
    PROVE  Idle'
<1>1. ASSUME NEW l \in Links, life'[Target(l)] = "idle"
      PROVE  serve'[l] = "no"
  <2>1. Target(l) \in Nodes /\ life[Target(l)] = "idle" /\ serve[l] = "no"
    BY <1>1, LinkEnds, LifeMoves DEF Idle
  <2>2. CASE l \in JoinLinks
    <3>1. l = JoinLink(Dialer(l)) /\ Dialer(l) \in Joiners /\ Target(l) = Host
      BY <2>2, LinkEnds
    <3>2. ~JoinConnect(Dialer(l))
      BY <2>1, <3>1, JoinLinkType DEF JoinConnect, Connect, Running
    <3>. QED
      BY <2>1, <3>1, <3>2, HelloMoves
  <2>3. CASE l \in MeshLinks
    <3>1. ~(DialConnect(Dialer(l), Target(l)) /\ l = CurrentLink(Dialer(l), Target(l)))
      BY <2>1 DEF DialConnect, Connect, Running
    <3>. QED
      BY <2>1, <2>3, <3>1, ServeMoves
  <2>. QED
    BY <2>2, <2>3 DEF Links
<1>2. ASSUME NEW n \in Nodes, NEW m \in Nodes, life'[n] = "idle"
      PROVE  peers'[n][m] = NoLink /\ status'[n][m] = "none"
  <2>1. life[n] = "idle" /\ peers[n][m] = NoLink /\ status[n][m] = "none"
    BY <1>2, LifeMoves DEF Idle
  <2>2. n \in Joiners /\ m \in Joiners => dial[n][m].pc = "no"
    BY <2>1 DEF Asked, Fresh, Asking
  <2>3. ASSUME NEW e \in Ends, e[2] = n
        PROVE  ~ShowConnected(e) /\ ~ShowGone(e)
    BY <2>1, <2>3 DEF Idle, ShowConnected, ShowGone
  <2>. QED
    BY <2>1, <2>2, <2>3, RegistryMoves
    DEF Keeps, Tells, Empties, Enters, Drops, Running, Linked
<1>3. ASSUME NEW e \in Ends, life'[e[2]] = "idle"
      PROVE  reader'[e] = "no"
  <2>1. life[e[2]] = "idle" /\ reader[e] = "no"
    BY <1>3, EndType, LifeMoves DEF Idle
  <2>. QED
    BY <2>1, ReaderMoves DEF Spawns, Running, ReadBye, ReadFails, Reading, TellPeers,
       ShowConnected, ShowGone
<1>. QED
  BY <1>1, <1>2, <1>3 DEF Idle

\* Every step keeps who was told of whom in order.
LEMMA EarlierStep ==
    ASSUME TypeOK, Asked, Met, Earlier, OneDials, [Next]_vars
    PROVE  Earlier' /\ OneDials'
<1>1. \A k \in Joiners : k \in Connected(Host) => appr[k].pc = "done"
  BY DEF Connected, Met
<1>2. \A j \in Joiners : Snapshot(j) => appr[j].pc = "snapshot"
  BY DEF Snapshot
<1>3. Earlier'
  BY <1>1, ApprMoves, MetMoves DEF Earlier
<1>4. ASSUME NEW j \in Joiners, NEW k \in Joiners, k \in appr'[j].met, j \in appr'[k].met
      PROVE  FALSE
  <2>1. CASE Snapshot(j) /\ k \in Connected(Host)
    <3>1. appr[k].pc = "done" /\ appr[j].pc = "snapshot"
      BY <1>1, <1>2, <2>1
    <3>2. j \in appr[k].met
      BY <1>2, <1>4, <3>1, MetMoves
    <3>. QED
      BY <3>1, <3>2 DEF Earlier
  <2>2. CASE Snapshot(k) /\ j \in Connected(Host)
    <3>1. appr[j].pc = "done" /\ appr[k].pc = "snapshot"
      BY <1>1, <1>2, <2>2
    <3>2. k \in appr[j].met
      BY <1>2, <1>4, <3>1, MetMoves
    <3>. QED
      BY <3>1, <3>2 DEF Earlier
  <2>3. CASE k \in appr[j].met /\ j \in appr[k].met
    BY <2>3 DEF OneDials
  <2>. QED
    BY <1>4, <2>1, <2>2, <2>3, MetMoves
<1>. QED
  BY <1>3, <1>4 DEF OneDials

\* Every step keeps what two joiners hold dialled.
LEMMA DialledStep ==
    ASSUME TypeOK, Fresh, Dialled, [Next]_vars
    PROVE  Dialled'
<1>1. SUFFICES ASSUME NEW l \in MeshLinks, serve'[l] # "no"
               PROVE  dial'[Dialer(l)][Target(l)].pc # "no"
  BY DEF Dialled, Made
<1>2. Dialer(l) \in Joiners /\ Target(l) \in Joiners /\ DialType
  BY MeshLinkType, TypeParts
<1>3. CASE serve[l] # "no"
  BY <1>2, <1>3, DialMoves DEF Dialled, Made
<1>4. CASE DialConnect(Dialer(l), Target(l))
  BY <1>2, <1>4 DEF DialConnect, DialPc, DialType
<1>. QED
  BY <1>1, <1>3, <1>4, ServeMoves

LEMMA OrderInvariant == Spec => []SInv
<1>1. ASSUME Init
      PROVE  SInv
  <2>1. Idle
    BY <1>1, MeshAssumption, LinkEnds, EndType DEF Init, Idle, Nodes
  <2>2. Earlier /\ OneDials
    BY <1>1 DEF Init, Earlier, OneDials
  <2>3. Dialled
    BY <1>1 DEF Init, Dialled, Made, Links
  <2>. QED
    BY <2>1, <2>2, <2>3 DEF SInv
<1>2. IInv /\ AInv /\ TInv /\ SInv /\ [Next]_vars => SInv'
  <2>1. SUFFICES ASSUME IInv, AInv, TInv, SInv, [Next]_vars
                 PROVE  SInv'
    OBVIOUS
  <2>2. TypeOK /\ Asked /\ Dialling /\ Met /\ Fresh /\ Welcomed
    BY <2>1 DEF IInv, AInv, TInv
  <2>3. Idle /\ Earlier /\ OneDials /\ Dialled
    BY <2>1 DEF SInv
  <2>4. Idle' /\ Earlier' /\ OneDials' /\ Dialled'
    BY <2>1, <2>2, <2>3, IdleStep, EarlierStep, DialledStep
  <2>. QED
    BY <2>4 DEF SInv
<1>. QED
  BY <1>1, <1>2, Invariant, AnswerInvariant, ToldInvariant, PTL DEF Spec

-----------------------------------------------------------------------------
(* The host's roster.                                                      *)

\* What a map holds for a peer is a link to that peer, which a reader was
\* started on; and nobody announces anything to the host.
Own ==
    \A n, m \in Nodes : Linked(n, m) =>
        LET l == peers[n][m] IN m = Other(l, n) /\ reader[End(l, n)] # "no"
HostHears ==
    \A e \in Ends : e[2] = Host =>
        \A msg \in On(wire[e]) : msg.type \notin {"PeerJoined", "PeerLeft"}

\* Who is about to be attached, or failed to be welcomed: on the roster already.
Entering(j) == appr[j].pc \in {"welcome", "attach", "broken"}
HostRoster ==
    ~Lost(Host) => \A m \in Nodes :
        m \in roster[Host] <=> Linked(Host, m) \/ (m \in Joiners /\ Entering(m))

RInv == Own /\ HostHears /\ HostRoster

\* A reader that was started is known to have been.
LEMMA ReaderStays ==
    ASSUME TypeOK, [Next]_vars, NEW e \in Ends, reader[e] # "no"
    PROVE  reader'[e] # "no"
<1>t. reader \in [Ends -> ReaderStates] /\ e = End(e[1], e[2])
  BY TypeParts, EndType DEF RegistryType
<1>1. ReadBye(e) \/ ReadFails(e) => reader'[e] # "no"
  BY <1>t DEF ReadBye, ReadFails, PeerGone
<1>2. TellPeers(e) \/ ShowConnected(e) \/ ShowGone(e) => reader'[e] # "no"
  BY <1>t DEF TellPeers, ShowConnected, ShowGone
<1>. QED
  BY <1>1, <1>2, ReaderMoves

LEMMA OwnStep ==
    ASSUME TypeOK, Asked, Dialling, Own, [Next]_vars
    PROVE  Own'
<1>1. SUFFICES ASSUME NEW n \in Nodes, NEW m \in Nodes, peers'[n][m] # NoLink
               PROVE  LET l == peers'[n][m] IN m = Other(l, n) /\ reader'[End(l, n)] # "no"
  BY DEF Own, Linked
<1>2. CASE peers'[n][m] = peers[n][m]
  <2>1. End(peers[n][m], n) \in Ends
    BY <1>1, <1>2, TypeParts DEF RegistryType, End
  <2>. QED
    BY <1>1, <1>2, <2>1, ReaderStays DEF Own, Linked
<1>. QED
  BY <1>1, <1>2, RegistryMoves DEF Keeps, Tells, Empties, Enters, Drops

LEMMA HostHearsStep ==
    ASSUME TypeOK, Own, HostHears, [Next]_vars
    PROVE  HostHears'
<1>1. SUFFICES ASSUME NEW e \in Ends, e[2] = Host, NEW msg \in On(wire'[e])
               PROVE  msg.type \notin {"PeerJoined", "PeerLeft"}
  BY DEF HostHears
<1>t. wire[e] \in Seq(Messages) /\ Host \in Nodes
  BY TypeParts DEF WireType, Nodes
<1>2. CASE msg \in On(wire[e])
  BY <1>1, <1>2 DEF HostHears
<1>3. ASSUME NEW x \in Messages, wire'[e] = Append(wire[e], x), Says(e, x)
      PROVE  msg.type \notin {"PeerJoined", "PeerLeft"}
  <2>1. msg = x \/ msg \in On(wire[e])
    BY <1>3, <1>t, OnAppend
  <2>2. x.type # "PeerLeft"
    <3>1. SUFFICES ASSUME x.type = "PeerLeft"
                   PROVE  Host \in Connected(Host) /\ e[1] = peers[Host][Host]
                          => FALSE
      BY <1>1, <1>3 DEF Says, Msg
    <3>2. HAVE Host \in Connected(Host) /\ e[1] = peers[Host][Host]
    <3>3. Host = Other(e[1], Host)
      BY <3>2, <1>t DEF Own, Connected, Linked
    <3>. QED
      BY <1>1, <3>3, HostEnd, MeshAssumption
  <2>3. x.type # "PeerJoined"
    BY <1>1, <1>3 DEF Says, Msg
  <2>. QED
    BY <1>2, <2>1, <2>2, <2>3
<1>. QED
  BY <1>1, <1>2, <1>3, <1>t, CarriesStep, OnTail DEF Carries

\* Who enters is put on the roster with the link, and who drops is taken off.
LEMMA HostRosterMoves ==
    ASSUME TypeOK, Asked, Met, HostHears, [Next]_vars, ~OpenRoom, ~Lost(Host)',
           ~Lost(Host), \A j \in Joiners : AttachApproved(j) => Running(Host),
           NEW m \in Nodes
    PROVE  \/ m \in roster'[Host] <=> m \in roster[Host]
           \/ m \in roster'[Host] /\ m \in Joiners /\ Admit(m)
           \/ m \in roster'[Host] /\ peers'[Host][m] # NoLink
           \/ m \notin roster'[Host] /\ peers[Host][m] # NoLink /\ peers'[Host][m] = NoLink
<1>. DEFINE Goal ==
       \/ m \in roster'[Host] <=> m \in roster[Host]
       \/ m \in roster'[Host] /\ m \in Joiners /\ Admit(m)
       \/ m \in roster'[Host] /\ peers'[Host][m] # NoLink
       \/ m \notin roster'[Host] /\ peers[Host][m] # NoLink /\ peers'[Host][m] = NoLink
<1>. USE DEF node
<1>t. /\ RegistryType /\ LifeType /\ Host \in Nodes /\ Joiners \subseteq Nodes
      /\ Host \notin Joiners /\ roster \in [Nodes -> SUBSET Nodes]
  BY TypeParts, MeshAssumption DEF Nodes, RegistryType
<1>0. roster'[Host] = roster[Host] => Goal
  OBVIOUS
<1>o. ASSUME NEW n \in Nodes, n # Host, NEW S, roster' = [roster EXCEPT ![n] = S]
      PROVE  Goal
  BY <1>o, <1>t
<1>a. ASSUME NEW n \in Joiners, NEW x, NEW l, Attach(n, x, l)
      PROVE  Goal
  <2>1. n \in Nodes /\ n # Host
    BY <1>t
  <2>2. roster' = roster \/ roster' = [roster EXCEPT ![n] = roster[n] \cup {x}]
    BY <1>a DEF Attach
  <2>. QED
    BY <1>0, <1>o, <2>1, <2>2
<1>1. ASSUME NEW j \in Joiners, JoinThread(j)
      PROVE  Goal
  <2>1. j \in Nodes /\ j # Host
    BY <1>t
  <2>2. \/ UNCHANGED roster \/ AwaitAttach(j)
        \/ \E S : roster' = [roster EXCEPT ![j] = S]
    BY <1>1 DEF JoinThread, JoinConnect, JoinFails, AwaitWelcome, AwaitRefused, Shutdown
  <2>. QED
    BY <1>0, <1>a, <1>o, <2>1, <2>2 DEF AwaitAttach
<1>2. ASSUME NEW j \in Joiners, ServeJoin(j)
      PROVE  Goal
  BY <1>0, <1>2 DEF ServeJoin, HelloChecked, Park, ServeLost
<1>3. ASSUME NEW j \in Joiners, ApproveThread(j)
      PROVE  Goal
  <2>1. CASE AttachApproved(j)
    <3>1. /\ roster' = [roster EXCEPT ![Host] = roster[Host] \cup {j}]
          /\ peers' = [peers EXCEPT ![Host][j] = JoinLink(j)]
      BY <2>1 DEF AttachApproved, Attach
    <3>2. JoinLink(j) # NoLink
      BY JoinLinkType, MeshAssumption
    <3>3. roster'[Host] = roster[Host] \cup {j} /\ peers'[Host][j] # NoLink
      BY <1>t, <3>1, <3>2 DEF RegistryType
    <3>. QED
      BY <3>3
  <2>2. CASE Admit(j)
    <3>1. roster' = [roster EXCEPT ![Host] = roster[Host] \cup {j}]
      BY <2>2 DEF Admit
    <3>2. roster'[Host] = roster[Host] \cup {j}
      BY <1>t, <3>1
    <3>. QED
      BY <2>2, <3>2
  <2>3. CASE Snapshot(j) \/ Announce(j) \/ SendWelcome(j)
    BY <1>0, <2>3 DEF Snapshot, Announce, SendWelcome
  <2>. QED
    BY <1>3, <2>1, <2>2, <2>3 DEF ApproveThread
<1>4. ASSUME NEW j \in Joiners, NEW k \in Joiners, DialThread(j, k)
      PROVE  Goal
  <2>1. UNCHANGED roster \/ DialAcked(j, k)
    BY <1>4 DEF DialThread, DialBegin, DialQuits, DialConnect, DialUnreachable, DialRefused
  <2>. QED
    BY <1>0, <1>a, <2>1 DEF DialAcked
<1>5. ASSUME NEW l \in MeshLinks, ServeMesh(l)
      PROVE  Goal
  <2>1. UNCHANGED roster \/ AttachInbound(l)
    BY <1>5 DEF ServeMesh, ServeLost, MeshHelloRead, GraceOver, FreeCheck, SendAck
  <2>2. Target(l) \in Joiners
    BY MeshLinkType
  <2>. QED
    BY <1>0, <1>a, <2>1, <2>2 DEF AttachInbound
<1>6. ASSUME NEW e \in Ends, ReaderThread(e)
      PROVE  Goal
  <2>t. e[2] \in Nodes /\ e = End(e[1], e[2]) /\ wire[e] \in Seq(Messages)
    BY EndType, TypeParts DEF WireType
  <2>1. CASE ReadControl(e)
    <3>1. CASE e[2] = Host
      <4>1. Head(wire[e]).type \in {"PeerJoined", "PeerLeft"} /\ wire[e] # <<>>
        BY <2>1, <2>t DEF ReadControl, Arrived
      <4>2. Head(wire[e]) \in On(wire[e])
        BY <2>t, <4>1, OnTail
      <4>. QED
        BY <3>1, <4>1, <4>2 DEF HostHears
    <3>2. CASE e[2] # Host
      <4>1. \E S : roster' = [roster EXCEPT ![e[2]] = S]
        BY <2>1 DEF ReadControl
      <4>. QED
        BY <1>o, <2>t, <3>2, <4>1
    <3>. QED
      BY <3>1, <3>2
  <2>2. CASE ReadBye(e) \/ ReadFails(e)
    <3>. DEFINE x == Other(e[1], e[2])
    <3>1. \E tell, show, next : PeerGone(e[2], x, e[1], tell, show, next)
      BY <2>2 DEF ReadBye, ReadFails
    <3>2. CASE e[2] = Host /\ peers[Host][x] # NoLink
      <4>1. /\ roster' = [roster EXCEPT ![Host] = roster[Host] \ {x}]
            /\ peers' = [peers EXCEPT ![Host][x] = NoLink]
        BY <3>1, <3>2 DEF PeerGone
      <4>2. x \in Nodes
        BY EndType
      <4>3. roster'[Host] = roster[Host] \ {x} /\ peers'[Host][x] = NoLink
        <5>1. roster'[Host] = roster[Host] \ {x}
          BY <1>t, <4>1
        <5>2. peers'[Host][x] = NoLink
          BY <1>t, <4>1, <4>2 DEF RegistryType
        <5>. QED
          BY <5>1, <5>2
      <4>. QED
        BY <3>2, <4>3
    <3>3. CASE ~(e[2] = Host /\ peers[Host][x] # NoLink)
      BY <1>0, <3>1, <3>3 DEF PeerGone
    <3>. QED
      BY <3>2, <3>3
  <2>3. CASE TellPeers(e) \/ ShowConnected(e) \/ ShowGone(e)
    BY <1>0, <2>3 DEF TellPeers, ShowConnected, ShowGone
  <2>. QED
    BY <1>6, <2>1, <2>2, <2>3 DEF ReaderThread
<1>7. ASSUME NEW n \in Nodes, LeaveThread(n)
      PROVE  Goal
  <2>1. CASE LeaveDrain(n)
    <3>1. life[n] = "leaving" /\ roster' = [roster EXCEPT ![n] = {}]
      BY <2>1 DEF LeaveDrain
    <3>. QED
      BY <1>o, <3>1 DEF Lost
  <2>2. CASE LeaveBye(n) \/ LeaveEnd(n)
    BY <1>0, <2>2 DEF LeaveBye, LeaveEnd
  <2>. QED
    BY <1>7, <2>1, <2>2 DEF LeaveThread
<1>8. ASSUME NEW j \in Joiners, Join(j)
      PROVE  Goal
  BY <1>8, <1>o, <1>t DEF Join
<1>10. ASSUME Operator, ~\E j \in Joiners : Join(j)
       PROVE  Goal
  BY <1>0, <1>10 DEF Operator, Approve, Decline, Leave, Crash, Break
<1>11. UNCHANGED vars => Goal
  BY <1>0 DEF vars
<1>12. System => Goal
  BY <1>1, <1>2, <1>3, <1>4, <1>5, <1>6, <1>7 DEF System
<1>. QED
  BY <1>8, <1>10, <1>11, <1>12 DEF Next

\* Who is about to enter: approve() admits it, and attaches it.
LEMMA EnteringMoves ==
    ASSUME TypeOK, Asked, [Next]_vars, NEW j \in Joiners
    PROVE  \/ Entering(j)' <=> Entering(j)
           \/ Entering(j)' /\ Admit(j)
           \/ Entering(j) /\ AttachApproved(j)
<1>. USE DEF Entering
<1>. DEFINE Goal == \/ Entering(j)' <=> Entering(j)
                    \/ Entering(j)' /\ Admit(j)
                    \/ Entering(j) /\ AttachApproved(j)
<1>t. HostType
  BY TypeParts
<1>1. ASSUME NEW i \in Joiners, Approve(i) \/ Decline(i)
      PROVE  Goal
  BY <1>t, <1>1 DEF Approve, Decline, ApprPc, Asked, HostType
<1>2. ASSUME NEW i \in Joiners, ApproveThread(i)
      PROVE  Goal
  <2>1. CASE Snapshot(i)
    BY <1>t, <2>1 DEF Snapshot, HostType
  <2>2. CASE Announce(i)
    <3>1. PICK k \in appr[i].todo : appr' = [appr EXCEPT ![i].todo = @ \ {k}]
      BY <2>2 DEF Announce
    <3>. QED
      BY <1>t, <3>1 DEF HostType
  <2>3. CASE i # j /\ (Admit(i) \/ SendWelcome(i) \/ AttachApproved(i))
    BY <1>t, <2>3 DEF Admit, SendWelcome, AttachApproved, ApprPc, HostType
  <2>4. CASE i = j /\ (Admit(i) \/ SendWelcome(i) \/ AttachApproved(i))
    BY <1>t, <2>4 DEF Admit, SendWelcome, AttachApproved, ApprPc, HostType
  <2>. QED
    BY <1>2, <2>1, <2>2, <2>3, <2>4 DEF ApproveThread
<1>3. ASSUME \A i \in Joiners : ~Approve(i) /\ ~Decline(i) /\ ~ApproveThread(i)
      PROVE  UNCHANGED appr
  BY <1>3, ApprFrame
<1>. QED
  BY <1>1, <1>2, <1>3

\* Only approve() connects anyone to the host.
LEMMA NewAtHost ==
    ASSUME TypeOK, Asked, Dialling, [Next]_vars, NEW m \in Nodes,
           peers[Host][m] = NoLink, peers'[Host][m] # NoLink
    PROVE  m \in Joiners /\ AttachApproved(m)
<1>t. Host \in Nodes /\ Host \notin Joiners
  BY MeshAssumption DEF Nodes
<1>1. PICK l \in Links : Enters(Host, m, l)
  BY <1>t, RegistryMoves DEF Keeps, Tells, Empties, Drops
<1>. QED
  BY <1>t, <1>1, MeshLinkType DEF Enters, Attaches

\* Whoever the host loses is off its roster.
LEMMA HostDrops ==
    ASSUME RegistryType, NEW m, NEW l, Drops(Host, m, l)
    PROVE  m \notin roster'[Host]
<1>1. \E tell, show, next : PeerGone(Host, m, l, tell, show, next)
  BY DEF Drops, ReadBye, ReadFails, End
<1>2. roster' = [roster EXCEPT ![Host] = roster[Host] \ {m}]
  BY <1>1 DEF PeerGone, Drops, Linked
<1>3. Host \in Nodes /\ roster \in [Nodes -> SUBSET Nodes]
  BY DEF Nodes, RegistryType
<1>. QED
  BY <1>2, <1>3

LEMMA HostRosterStep ==
    ASSUME TypeOK, Asked, Dialling, Met, Idle, HostHears, HostRoster, [Next]_vars
    PROVE  HostRoster'
<1>t. /\ Host \in Nodes /\ Joiners \subseteq Nodes /\ RegistryType /\ Host \notin Joiners
      /\ HostType /\ roster \in [Nodes -> SUBSET Nodes]
  BY TypeParts, MeshAssumption DEF Nodes, RegistryType
<1>1. SUFFICES ASSUME ~Lost(Host)', NEW m \in Nodes
               PROVE  m \in roster'[Host]
                        <=> peers'[Host][m] # NoLink \/ (m \in Joiners /\ Entering(m)')
  BY DEF HostRoster, Linked
<1>0. ~Lost(Host)
  BY <1>1, <1>t, LifeMoves
<1>i. life[Host] = "idle" => /\ peers[Host][m] = NoLink
                             /\ \A j \in Joiners : appr[j].pc = "no"
  BY <1>t, JoinLinkType DEF Idle, Asked
<1>2. CASE OpenRoom
  <2>1. /\ roster' = [roster EXCEPT ![Host] = {}] /\ UNCHANGED appr
        /\ peers' = [peers EXCEPT ![Host] = [x \in Nodes |-> NoLink]]
        /\ life[Host] = "idle"
    BY <1>2 DEF OpenRoom
  <2>2. roster'[Host] = {}
    BY <1>t, <2>1
  <2>3. peers'[Host][m] = NoLink
    BY <1>t, <2>1 DEF RegistryType
  <2>. QED
    BY <1>i, <2>1, <2>2, <2>3 DEF Entering
<1>3. CASE ~OpenRoom
  <2>1. \A j \in Joiners : AttachApproved(j) => Running(Host)
    BY <1>0, <1>i DEF AttachApproved, Lost, Running
  <2>2. m \in roster[Host] <=> peers[Host][m] # NoLink \/ (m \in Joiners /\ Entering(m))
    BY <1>0 DEF HostRoster, Linked
  <2>3. Keeps(Host, m)
    BY <1>t, RegistryMoves
  <2>4. ASSUME m \in Joiners, Admit(m)
        PROVE  m \in roster'[Host] /\ Entering(m)'
    <3>1. roster' = [roster EXCEPT ![Host] = roster[Host] \cup {m}] /\ ApprPc(m, "welcome")
      BY <2>4 DEF Admit
    <3>2. roster'[Host] = roster[Host] \cup {m}
      BY <1>t, <3>1
    <3>3. appr'[m].pc = "welcome"
      BY <1>t, <2>4, <3>1 DEF ApprPc, HostType
    <3>. QED
      BY <3>2, <3>3 DEF Entering
  <2>5. ASSUME m \in Joiners, AttachApproved(m)
        PROVE  m \in roster'[Host] /\ peers'[Host][m] # NoLink
    <3>1. /\ roster' = [roster EXCEPT ![Host] = roster[Host] \cup {m}]
          /\ peers' = [peers EXCEPT ![Host][m] = JoinLink(m)]
      BY <2>1, <2>5 DEF AttachApproved, Attach
    <3>2. JoinLink(m) # NoLink
      BY <2>5, JoinLinkType, MeshAssumption
    <3>3. roster'[Host] = roster[Host] \cup {m}
      BY <1>t, <3>1
    <3>4. peers'[Host][m] # NoLink
      BY <1>t, <3>1, <3>2 DEF RegistryType
    <3>. QED
      BY <3>3, <3>4
  <2>6. CASE peers[Host][m] # NoLink /\ peers'[Host][m] = NoLink
    <3>1. m \in Joiners => appr[m].pc = "done"
      BY <2>6 DEF Met
    <3>2. m \in Joiners => ~Entering(m)'
      BY <3>1, ApprMoves DEF Entering
    <3>3. PICK l \in Links : Drops(Host, m, l)
      BY <1>1, <1>i, <2>3, <2>6, MeshAssumption DEF Keeps, Tells, Empties, Enters
    <3>. QED
      BY <1>t, <2>6, <3>2, <3>3, HostDrops
  <2>7. CASE peers[Host][m] = NoLink /\ peers'[Host][m] # NoLink
    BY <2>5, <2>7, NewAtHost
  <2>8. CASE peers'[Host][m] # NoLink <=> peers[Host][m] # NoLink
    <3>1. \/ m \in roster'[Host] <=> m \in roster[Host]
          \/ m \in roster'[Host] /\ m \in Joiners /\ Admit(m)
          \/ m \in roster'[Host] /\ peers'[Host][m] # NoLink
      BY <1>0, <1>1, <1>3, <2>1, <2>8, HostRosterMoves
    <3>2. CASE m \in Joiners /\ (Admit(m) \/ AttachApproved(m))
      BY <2>4, <2>5, <3>2
    <3>3. CASE m \in roster'[Host] /\ peers'[Host][m] # NoLink
      BY <3>3
    <3>4. CASE m \in Joiners => ~Admit(m) /\ ~AttachApproved(m)
      <4>1. m \in Joiners => (Entering(m)' <=> Entering(m))
        BY <3>4, EnteringMoves
      <4>. QED
        BY <2>2, <2>8, <3>1, <3>3, <3>4, <4>1
    <3>. QED
      BY <3>2, <3>4
  <2>. QED
    BY <2>6, <2>7, <2>8
<1>. QED
  BY <1>2, <1>3

LEMMA RosterInvariant == Spec => []RInv
<1>1. ASSUME Init
      PROVE  RInv
  <2>1. Own /\ HostRoster
    BY <1>1, MeshAssumption DEF Init, Own, Linked, HostRoster, Entering, Nodes
  <2>2. \A e \in Ends : On(wire[e]) = {}
    BY <1>1 DEF Init, On
  <2>. QED
    BY <2>1, <2>2 DEF RInv, HostHears
<1>2. IInv /\ SInv /\ RInv /\ [Next]_vars => RInv'
  <2>1. SUFFICES ASSUME IInv, SInv, RInv, [Next]_vars
                 PROVE  RInv'
    OBVIOUS
  <2>2. TypeOK /\ Asked /\ Dialling /\ Met /\ Idle /\ Own /\ HostHears /\ HostRoster
    BY <2>1 DEF IInv, SInv, RInv
  <2>. QED
    BY <2>1, <2>2, OwnStep, HostHearsStep, HostRosterStep DEF RInv
<1>. QED
  BY <1>1, <1>2, Invariant, OrderInvariant, PTL DEF Spec

\* approve() puts a newcomer on the host's roster before its Welcome and
\* peer_gone takes it off, and nothing else touches it -- no announcement
\* reaches the host: its roster is who it is connected to, who it is about to
\* attach, and the newcomers whose Welcome it failed to send.
THEOREM HostRosterStaysTrue == Spec => []HostRosterIsTrue
<1>1. IInv /\ RInv => HostRosterIsTrue
  <2>1. SUFFICES ASSUME TypeOK, HostRoster, Running(Host)
                 PROVE  roster[Host] = Connected(Host) \cup {j \in Joiners : Entering(j)}
    BY DEF IInv, RInv, HostRosterIsTrue, Entering
  <2>2. roster[Host] \subseteq Nodes /\ Joiners \subseteq Nodes
    <3>1. Host \in Nodes /\ Joiners \subseteq Nodes
      BY DEF Nodes
    <3>2. roster \in [Nodes -> SUBSET Nodes]
      BY <2>1, TypeParts DEF RegistryType
    <3>. QED
      BY <3>1, <3>2
  <2>3. \A m \in Nodes : m \in roster[Host] <=> Linked(Host, m) \/ (m \in Joiners /\ Entering(m))
    BY <2>1 DEF HostRoster, Lost, Running
  <2>. QED
    BY <2>2, <2>3 DEF Connected, Linked
<1>. QED
  BY <1>1, Invariant, RosterInvariant, PTL

-----------------------------------------------------------------------------
(* No link is lost sight of: how links are made and read.                  *)

\* A call is made once, by its caller.
LEMMA MadeMoves ==
    ASSUME TypeOK, [Next]_vars, NEW l \in Links
    PROVE  /\ Made(l) => Made(l)'
           /\ Made(l)' => \/ Made(l)
                          \/ l \in JoinLinks /\ JoinConnect(Dialer(l))
                          \/ /\ l \in MeshLinks /\ DialConnect(Dialer(l), Target(l))
                             /\ l = CurrentLink(Dialer(l), Target(l))
<1>t. ServeType
  BY TypeParts
<1>1. CASE l \in JoinLinks
  <2>. DEFINE j == Dialer(l)
  <2>1. j \in Joiners /\ l = JoinLink(j)
    BY <1>1, LinkEnds
  <2>2. ServeJoin(j) => serve'[l] # "no"
    BY <1>t, <2>1 DEF ServeJoin, HelloChecked, Park, ServeLost, Reject, ServePc, ServeType
  <2>3. JoinConnect(j) => serve'[l] # "no"
    BY <1>t, <2>1 DEF JoinConnect, Connect, ServeType
  <2>. QED
    BY <1>1, <2>1, <2>2, <2>3, HelloMoves DEF Made
<1>2. CASE l \in MeshLinks
  <2>1. ServeMesh(l) => serve'[l] # "no"
    BY <1>t DEF ServeMesh, ServeLost, MeshHelloRead, GraceOver, FreeCheck, SendAck,
       AttachInbound, Reject, ServePc, ServeType
  <2>2. DialConnect(Dialer(l), Target(l)) /\ l = CurrentLink(Dialer(l), Target(l))
          => serve'[l] # "no"
    BY <1>t DEF DialConnect, Connect, ServeType
  <2>. QED
    BY <1>2, <2>1, <2>2, ServeMoves DEF Made
<1>. QED
  BY <1>1, <1>2 DEF Links

\* Which step starts the reader of an end, and what it puts in the map.
Starts(l, n) ==
    \/ l \in JoinLinks /\ n = Dialer(l) /\ AwaitAttach(n)
    \/ l \in JoinLinks /\ n = Target(l) /\ AttachApproved(Dialer(l))
    \/ /\ l \in MeshLinks /\ n = Dialer(l) /\ DialAcked(n, Target(l))
       /\ l = CurrentLink(n, Target(l))
    \/ l \in MeshLinks /\ n = Target(l) /\ AttachInbound(l)

LEMMA AttachesStarts ==
    ASSUME TypeOK, Dialling, NEW n \in Nodes, NEW m \in Nodes, NEW l, Attaches(n, m, l)
    PROVE  /\ Starts(l, n) /\ Attach(n, m, l)
           /\ l \in Links /\ End(l, n) \in Ends /\ Other(l, n) = m
<1>1. CASE n \in Joiners /\ AwaitAttach(n) /\ m = Host /\ l = JoinLink(n)
  BY <1>1, JoinLinkType, LinkEnds DEF Starts, AwaitAttach, JoinLinks, Other
<1>2. CASE n = Host /\ m \in Joiners /\ AttachApproved(m) /\ l = JoinLink(m)
  <2>1. /\ l \in Links /\ Dialer(l) = m /\ Target(l) = Host /\ End(l, Host) \in Ends
        /\ l \in JoinLinks
    BY <1>2, JoinLinkType DEF JoinLinks
  <2>2. Other(l, Host) = m
    BY <1>2, <2>1, MeshAssumption DEF Other
  <2>. QED
    BY <1>2, <2>1, <2>2 DEF Starts, AttachApproved
<1>3. CASE n \in Joiners /\ m \in Joiners /\ DialAcked(n, m) /\ l = CurrentLink(n, m)
  <2>1. l \in MeshLinks /\ Dialer(l) = n /\ Target(l) = m
    BY <1>3, CurrentIsLink DEF DialAcked
  <2>2. l \in Links /\ End(l, n) \in Ends /\ Other(l, n) = m
    BY <2>1, MeshLinkType DEF Other
  <2>. QED
    BY <1>3, <2>1, <2>2 DEF Starts, DialAcked
<1>4. CASE l \in MeshLinks /\ AttachInbound(l) /\ Target(l) = n /\ Dialer(l) = m
  <2>1. l \in Links /\ End(l, n) \in Ends /\ Other(l, n) = m
    BY <1>4, MeshLinkType DEF Other
  <2>. QED
    BY <1>4, <2>1 DEF Starts, AttachInbound
<1>. QED
  BY <1>1, <1>2, <1>3, <1>4 DEF Attaches

LEMMA ReaderStarts ==
    ASSUME TypeOK, Dialling, [Next]_vars, NEW e \in Ends,
           reader[e] = "no", reader'[e] # "no"
    PROVE  /\ Running(e[2]) /\ Starts(e[1], e[2])
           /\ peers'[e[2]][Other(e[1], e[2])] = e[1]
<1>t. e[2] \in Nodes /\ RegistryType
  BY EndType, TypeParts
<1>1. Spawns(e)
  BY ReaderMoves DEF ReadBye, ReadFails, TellPeers, ShowConnected, ShowGone, Reading
<1>2. PICK m \in Nodes : Attaches(e[2], m, e[1])
  BY <1>1 DEF Spawns
<1>3. Starts(e[1], e[2]) /\ Attach(e[2], m, e[1]) /\ Other(e[1], e[2]) = m
  BY <1>t, <1>2, AttachesStarts
<1>4. Running(e[2])
  BY <1>1 DEF Spawns
<1>5. peers'[e[2]][m] = e[1]
  BY <1>t, <1>3, <1>4 DEF Attach, RegistryType
<1>. QED
  BY <1>3, <1>4, <1>5

\* A call that was answered, or is waited for, was made; a link is read once
\* its call is over; and what leave() has yet to hang up on was read.
Sent ==
    \A j, k \in Joiners : dial[j][k].pc \in {"sent", "ok"} => Made(CurrentLink(j, k))
Over(l, n) ==
    IF n = Target(l) THEN Attached(l)
    ELSE IF l \in JoinLinks THEN join[n] = "done"
    ELSE dial[n][Target(l)].pc = "ok" /\ dial[n][Target(l)].try = l[3]
Read == \A e \in Ends : reader[e] # "no" => Made(e[1]) /\ Over(e[1], e[2])
ByesEnd ==
    \A n \in Nodes : /\ life[n] \notin {"drained", "crashed"} => byes[n] = {}
                     /\ \A l \in byes[n] : reader[End(l, n)] # "no"
OrphansEnd == life[Host] \notin {"drained", "crashed"} => orphans = {}

BInv == Sent /\ Read /\ ByesEnd /\ OrphansEnd

LEMMA SentStep ==
    ASSUME TypeOK, Asked, Dialling, Fresh, Sent, [Next]_vars
    PROVE  Sent'
<1>1. SUFFICES ASSUME NEW j \in Joiners, NEW k \in Joiners, dial'[j][k].pc \in {"sent", "ok"}
               PROVE  Made(CurrentLink(j, k))'
  BY DEF Sent
<1>t. DialType /\ ServeType
  BY TypeParts
<1>2. ASSUME dial[j][k].pc \in {"sent", "ok"}, dial'[j][k].try = dial[j][k].try
      PROVE  Made(CurrentLink(j, k))'
  <2>1. PICK l \in Links : l = CurrentLink(j, k) /\ l = CurrentLink(j, k)'
    BY <1>2, CurrentIsLink DEF CurrentLink
  <2>2. Made(l)
    BY <1>2, <2>1 DEF Sent
  <2>3. Made(l)'
    BY <2>2, MadeMoves
  <2>. QED
    BY <2>1, <2>3 DEF Made
<1>3. CASE DialThread(j, k)
  <2>1. CASE DialConnect(j, k)
    <3>1. PICK l \in Links : l = CurrentLink(j, k)
      BY <2>1, CurrentIsLink DEF DialConnect
    <3>2. serve'[l] = "first"
      BY <1>t, <2>1, <3>1 DEF DialConnect, Connect, ServeType
    <3>3. l = CurrentLink(j, k)'
      BY <1>t, <2>1, <3>1 DEF DialConnect, DialPc, DialType, CurrentLink
    <3>. QED
      BY <3>2, <3>3 DEF Made
  <2>2. CASE DialAcked(j, k)
    BY <1>2, <1>t, <2>2 DEF DialAcked, DialPc, DialType
  <2>3. CASE DialUnreachable(j, k) \/ DialRefused(j, k)
    <3>1. DialNext(j, k)
      BY <2>3 DEF DialUnreachable, DialRefused
    <3>2. dial'[j][k].pc \in {"try", "failed"}
      BY <1>t, <3>1 DEF DialNext, DialPc, DialType
    <3>. QED
      BY <1>1, <3>2
  <2>4. CASE DialBegin(j, k) \/ DialQuits(j, k)
    <3>1. dial'[j][k].pc \in {"try", "quit"}
      BY <1>t, <2>4 DEF DialBegin, DialQuits, DialPc, DialType
    <3>. QED
      BY <1>1, <3>1
  <2>. QED
    BY <1>3, <2>1, <2>2, <2>3, <2>4 DEF DialThread
<1>4. CASE AwaitWelcome(j) \/ AwaitAttach(j)
  <2>1. dial'[j][k] = dial[j][k] \/ dial'[j][k].pc \in {"queued", "begin"}
    BY <1>t, <1>4 DEF AwaitWelcome, AwaitAttach, DialType
  <2>. QED
    BY <1>1, <1>2, <2>1
<1>. QED
  BY <1>1, <1>2, <1>3, <1>4, DialGoes

\* What is over stays over.
LEMMA OverStays ==
    ASSUME TypeOK, Asked, Fresh, [Next]_vars, NEW l \in Links,
           NEW n \in {Dialer(l), Target(l)}, Over(l, n)
    PROVE  Over(l, n)'
<1>1. CASE n = Target(l)
  BY <1>1, AttachedStays DEF Over
<1>2. CASE n # Target(l) /\ l \in JoinLinks
  <2>1. n \in Joiners /\ join[n] = "done"
    BY <1>2, LinkEnds DEF Over
  <2>2. join'[n] = "done"
    BY <2>1, JoinGoes DEF JoinThread, JoinConnect, JoinFails, AwaitWelcome, AwaitAttach,
       AwaitRefused, Join, Asked
  <2>. QED
    BY <1>2, <2>2 DEF Over
<1>3. CASE n # Target(l) /\ l \notin JoinLinks
  <2>1. n \in Joiners /\ Target(l) \in Joiners /\ dial[n][Target(l)].pc = "ok"
    BY <1>3, LinkEnds DEF Over
  <2>2. dial'[n][Target(l)] = dial[n][Target(l)]
    BY <2>1, DialMoves
  <2>. QED
    BY <1>3, <2>2 DEF Over
<1>. QED
  BY <1>1, <1>2, <1>3

LEMMA ReadStep ==
    ASSUME TypeOK, Asked, Dialling, Fresh, Sent, Read, [Next]_vars
    PROVE  Read'
<1>1. SUFFICES ASSUME NEW e \in Ends, reader'[e] # "no"
               PROVE  Made(e[1])' /\ Over(e[1], e[2])'
  BY DEF Read
<1>. DEFINE l == e[1]
            n == e[2]
<1>t. /\ l \in Links /\ n \in {Dialer(l), Target(l)} /\ JoinType /\ DialType /\ HostType
      /\ ServeType
  BY TypeParts, EndType DEF Ends
<1>2. CASE reader[e] # "no"
  BY <1>2, <1>t, MadeMoves, OverStays DEF Read
<1>3. CASE reader[e] = "no"
  <2>0. Starts(l, n)
    BY <1>1, <1>3, ReaderStarts
  <2>1. CASE l \in JoinLinks /\ n = Dialer(l) /\ AwaitAttach(n)
    <3>1. n \in Joiners /\ l = JoinLink(n) /\ n # Target(l)
      BY <1>t, <2>1, LinkEnds
    <3>2. appr[n].pc # "no"
      BY <2>1, <3>1 DEF AwaitAttach, Asked, Admitted, Approved
    <3>3. Made(l)
      BY <3>1, <3>2 DEF Asked, Made
    <3>4. join'[n] = "done"
      BY <1>t, <2>1, <3>1 DEF AwaitAttach, JoinType
    <3>. QED
      BY <1>t, <2>1, <3>1, <3>3, <3>4, MadeMoves DEF Over
  <2>2. CASE l \in JoinLinks /\ n = Target(l) /\ AttachApproved(Dialer(l))
    <3>1. Dialer(l) \in Joiners /\ l = JoinLink(Dialer(l))
      BY <1>t, <2>2, LinkEnds
    <3>2. appr[Dialer(l)].pc # "no"
      BY <2>2 DEF AttachApproved
    <3>3. Made(l)
      BY <3>1, <3>2 DEF Asked, Made
    <3>4. appr'[Dialer(l)].pc = "done"
      BY <1>t, <2>2, <3>1 DEF AttachApproved, ApprPc, HostType
    <3>. QED
      BY <1>t, <2>2, <3>3, <3>4, MadeMoves DEF Over, Attached
  <2>3. CASE /\ l \in MeshLinks /\ n = Dialer(l) /\ DialAcked(n, Target(l))
             /\ l = CurrentLink(n, Target(l))
    <3>1. n \in Joiners /\ Target(l) \in Joiners /\ n # Target(l) /\ l \notin JoinLinks
      BY <1>t, <2>3, LinkEnds
    <3>2. Made(l) /\ l[3] = dial[n][Target(l)].try
      BY <2>3, <3>1 DEF DialAcked, Sent, CurrentLink, MeshLink
    <3>3. dial'[n][Target(l)].pc = "ok" /\ dial'[n][Target(l)].try = dial[n][Target(l)].try
      BY <1>t, <2>3, <3>1 DEF DialAcked, DialPc, DialType
    <3>. QED
      BY <1>t, <3>1, <3>2, <3>3, MadeMoves DEF Over
  <2>4. CASE l \in MeshLinks /\ n = Target(l) /\ AttachInbound(l)
    <3>1. Made(l) /\ serve'[l] = "done" /\ l \notin JoinLinks
      BY <1>t, <2>4, LinkEnds DEF AttachInbound, ServePc, ServeType, Made
    <3>. QED
      BY <1>t, <2>4, <3>1, MadeMoves DEF Over, Attached
  <2>. QED
    BY <2>0, <2>1, <2>2, <2>3, <2>4 DEF Starts
<1>. QED
  BY <1>2, <1>3

LEMMA ByesEndStep ==
    ASSUME TypeOK, Dialling, Own, ByesEnd, OrphansEnd, [Next]_vars
    PROVE  ByesEnd' /\ OrphansEnd'
<1>t. HangupType /\ LifeType /\ Host \in Nodes
  BY TypeParts DEF Nodes
<1>1. ASSUME NEW n \in Nodes, life'[n] \notin {"drained", "crashed"}
      PROVE  byes'[n] = {}
  <2>1. CASE LeaveEnd(n)
    BY <2>1 DEF LeaveEnd
  <2>2. CASE LeaveDrain(n)
    BY <1>1, <1>t, <2>2 DEF LeaveDrain, LifeType
  <2>3. CASE ~LeaveEnd(n) /\ ~LeaveDrain(n)
    <3>1. byes[n] = {}
      BY <1>1, <2>3, LifeGoes DEF ByesEnd
    <3>2. ~LeaveBye(n)
      BY <3>1 DEF LeaveBye
    <3>. QED
      BY <2>3, <3>1, <3>2, ByesGoes
  <2>. QED
    BY <2>1, <2>2, <2>3
<1>2. ASSUME NEW n \in Nodes, NEW l \in byes'[n]
      PROVE  reader'[End(l, n)] # "no"
  <2>1. reader[End(l, n)] # "no"
    BY <1>2, ByesMove DEF ByesEnd, Own, Linked
  <2>2. HangupType'
    BY TypeStep, TypePartsPrimed
  <2>3. End(l, n) \in Ends
    BY <1>2, <2>2 DEF HangupType, End
  <2>. QED
    BY <2>1, <2>3, ReaderStays
<1>3. ASSUME life'[Host] \notin {"drained", "crashed"}
      PROVE  orphans' = {}
  <2>1. CASE LeaveEnd(Host)
    BY <2>1 DEF LeaveEnd
  <2>2. CASE LeaveDrain(Host)
    BY <1>3, <1>t, <2>2 DEF LeaveDrain, LifeType
  <2>3. CASE ~LeaveEnd(Host) /\ ~LeaveDrain(Host)
    <3>1. orphans = {}
      BY <1>3, <1>t, <2>3, LifeGoes DEF OrphansEnd
    <3>2. orphans' = orphans
      BY <2>3, TeardownFrame DEF teardown, LeaveThread, LeaveDrain, LeaveBye, LeaveEnd
    <3>. QED
      BY <3>1, <3>2
  <2>. QED
    BY <2>1, <2>2, <2>3
<1>. QED
  BY <1>1, <1>2, <1>3 DEF ByesEnd, OrphansEnd


LEMMA BookInvariant == Spec => []BInv
<1>1. ASSUME Init
      PROVE  BInv
  <2>1. Sent /\ Read
    BY <1>1 DEF Init, Sent, Read
  <2>2. ByesEnd /\ OrphansEnd
    BY <1>1 DEF Init, ByesEnd, OrphansEnd
  <2>. QED
    BY <2>1, <2>2 DEF BInv
<1>2. IInv /\ AInv /\ RInv /\ BInv /\ [Next]_vars => BInv'
  <2>1. SUFFICES ASSUME IInv, AInv, RInv, BInv, [Next]_vars
                 PROVE  BInv'
    OBVIOUS
  <2>2. /\ TypeOK /\ Asked /\ Dialling /\ Fresh /\ Own /\ Sent /\ Read /\ ByesEnd
        /\ OrphansEnd
    BY <2>1 DEF IInv, AInv, RInv, BInv
  <2>. QED
    BY <2>1, <2>2, SentStep, ReadStep, ByesEndStep DEF BInv
<1>. QED
  BY <1>1, <1>2, Invariant, AnswerInvariant, RosterInvariant, PTL DEF Spec

-----------------------------------------------------------------------------
(* What the operator is shown of a peer.                                   *)

\* The ends of n's links to m.  Unless n reads two links to m, what it shows of
\* m follows from where the reader of the one stands: it shows as connected
\* what the map holds, but for the reader that has yet to show what it did.
Toward(n, m) == {e \in Ends : e[2] = n /\ Other(e[1], n) = m}
SeenOf(n, m) ==
    /\ (\A e \in Toward(n, m) : reader[e] = "no")
          => ~Linked(n, m) /\ status[n][m] # "Connected"
    /\ \A e \in Toward(n, m) :
          /\ reader[e] = "begin" => Linked(n, m)
          /\ reader[e] \in Parting \cup {"done"} => ~Linked(n, m)
          /\ reader[e] \in {"run", "done"} => (status[n][m] = "Connected" <=> Linked(n, m))
Seen == \A n, m \in Nodes : Running(n) /\ ~Doubled(n, m) => SeenOf(n, m)

\* An end is attached once, and two that were attached stay so.
LEMMA StartsOnce ==
    ASSUME Read, NEW l \in Links, NEW n \in {Dialer(l), Target(l)}, Starts(l, n)
    PROVE  reader[End(l, n)] = "no"
<1>1. End(l, n) \in Ends /\ Dialer(l) # Target(l) /\ (l \in MeshLinks <=> l \notin JoinLinks)
  BY LinkEnds
<1>2. ~Over(l, n)
  BY <1>1 DEF Starts, Over, Attached, AwaitAttach, AttachApproved, DialAcked, AttachInbound
<1>. QED
  BY <1>1, <1>2 DEF Read, End

LEMMA TowardEnds ==
    ASSUME NEW n \in Nodes, NEW m \in Nodes, NEW e \in Toward(n, m)
    PROVE  /\ e \in Ends /\ e[2] = n /\ Other(e[1], n) = m /\ e[1] \in Links
           /\ e = End(e[1], n) /\ n \in {Dialer(e[1]), Target(e[1])}
           /\ {n, m} = {Dialer(e[1]), Target(e[1])} /\ n # m
<1>1. /\ e \in Ends /\ e[2] = n /\ Other(e[1], n) = m /\ e[1] \in Links
      /\ e = End(e[1], n) /\ n \in {Dialer(e[1]), Target(e[1])}
  BY EndType DEF Toward, Ends
<1>. QED
  BY <1>1, LinkEnds DEF Other

LEMMA TwoRead ==
    ASSUME NEW n \in Nodes, NEW m \in Nodes, NEW e \in Toward(n, m), NEW f \in Toward(n, m),
           e # f
    PROVE  /\ reader[e] # "no" /\ reader[f] # "no" => Doubled(n, m)
           /\ reader'[e] # "no" /\ reader'[f] # "no" => Doubled(n, m)'
<1>1. /\ e[1] \in Links /\ f[1] \in Links /\ e[1] # f[1]
      /\ e = End(e[1], n) /\ f = End(f[1], n) /\ e \in Ends /\ f \in Ends
      /\ Other(e[1], n) = m /\ Other(f[1], n) = m
  BY TowardEnds
<1>. QED
  BY <1>1 DEF Doubled

LEMMA DoubledStays ==
    ASSUME TypeOK, [Next]_vars, NEW n \in Nodes, NEW m \in Nodes, Doubled(n, m)
    PROVE  Doubled(n, m)'
<1>1. PICK k \in Links, l \in Links :
         /\ k # l /\ End(k, n) \in Ends /\ End(l, n) \in Ends
         /\ Other(k, n) = m /\ Other(l, n) = m
         /\ reader[End(k, n)] # "no" /\ reader[End(l, n)] # "no"
  BY DEF Doubled
<1>2. reader'[End(k, n)] # "no" /\ reader'[End(l, n)] # "no"
  BY <1>1, ReaderStays
<1>. QED
  BY <1>1, <1>2 DEF Doubled

\* The link between two joiners is a mesh link, which one of them dialled.
LEMMA Between ==
    ASSUME NEW j \in Joiners, NEW k \in Joiners, NEW e \in Toward(j, k)
    PROVE  /\ e[1] \in MeshLinks /\ e[1] \notin JoinLinks
           /\ \/ Dialer(e[1]) = j /\ Target(e[1]) = k
              \/ Dialer(e[1]) = k /\ Target(e[1]) = j
           /\ e[1] = MeshLink(Dialer(e[1]), Target(e[1]), e[1][3])
<1>1. j \in Nodes /\ k \in Nodes /\ j # Host /\ k # Host
  BY MeshAssumption DEF Nodes
<1>2. e[1] \in Links /\ {j, k} = {Dialer(e[1]), Target(e[1])} /\ j # k
  BY <1>1, TowardEnds
<1>3. e[1] \notin JoinLinks
  BY <1>1, <1>2, LinkEnds
<1>. QED
  BY <1>2, <1>3, LinkEnds

\* A joiner reads no link to whom it is still dialling, and one, of its own
\* making, to whom it has dialled.
LEMMA DialedRead ==
    ASSUME Welcomed, OneDials, Dialled, Read, NEW j \in Joiners, NEW k \in Joiners,
           dial[j][k].pc # "no", NEW e \in Toward(j, k), reader[e] # "no"
    PROVE  /\ dial[j][k].pc = "ok" /\ e[1] = CurrentLink(j, k)
           /\ e[1] \in MeshLinks /\ Dialer(e[1]) = j /\ Target(e[1]) = k
<1>1. /\ e[1] \in MeshLinks /\ e[1] \notin JoinLinks
      /\ \/ Dialer(e[1]) = j /\ Target(e[1]) = k
         \/ Dialer(e[1]) = k /\ Target(e[1]) = j
      /\ e[1] = MeshLink(Dialer(e[1]), Target(e[1]), e[1][3])
  BY Between
<1>2. j \in Nodes /\ k \in Nodes
  BY DEF Nodes
<1>3. e \in Ends /\ e[2] = j /\ j # k
  BY <1>2, TowardEnds
<1>4. Made(e[1]) /\ Over(e[1], j)
  BY <1>3 DEF Read
<1>5. ~(Dialer(e[1]) = k /\ Target(e[1]) = j)
  BY <1>1, <1>4 DEF Dialled, Welcomed, OneDials
<1>6. Dialer(e[1]) = j /\ Target(e[1]) = k
  BY <1>1, <1>5
<1>7. dial[j][k].pc = "ok" /\ dial[j][k].try = e[1][3]
  BY <1>1, <1>3, <1>4, <1>6 DEF Over
<1>. QED
  BY <1>1, <1>6, <1>7 DEF CurrentLink

LEMMA DialerReadsOne ==
    ASSUME Welcomed, OneDials, Dialled, Read, NEW j \in Joiners, NEW k \in Joiners,
           dial[j][k].pc # "no"
    PROVE  ~Doubled(j, k)
<1>1. SUFFICES ASSUME NEW l \in Links, NEW h \in Links, l # h,
                      End(l, j) \in Ends, End(h, j) \in Ends, Other(l, j) = k, Other(h, j) = k,
                      reader[End(l, j)] # "no", reader[End(h, j)] # "no"
               PROVE  FALSE
  BY DEF Doubled
<1>2. /\ End(l, j) \in Toward(j, k) /\ End(h, j) \in Toward(j, k)
      /\ End(l, j)[1] = l /\ End(h, j)[1] = h
  BY <1>1 DEF Toward, End
<1>3. l = CurrentLink(j, k) /\ h = CurrentLink(j, k)
  BY <1>1, <1>2, DialedRead
<1>. QED
  BY <1>1, <1>3

\* Nobody reads any link to m: nothing starts to show.
LEMMA UnreadSeen ==
    ASSUME TypeOK, Asked, Dialling, [Next]_vars, NEW n \in Nodes, NEW m \in Nodes,
           SeenOf(n, m), \A e \in Toward(n, m) : reader'[e] = "no"
    PROVE  SeenOf(n, m)'
<1>1. \A e \in Toward(n, m) : reader[e] = "no"
  BY ReaderStays DEF Toward
<1>2. peers[n][m] = NoLink /\ status[n][m] # "Connected"
  BY <1>1 DEF SeenOf, Linked
<1>3. ASSUME NEW e \in Ends, e[2] = n, Other(e[1], n) = m
      PROVE  ~ShowConnected(e) /\ ~ShowGone(e) /\ reader'[e] = "no"
  BY <1>1, <1>3 DEF Toward, ShowConnected, ShowGone
<1>4. ASSUME NEW l \in Links, End(l, n) \in Ends, Other(l, n) = m
      PROVE  reader'[End(l, n)] = "no"
  <2>1. End(l, n)[1] = l /\ End(l, n)[2] = n
    BY DEF End
  <2>. QED
    BY <1>3, <1>4, <2>1
<1>5. peers'[n][m] = NoLink /\ status'[n][m] # "Connected"
  BY <1>2, <1>3, <1>4, RegistryMoves DEF Keeps, Tells, Empties, Enters, Drops, Linked
<1>. QED
  BY <1>5 DEF SeenOf, Linked, Toward

\* One reader of n's shows m: what it does next it shows next.
LEMMA ReaderSeen ==
    ASSUME TypeOK, Asked, Fresh, Dialling, Idle, OneDials, Dialled, Welcomed, Read,
           [Next]_vars, NEW n \in Nodes, NEW m \in Nodes, Running(n)', SeenOf(n, m),
           NEW e \in Toward(n, m), reader'[e] # "no",
           \A f \in Toward(n, m) : f # e => reader'[f] = "no"
    PROVE  /\ reader'[e] = "begin" => Linked(n, m)'
           /\ reader'[e] \in Parting \cup {"done"} => ~Linked(n, m)'
           /\ reader'[e] \in {"run", "done"}
                => (status'[n][m] = "Connected" <=> Linked(n, m)')
<1>. DEFINE Goal ==
           /\ reader'[e] = "begin" => peers'[n][m] # NoLink
           /\ reader'[e] \in Parting \cup {"done"} => peers'[n][m] = NoLink
           /\ reader'[e] \in {"run", "done"}
                => (status'[n][m] = "Connected" <=> peers'[n][m] # NoLink)
<1>. USE DEF node
<1>t. /\ e \in Ends /\ e[2] = n /\ Other(e[1], n) = m /\ e[1] \in Links /\ e = End(e[1], n)
      /\ n \in {Dialer(e[1]), Target(e[1])} /\ RegistryType
  BY TowardEnds, TypeParts
<1>s. /\ reader[e] = "begin" => peers[n][m] # NoLink
      /\ reader[e] \in Parting \cup {"done"} => peers[n][m] = NoLink
      /\ reader[e] \in {"run", "done"}
           => (status[n][m] = "Connected" <=> peers[n][m] # NoLink)
  BY DEF SeenOf, Linked
<1>o. ASSUME NEW f \in Ends, f[2] = n, Other(f[1], n) = m, reader[f] # "no" \/ reader'[f] # "no"
      PROVE  f = e
  BY <1>o, ReaderStays DEF Toward
<1>1. CASE reader[e] = "no"
  <2>1. Spawns(e) /\ reader'[e] = "begin"
    BY <1>1, <1>t, ReaderMoves DEF ReadBye, ReadFails, TellPeers, ShowConnected, ShowGone,
       Reading
  <2>2. peers'[n][m] = e[1]
    BY <1>1, <1>t, <2>1, ReaderStarts
  <2>3. e[1] # NoLink
    BY <1>t, MeshAssumption
  <2>. QED
    BY <2>1, <2>2, <2>3 DEF Parting, Linked
<1>2. CASE reader[e] # "no"
  <2>i. life[n] # "idle"
    BY <1>2, <1>t DEF Idle
  <2>n. ASSUME NEW l \in Links, NEW x \in Nodes, Attaches(n, x, l), End(l, n) = e
        PROVE  FALSE
    <3>1. Starts(l, n) /\ l = e[1]
      BY <1>t, <2>n, AttachesStarts DEF End
    <3>. QED
      BY <1>2, <1>t, <3>1, StartsOnce
  <2>1. CASE reader'[e] = reader[e]
    <3>0. ~ShowConnected(e) /\ ~ShowGone(e)
      BY <1>t, <2>1 DEF ShowConnected, ShowGone, RegistryType
    <3>1. CASE Tells(n, m)
      <4>1. CASE status'[n][m] = status[n][m]
        BY <1>s, <2>1, <3>1, <4>1 DEF Tells, Linked
      <4>2. CASE n \in Joiners /\ m \in Joiners /\ dial[n][m].pc \in {"begin", "try", "sent"}
        BY <1>2, <4>2, DialedRead
      <4>3. ASSUME NEW f \in Ends, f[2] = n, Other(f[1], n) = m,
                   ShowConnected(f) \/ ShowGone(f)
            PROVE  FALSE
        BY <1>o, <3>0, <4>3 DEF ShowConnected, ShowGone
      <4>. QED
        BY <3>1, <4>1, <4>2, <4>3 DEF Tells
    <3>2. ~Empties(n)
      BY <2>i DEF Empties, Running, Lost
    <3>3. ASSUME NEW l \in Links, Enters(n, m, l)
          PROVE  FALSE
      <4>1. End(l, n) = e
        BY <1>o, <3>3 DEF Enters, End
      <4>. QED
        BY <2>n, <3>3, <4>1 DEF Enters
    <3>4. ASSUME NEW l \in Links, Drops(n, m, l)
          PROVE  FALSE
      <4>1. End(l, n) = e /\ reader[e] = "run" /\ reader'[e] \in Parting
        BY <1>o, <3>4 DEF Drops, End, ReadBye, ReadFails, Reading, Parting
      <4>. QED
        BY <2>1, <4>1 DEF Parting
    <3>. QED
      BY <3>1, <3>2, <3>3, <3>4, RegistryMoves DEF Keeps
  <2>2. ~Spawns(e)
    BY <1>t, <2>n DEF Spawns
  <2>3. CASE ReadBye(e) \/ ReadFails(e)
    <3>1. reader[e] = "run"
      BY <2>3 DEF ReadBye, ReadFails, Reading
    <3>2. \E tell \in Parting, show \in Parting, next \in {"run", "done"} :
             PeerGone(n, m, e[1], tell, show, next)
      BY <1>t, <2>3 DEF ReadBye, ReadFails, Parting
    <3>3. CASE peers[n][m] # NoLink
      <4>1. /\ peers' = [peers EXCEPT ![n][m] = NoLink]
            /\ \E r \in Parting : reader' = [reader EXCEPT ![e] = r]
        BY <1>t, <3>2, <3>3 DEF PeerGone
      <4>2. peers'[n][m] = NoLink /\ reader'[e] \in Parting
        BY <1>t, <4>1 DEF RegistryType
      <4>. QED
        BY <4>2 DEF Linked, Parting
    <3>4. CASE peers[n][m] = NoLink
      <4>1. /\ UNCHANGED <<peers, status>>
            /\ \E r \in {"run", "done"} : reader' = [reader EXCEPT ![e] = r]
        BY <1>t, <3>2, <3>4 DEF PeerGone
      <4>2. reader'[e] \in {"run", "done"}
        BY <1>t, <4>1 DEF RegistryType
      <4>. QED
        BY <1>s, <3>1, <3>4, <4>1, <4>2 DEF Linked, Parting
    <3>. QED
      BY <3>3, <3>4
  <2>4. CASE TellPeers(e)
    <3>1. reader[e] \in Parting /\ reader'[e] \in Parting /\ UNCHANGED peers
      BY <1>t, <2>4 DEF TellPeers, Parting, RegistryType
    <3>. QED
      BY <1>s, <3>1 DEF Linked, Parting
  <2>5. CASE ShowConnected(e)
    <3>1. /\ reader[e] = "begin" /\ reader'[e] = "run" /\ UNCHANGED peers
          /\ status' = [status EXCEPT ![n][m] = "Connected"]
      BY <1>t, <2>5 DEF ShowConnected, Show, RegistryType
    <3>2. status'[n][m] = "Connected"
      BY <1>t, <3>1 DEF RegistryType
    <3>. QED
      BY <1>s, <3>1, <3>2 DEF Linked, Parting
  <2>6. CASE ShowGone(e)
    <3>1. /\ reader[e] \in Parting /\ reader'[e] \in {"run", "done"} /\ UNCHANGED peers
          /\ status' = [status EXCEPT ![n][m] = "Disconnected"]
      BY <1>t, <2>6 DEF ShowGone, Show, RegistryType, Parting
    <3>2. status'[n][m] = "Disconnected"
      BY <1>t, <3>1 DEF RegistryType
    <3>. QED
      BY <1>s, <3>1, <3>2 DEF Linked, Parting
  <2>. QED
    BY <1>t, <2>1, <2>2, <2>3, <2>4, <2>5, <2>6, ReaderMoves
<1>. QED
  BY <1>1, <1>2

\* Every step shows what it does to the map, or leaves a reader to show it.
LEMMA SeenStep ==
    ASSUME TypeOK, Asked, Fresh, Dialling, Idle, OneDials, Dialled, Welcomed, Read,
           Seen, [Next]_vars
    PROVE  Seen'
<1>1. SUFFICES ASSUME NEW n \in Nodes, NEW m \in Nodes, Running(n)', ~Doubled(n, m)'
               PROVE  SeenOf(n, m)'
  BY DEF Seen
<1>2. ~Doubled(n, m)
  BY <1>1, DoubledStays
<1>3. SeenOf(n, m)
  <2>1. Running(n) \/ life[n] = "idle"
    BY <1>1, LifeMoves DEF Running, Lost
  <2>2. CASE life[n] = "idle"
    <3>1. peers[n][m] = NoLink /\ status[n][m] = "none"
      BY <2>2 DEF Idle
    <3>2. \A e \in Toward(n, m) : reader[e] = "no"
      BY <2>2 DEF Idle, Toward
    <3>. QED
      BY <3>1, <3>2 DEF SeenOf, Linked, Parting
  <2>. QED
    BY <1>2, <2>1, <2>2 DEF Seen
<1>4. CASE \A e \in Toward(n, m) : reader'[e] = "no"
  BY <1>3, <1>4, UnreadSeen
<1>5. ASSUME NEW e \in Toward(n, m), reader'[e] # "no"
      PROVE  SeenOf(n, m)'
  <2>1. \A f \in Toward(n, m) : f # e => reader'[f] = "no"
    BY <1>1, <1>5, TwoRead
  <2>2. /\ reader'[e] = "begin" => Linked(n, m)'
        /\ reader'[e] \in Parting \cup {"done"} => ~Linked(n, m)'
        /\ reader'[e] \in {"run", "done"} => (status'[n][m] = "Connected" <=> Linked(n, m)')
    BY <1>1, <1>3, <1>5, <2>1, ReaderSeen
  <2>. QED
    BY <1>5, <2>1, <2>2 DEF SeenOf, Toward, Parting
<1>. QED
  BY <1>4, <1>5

LEMMA SeenInvariant == Spec => []Seen
<1>1. Init => Seen
  BY DEF Init, Seen, Running
<1>2. IInv /\ AInv /\ TInv /\ SInv /\ BInv /\ Seen /\ [Next]_vars => Seen'
  BY SeenStep DEF IInv, AInv, TInv, SInv, BInv
<1>. QED
  BY <1>1, <1>2, Invariant, AnswerInvariant, ToldInvariant, OrderInvariant, BookInvariant, PTL
  DEF Spec

\* attach_peer and peer_gone tell the operator of a running node what they did
\* to its map only after they let go of it, the host's peer_gone after a round
\* of sends; yet once they have, a peer is shown as connected exactly when the
\* map holds a link to it -- no dialling thread's Connecting or Failed covers a
\* link the other side made meanwhile -- unless two links to it were attached.
THEOREM StatusStaysTrue == Spec => []StatusIsTrue
<1>1. TypeOK /\ Seen => StatusIsTrue
  <2>1. SUFFICES ASSUME TypeOK, Seen, NEW n \in Nodes, NEW m \in Nodes, Running(n), ~Doubled(n, m),
                        ~Late(n, m)
                 PROVE  status[n][m] = "Connected" <=> Linked(n, m)
    BY DEF StatusIsTrue
  <2>2. SeenOf(n, m)
    BY <2>1 DEF Seen
  <2>3. ASSUME NEW e \in Toward(n, m)
        PROVE  reader[e] \notin Parting \cup {"begin"}
    <3>1. e[1] \in Links /\ e = End(e[1], n) /\ e \in Ends /\ Other(e[1], n) = m
      BY TowardEnds
    <3>. QED
      BY <2>1, <3>1 DEF Late, Parting
  <2>4. CASE \A e \in Toward(n, m) : reader[e] = "no"
    BY <2>2, <2>4 DEF SeenOf
  <2>5. ASSUME NEW e \in Toward(n, m), reader[e] # "no"
        PROVE  status[n][m] = "Connected" <=> Linked(n, m)
    <3>1. reader[e] \in ReaderStates
      BY <2>1, TypeParts DEF RegistryType, Toward
    <3>2. reader[e] \in {"run", "done"}
      BY <2>3, <2>5, <3>1 DEF ReaderStates, Parting
    <3>. QED
      BY <2>2, <3>2 DEF SeenOf
  <2>. QED
    BY <2>4, <2>5
<1>2. IInv => TypeOK
  BY DEF IInv
<1>. QED
  BY <1>1, <1>2, Invariant, SeenInvariant, PTL

-----------------------------------------------------------------------------
(* Every pair meets, when the operator admits one joiner at a time.        *)

\* One approval is in progress; a newcomer is told of everyone the host has
\* connected by the time it is attached; so of two peers one was told of the
\* other.
OneAtATime == \A i, x \in Approving : i = x
MetAll ==
    \A j \in Joiners : appr[j].pc \in {"announce", "welcome", "attach"}
                         => Connected(Host) \subseteq appr[j].met
PairMet ==
    \A j, k \in Joiners :
        j # k /\ Linked(Host, j) /\ Linked(Host, k) => j \in appr[k].met \/ k \in appr[j].met

\* Whom a welcomed node is to meet it has been told of, or will be when it
\* reads the Welcome, unless it left or its link to the host was lost; and the
\* end of a dial shows.
Begun == {"begin", "try", "sent", "ok", "failed"}
Knows(j, k) ==
    \/ \E msg \in On(wire[End(JoinLink(j), j)]) : msg.type = "Welcome"
    \/ join[j] = "attach" /\ dial[j][k].pc = "queued"
    \/ dial[j][k].pc \in Begun
Given ==
    \A j, k \in Joiners :
        /\ Settled(j) /\ k \in appr[j].met
        /\ Running(j) /\ ~Cut(JoinLink(j), Host)
        => Knows(j, k)
Ended ==
    \A j, k \in Joiners : Running(j) =>
        /\ dial[j][k].pc = "ok" => Linked(j, k) \/ Late(j, k) \/ status[j][k] = "Disconnected"
        /\ dial[j][k].pc = "failed" => status[j][k] = "Failed"

PInv == OneAtATime /\ MetAll /\ PairMet
GInv == Given /\ Ended

\* An approval is moved by its own call.
LEMMA ApprGoes ==
    ASSUME TypeOK, [Next]_vars, NEW j \in Joiners
    PROVE  appr'[j] = appr[j] \/ ApproveThread(j) \/ Approve(j) \/ Decline(j)
<1>t. HostType
  BY TypeParts
<1>1. ASSUME NEW i \in Joiners, i # j, Approve(i) \/ Decline(i)
      PROVE  appr'[j] = appr[j]
  BY <1>t, <1>1 DEF Approve, Decline, ApprPc, HostType
<1>2. ASSUME NEW i \in Joiners, i # j, ApproveThread(i)
      PROVE  appr'[j] = appr[j]
  <2>1. CASE Snapshot(i)
    BY <1>t, <1>2, <2>1 DEF Snapshot, HostType
  <2>2. CASE Announce(i)
    <3>1. PICK k \in appr[i].todo : appr' = [appr EXCEPT ![i].todo = @ \ {k}]
      BY <2>2 DEF Announce
    <3>. QED
      BY <1>t, <1>2, <3>1 DEF HostType
  <2>3. CASE Admit(i) \/ SendWelcome(i) \/ AttachApproved(i)
    BY <1>t, <1>2, <2>3 DEF Admit, SendWelcome, AttachApproved, ApprPc, HostType
  <2>. QED
    BY <1>2, <2>1, <2>2, <2>3 DEF ApproveThread
<1>. QED
  BY <1>1, <1>2, ApprFrame

\* How the call goes.
LEMMA ApprSteps ==
    ASSUME TypeOK, NEW j \in Joiners, ApproveThread(j)
    PROVE  \/ Snapshot(j) /\ appr[j].pc = "snapshot" /\ appr'[j].pc = "announce"
              /\ appr'[j].met = Connected(Host)
           \/ Announce(j) /\ appr[j].pc = "announce" /\ appr'[j].pc = "announce"
              /\ appr'[j].met = appr[j].met
           \/ Admit(j) /\ appr[j].pc = "announce" /\ appr'[j].pc = "welcome"
              /\ appr'[j].met = appr[j].met
           \/ SendWelcome(j) /\ appr[j].pc = "welcome" /\ appr'[j].pc \in {"attach", "broken"}
              /\ appr'[j].met = appr[j].met
           \/ AttachApproved(j) /\ appr[j].pc = "attach" /\ appr'[j].pc = "done"
              /\ appr'[j].met = appr[j].met
<1>t. HostType
  BY TypeParts
<1>1. CASE Snapshot(j)
  BY <1>t, <1>1 DEF Snapshot, HostType
<1>2. CASE Announce(j)
  <2>1. PICK k \in appr[j].todo : appr' = [appr EXCEPT ![j].todo = @ \ {k}]
    BY <1>2 DEF Announce
  <2>2. appr'[j].pc = appr[j].pc /\ appr'[j].met = appr[j].met
    BY <1>t, <2>1 DEF HostType
  <2>. QED
    BY <1>2, <2>2 DEF Announce
<1>3. CASE Admit(j)
  BY <1>t, <1>3 DEF Admit, ApprPc, HostType
<1>4. CASE SendWelcome(j)
  BY <1>t, <1>4 DEF SendWelcome, ApprPc, HostType
<1>5. CASE AttachApproved(j)
  BY <1>t, <1>5 DEF AttachApproved, ApprPc, HostType
<1>. QED
  BY <1>1, <1>2, <1>3, <1>4, <1>5 DEF ApproveThread

LEMMA OneAtATimeStep ==
    ASSUME MaxApprovers = 1, TypeOK, OneAtATime, [Next]_vars
    PROVE  OneAtATime'
<1>1. SUFFICES ASSUME NEW i \in Joiners, NEW x \in Joiners,
                      i \in Approving', x \in Approving'
               PROVE  i = x
  BY DEF OneAtATime, Approving
<1>2. ASSUME NEW y \in Joiners, y \in Approving'
      PROVE  y \in Approving \/ Approve(y)
  <2>1. appr'[y].pc \in {"snapshot", "announce", "welcome", "attach"}
    BY <1>2 DEF Approving
  <2>2. ~Decline(y)
    BY <2>1, TypeParts DEF Decline, ApprPc, HostType
  <2>. QED
    BY <2>1, <2>2, ApprGoes, ApprSteps DEF Approving
<1>3. ASSUME NEW y \in Joiners, Approve(y)
      PROVE  Approving = {}
  <2>1. Cardinality(Approving) < 1
    BY <1>3 DEF Approve
  <2>2. ASSUME NEW z \in Approving
        PROVE  FALSE
    <3>1. Approving = {z}
      BY DEF OneAtATime
    <3>2. Cardinality({z}) = 1
      BY FS_Singleton
    <3>. QED
      BY <2>1, <3>1, <3>2
  <2>. QED
    BY <2>2
<1>4. Approve(i) /\ Approve(x) => i = x
  BY DEF Approve
<1>. QED
  BY <1>1, <1>2, <1>3, <1>4 DEF OneAtATime

LEMMA MetAllStep ==
    ASSUME TypeOK, Asked, Dialling, OneAtATime, MetAll, [Next]_vars
    PROVE  MetAll'
<1>t. HostType
  BY TypeParts
<1>1. SUFFICES ASSUME NEW j \in Joiners, appr'[j].pc \in {"announce", "welcome", "attach"},
                      NEW m \in Nodes, peers'[Host][m] # NoLink
               PROVE  m \in appr'[j].met
  BY DEF MetAll, Connected
<1>2. CASE appr'[j] = appr[j]
  <2>1. peers[Host][m] # NoLink
    <3>1. SUFFICES ASSUME m \in Joiners, AttachApproved(m)
                   PROVE  FALSE
      BY <1>1, NewAtHost
    <3>2. m \in Approving /\ j \in Approving
      BY <1>1, <1>2, <3>1 DEF AttachApproved, Approving
    <3>3. appr'[m].pc = "done"
      BY <1>t, <3>1 DEF AttachApproved, ApprPc, HostType
    <3>. QED
      BY <1>1, <3>2, <3>3 DEF OneAtATime
  <2>. QED
    BY <1>1, <1>2, <2>1 DEF MetAll, Connected
<1>3. CASE ApproveThread(j)
  <2>1. UNCHANGED peers
    BY <1>1, <1>3, ApprSteps DEF Snapshot, Announce, Admit, SendWelcome, node
  <2>2. m \in Connected(Host)
    BY <1>1, <2>1 DEF Connected
  <2>. QED
    BY <1>1, <1>3, <2>2, ApprSteps DEF MetAll
<1>4. CASE Approve(j) \/ Decline(j)
  BY <1>t, <1>1, <1>4 DEF Approve, Decline, ApprPc, HostType
<1>. QED
  BY <1>2, <1>3, <1>4, ApprGoes

LEMMA PairMetStep ==
    ASSUME TypeOK, Asked, Dialling, Met, MetAll, PairMet, [Next]_vars
    PROVE  PairMet'
<1>1. SUFFICES ASSUME NEW j \in Joiners, NEW k \in Joiners, j # k,
                      peers'[Host][j] # NoLink, peers'[Host][k] # NoLink
               PROVE  j \in appr'[k].met \/ k \in appr'[j].met
  BY DEF PairMet, Linked
<1>t. j \in Nodes /\ k \in Nodes
  BY DEF Nodes
<1>2. ASSUME NEW x \in Joiners, appr[x].pc \in {"attach", "done"}
      PROVE  appr'[x].met = appr[x].met
  BY <1>2, MetMoves DEF Snapshot
<1>3. ASSUME NEW x \in Joiners, NEW y \in Joiners, x # y, AttachApproved(x),
             peers'[Host][y] # NoLink
      PROVE  y \in appr'[x].met
  <2>1. peers[Host][y] # NoLink
    <3>1. SUFFICES ASSUME AttachApproved(y)
                   PROVE  FALSE
      BY <1>3, NewAtHost DEF Nodes
    <3>2. appr'[x].pc = "done" /\ appr[x].pc = "attach" /\ appr'[x] = appr[x]
      BY <1>3, <3>1, TypeParts DEF AttachApproved, ApprPc, HostType
    <3>. QED
      BY <3>2
  <2>2. y \in appr[x].met /\ appr[x].pc = "attach"
    BY <1>3, <2>1 DEF AttachApproved, MetAll, Connected, Nodes
  <2>. QED
    BY <1>2, <2>2
<1>4. CASE peers[Host][j] # NoLink /\ peers[Host][k] # NoLink
  BY <1>1, <1>2, <1>4 DEF PairMet, Linked, Met
<1>. QED
  BY <1>1, <1>3, <1>4, <1>t, NewAtHost

\* Who is told of a peer dials it until that is decided.
LEMMA BegunStays ==
    ASSUME TypeOK, Asked, Fresh, [Next]_vars, NEW j \in Joiners, NEW k \in Joiners,
           Running(j), dial[j][k].pc \in Begun
    PROVE  dial'[j][k].pc \in Begun
<1>t. DialType
  BY TypeParts
<1>1. CASE DialThread(j, k)
  <2>1. CASE DialBegin(j, k) \/ DialConnect(j, k) \/ DialAcked(j, k)
    BY <1>t, <2>1 DEF DialBegin, DialConnect, DialAcked, DialPc, DialType, Begun
  <2>2. CASE DialUnreachable(j, k) \/ DialRefused(j, k)
    <3>1. DialNext(j, k)
      BY <2>2 DEF DialUnreachable, DialRefused
    <3>. QED
      BY <1>t, <3>1 DEF DialNext, DialPc, DialType, Begun
  <2>3. ~DialQuits(j, k)
    BY DEF DialQuits
  <2>. QED
    BY <1>1, <2>1, <2>2, <2>3 DEF DialThread
<1>2. CASE AwaitAttach(j)
  BY <1>t, <1>2 DEF AwaitAttach, DialType, Begun
<1>3. ~AwaitWelcome(j)
  BY DEF AwaitWelcome, Fresh, Asking, Begun
<1>. QED
  BY <1>1, <1>2, <1>3, DialGoes

LEMMA KnownStep ==
    ASSUME TypeOK, Asked, Fresh, Reported, Given, [Next]_vars
    PROVE  Given'
<1>1. SUFFICES ASSUME NEW j \in Joiners, NEW k \in Joiners, Settled(j)', k \in appr'[j].met,
                      Running(j)', ~Cut(JoinLink(j), Host)'
               PROVE  Knows(j, k)'
  BY DEF Given
<1>. DEFINE l == JoinLink(j)
            e == End(l, j)
<1>t. /\ e \in Ends /\ e[2] = j /\ wire[e] \in Seq(Messages) /\ WireType /\ HostType
      /\ DialType /\ JoinType /\ j \in Nodes
      /\ l \in Links /\ Dialer(l) = j /\ Target(l) = Host /\ FarEnd(l, Host) = e
  BY JoinLinkType, LinkEnds, TypeParts DEF WireType, End, Nodes
<1>2. ~Cut(l, Host)
  BY <1>1, ShutGrows DEF Cut
<1>3. CASE ~Settled(j)
  <2>1. SendWelcome(j) /\ appr'[j].pc = "attach"
    <3>1. ~Approve(j) /\ ~Decline(j) /\ appr'[j] # appr[j]
      BY <1>1, <1>3, <1>t DEF Settled, Approve, Decline, ApprPc, HostType
    <3>. QED
      BY <1>1, <1>3, <3>1, ApprGoes, ApprSteps DEF Settled
  <2>2. wire' = Put(wire, l, Host, Msg("Welcome", appr[j].met))
    BY <1>t, <2>1 DEF SendWelcome, ApprPc, HostType
  <2>3. wire'[e] = Append(wire[e], Msg("Welcome", appr[j].met))
    BY <1>2, <1>t, <2>2 DEF Put, WireType
  <2>4. Msg("Welcome", appr[j].met) \in Messages
    BY <1>t, MsgType DEF HostType, MsgTypes
  <2>5. Msg("Welcome", appr[j].met) \in On(wire'[e])
    BY <1>t, <2>3, <2>4, OnAppend
  <2>. QED
    BY <2>5 DEF Knows, Msg
<1>4. CASE Settled(j)
  <2>1. appr'[j].met = appr[j].met
    BY <1>4, ApprTells
  <2>2. Running(j)
    <3>1. Running(j) \/ life[j] = "idle"
      BY <1>1, <1>t, LifeMoves DEF Running, Lost
    <3>2. life[j] # "idle"
      BY <1>4 DEF Asked, Settled
    <3>. QED
      BY <3>1, <3>2
  <2>3. Knows(j, k)
    BY <1>1, <1>2, <1>4, <2>1, <2>2 DEF Given
  <2>4. CASE dial[j][k].pc \in Begun
    BY <2>2, <2>4, BegunStays DEF Knows
  <2>5. CASE join[j] = "attach" /\ dial[j][k].pc = "queued"
    <3>1. CASE AwaitAttach(j)
      <4>1. dial'[j][k].pc = "begin"
        BY <1>t, <2>5, <3>1 DEF AwaitAttach, DialType
      <4>. QED
        BY <4>1 DEF Knows, Begun
    <3>2. CASE ~AwaitAttach(j)
      <4>1. join'[j] = join[j]
        BY <2>2, <2>5, <3>2, JoinGoes DEF JoinThread, JoinConnect, JoinFails,
           AwaitWelcome, AwaitRefused, Join, Running
      <4>2. dial'[j][k] = dial[j][k]
        BY <2>5, <3>2, DialGoes DEF AwaitWelcome, DialThread, DialBegin, DialQuits,
           DialConnect, DialUnreachable, DialAcked, DialRefused
      <4>. QED
        BY <2>5, <4>1, <4>2 DEF Knows
    <3>. QED
      BY <3>1, <3>2
  <2>6. ASSUME NEW msg \in On(wire[e]), msg.type = "Welcome"
        PROVE  Knows(j, k)'
    <3>1. CASE wire'[e] = wire[e]
      BY <2>6, <3>1 DEF Knows
    <3>2. ASSUME NEW x \in Messages, wire'[e] = Append(wire[e], x)
          PROVE  Knows(j, k)'
      BY <1>t, <2>6, <3>2, OnAppend DEF Knows
    <3>3. CASE wire[e] # <<>> /\ wire'[e] = Tail(wire[e]) /\ Hears(e)
      <4>1. msg \in On(wire'[e]) \/ msg = Head(wire[e])
        BY <1>t, <2>6, <3>3, OnTail
      <4>2. CASE msg = Head(wire[e])
        <5>1. AwaitWelcome(j)
          BY <1>t, <2>6, <3>3, <4>2 DEF Hears
        <5>2. msg.who = appr[j].met
          BY <1>t, <2>6 DEF Reported, News
        <5>3. k \in Payload(l, j)
          BY <1>1, <2>1, <4>2, <5>2 DEF Payload
        <5>4. join'[j] = "attach" /\ dial'[j][k].pc = "queued"
          BY <1>t, <5>1, <5>3 DEF AwaitWelcome, DialType, JoinType
        <5>. QED
          BY <5>4 DEF Knows
      <4>. QED
        BY <2>6, <4>1, <4>2 DEF Knows
    <3>. QED
      BY <1>t, <3>1, <3>2, <3>3, CarriesStep DEF Carries
  <2>. QED
    BY <2>3, <2>4, <2>5, <2>6 DEF Knows
<1>. QED
  BY <1>3, <1>4

\* How a dial ends.
LEMMA DialDecides ==
    ASSUME TypeOK, Asked, Fresh, [Next]_vars, NEW j \in Joiners, NEW k \in Joiners
    PROVE  /\ dial'[j][k].pc = "ok" => dial[j][k].pc = "ok" \/ DialAcked(j, k)
           /\ dial'[j][k].pc = "failed"
                => dial[j][k].pc = "failed" \/ status'[j][k] = "Failed"
<1>. DEFINE Goal ==
           /\ dial'[j][k].pc = "ok" => dial[j][k].pc = "ok" \/ DialAcked(j, k)
           /\ dial'[j][k].pc = "failed"
                => dial[j][k].pc = "failed" \/ status'[j][k] = "Failed"
<1>t. DialType /\ RegistryType /\ j \in Nodes /\ k \in Nodes
  BY TypeParts DEF Nodes
<1>1. CASE DialThread(j, k)
  <2>1. CASE DialBegin(j, k) \/ DialConnect(j, k) \/ DialQuits(j, k) \/ DialAcked(j, k)
    BY <1>t, <2>1 DEF DialBegin, DialConnect, DialQuits, DialAcked, DialPc, DialType
  <2>2. CASE DialUnreachable(j, k) \/ DialRefused(j, k)
    <3>1. DialNext(j, k)
      BY <2>2 DEF DialUnreachable, DialRefused
    <3>2. CASE dial[j][k].try < MaxTries
      BY <1>t, <3>1, <3>2 DEF DialNext, DialType
    <3>3. CASE ~(dial[j][k].try < MaxTries)
      <4>1. status'[j][k] = "Failed" /\ dial'[j][k].pc = "failed"
        BY <1>t, <3>1, <3>3 DEF DialNext, DialPc, DialType, Show, RegistryType
      <4>. QED
        BY <4>1
    <3>. QED
      BY <3>2, <3>3
  <2>. QED
    BY <1>1, <2>1, <2>2 DEF DialThread
<1>2. CASE AwaitAttach(j)
  BY <1>t, <1>2 DEF AwaitAttach, DialType
<1>3. CASE AwaitWelcome(j)
  BY <1>t, <1>3 DEF AwaitWelcome, DialType
<1>. QED
  BY <1>1, <1>2, <1>3, DialGoes

LEMMA EndedStep ==
    ASSUME TypeOK, Asked, Dialling, Fresh, Welcomed, OneDials, Dialled, Read,
           Seen, Ended, [Next]_vars
    PROVE  Ended'
<1>1. SUFFICES ASSUME NEW j \in Joiners, NEW k \in Joiners, Running(j)',
                      dial'[j][k].pc \in {"ok", "failed"}
               PROVE  /\ dial'[j][k].pc = "ok" => \/ peers'[j][k] # NoLink \/ Late(j, k)'
                                                  \/ status'[j][k] = "Disconnected"
                      /\ dial'[j][k].pc = "failed" => status'[j][k] = "Failed"
  BY DEF Ended, Linked
<1>t. /\ RegistryType /\ DialType /\ j \in Nodes /\ k \in Nodes /\ j # Host /\ k # Host
  BY TypeParts, MeshAssumption DEF Nodes
<1>2. Running(j)
  <2>1. Running(j) \/ life[j] = "idle"
    BY <1>1, <1>t, LifeMoves DEF Running, Lost
  <2>2. life[j] = "idle" => dial'[j][k].pc = "no"
    BY DialMoves DEF Asked, Fresh, Asking, AwaitWelcome
  <2>. QED
    BY <1>1, <2>1, <2>2
<1>e. ~Empties(j)
  BY <1>1, <1>2 DEF Empties, Running, Lost
<1>k. Keeps(j, k)
  BY <1>t, RegistryMoves
<1>f. CASE dial[j][k].pc = "failed"
  <2>1. dial'[j][k] = dial[j][k] /\ status[j][k] = "Failed"
    BY <1>2, <1>f, DialMoves DEF Ended
  <2>2. \A e \in Toward(j, k) : reader[e] = "no"
    BY <1>f, DialedRead
  <2>3. CASE Tells(j, k)
    <3>1. ASSUME NEW e \in Ends, e[2] = j, Other(e[1], j) = k
          PROVE  ~ShowConnected(e) /\ ~ShowGone(e)
      BY <2>2, <3>1 DEF Toward, ShowConnected, ShowGone
    <3>. QED
      BY <1>f, <2>1, <2>3, <3>1 DEF Tells
  <2>. QED
    BY <1>e, <1>f, <1>k, <2>1, <2>3 DEF Keeps, Enters, Drops
<1>3. CASE dial[j][k].pc = "ok"
  <2>. DEFINE Goal == \/ peers'[j][k] # NoLink \/ Late(j, k)'
                      \/ status'[j][k] = "Disconnected"
  <2>1. dial'[j][k] = dial[j][k]
    BY <1>3, DialMoves
  <2>2. SeenOf(j, k)
    BY <1>2, <1>3, <1>t, DialerReadsOne DEF Seen
  <2>3. CASE Tells(j, k)
    <3>1. ASSUME NEW e \in Toward(j, k), ShowConnected(e)
          PROVE  Goal
      <4>1. reader[e] = "begin"
        BY <3>1 DEF ShowConnected
      <4>. QED
        BY <2>2, <2>3, <4>1 DEF SeenOf, Linked, Tells
    <3>2. ASSUME NEW e \in Toward(j, k), ShowGone(e)
          PROVE  Goal
      <4>1. e[2] = j /\ Other(e[1], j) = k
        BY DEF Toward
      <4>2. status' = [status EXCEPT ![j][k] = "Disconnected"]
        BY <3>2, <4>1 DEF ShowGone, Show
      <4>. QED
        BY <1>t, <4>2 DEF RegistryType
    <3>3. ASSUME \A e \in Toward(j, k) : ~ShowConnected(e) /\ ~ShowGone(e)
          PROVE  Goal
      <4>1. status'[j][k] = status[j][k] /\ peers'[j][k] = peers[j][k]
        BY <1>3, <2>3, <3>3 DEF Tells, Toward
      <4>2. ASSUME NEW l \in Links, End(l, j) \in Ends, Other(l, j) = k,
                   reader[End(l, j)] \in Parting \cup {"begin"}
            PROVE  reader'[End(l, j)] \in Parting \cup {"begin"}
        <5>1. End(l, j) \in Toward(j, k)
          BY <4>2 DEF Toward, End
        <5>2. TellPeers(End(l, j)) => reader'[End(l, j)] \in {"showBye", "showErr"}
          BY <1>t, <4>2 DEF TellPeers, RegistryType
        <5>. QED
          BY <3>3, <4>2, <5>1, <5>2, ReaderMoves DEF ReadBye, ReadFails, Reading, Parting
      <4>3. Late(j, k) => Late(j, k)'
        BY <4>2 DEF Late, Parting
      <4>. QED
        BY <1>2, <1>3, <4>1, <4>3 DEF Ended, Linked
    <3>4. Goal
      BY <3>1, <3>2, <3>3
    <3>. QED
      BY <1>3, <2>1, <3>4
  <2>4. ASSUME NEW l \in Links, Enters(j, k, l)
        PROVE  Goal
    BY <2>4, MeshAssumption DEF Enters
  <2>5. ASSUME NEW l \in Links, Drops(j, k, l)
        PROVE  Goal
    BY <2>5 DEF Drops, Late, Parting
  <2>. QED
    BY <1>3, <1>e, <1>k, <2>1, <2>3, <2>4, <2>5 DEF Keeps
<1>4. CASE dial[j][k].pc \notin {"ok", "failed"}
  <2>1. ASSUME DialAcked(j, k)
        PROVE  peers'[j][k] # NoLink /\ dial'[j][k].pc = "ok"
    <3>1. peers' = [peers EXCEPT ![j][k] = CurrentLink(j, k)]
      BY <1>2, <2>1 DEF DialAcked, Attach
    <3>2. CurrentLink(j, k) \in Links
      BY <1>t, <2>1, CurrentIsLink DEF DialAcked
    <3>3. dial'[j][k].pc = "ok"
      BY <1>t, <2>1 DEF DialAcked, DialPc, DialType
    <3>. QED
      BY <1>t, <3>1, <3>2, <3>3, MeshAssumption DEF RegistryType
  <2>. QED
    BY <1>1, <1>4, <2>1, DialDecides
<1>. QED
  BY <1>3, <1>4, <1>f

\* When the operator admits one joiner at a time, two peers are known to each
\* other ...
LEMMA PairInvariant == MaxApprovers = 1 => (Spec => []PInv)
<1>. SUFFICES ASSUME MaxApprovers = 1
              PROVE  Spec => []PInv
  OBVIOUS
<1>1. ASSUME Init
      PROVE  PInv
  BY <1>1, MeshAssumption DEF Init, PInv, OneAtATime, Approving, MetAll, PairMet, Linked,
     Nodes
<1>2. IInv /\ PInv /\ [Next]_vars => PInv'
  <2>1. SUFFICES ASSUME IInv, PInv, [Next]_vars
                 PROVE  PInv'
    OBVIOUS
  <2>2. TypeOK /\ Asked /\ Dialling /\ Met /\ OneAtATime /\ MetAll /\ PairMet
    BY <2>1 DEF IInv, PInv
  <2>. QED
    BY <2>1, <2>2, OneAtATimeStep, MetAllStep, PairMetStep DEF PInv
<1>. QED
  BY <1>1, <1>2, Invariant, PTL DEF Spec

\* ... and the one that was told of the other dials it to the end.
LEMMA GivenInvariant == Spec => []GInv
<1>1. ASSUME Init
      PROVE  GInv
  BY <1>1 DEF Init, GInv, Given, Ended, Settled
<1>2. IInv /\ AInv /\ TInv /\ SInv /\ BInv /\ Seen /\ GInv /\ [Next]_vars => GInv'
  <2>1. SUFFICES ASSUME IInv, AInv, TInv, SInv, BInv, Seen, GInv, [Next]_vars
                 PROVE  GInv'
    OBVIOUS
  <2>2. /\ TypeOK /\ Asked /\ Dialling /\ Fresh /\ Reported /\ Welcomed /\ OneDials
        /\ Dialled /\ Read /\ Given /\ Ended
    BY <2>1 DEF IInv, AInv, TInv, SInv, BInv, GInv
  <2>. QED
    BY <2>1, <2>2, KnownStep, EndedStep DEF GInv
<1>. QED
  BY <1>1, <1>2, Invariant, AnswerInvariant, ToldInvariant, OrderInvariant, BookInvariant,
     SeenInvariant, PTL DEF Spec

\* When the operator finishes one approval before the next, every pair of
\* peers the host is connected to can build its link: of the two, one was told
\* of the other and dials it until they are linked or its operator sees that
\* it failed or was lost.  With two approvals at once it need not be so.
THEOREM EveryoneMeets == MaxApprovers = 1 => (Spec => []EveryPairMeets)
<1>. SUFFICES ASSUME MaxApprovers = 1
              PROVE  Spec => []EveryPairMeets
  OBVIOUS
<1>1. ASSUME IInv, PInv, GInv, NEW j \in Joiners, NEW k \in Joiners, Running(j),
             Linked(Host, j), ~Cut(JoinLink(j), Host), k \in appr[j].met
      PROVE  \/ Meeting(j, k) \/ Linked(j, k) \/ Late(j, k)
             \/ status[j][k] \in {"Failed", "Disconnected"}
  <2>1. appr[j].pc = "done"
    BY <1>1 DEF IInv, Met, Linked
  <2>2. Knows(j, k)
    BY <1>1, <2>1 DEF GInv, Given, Settled
  <2>3. CASE dial[j][k].pc \in {"ok", "failed"}
    BY <1>1, <2>3 DEF GInv, Ended
  <2>. QED
    BY <2>2, <2>3 DEF Knows, Meeting, On, Begun
<1>2. ASSUME IInv, PInv, GInv
      PROVE  EveryPairMeets
  <2>1. SUFFICES ASSUME NEW j \in Joiners, NEW k \in Joiners, Running(j), Running(k), j # k,
                        Linked(Host, j), Linked(Host, k), ~Cut(JoinLink(j), Host),
                        ~Cut(JoinLink(k), Host)
                 PROVE  \/ Meeting(j, k) \/ Meeting(k, j) \/ Linked(j, k) \/ Linked(k, j)
                        \/ Late(j, k) \/ Late(k, j)
                        \/ status[j][k] \in {"Failed", "Disconnected"}
                        \/ status[k][j] \in {"Failed", "Disconnected"}
    BY DEF EveryPairMeets
  <2>2. k \in appr[j].met \/ j \in appr[k].met
    BY <1>2, <2>1 DEF PInv, PairMet
  <2>. QED
    BY <1>1, <1>2, <2>1, <2>2
<1>. QED
  BY <1>2, Invariant, PairInvariant, GivenInvariant, PTL

-----------------------------------------------------------------------------
(* What becomes of the ends of a link.                                     *)

\* What the map holds for the far end of a link that is read is that link,
\* unless two links to it were attached; and a reader that ends on an error
\* leaves its end closed.
ReadsOwn ==
    \A n, m \in Nodes : \A e \in Toward(n, m) :
        reader[e] # "no" => peers[n][m] \in {NoLink, e[1]} \/ Doubled(n, m)
Quits == \A e \in Ends : reader[e] \in {"tellErr", "showErr", "done"} => e \in shut

LEMMA ReadsOwnStep ==
    ASSUME TypeOK, Asked, Dialling, ReadsOwn, [Next]_vars
    PROVE  ReadsOwn'
<1>1. SUFFICES ASSUME NEW n \in Nodes, NEW m \in Nodes, NEW e \in Toward(n, m),
                      reader'[e] # "no", ~Doubled(n, m)'
               PROVE  peers'[n][m] \in {NoLink, e[1]}
  BY DEF ReadsOwn, Toward
<1>t. e \in Ends /\ e[2] = n /\ Other(e[1], n) = m /\ e = End(e[1], n)
  BY TowardEnds
<1>2. CASE reader[e] = "no"
  BY <1>1, <1>2, <1>t, ReaderStarts
<1>3. CASE reader[e] # "no"
  <2>1. peers[n][m] \in {NoLink, e[1]}
    BY <1>1, <1>3, DoubledStays DEF ReadsOwn
  <2>2. ASSUME NEW k \in Links, Enters(n, m, k)
        PROVE  peers'[n][m] = e[1]
    <3>1. End(k, n) \in Toward(n, m) /\ reader'[End(k, n)] # "no"
      BY <2>2 DEF Enters, Toward, End
    <3>2. End(k, n) = e
      BY <1>1, <3>1, TwoRead
    <3>. QED
      BY <2>2, <3>2 DEF Enters, End
  <2>3. Keeps(n, m)
    BY RegistryMoves
  <2>. QED
    BY <2>1, <2>2, <2>3 DEF Keeps, Tells, Empties, Drops
<1>. QED
  BY <1>2, <1>3

LEMMA QuitsStep ==
    ASSUME TypeOK, Quits, [Next]_vars
    PROVE  Quits'
<1>1. SUFFICES ASSUME NEW e \in Ends, reader'[e] \in {"tellErr", "showErr", "done"}
               PROVE  e \in shut'
  BY DEF Quits
<1>t. RegistryType /\ e = End(e[1], e[2])
  BY TypeParts, EndType
<1>2. e \in shut => e \in shut'
  BY ShutGrows
<1>3. CASE reader'[e] = reader[e]
  BY <1>1, <1>2, <1>3 DEF Quits
<1>4. CASE ReadBye(e)
  <2>1. \E r \in {"tellBye", "showBye", "run"} : reader' = [reader EXCEPT ![e] = r]
    BY <1>4, <1>t DEF ReadBye, PeerGone
  <2>. QED
    BY <1>1, <1>t, <2>1 DEF RegistryType
<1>5. CASE ReadFails(e)
  BY <1>5, <1>t DEF ReadFails, PeerGone
<1>6. CASE TellPeers(e) \/ ShowGone(e)
  <2>1. reader[e] \in {"tellErr", "showErr"}
    BY <1>1, <1>6, <1>t DEF TellPeers, ShowGone, RegistryType
  <2>. QED
    BY <1>2, <2>1 DEF Quits
<1>7. CASE ShowConnected(e)
  BY <1>1, <1>7, <1>t DEF ShowConnected, RegistryType
<1>. QED
  BY <1>1, <1>3, <1>4, <1>5, <1>6, <1>7, ReaderMoves

-----------------------------------------------------------------------------
(* Every open end of a link is in somebody's hands.                        *)

\* A parked request is decided on, or drained by leave(), and a drained one is
\* closed by it.
LEMMA PendingGoes ==
    ASSUME TypeOK, [Next]_vars, NEW j \in pending, j \notin pending'
    PROVE  Approve(j) \/ Decline(j) \/ LeaveDrain(Host) \/ OpenRoom
<1>1. ASSUME NEW i \in Joiners, JoinThread(i) \/ ServeJoin(i) \/ ApproveThread(i)
      PROVE  j \in pending'
  BY <1>1 DEF JoinThread, JoinConnect, JoinFails, AwaitWelcome, AwaitAttach,
     AwaitRefused, ServeJoin, HelloChecked, Park, ServeLost, ApproveThread,
     Snapshot, Announce, Admit, SendWelcome, AttachApproved, hostvars
<1>2. ASSUME NEW i \in Joiners, NEW k \in Joiners, DialThread(i, k)
      PROVE  j \in pending'
  BY <1>2 DEF DialThread, DialBegin, DialQuits, DialConnect, DialUnreachable,
     DialAcked, DialRefused, hostvars
<1>3. ASSUME NEW k, ServeMesh(k)
      PROVE  j \in pending'
  BY <1>3 DEF ServeMesh, ServeLost, MeshHelloRead, GraceOver, FreeCheck,
     SendAck, AttachInbound, hostvars
<1>4. ASSUME NEW e, ReaderThread(e)
      PROVE  j \in pending'
  BY <1>4 DEF ReaderThread, ReadControl, ReadBye, ReadFails, TellPeers,
     ShowConnected, ShowGone, hostvars
<1>5. ASSUME NEW n, LeaveThread(n), ~LeaveDrain(Host)
      PROVE  j \in pending'
  BY <1>5 DEF LeaveThread, LeaveDrain, LeaveBye, LeaveEnd, hostvars
<1>6. ASSUME NEW i \in Joiners, i # j, Approve(i) \/ Decline(i)
      PROVE  j \in pending'
  BY <1>6 DEF Approve, Decline
<1>7. ASSUME NEW n, Join(n) \/ Leave(n) \/ Crash(n) \/ Break(n)
      PROVE  j \in pending'
  BY <1>7 DEF Join, Leave, Crash, Break, hostvars
<1>8. UNCHANGED vars => j \in pending'
  BY DEF vars
<1>. QED
  BY <1>1, <1>2, <1>3, <1>4, <1>5, <1>6, <1>7, <1>8 DEF Next, System, Operator

LEMMA OrphansGoes ==
    ASSUME [Next]_vars
    PROVE  orphans' = orphans \/ LeaveDrain(Host) \/ LeaveEnd(Host)
  BY TeardownFrame DEF teardown, LeaveThread, LeaveDrain, LeaveBye, LeaveEnd

\* The caller of l waits for the answer, or has it to attach.
Caller(l) ==
    IF l \in JoinLinks THEN join[Dialer(l)] \in {"wait", "attach"}
    ELSE /\ dial[Dialer(l)][Target(l)].pc = "sent"
         /\ dial[Dialer(l)][Target(l)].try = l[3]
Asks(l) == Serving(l) \/ Parked(l)
ReadOn(l, n) == Doubled(n, Other(l, n)) /\ reader[End(l, n)] \notin {"no", "done"}
InHand(l, n) ==
    \/ n = Dialer(l) /\ Caller(l)
    \/ n = Target(l) /\ Asks(l)
    \/ peers[n][Other(l, n)] = l
    \/ ReadOn(l, n)
    \/ l \in byes[n]
Accounted == \A e \in Ends : Made(e[1]) => e \in shut \/ InHand(e[1], e[2])

LEMMA AttachEnds ==
    ASSUME RegistryType, NEW n \in Nodes, NEW m \in Nodes, NEW l, Attach(n, m, l)
    PROVE  peers'[n][m] = l \/ End(l, n) \in shut'
  BY DEF Attach, RegistryType

\* A new connection is in the hands of both of its ends.
LEMMA MadeInHand ==
    ASSUME TypeOK, Dialling, [Next]_vars, NEW l \in Links, Made(l)', ~Made(l)
    PROVE  Caller(l)' /\ Serving(l)'
<1>t. JoinType /\ DialType /\ ServeType
  BY TypeParts
<1>1. CASE l \in JoinLinks /\ JoinConnect(Dialer(l))
  <2>1. l = JoinLink(Dialer(l)) /\ Dialer(l) \in Joiners
    BY <1>1, LinkEnds
  <2>2. join'[Dialer(l)] = "wait"
    BY <1>1, <1>t, <2>1 DEF JoinConnect, JoinType
  <2>3. serve'[l] = "first"
    BY <1>1, <1>t, <2>1 DEF JoinConnect, Connect, ServeType
  <2>. QED
    BY <1>1, <2>2, <2>3 DEF Caller, Serving
<1>2. CASE /\ l \in MeshLinks /\ DialConnect(Dialer(l), Target(l))
           /\ l = CurrentLink(Dialer(l), Target(l))
  <2>1. l \notin JoinLinks /\ Dialer(l) \in Joiners /\ Target(l) \in Joiners
    BY <1>2, LinkEnds
  <2>2. l[3] = dial[Dialer(l)][Target(l)].try
    BY <1>2 DEF CurrentLink, MeshLink
  <2>3. /\ dial'[Dialer(l)][Target(l)].pc = "sent"
        /\ dial'[Dialer(l)][Target(l)].try = dial[Dialer(l)][Target(l)].try
    BY <1>2, <1>t, <2>1 DEF DialConnect, DialPc, DialType
  <2>4. serve'[l] = "first"
    BY <1>2, <1>t DEF DialConnect, Connect, ServeType
  <2>. QED
    BY <2>1, <2>2, <2>3, <2>4 DEF Caller, Serving
<1>. QED
  BY <1>1, <1>2, MadeMoves

\* A caller attaches the link or closes it.
LEMMA CallerEnds ==
    ASSUME TypeOK, Asked, Fresh, [Next]_vars, NEW l \in Links, Caller(l), ~Caller(l)'
    PROVE  peers'[Dialer(l)][Target(l)] = l \/ End(l, Dialer(l)) \in shut'
<1>. DEFINE j == Dialer(l)
            k == Target(l)
<1>t. /\ RegistryType /\ JoinType /\ DialType
      /\ j \in Joiners /\ j \in Nodes /\ k \in Nodes
  BY TypeParts, LinkEnds DEF Nodes
<1>1. CASE l \in JoinLinks
  <2>1. l = JoinLink(j) /\ k = Host
    BY <1>1, LinkEnds
  <2>2. join[j] \in {"wait", "attach"} /\ join'[j] \notin {"wait", "attach"}
    BY <1>1 DEF Caller
  <2>3. CASE AwaitAttach(j)
    BY <1>t, <2>1, <2>3, AttachEnds DEF AwaitAttach
  <2>4. CASE AwaitRefused(j)
    BY <2>1, <2>4 DEF AwaitRefused, Shutdown
  <2>5. ~JoinConnect(j) /\ ~JoinFails(j) /\ ~Join(j) /\ ~AwaitWelcome(j)
    BY <1>t, <2>2 DEF JoinConnect, JoinFails, Join, Asked, AwaitWelcome, JoinType
  <2>. QED
    BY <1>t, <2>2, <2>3, <2>4, <2>5, JoinGoes DEF JoinThread
<1>2. CASE l \notin JoinLinks
  <2>1. k \in Joiners /\ l = MeshLink(j, k, l[3])
    BY <1>2, LinkEnds
  <2>2. dial[j][k].pc = "sent" /\ dial[j][k].try = l[3] /\ l = CurrentLink(j, k)
    BY <1>2, <2>1 DEF Caller, CurrentLink
  <2>3. dial'[j][k] # dial[j][k]
    BY <1>2, <2>2 DEF Caller
  <2>4. CASE DialAcked(j, k)
    BY <1>t, <2>2, <2>4, AttachEnds DEF DialAcked
  <2>5. CASE DialRefused(j, k)
    BY <2>2, <2>5 DEF DialRefused
  <2>6. ~DialBegin(j, k) /\ ~DialQuits(j, k) /\ ~DialConnect(j, k) /\ ~DialUnreachable(j, k)
    BY <2>2 DEF DialBegin, DialQuits, DialConnect, DialUnreachable
  <2>7. ~AwaitWelcome(j)
    BY <1>t, <2>1, <2>2 DEF AwaitWelcome, Fresh, Asking
  <2>8. ~AwaitAttach(j)
    <3>1. AwaitAttach(j) => dial'[j][k] = dial[j][k]
      BY <1>t, <2>1, <2>2 DEF AwaitAttach, DialType
    <3>. QED
      BY <2>3, <3>1
  <2>. QED
    BY <1>t, <2>1, <2>3, <2>4, <2>5, <2>6, <2>7, <2>8, DialGoes DEF DialThread
<1>. QED
  BY <1>1, <1>2


\* So does the target, unless the request is drained by leave() meanwhile.
LEMMA ServingEnds ==
    ASSUME TypeOK, Asked, Fresh, Idle, OrphansEnd, [Next]_vars, NEW l \in Links,
           Made(l), Asks(l)
    PROVE  Asks(l)' \/ peers'[Target(l)][Dialer(l)] = l \/ End(l, Target(l)) \in shut'
<1>. DEFINE j == Dialer(l)
            n == Target(l)
            Goal == Asks(l)' \/ peers'[n][j] = l \/ End(l, n) \in shut'
<1>t. /\ RegistryType /\ ServeType /\ HostType /\ LifeType
      /\ j \in Joiners /\ j \in Nodes /\ n \in Nodes /\ Host \in Nodes
  BY TypeParts, LinkEnds DEF Nodes
<1>1. CASE l \in MeshLinks /\ serve[l] \notin {"no", "done"}
  <2>1. CASE serve'[l] \notin {"no", "done"}
    BY <2>1 DEF Asks, Serving
  <2>2. CASE serve'[l] \in {"no", "done"}
    <3>1. ServeMesh(l) \/ (DialConnect(j, n) /\ l = CurrentLink(j, n))
      BY <1>1, <2>2, ServeMoves
    <3>2. CASE DialConnect(j, n) /\ l = CurrentLink(j, n)
      BY <1>t, <2>2, <3>2 DEF DialConnect, Connect, ServeType
    <3>3. CASE AttachInbound(l)
      BY <1>t, <3>3, AttachEnds DEF AttachInbound
    <3>4. CASE ServeMesh(l) /\ ~AttachInbound(l)
      <4>1. \/ End(l, n) \in shut'
            \/ \E s \in {"grace", "free", "ack", "attach"} : serve' = [serve EXCEPT ![l] = s]
        BY <3>4 DEF ServeMesh, ServeLost, MeshHelloRead, GraceOver, FreeCheck, SendAck,
           Reject, ServePc
      <4>. QED
        BY <1>t, <2>2, <4>1 DEF ServeType
    <3>. QED
      BY <3>1, <3>2, <3>3, <3>4
  <2>. QED
    BY <2>1, <2>2
<1>2. CASE l \in JoinLinks /\ serve[l] \notin {"no", "done"}
  <2>0. l = JoinLink(j) /\ n = Host
    BY <1>2, LinkEnds
  <2>1. CASE serve'[l] = serve[l]
    BY <1>2, <2>1 DEF Asks, Serving
  <2>2. CASE JoinConnect(j)
    BY <1>t, <2>0, <2>2 DEF JoinConnect, Connect, ServeType, Asks, Serving
  <2>3. CASE HelloChecked(j)
    <3>1. serve'[l] = "park" \/ End(l, Host) \in shut'
      BY <1>t, <2>0, <2>3 DEF HelloChecked, Reject, ServePc, ServeType
    <3>. QED
      BY <2>0, <3>1 DEF Asks, Serving
  <2>4. CASE Park(j)
    BY <1>2, <2>0, <2>4 DEF Park, Asks, Parked
  <2>5. CASE ServeLost(l)
    BY <2>5 DEF ServeLost
  <2>. QED
    BY <1>t, <2>0, <2>1, <2>2, <2>3, <2>4, <2>5, HelloMoves DEF ServeJoin
<1>3. CASE l \in orphans
  <2>1. ~LeaveDrain(Host)
    BY <1>3 DEF LeaveDrain, OrphansEnd
  <2>2. CASE LeaveEnd(Host)
    <3>1. n = Host
      BY <1>3, <1>t, TypeParts, LinkEnds DEF HangupType
    <3>. QED
      BY <1>3, <2>2, <3>1 DEF LeaveEnd
  <2>. QED
    BY <1>3, <2>1, <2>2, OrphansGoes DEF Asks, Serving
<1>4. CASE l \in JoinLinks /\ j \in pending
  <2>0. l = JoinLink(j) /\ n = Host
    BY <1>4, LinkEnds
  <2>1. CASE j \in pending'
    BY <1>4, <2>1 DEF Asks, Parked
  <2>2. CASE Approve(j)
    <3>1. appr'[j].pc = "snapshot"
      BY <1>t, <2>2 DEF Approve, ApprPc, HostType
    <3>. QED
      BY <1>4, <1>t, <3>1 DEF Asks, Serving, Approving
  <2>3. CASE Decline(j)
    BY <2>0, <2>3 DEF Decline
  <2>4. CASE LeaveDrain(Host)
    BY <1>4, <2>0, <2>4 DEF LeaveDrain, Asks, Serving
  <2>5. ~OpenRoom
    BY <1>t, <2>0 DEF OpenRoom, Idle, Made
  <2>. QED
    BY <1>4, <2>1, <2>2, <2>3, <2>4, <2>5, PendingGoes
<1>5. CASE l \in JoinLinks /\ j \in Approving
  <2>0. l = JoinLink(j) /\ n = Host
    BY <1>5, LinkEnds
  <2>1. CASE j \in Approving'
    BY <1>5, <2>1 DEF Asks, Serving
  <2>2. CASE j \notin Approving'
    <3>1. appr'[j] # appr[j] /\ appr[j].pc \notin {"no", "declined"}
      BY <1>5, <2>2 DEF Approving
    <3>2. ~Approve(j) /\ ~Decline(j)
      BY <1>t, <3>1 DEF Approve, Decline, Asked
    <3>3. ApproveThread(j)
      BY <1>t, <3>1, <3>2, ApprGoes
    <3>4. appr'[j].pc \notin {"announce", "welcome", "attach"}
      BY <1>t, <2>2 DEF Approving
    <3>5. (SendWelcome(j) /\ appr'[j].pc = "broken") \/ AttachApproved(j)
      BY <1>t, <3>3, <3>4, ApprSteps
    <3>6. CASE SendWelcome(j) /\ appr'[j].pc = "broken"
      <4>1. ~ApprPc(j, "attach")
        BY <1>t, <3>6 DEF ApprPc, HostType
      <4>. QED
        BY <2>0, <3>6, <4>1 DEF SendWelcome
    <3>7. CASE AttachApproved(j)
      BY <1>t, <2>0, <3>7, AttachEnds DEF AttachApproved
    <3>. QED
      BY <3>5, <3>6, <3>7
  <2>. QED
    BY <2>1, <2>2
<1>. QED
  BY <1>1, <1>2, <1>3, <1>4, <1>5 DEF Asks, Serving, Parked, Links

LEMMA AccountedStep ==
    ASSUME TypeOK, Asked, Dialling, Fresh, Idle, Own, ByesEnd, OrphansEnd, ReadsOwn,
           Quits, Accounted, [Next]_vars
    PROVE  Accounted'
<1>1. SUFFICES ASSUME NEW e \in Ends, Made(e[1])', e \notin shut'
               PROVE  InHand(e[1], e[2])'
  BY DEF Accounted
<1>. DEFINE l == e[1]
            n == e[2]
            m == Other(l, n)
<1>t. /\ l \in Links /\ n \in Nodes /\ m \in Nodes /\ e = End(l, n) /\ e \notin shut
      /\ n \in {Dialer(l), Target(l)} /\ RegistryType /\ HangupType
      /\ Dialer(l) # Target(l)
      /\ n = Dialer(l) => m = Target(l)
      /\ n = Target(l) => m = Dialer(l)
      /\ e \in Toward(n, m)
  <2>1. l \in Links /\ n \in Nodes /\ m \in Nodes /\ e = End(l, n)
    BY EndType
  <2>2. n \in {Dialer(l), Target(l)} /\ e \notin shut
    BY <1>1, ShutGrows DEF Ends
  <2>. QED
    BY <2>1, <2>2, LinkEnds, TypeParts DEF Other, Toward
<1>2. CASE ~Made(l)
  BY <1>1, <1>2, <1>t, MadeInHand DEF InHand, Asks
<1>r. ASSUME reader[e] # "no", Doubled(n, m)'
      PROVE  InHand(l, n)'
  <2>1. reader'[e] # "no" /\ reader'[e] # "done"
    BY <1>1, <1>r, ReaderStays, QuitsStep DEF Quits
  <2>. QED
    BY <1>r, <1>t, <2>1 DEF InHand, ReadOn
<1>3. CASE Made(l)
  <2>1. CASE n = Dialer(l) /\ Caller(l)
    BY <1>1, <1>t, <2>1, CallerEnds DEF InHand
  <2>2. CASE n = Target(l) /\ Asks(l)
    BY <1>1, <1>3, <1>t, <2>2, ServingEnds DEF InHand
  <2>3. CASE peers[n][m] = l
    <3>1. Linked(n, m) /\ reader[e] # "no"
      BY <1>t, <2>3, MeshAssumption DEF Own, Linked
    <3>2. CASE Tells(n, m)
      BY <2>3, <3>2 DEF Tells, InHand
    <3>3. CASE Empties(n)
      <4>1. life[n] # "idle"
        BY <1>t, <3>1 DEF Idle, Linked
      <4>2. m \in Connected(n)
        BY <1>t, <3>1 DEF Connected, Linked
      <4>. QED
        BY <1>1, <1>t, <2>3, <3>3, <4>1, <4>2 DEF Empties, InHand
    <3>4. ASSUME NEW k \in Links, Enters(n, m, k)
          PROVE  InHand(l, n)'
      <4>1. CASE k = l
        BY <3>4, <4>1 DEF Enters, InHand
      <4>2. CASE k # l
        <5>1. End(k, n) \in Toward(n, m) /\ End(k, n) # e /\ reader'[End(k, n)] # "no"
          BY <1>t, <3>4, <4>2 DEF Enters, Toward, End
        <5>2. reader'[e] # "no"
          BY <3>1, ReaderStays
        <5>. QED
          BY <1>r, <1>t, <3>1, <5>1, <5>2, TwoRead
      <4>. QED
        BY <4>1, <4>2
    <3>5. ASSUME NEW k \in Links, Drops(n, m, k)
          PROVE  InHand(l, n)'
      <4>1. reader[End(k, n)] # "no" /\ End(k, n) \in Toward(n, m)
        BY <3>5 DEF Drops, ReadBye, ReadFails, Reading, Toward, End
      <4>2. End(k, n) # e
        BY <1>1, <1>t, <3>5 DEF Drops
      <4>3. Doubled(n, m)'
        BY <1>t, <3>1, <4>1, <4>2, TwoRead, DoubledStays
      <4>. QED
        BY <1>r, <3>1, <4>3
    <3>. QED
      BY <1>t, <3>2, <3>3, <3>4, <3>5, RegistryMoves DEF Keeps, InHand
  <2>5. CASE ReadOn(l, n)
    BY <1>r, <1>t, <2>5, DoubledStays DEF ReadOn
  <2>4. CASE l \in byes[n]
    <3>1. ~LeaveDrain(n)
      BY <1>t, <2>4 DEF LeaveDrain, ByesEnd
    <3>2. CASE LeaveBye(n)
      <4>1. PICK k \in byes[n] : /\ shut' = shut \cup {End(k, n)}
                                 /\ byes' = [byes EXCEPT ![n] = @ \ {k}]
        BY <3>2 DEF LeaveBye
      <4>2. k # l
        BY <1>1, <1>t, <4>1
      <4>. QED
        BY <1>t, <2>4, <4>1, <4>2 DEF HangupType, InHand
    <3>. QED
      BY <1>t, <2>4, <3>1, <3>2, ByesGoes DEF InHand
  <2>. QED
    BY <1>3, <1>t, <2>1, <2>2, <2>3, <2>4, <2>5 DEF Accounted, InHand
<1>. QED
  BY <1>2, <1>3


CInv == ReadsOwn /\ Quits /\ Accounted

LEMMA CareInvariant == Spec => []CInv
<1>1. ASSUME Init
      PROVE  CInv
  BY <1>1, EndType DEF Init, CInv, ReadsOwn, Quits, Accounted, Made, Toward
<1>2. IInv /\ AInv /\ SInv /\ RInv /\ BInv /\ CInv /\ [Next]_vars => CInv'
  <2>1. SUFFICES ASSUME IInv, AInv, SInv, RInv, BInv, CInv, [Next]_vars
                 PROVE  CInv'
    OBVIOUS
  <2>2. /\ TypeOK /\ Asked /\ Dialling /\ Fresh /\ Idle /\ Own /\ ByesEnd /\ OrphansEnd
        /\ ReadsOwn /\ Quits /\ Accounted
    BY <2>1 DEF IInv, AInv, SInv, RInv, BInv, CInv
  <2>. QED
    BY <2>1, <2>2, ReadsOwnStep, QuitsStep, AccountedStep DEF CInv
<1>. QED
  BY <1>1, <1>2, Invariant, AnswerInvariant, OrderInvariant, RosterInvariant,
     BookInvariant, PTL DEF Spec

\* Whoever waits on a link is owed an answer or can read one.
LEMMA CallerIsAnswered ==
    ASSUME IInv, AInv, BInv, CInv, NEW l \in Links, Made(l), Caller(l)
    PROVE  Calling(l)
<1>. DEFINE j == Dialer(l)
            n == Target(l)
<1>t. /\ j \in Joiners /\ n \in Nodes /\ j # n /\ End(l, n) \in Ends
      /\ Other(l, n) = j /\ DialType
      /\ Cut(l, n) <=> Cut(l, j)
  BY LinkEnds, TypeParts DEF IInv, Other, Cut
<1>1. SUFFICES ASSUME join[j] # "attach" \/ l \notin JoinLinks
               PROVE  Answering(l)
  <2>1. CASE l \in JoinLinks
    BY <1>1, <1>t, <2>1, LinkEnds DEF Caller, Calling
  <2>2. CASE l \notin JoinLinks
    <3>1. n \in Joiners /\ l = MeshLink(j, n, l[3])
      BY <2>2, LinkEnds
    <3>2. dial[j][n].pc = "sent" /\ l = CurrentLink(j, n)
      BY <2>2, <3>1 DEF Caller, CurrentLink
    <3>. QED
      BY <1>1, <1>t, <2>2, <3>1, <3>2 DEF Calling
  <2>. QED
    BY <2>1, <2>2
<1>2. Awaiting(l)
  <2>1. CASE l \in JoinLinks
    BY <1>1, <2>1 DEF Caller, Awaiting, Asking
  <2>2. CASE l \notin JoinLinks
    BY <2>2, <1>t, LinkEnds DEF Caller, Awaiting, Awaits
  <2>. QED
    BY <2>1, <2>2
<1>3. ASSUME Attached(l)
      PROVE  Answering(l)
  <2>1. Answered(l)
    BY <1>3 DEF Attached, Answered
  <2>2. wire[CallerEnd(l)] # <<>> \/ Cut(l, n)
    BY <1>2, <2>1 DEF AInv, AnswerFirst, FirstOn, CallerEnd
  <2>. QED
    BY <1>t, <2>2 DEF Answering, CallerEnd
<1>4. End(l, n) \in shut \/ InHand(l, n)
  BY <1>t DEF CInv, Accounted, End
<1>5. CASE End(l, n) \in shut
  BY <1>5, <1>t DEF Answering, Cut
<1>6. CASE peers[n][j] = l \/ l \in byes[n]
  BY <1>3, <1>6, <1>t, LinkEnds DEF AInv, Held, IInv, Nodes
<1>7. CASE ReadOn(l, n)
  BY <1>3, <1>7, <1>t DEF ReadOn, BInv, Read, Over, End
<1>. QED
  BY <1>4, <1>5, <1>6, <1>7, <1>t DEF InHand, Answering, Asks

\* Through every retry, both nodes of a pair keep the same link to each other:
\* what one of them has in its map the other holds too, or is about to attach,
\* or can see is closed; and where a node attached two links to one peer, and
\* its map lost one to the other, it reads both.
THEOREM BothEndsAgree == Spec => []MeshIsSymmetric
<1>1. ASSUME IInv, AInv, RInv, BInv, CInv
      PROVE  MeshIsSymmetric
  <2>1. SUFFICES ASSUME NEW n \in Nodes, NEW m \in Nodes, Running(n), Running(m),
                        Linked(n, m), ~Cut(peers[n][m], n)
                 PROVE  LET l == peers[n][m]
                        IN  \/ Handled(l, m) \/ peers[m][n] = l
                            \/ Doubled(m, n) /\ reader[End(l, m)] \notin {"no", "done"}
    BY DEF MeshIsSymmetric
  <2>. DEFINE l == peers[n][m]
  <2>2. /\ m = Other(l, n) /\ reader[End(l, n)] # "no" /\ RegistryType
    BY <1>1, <2>1, TypeParts DEF RInv, Own, IInv
  <2>3. End(l, n) \in Ends
    BY <2>1, <2>2 DEF RegistryType, Linked, End
  <2>4. /\ l \in Links /\ n \in {Dialer(l), Target(l)} /\ Made(l)
    BY <1>1, <2>2, <2>3 DEF BInv, Read, Ends, End
  <2>5. /\ End(l, m) \in Ends /\ Other(l, m) = n /\ FarEnd(l, n) = End(l, m)
        /\ m \in {Dialer(l), Target(l)}
    BY <2>2, <2>4, LinkEnds DEF Other
  <2>6. InHand(l, m)
    BY <1>1, <2>1, <2>4, <2>5 DEF CInv, Accounted, Cut, End
  <2>7. l \notin byes[m]
    BY <1>1, <2>1 DEF BInv, ByesEnd, Running
  <2>8. ~(m = Target(l) /\ Parked(l))
    <3>1. SUFFICES ASSUME m = Target(l), l \in JoinLinks, Dialer(l) \in pending
                   PROVE  FALSE
      BY DEF Parked
    <3>2. n = Dialer(l) /\ n \in Joiners
      BY <2>2, <2>4, <3>1, LinkEnds DEF Other
    <3>3. appr[n].pc \notin {"no", "declined"}
      BY <1>1, <2>1, <3>2 DEF IInv, ConnectedOnlyIfApproved, Approved, Linked
    <3>. QED
      BY <1>1, <3>1, <3>2, <3>3 DEF IInv, Asked
  <2>. QED
    BY <1>1, <2>4, <2>5, <2>6, <2>7, <2>8, CallerIsAnswered
    DEF InHand, Asks, Handled, ReadOn
<1>. QED
  BY <1>1, Invariant, AnswerInvariant, RosterInvariant, BookInvariant, CareInvariant, PTL

\* A node that has left has closed its end of every connection it made or
\* accepted, or a thread of its is still there to close it: leave() and the
\* threads that find the node gone miss none, whatever was being dialled,
\* answered or approved.  What they miss is a request the host parked after it
\* was drained, and a link to a peer to whom the node had attached two.
THEOREM NothingIsForgotten == Spec => []NothingDangles
<1>1. ASSUME IInv, AInv, BInv, CInv, LeftMeansEmpty
      PROVE  NothingDangles
  <2>1. SUFFICES ASSUME NEW n \in Nodes, life[n] = "out", NEW l \in Links, Made(l),
                        n \in {Dialer(l), Target(l)}, End(l, n) \notin shut
                 PROVE  \/ Handled(l, n)
                        \/ n = Host /\ Parked(l)
                        \/ Doubled(n, Other(l, n))
    BY DEF NothingDangles
  <2>2. End(l, n) \in Ends /\ Other(l, n) \in Nodes
    BY <2>1, LinkEnds DEF Other, Nodes
  <2>3. InHand(l, n)
    BY <1>1, <2>1, <2>2 DEF CInv, Accounted, End
  <2>4. peers[n][Other(l, n)] # l
    BY <1>1, <2>1, <2>2, MeshAssumption DEF LeftMeansEmpty, Connected
  <2>5. l \notin byes[n]
    BY <1>1, <2>1 DEF BInv, ByesEnd
  <2>6. Parked(l) => Target(l) = Host
    BY <2>1, LinkEnds DEF Parked
  <2>. QED
    BY <1>1, <2>1, <2>3, <2>4, <2>5, <2>6, CallerIsAnswered
    DEF InHand, Asks, Handled, ReadOn
<1>. QED
  BY <1>1, Invariant, AnswerInvariant, BookInvariant, CareInvariant, NobodyIsLeftBehind, PTL

=============================================================================
