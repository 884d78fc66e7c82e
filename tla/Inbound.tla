------------------------------ MODULE Inbound ------------------------------
(***************************************************************************)
(* How connections come in: the listener of core/src/transport (lan.rs or  *)
(* bluetooth_windows.rs), the accept loop of mesh.rs, the threads it starts *)
(* and the limiter they ask, and leave() closing it all from yet another    *)
(* thread.  Connections of one source are interchangeable.                 *)
(***************************************************************************)
EXTENDS RateLimiter

CONSTANTS
    Poke,       \* the listener's connection to itself, on closing
    Nobody,     \* the loop holds no connection
    Backlog,    \* connections the system keeps for accept(); 8 on Bluetooth
    MaxDials    \* bound: connections made

ASSUME InboundAssumption ==
    /\ Poke \notin Sources /\ Nobody \notin Sources \cup {Poke}
    /\ Backlog \in Nat \ {0} /\ MaxDials \in Nat

VARIABLES
    kind,       \* "lan" or "bluetooth"
    dials,      \* connections made so far
    backlog,    \* connections waiting for accept()
    listening,  \* the listening socket is open
    closed,     \* the listener's flag
    running,    \* Node.running
    loop,       \* where the accept loop stands: "accept" | "look" | "taken" |
                \* "failed" | "spawn", "report" (it has seen `running`) | "over"
    hand,       \* the connection it has taken
    serving,    \* serving[s]: handle_incoming threads that have not asked yet
    leaver,     \* where leave() stands
    told        \* the last the host was told: "open", or that it "stopped" listening

socket  == <<dials, backlog, listening>>
threads == <<running, loop, hand, serving>>
inbound == <<socket, threads, kind, closed, leaver, told>>

InboundInit ==
    /\ Init
    /\ kind \in {"lan", "bluetooth"}
    /\ dials = 0 /\ backlog = <<>> /\ listening = TRUE
    /\ closed = FALSE /\ running = TRUE
    /\ loop = "accept" /\ hand = Nobody
    /\ serving = [s \in Sources \cup {Poke} |-> 0]
    /\ leaver = "no"
    /\ told = "open"

\* Somebody connects to the listening port.
Dial(s) ==
    /\ listening /\ dials < MaxDials /\ Len(backlog) < Backlog
    /\ dials' = dials + 1
    /\ backlog' = Append(backlog, s)
    /\ UNCHANGED <<vars, threads, listening, kind, closed, leaver, told>>

-----------------------------------------------------------------------------
(* accept() and the loop around it.                                        *)

\* Bluetooth's accept() ends here, LAN's looks at the flag first.
Accept ==
    /\ loop = "accept" /\ listening /\ backlog # <<>>
    /\ hand' = Head(backlog)
    /\ backlog' = Tail(backlog)
    /\ loop' = IF kind = "lan" THEN "look" ELSE "taken"
    /\ UNCHANGED <<vars, dials, listening, running, serving, kind, closed, leaver, told>>

\* A connection taken after the flag was set is shut: it may be the poke.
LookAtFlag ==
    /\ loop = "look"
    /\ \/ closed /\ loop' = "failed" /\ hand' = Nobody
       \/ ~closed /\ loop' = "taken" /\ UNCHANGED hand
    /\ UNCHANGED <<vars, socket, running, serving, kind, closed, leaver, told>>

\* accept() fails when its socket is closed under it, or for a reason of its
\* own, such as a caller that hung up in the queue.
AcceptFails ==
    /\ loop = "accept"
    /\ loop' = "failed"
    /\ UNCHANGED <<vars, socket, running, hand, serving, kind, closed, leaver, told>>

\* Mutant: whatever is accepted is served.
TakeAny ==
    /\ loop = "taken"
    /\ loop' = "spawn"
    /\ UNCHANGED <<vars, socket, running, hand, serving, kind, closed, leaver, told>>

\* Ok(stream): the loop ends if the room has been left; else a thread is due,
\* whatever leave() does from here on.
Take ==
    /\ loop = "taken"
    /\ \/ running /\ loop' = "spawn" /\ UNCHANGED hand
       \/ ~running /\ loop' = "over" /\ hand' = Nobody
    /\ UNCHANGED <<vars, socket, running, serving, kind, closed, leaver, told>>

Spawn ==
    /\ loop = "spawn"
    /\ serving' = [serving EXCEPT ![hand] = @ + 1]
    /\ loop' = "accept"
    /\ hand' = Nobody
    /\ UNCHANGED <<vars, socket, running, kind, closed, leaver, told>>

\* Err: the loop ends, and is to say so if the room has not been left.
StopListening ==
    /\ loop = "failed"
    /\ loop' = IF running THEN "report" ELSE "over"
    /\ UNCHANGED <<vars, socket, running, hand, serving, kind, closed, leaver, told>>

Report ==
    /\ loop = "report"
    /\ loop' = "over"
    /\ told' = "stopped"
    /\ UNCHANGED <<vars, socket, running, hand, serving, kind, closed, leaver>>

\* handle_incoming asks the limiter; what follows is Session's and Mesh's.
HandleIncoming(s) ==
    /\ serving[s] > 0
    /\ serving' = [serving EXCEPT ![s] = @ - 1]
    /\ Allow(s) \/ Refuse(s)
    /\ UNCHANGED <<socket, running, loop, hand, kind, closed, leaver, told>>

ReopenJoining ==
    /\ Reopen
    /\ told' = "open"
    /\ UNCHANGED <<socket, threads, kind, closed, leaver>>

-----------------------------------------------------------------------------
(* leave(): first the flag of the node, then the listener.                 *)

Leave ==
    /\ running
    /\ running' = FALSE
    /\ leaver' = "listener"
    /\ UNCHANGED <<vars, socket, loop, hand, serving, kind, closed, told>>

\* Mutant: on LAN the flag is all that is set.
CloseWithoutPoke ==
    /\ leaver = "listener"
    /\ closed' = TRUE
    /\ leaver' = "over"
    /\ \/ kind = "bluetooth" /\ listening' = FALSE /\ backlog' = <<>>
       \/ kind = "lan" /\ UNCHANGED <<listening, backlog>>
    /\ UNCHANGED <<vars, dials, threads, kind, told>>

\* close(): closesocket wakes accept() and resets who waits; on LAN nothing
\* can be done to accept() but to set a flag and connect to the port.
Close ==
    /\ leaver = "listener"
    /\ closed' = TRUE
    /\ \/ /\ kind = "bluetooth"
          /\ listening' = FALSE /\ backlog' = <<>>
          /\ leaver' = "over"
       \/ /\ kind = "lan"
          /\ leaver' = "poke"
          /\ UNCHANGED <<listening, backlog>>
    /\ UNCHANGED <<vars, dials, threads, kind, told>>

\* The poke does not get through where the queue is full.
PokeSelf ==
    /\ leaver = "poke"
    /\ leaver' = "over"
    /\ backlog' = IF listening /\ Len(backlog) < Backlog
                  THEN Append(backlog, Poke) ELSE backlog
    /\ UNCHANGED <<vars, dials, listening, threads, kind, closed, told>>

\* The socket goes with the last reference to the listener: the loop's, or
\* the node's, which leave() takes.
DropListener ==
    /\ listening /\ loop = "over" /\ leaver = "over"
    /\ listening' = FALSE /\ backlog' = <<>>
    /\ UNCHANGED <<vars, dials, threads, kind, closed, leaver, told>>

TimePasses == Tick /\ UNCHANGED inbound

-----------------------------------------------------------------------------
LoopNext  == Accept \/ LookAtFlag \/ Take \/ Spawn \/ StopListening \/ Report
LeaveNext == Close \/ PokeSelf \/ DropListener

InboundNext ==
    \/ LoopNext \/ LeaveNext \/ AcceptFails \/ Leave \/ ReopenJoining \/ TimePasses
    \/ \E s \in Sources : Dial(s) \/ HandleIncoming(s)

\* accept() returns when there is a connection and fails on a closed socket,
\* and leave(), begun, goes on; nobody need dial, leave, or fail otherwise.
InboundSpec ==
    /\ InboundInit /\ [][InboundNext]_<<vars, inbound>>
    /\ WF_<<vars, inbound>>(LoopNext)
    /\ WF_<<vars, inbound>>(LeaveNext)
    /\ WF_<<vars, inbound>>(AcceptFails /\ ~listening)

-----------------------------------------------------------------------------
\* leave() clears `running` before it closes the listener, and lan.rs wakes its
\* own accept() with a connection like any other, from a thread that knows
\* nothing of where the loop stands.  The loop may have read `running` before
\* it was cleared, and then still serves the one connection in its hand, or
\* reports the one failure; but once the listener is closed it decides on
\* neither again, and the poke is never served.
LeavingIsQuiet ==
    [][closed => /\ loop' \in {"spawn", "report"} => loop' = loop
                 /\ serving'[Poke] = 0]_<<vars, inbound>>

\* The composition asks the limiter as RateLimiter.tla says it may be asked:
\* its properties hold here whatever the listener and leave() do.
AsksTheLimiter == Spec

\* However leave() and the loop fall together, with callers in the queue or
\* the queue too full for the poke: the loop ends, and nobody waits in a queue
\* that no accept() will ever empty.
LeaveEndsTheLoop ==
    leaver # "no" ~> [](loop = "over" /\ ~listening /\ backlog = <<>>)
=============================================================================
