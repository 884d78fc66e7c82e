------------------------------ MODULE Session ------------------------------
(***************************************************************************)
(* A link from its first byte: the Noise XX handshake of core/src/crypto.rs *)
(* (three messages, written and read frame by frame under a read timeout),  *)
(* between a dialling end and a listening end, and the encrypted link of    *)
(* SecureLink.tla, which each end begins when its own handshake is done.    *)
(***************************************************************************)
EXTENDS SecureLink, FiniteSets

CONSTANTS
    Limit,      \* HANDSHAKE_TIMEOUT, in ticks
    Reads,      \* reads that one handshake message takes
    MayStall    \* ends that may stop in the middle of their handshake

ASSUME SessionAssumption ==
    /\ Limit \in Nat \ {0} /\ Reads \in Nat \ {0}
    /\ MayStall \subseteq Ends
    /\ MayClose = Ends      \* a handshake may fail at either end

VARIABLES
    step,       \* step[e]: handshake messages e has written or read
    got,        \* got[e]: pieces read of the message e is reading
    coming,     \* coming[e]: pieces on their way to e, by message; they
                \* precede every frame in wire[e]
    quiet,      \* quiet[e]: how long e's present read() has waited
    spent,      \* spent[e]: how long e has waited in all
    failed,     \* ends whose handshake has failed
    stalled     \* ends that have stopped

handshake == <<step, got, coming, quiet, spent, failed, stalled>>

Dialler  == "left"
Listener == "right"
Messages == 1..3
Writer(m) == IF m = 2 THEN Listener ELSE Dialler    \* e; e, ee, s, es; s, se

SessionInit ==
    /\ Init
    /\ step = [e \in Ends |-> 0]
    /\ got = [e \in Ends |-> 0]
    /\ coming = [e \in Ends |-> <<>>]
    /\ quiet = [e \in Ends |-> 0] /\ spent = [e \in Ends |-> 0]
    /\ failed = {} /\ stalled = {}

Up(e) == step[e] = Cardinality(Messages)
Shaking(e) == ~Up(e) /\ e \notin failed \cup stalled
Turn(e) == step[e] + 1
Awaiting(e) == Shaking(e) /\ Writer(Turn(e)) # e

CanWriteMessage(e) == Shaking(e) /\ Writer(Turn(e)) = e /\ ~Cut

\* write_message, write_frame: the messages are small beside the buffers.
WriteMessage(e) ==
    /\ CanWriteMessage(e)
    /\ coming' = [coming EXCEPT ![Other(e)] = @ \o [i \in 1..Reads |-> Turn(e)]]
    /\ step' = [step EXCEPT ![e] = Turn(e)]
    /\ UNCHANGED <<vars, got, quiet, spent, failed, stalled>>

\* Mutant: a read() that timed out is tried again.
ReadMessageOrRetry(e) ==
    /\ Awaiting(e)
    /\ quiet' = [quiet EXCEPT ![e] = 0]
    /\ \/ /\ coming[e] # <<>>
          /\ coming' = [coming EXCEPT ![e] = Tail(@)]
          /\ got' = [got EXCEPT ![e] = (@ + 1) % Reads]
          /\ step' = [step EXCEPT ![e] = IF got[e] + 1 = Reads THEN Turn(e) ELSE @]
       \/ /\ quiet[e] = Limit
          /\ UNCHANGED <<coming, got, step>>
    /\ UNCHANGED <<vars, spent, failed, stalled>>

CanReadMessage(e) == Awaiting(e) /\ coming[e] # <<>> /\ Head(coming[e]) = Turn(e)

\* read_frame: each read() waits anew; the whole message is then read_message's.
ReadMessage(e) ==
    /\ CanReadMessage(e)
    /\ coming' = [coming EXCEPT ![e] = Tail(@)]
    /\ quiet' = [quiet EXCEPT ![e] = 0]
    /\ \/ /\ got[e] + 1 < Reads
          /\ got' = [got EXCEPT ![e] = @ + 1]
          /\ UNCHANGED step
       \/ /\ got[e] + 1 = Reads
          /\ got' = [got EXCEPT ![e] = 0]
          /\ step' = [step EXCEPT ![e] = Turn(e)]
    /\ UNCHANGED <<vars, spent, failed, stalled>>

\* Mutant: the read timeout is not set.
HandshakeCanFailIfCut(e) == Shaking(e) /\ Cut

HandshakeCanFail(e) == Shaking(e) /\ (Cut \/ (Awaiting(e) /\ quiet[e] = Limit))

\* A read() that waited too long, a socket that the other end has closed: the
\* handshake returns Err and the stream is closed, by handle_incoming at the
\* listening end, by its last reference at the other.
HandshakeFails(e) ==
    /\ HandshakeCanFail(e)
    /\ failed' = failed \cup {e}
    /\ Close(e)
    /\ UNCHANGED <<step, got, coming, quiet, spent, stalled>>

Stall(e) ==
    /\ e \in MayStall /\ Shaking(e)
    /\ stalled' = stalled \cup {e}
    /\ UNCHANGED <<vars, step, got, coming, quiet, spent, failed>>

\* No read() waits longer than its timeout.
Waits == {e \in Ends : Awaiting(e)}
TimeCanPass == Waits # {} /\ \A e \in Waits : quiet[e] < Limit
TimePasses ==
    /\ TimeCanPass
    /\ quiet' = [e \in Ends |-> IF e \in Waits THEN quiet[e] + 1 ELSE quiet[e]]
    /\ spent' = [e \in Ends |-> IF e \in Waits THEN spent[e] + 1 ELSE spent[e]]
    /\ UNCHANGED <<vars, step, got, coming, failed, stalled>>

\* finish() makes the link, without a read timeout: what SecureLink.tla has an
\* end do, it does from here on.
LinkSystem ==
    /\ \/ \E t \in Threads : Up(Home[t]) /\ Call(t)
       \/ \E w \in Writers :
             Up(At(w)) /\ (TakeGate(w) \/ Encrypt(w) \/ Write(w) \/ WriteFails(w))
       \/ \E e \in Ends : Up(e) /\ (Read(e) \/ Reply(e) \/ RecvFails(e))
    /\ UNCHANGED handshake

LinkCloses == (\E e \in Ends : Up(e) /\ Close(e)) /\ UNCHANGED handshake

SessionSystem ==
    \/ \E e \in Ends : WriteMessage(e) \/ ReadMessage(e) \/ HandshakeFails(e)
    \/ TimePasses
    \/ LinkSystem

SessionNext == SessionSystem \/ LinkCloses \/ \E e \in Ends : Stall(e)

SessionSpec == SessionInit /\ [][SessionNext]_<<vars, handshake>>

-----------------------------------------------------------------------------
\* Nobody can take a step: every action of SessionSystem has its guard here.
SessionAtRest ==
    /\ \A e \in Ends : ~CanWriteMessage(e) /\ ~CanReadMessage(e) /\ ~HandshakeCanFail(e)
    /\ ~TimeCanPass
    /\ \A e \in Ends : Up(e) => Resting(e)

\* When everybody waits, an end that has not stopped is done with its
\* handshake one way or the other, however far the other end got; and an end
\* that made its link while the other's handshake failed has learnt of it.
NobodyIsLeftHalfway ==
    \/ ~SessionAtRest
    \/ \A e \in Ends \ stalled :
          /\ Up(e) \/ e \in failed
          /\ Up(e) /\ Other(e) \in failed => reader[e] = "done"

\* HANDSHAKE_TIMEOUT bounds each read(), not the handshake (crypto.rs:25 has it
\* complete "inside this window"): what an end may wait in all is the timeout
\* times the reads its messages take.
WaitIsBounded ==
    \A e \in Ends :
        spent[e] <= Limit * Reads * Cardinality({m \in Messages : Writer(m) # e})

\* Frames reach an end that is still reading the last handshake message: the
\* link behaves as SecureLink.tla says all the same.
LinksSecurely == Spec
=============================================================================
