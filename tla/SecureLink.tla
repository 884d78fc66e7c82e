----------------------------- MODULE SecureLink -----------------------------
(***************************************************************************)
(* The encrypted link of core/src/crypto.rs and codec.rs between two ends, *)
(* after the handshake: any number of threads send at either end, one      *)
(* reader receives.  A frame carries the number the cipher gave it, and    *)
(* enters the socket in pieces, as the kernel has room; the far end        *)
(* decrypts frames in the order of their numbers or not at all.            *)
(***************************************************************************)
EXTENDS Naturals, Sequences

CONSTANTS
    Threads,    \* the threads that send
    Home,       \* Home[t]: the end where t runs
    Sends,      \* payloads each of them sends
    Pieces,     \* writes a frame takes
    Room,       \* pieces the buffers of one direction hold
    MayReply,   \* ends whose reader may answer what it has received
    MayClose,   \* ends that may close the link
    Nobody      \* the holder of a free write_gate

Ends == {"left", "right"}
Other(e) == IF e = "left" THEN "right" ELSE "left"

\* An end's reader sends as well, when it answers; it bears the end's name.
Writers == Threads \cup Ends
At(w) == IF w \in Ends THEN w ELSE Home[w]

ASSUME LinkAssumption ==
    /\ Threads \cap Ends = {}
    /\ Nobody \notin Writers
    /\ Home \in [Threads -> Ends]
    /\ Sends \in Nat
    /\ Pieces \in Nat \ {0} /\ Room \in Nat \ {0}
    /\ MayReply \subseteq Ends /\ MayClose \subseteq Ends

VARIABLES
    pc,       \* pc[w]: where w stands in send()
    frame,    \* frame[w]: the number of the frame w has encrypted, and how
              \* many of its pieces are written
    sent,     \* sent[t]: the payloads t is done with
    gate,     \* gate[e]: who holds write_gate
    nonce,    \* nonce[e]: the number of the next frame encrypted at e
    wire,     \* wire[e]: pieces on their way to e
    part,     \* part[e]: pieces of the frame read_frame is reading at e
    expect,   \* expect[e]: the number of the next frame decrypted at e
    reader,   \* reader[e]: where e's reader stands
    shut      \* ends that have closed the socket

writing == <<pc, frame, sent, gate, nonce>>
reading == <<part, expect, reader>>
vars == <<pc, frame, sent, gate, nonce, wire, part, expect, reader, shut>>

Piece == [nonce : Nat, k : 1..Pieces]

TypeOK ==
    /\ pc \in [Writers -> {"idle", "wait", "encrypt", "write"}]
    /\ frame \in [Writers -> [nonce : Nat, done : 0..Pieces]]
    /\ sent \in [Threads -> 0..Sends]
    /\ gate \in [Ends -> Writers \cup {Nobody}]
    /\ nonce \in [Ends -> Nat]
    /\ wire \in [Ends -> Seq(Piece)]
    /\ part \in [Ends -> Seq(Piece)]
    /\ expect \in [Ends -> Nat]
    /\ reader \in [Ends -> {"read", "reply", "done", "garbled"}]
    /\ shut \in SUBSET Ends
    /\ \A e \in Ends : Len(wire[e]) <= Room /\ Len(part[e]) < Pieces

Init ==
    /\ pc = [w \in Writers |-> "idle"]
    /\ frame = [w \in Writers |-> [nonce |-> 0, done |-> 0]]
    /\ sent = [t \in Threads |-> 0]
    /\ gate = [e \in Ends |-> Nobody]
    /\ nonce = [e \in Ends |-> 0]
    /\ wire = [e \in Ends |-> <<>>]
    /\ part = [e \in Ends |-> <<>>]
    /\ expect = [e \in Ends |-> 0]
    /\ reader = [e \in Ends |-> "read"]
    /\ shut = {}

Cut == shut # {}

-----------------------------------------------------------------------------
(* send(): write_gate, the cipher, write_frame.                            *)

PcIs(w, s) == pc' = [pc EXCEPT ![w] = s]

CanCall(t) == pc[t] = "idle" /\ sent[t] < Sends

Call(t) ==
    /\ CanCall(t)
    /\ PcIs(t, "wait")
    /\ UNCHANGED <<frame, sent, gate, nonce, wire, reading, shut>>

\* Mutant: no write_gate.
TakeNoGate(w) ==
    /\ pc[w] = "wait"
    /\ PcIs(w, "encrypt")
    /\ UNCHANGED <<frame, sent, gate, nonce, wire, reading, shut>>

CanTakeGate(w) == pc[w] = "wait" /\ gate[At(w)] = Nobody

TakeGate(w) ==
    /\ CanTakeGate(w)
    /\ gate' = [gate EXCEPT ![At(w)] = w]
    /\ PcIs(w, "encrypt")
    /\ UNCHANGED <<frame, sent, nonce, wire, reading, shut>>

\* The cipher's mutex is held for this step only.
Encrypt(w) ==
    /\ pc[w] = "encrypt"
    /\ frame' = [frame EXCEPT ![w] = [nonce |-> nonce[At(w)], done |-> 0]]
    /\ nonce' = [nonce EXCEPT ![At(w)] = @ + 1]
    /\ PcIs(w, "write")
    /\ UNCHANGED <<sent, gate, wire, reading, shut>>

\* send() returns: the gate is released; a reader goes back to reading.
Return(w) ==
    /\ PcIs(w, "idle")
    /\ gate' = [gate EXCEPT ![At(w)] = Nobody]
    /\ IF w \in Ends
       THEN /\ reader' = [reader EXCEPT ![w] = "read"]
            /\ UNCHANGED sent
       ELSE /\ sent' = [sent EXCEPT ![w] = @ + 1]
            /\ UNCHANGED reader

Put(w) ==
    IF Cut THEN wire
    ELSE [wire EXCEPT ![Other(At(w))] =
             Append(@, [nonce |-> frame[w].nonce, k |-> frame[w].done + 1])]

CanWrite(w) ==
    pc[w] = "write" /\ At(w) \notin shut /\ Len(wire[Other(At(w))]) < Room

\* write_all: one write, as soon as the socket has room.
Write(w) ==
    /\ CanWrite(w)
    /\ wire' = Put(w)
    /\ IF frame[w].done + 1 = Pieces
       THEN Return(w) /\ UNCHANGED frame
       ELSE /\ frame' = [frame EXCEPT ![w].done = @ + 1]
            /\ UNCHANGED <<pc, gate, sent, reader>>
    /\ UNCHANGED <<nonce, part, expect, shut>>

WriteFails(w) ==
    /\ pc[w] = "write" /\ Cut
    /\ Return(w)
    /\ UNCHANGED <<frame, nonce, wire, part, expect, shut>>

-----------------------------------------------------------------------------
(* recv(): read_frame, then the cipher.                                    *)

Fetched(e) == Append(part[e], Head(wire[e]))
\* What was read is one whole frame, and the one whose turn it is.
Decrypts(e) ==
    Fetched(e) = [k \in 1..Pieces |-> [nonce |-> expect[e], k |-> k]]

\* Mutant: as if the cipher's mutex were held until the frame is written.
CanReadBehindWriter(e) ==
    /\ reader[e] = "read" /\ wire[e] # <<>>
    /\ \A w \in Writers : At(w) = e => pc[w] # "write"

CanRead(e) == reader[e] = "read" /\ wire[e] # <<>>

\* A piece is read; when the frame is whole it is decrypted and handled.
Read(e) ==
    /\ CanRead(e)
    /\ wire' = [wire EXCEPT ![e] = Tail(@)]
    /\ IF Len(part[e]) + 1 < Pieces
       THEN /\ part' = [part EXCEPT ![e] = Fetched(e)]
            /\ UNCHANGED <<expect, reader>>
       ELSE /\ part' = [part EXCEPT ![e] = <<>>]
            /\ expect' = [expect EXCEPT ![e] = @ + 1]
            /\ \E next \in IF e \in MayReply THEN {"read", "reply"} ELSE {"read"} :
                   reader' = [reader EXCEPT ![e] = IF Decrypts(e) THEN next
                                                                  ELSE "garbled"]
    /\ UNCHANGED <<writing, shut>>

CanReply(e) == reader[e] = "reply" /\ pc[e] = "idle"

\* handle_chunk answers a chunk it cannot use with a FileAbort.
Reply(e) ==
    /\ CanReply(e)
    /\ PcIs(e, "wait")
    /\ UNCHANGED <<frame, sent, gate, nonce, wire, reading, shut>>

\* An error ends the reader, and with it this end of the link.
RecvFails(e) ==
    /\ reader[e] = "read" /\ Cut
    /\ reader' = [reader EXCEPT ![e] = "done"]
    /\ shut' = shut \cup {e}
    /\ UNCHANGED <<writing, wire, part, expect>>

Close(e) ==
    /\ e \in MayClose \ shut
    /\ shut' = shut \cup {e}
    /\ UNCHANGED <<writing, wire, reading>>

-----------------------------------------------------------------------------
System ==
    \/ \E t \in Threads : Call(t)
    \/ \E w \in Writers : TakeGate(w) \/ Encrypt(w) \/ Write(w) \/ WriteFails(w)
    \/ \E e \in Ends : Read(e) \/ Reply(e) \/ RecvFails(e)

Next == System \/ \E e \in Ends : Close(e)

Spec == Init /\ [][Next]_vars

-----------------------------------------------------------------------------
(* Properties.                                                             *)

\* Nobody at e can take a step: every action of System has its guard here.
Resting(e) ==
    /\ \A t \in Threads : Home[t] = e => ~CanCall(t)
    /\ \A w \in Writers : At(w) = e =>
          ~CanTakeGate(w) /\ pc[w] # "encrypt" /\ ~CanWrite(w) /\ ~(pc[w] = "write" /\ Cut)
    /\ ~CanRead(e) /\ ~CanReply(e) /\ ~(reader[e] = "read" /\ Cut)
AtRest == \A e \in Ends : Resting(e)

\* write_gate "serialises senders so that Noise's message counter and the
\* bytes on the wire stay in the same order": no frame fails to decrypt.
NeverGarbled == \A e \in Ends : reader[e] # "garbled"

\* Senders never block the reader of their own end, so that two ends that
\* both fill the socket get through: on a link that nobody closes everything
\* that was sent is received.
EverythingArrives ==
    \/ Cut \/ ~AtRest
    \/ /\ \A t \in Threads : sent[t] = Sends
       /\ \A e \in Ends : expect[e] = nonce[Other(e)]

\* "So the reader can always keep draining": nothing is left unread at an
\* end that is open when everybody waits.
AlwaysDraining ==
    \/ ~AtRest
    \/ \A e \in Ends : wire[e] = <<>> \/ e \in shut

=============================================================================
