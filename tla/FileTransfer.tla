---------------------------- MODULE FileTransfer ----------------------------
(***************************************************************************)
(* File transfer, core/src/files.rs: one node sends files to another over  *)
(* the encrypted link they share.  Each transfer has a thread of its own   *)
(* at the sender (send_file_to); at the receiver the link's reader thread  *)
(* and the thread on which the operator answers (respond_offer) share the  *)
(* `offers` and `active` maps.  Each side has one reader for the link.     *)
(*                                                                         *)
(* A file is a sequence of blocks, a block being what one read into the    *)
(* CHUNK_SIZE buffer returns; its SHA-256 is taken to identify it, so an   *)
(* offer is the contents hashed for it.  Both the received byte count and  *)
(* the next expected sequence number are the number of blocks written.     *)
(***************************************************************************)
EXTENDS Naturals, Sequences, FiniteSets

CONSTANTS
    Transfers,   \* the transfers from the sender to the receiver
    Contents,    \* what a file on the sender's disk may hold
    Leavers,     \* the sides whose operator may leave the room
    MayBreak,    \* whether the network may drop the link
    MayTimeOut,  \* whether OFFER_TIMEOUT may pass before an answer
    MayEdit,     \* whether a file may change after it was hashed
    MayFail      \* whether a file operation may fail

Sides == {"sender", "receiver"}
Blocks == UNION {{c[i] : i \in DOMAIN c} : c \in Contents}

ASSUME FileAssumption ==
    /\ \A c \in Contents : c \in Seq(Blocks)
    /\ Leavers \subseteq Sides
    /\ {MayBreak, MayTimeOut, MayEdit, MayFail} \subseteq BOOLEAN

Other(s) == IF s = "sender" THEN "receiver" ELSE "sender"

VARIABLES
    life,      \* life[s]: "live" | "drained" (maps taken) | "out"
    known,     \* known[s]: the other side is in s's peers map
    reader,    \* reader[s]: where s's reader thread for the link stands
    wire,      \* wire[s]: messages on their way to s
    shut,      \* the sides that have closed the link
    disk,      \* disk[t]: the file on the sender's disk
    offer,     \* offer[t]: the contents its size and hash were taken from
    out,       \* out[t]: where the send_file_to thread stands, the blocks it
               \* has sent, and the outcome it is about to report
    waiters,   \* transfers whose thread can still be given a decision
    outPeer,   \* transfers the sender would cancel if the peer went away
    decided,   \* decided[t]: decisions in the thread's channel
    offers,    \* offers the receiver has not answered
    answer,    \* answer[t]: where respond_offer stands
    active,    \* accepted transfers being written
    file,      \* file[t]: the blocks at the path the receiver chose
    sentTold,  \* sentTold[t]: outcomes reported to the sender's operator
    gotTold    \* gotTold[t]: outcomes reported to the receiver's operator

link == <<life, known, reader>>
chan == <<wire, shut>>
sending == <<disk, offer, out, waiters, outPeer, decided, sentTold>>
receiving == <<offers, answer, active, file, gotTold>>
vars == <<life, known, reader, wire, shut, disk, offer, out, waiters, outPeer,
          decided, offers, answer, active, file, sentTold, gotTold>>

OutStates == {"no", "register", "offer", "wait", "open", "send", "finish",
              "done", "stopped"}
AnswerStates == {"no", "create", "tell", "done", "declined", "error", "broken"}
ReaderStates == {"run", "cancelBye", "cancelErr", "done"}
SentOutcomes == {"sent", "declined", "timedout", "failed"}
GotOutcomes == {"saved", "declined", "failed"}

Plain(type, t) == [type |-> type, t |-> t]
Chunk(t, seq, block) == [type |-> "Chunk", t |-> t, seq |-> seq, block |-> block]
Bye == [type |-> "Bye"]
Messages ==
    [type : {"FileOffer", "FileAccept", "FileDecline", "FileDone", "FileAbort"},
     t : Transfers]
    \cup [type : {"Chunk"}, t : Transfers, seq : Nat, block : Blocks]
    \cup {Bye}

TypeOK ==
    /\ life \in [Sides -> {"live", "drained", "out"}]
    /\ known \in [Sides -> BOOLEAN]
    /\ reader \in [Sides -> ReaderStates]
    /\ wire \in [Sides -> Seq(Messages)]
    /\ shut \in SUBSET Sides
    /\ disk \in [Transfers -> Contents]
    /\ offer \in [Transfers -> Contents]
    /\ out \in [Transfers -> [pc : OutStates, sent : Nat,
                              how : SentOutcomes \cup {"none"}]]
    /\ waiters \in SUBSET Transfers
    /\ outPeer \in SUBSET Transfers
    /\ decided \in [Transfers -> Seq({"accept", "decline"})]
    /\ offers \in SUBSET Transfers
    /\ answer \in [Transfers -> AnswerStates]
    /\ active \in SUBSET Transfers
    /\ file \in [Transfers -> Seq(Blocks)]
    /\ sentTold \in [Transfers -> Seq(SentOutcomes)]
    /\ gotTold \in [Transfers -> Seq(GotOutcomes)]

Init ==
    /\ life = [s \in Sides |-> "live"]
    /\ known = [s \in Sides |-> TRUE]
    /\ reader = [s \in Sides |-> "run"]
    /\ wire = [s \in Sides |-> <<>>]
    /\ shut = {}
    /\ disk \in [Transfers -> Contents]
    /\ offer = disk
    /\ out = [t \in Transfers |-> [pc |-> "no", sent |-> 0, how |-> "none"]]
    /\ waiters = {}
    /\ outPeer = {}
    /\ decided = [t \in Transfers |-> <<>>]
    /\ offers = {}
    /\ answer = [t \in Transfers |-> "no"]
    /\ active = {}
    /\ file = [t \in Transfers |-> <<>>]
    /\ sentTold = [t \in Transfers |-> <<>>]
    /\ gotTold = [t \in Transfers |-> <<>>]

-----------------------------------------------------------------------------
(* The link: what a closed end does to a send is as in Mesh.               *)

Cut == shut # {}
CanSend(s) == s \notin shut
Put(w, s, msg) == IF Cut THEN w ELSE [w EXCEPT ![Other(s)] = Append(@, msg)]

-----------------------------------------------------------------------------
(* The sender's thread: send_file, send_file_to, finish_out.               *)

OutPc(t, pc) == out' = [out EXCEPT ![t].pc = pc]
Ending(t, how) == out' = [out EXCEPT ![t].pc = "finish", ![t].how = how]

\* send_file: the file is hashed, then a thread starts.
SendFile(t) ==
    /\ out[t].pc = "no" /\ known["sender"]
    /\ offer' = [offer EXCEPT ![t] = disk[t]]
    /\ OutPc(t, "register")
    /\ UNCHANGED <<link, chan, disk, waiters, outPeer, decided, sentTold, receiving>>

Register(t) ==
    /\ out[t].pc = "register"
    /\ waiters' = waiters \cup {t}
    /\ outPeer' = outPeer \cup {t}
    /\ OutPc(t, "offer")
    /\ UNCHANGED <<link, chan, disk, offer, decided, sentTold, receiving>>

SendOffer(t) ==
    /\ out[t].pc = "offer"
    /\ \/ /\ CanSend("sender")
          /\ wire' = Put(wire, "sender", Plain("FileOffer", t))
          /\ OutPc(t, "wait")
       \/ /\ Cut
          /\ Ending(t, "failed")
          /\ UNCHANGED wire
    /\ UNCHANGED <<link, shut, disk, offer, waiters, outPeer, decided, sentTold,
                   receiving>>

TakeDecision(t) ==
    /\ out[t].pc = "wait" /\ decided[t] # <<>>
    /\ decided' = [decided EXCEPT ![t] = Tail(@)]
    /\ IF Head(decided[t]) = "accept" THEN OutPc(t, "open") ELSE Ending(t, "declined")
    /\ UNCHANGED <<link, chan, disk, offer, waiters, outPeer, sentTold, receiving>>

\* Mutant: recv() where the code has recv_timeout().
TimeOutNever(t) == FALSE /\ UNCHANGED vars

\* recv_timeout gives up; the receiver is told.
TimeOut(t) ==
    /\ MayTimeOut
    /\ out[t].pc = "wait" /\ decided[t] = <<>>
    /\ wire' = Put(wire, "sender", Plain("FileAbort", t))
    /\ Ending(t, "timedout")
    /\ UNCHANGED <<link, shut, disk, offer, waiters, outPeer, decided, sentTold,
                   receiving>>

OpenFile(t) ==
    /\ out[t].pc = "open"
    /\ OutPc(t, "send")
    /\ UNCHANGED <<link, chan, disk, offer, waiters, outPeer, decided, sentTold,
                   receiving>>

\* Mutant: a read error is taken for the end of the file.
ReadErrorIsEnd(t) ==
    /\ MayFail
    /\ out[t].pc \in {"open", "send"}
    /\ wire' = Put(wire, "sender", Plain("FileDone", t))
    /\ Ending(t, "failed")
    /\ UNCHANGED <<link, shut, disk, offer, waiters, outPeer, decided, sentTold,
                   receiving>>

\* The file cannot be opened or read.
ReadError(t) ==
    /\ MayFail
    /\ out[t].pc \in {"open", "send"}
    /\ wire' = Put(wire, "sender", Plain("FileAbort", t))
    /\ Ending(t, "failed")
    /\ UNCHANGED <<link, shut, disk, offer, waiters, outPeer, decided, sentTold,
                   receiving>>

SendChunk(t) ==
    LET next == out[t].sent + 1
    IN  /\ out[t].pc = "send"
        /\ next <= Len(disk[t])
        /\ \/ /\ life["sender"] = "live" /\ CanSend("sender")
              /\ wire' = Put(wire, "sender", Chunk(t, out[t].sent, disk[t][next]))
              /\ out' = [out EXCEPT ![t].sent = next]
           \/ /\ Cut
              /\ Ending(t, "failed")
              /\ UNCHANGED wire
        /\ UNCHANGED <<link, shut, disk, offer, waiters, outPeer, decided, sentTold,
                       receiving>>

\* Mutant: the loop is left on the way to finish_out, with no outcome set.
StopSendingFinishes(t) ==
    /\ out[t].pc = "send" /\ life["sender"] # "live"
    /\ OutPc(t, "finish")
    /\ UNCHANGED <<link, chan, disk, offer, waiters, outPeer, decided, sentTold,
                   receiving>>

\* The loop finds that the node has left, and returns without a report.
StopSending(t) ==
    /\ out[t].pc = "send" /\ life["sender"] # "live"
    /\ OutPc(t, "stopped")
    /\ UNCHANGED <<link, chan, disk, offer, waiters, outPeer, decided, sentTold,
                   receiving>>

\* The end of the file; whether FileDone could be sent is not looked at.
SendDone(t) ==
    /\ out[t].pc = "send" /\ life["sender"] = "live"
    /\ out[t].sent >= Len(disk[t])
    /\ wire' = Put(wire, "sender", Plain("FileDone", t))
    /\ Ending(t, "sent")
    /\ UNCHANGED <<link, shut, disk, offer, waiters, outPeer, decided, sentTold,
                   receiving>>

FinishOut(t) ==
    /\ out[t].pc = "finish"
    /\ waiters' = waiters \ {t}
    /\ outPeer' = outPeer \ {t}
    /\ sentTold' = [sentTold EXCEPT ![t] = Append(@, out[t].how)]
    /\ OutPc(t, "done")
    /\ UNCHANGED <<link, chan, disk, offer, decided, receiving>>

\* The file on disk is written to by another program.
Edit(t) ==
    /\ MayEdit
    /\ out[t].pc \notin {"no", "finish", "done", "stopped"}
    /\ \E c \in Contents : disk' = [disk EXCEPT ![t] = c]
    /\ UNCHANGED <<link, chan, offer, out, waiters, outPeer, decided, sentTold,
                   receiving>>

-----------------------------------------------------------------------------
(* The receiver's answer: respond_offer.                                   *)

Respond(t, pc) ==
    /\ offers' = offers \ {t}
    /\ answer' = [answer EXCEPT ![t] = pc]

\* The offer is taken, and the peer looked up, before the path is created.
Accept(t) ==
    /\ t \in offers
    /\ Respond(t, IF known["receiver"] THEN "create" ELSE "error")
    /\ UNCHANGED <<link, chan, sending, active, file, gotTold>>

Decline(t) ==
    /\ t \in offers
    /\ Respond(t, "declined")
    /\ wire' = IF known["receiver"]
               THEN Put(wire, "receiver", Plain("FileDecline", t)) ELSE wire
    /\ gotTold' = [gotTold EXCEPT ![t] = Append(@, "declined")]
    /\ UNCHANGED <<link, shut, sending, active, file>>

\* Mutant: the sender is told first, and the transfer entered afterwards.
AcceptThenEnter(t) ==
    \/ /\ answer[t] = "create"
       /\ wire' = Put(wire, "receiver", Plain("FileAccept", t))
       /\ answer' = [answer EXCEPT ![t] = "tell"]
       /\ UNCHANGED <<link, shut, sending, offers, active, file, gotTold>>
    \/ /\ answer[t] = "tell" /\ t \notin active /\ gotTold[t] = <<>>
       /\ active' = active \cup {t}
       /\ UNCHANGED <<link, chan, sending, offers, answer, file, gotTold>>

EnterActive(t) ==
    /\ answer[t] = "create"
    /\ answer' = [answer EXCEPT ![t] = "tell"]
    /\ active' = active \cup {t}
    /\ file' = [file EXCEPT ![t] = <<>>]
    /\ UNCHANGED <<link, chan, sending, offers, gotTold>>

CreateFails(t) ==
    /\ MayFail
    /\ answer[t] = "create"
    /\ answer' = [answer EXCEPT ![t] = "error"]
    /\ UNCHANGED <<link, chan, sending, offers, active, file, gotTold>>

TellAccept(t) ==
    /\ answer[t] = "tell"
    /\ \/ /\ CanSend("receiver")
          /\ wire' = Put(wire, "receiver", Plain("FileAccept", t))
          /\ answer' = [answer EXCEPT ![t] = "done"]
       \/ /\ Cut
          /\ answer' = [answer EXCEPT ![t] = "broken"]
          /\ UNCHANGED wire
    /\ UNCHANGED <<link, shut, sending, offers, active, file, gotTold>>

-----------------------------------------------------------------------------
(* The readers: handle_file_control, handle_chunk, complete_incoming.      *)

Reads(s, type) ==
    /\ reader[s] = "run"
    /\ wire[s] # <<>> /\ Head(wire[s]).type = type
Taken(s) == [wire EXCEPT ![s] = Tail(@)]
Report(ts, how) ==
    gotTold' = [t \in Transfers |-> IF t \in ts THEN Append(gotTold[t], how)
                                                ELSE gotTold[t]]

\* The receiver enters an offer.
ReadOffer ==
    LET t == Head(wire["receiver"]).t
    IN  /\ Reads("receiver", "FileOffer")
        /\ wire' = Taken("receiver")
        /\ offers' = offers \cup {t}
        /\ UNCHANGED <<link, shut, sending, answer, active, file, gotTold>>

\* The sender passes an answer to the thread that waits for it, if one does.
ReadAnswer(type, decision) ==
    LET t == Head(wire["sender"]).t
    IN  /\ Reads("sender", type)
        /\ wire' = Taken("sender")
        /\ decided' = IF t \in waiters
                      THEN [decided EXCEPT ![t] = Append(@, decision)] ELSE decided
        /\ UNCHANGED <<link, shut, disk, offer, out, waiters, outPeer, sentTold,
                       receiving>>

\* Mutant: the amount received is not compared with the size that was offered.
ReadChunkUnbounded ==
    LET m == Head(wire["receiver"])
        good == m.t \in active /\ m.seq = Len(file[m.t])
    IN  /\ Reads("receiver", "Chunk")
        /\ good
        /\ file' = [file EXCEPT ![m.t] = Append(@, m.block)]
        /\ wire' = Taken("receiver")
        /\ UNCHANGED <<link, shut, sending, offers, answer, active, gotTold>>

\* handle_chunk: a chunk is written if it is the next one and within the size
\* offered; otherwise, or if the disk fails, the transfer is given up.
ReadChunk ==
    LET m == Head(wire["receiver"])
        expected == m.seq = Len(file[m.t]) /\ Len(file[m.t]) < Len(offer[m.t])
    IN  /\ Reads("receiver", "Chunk")
        /\ \/ /\ m.t \in active /\ expected
              /\ file' = [file EXCEPT ![m.t] = Append(@, m.block)]
              /\ wire' = Taken("receiver")
              /\ UNCHANGED <<active, gotTold>>
           \/ /\ m.t \in active /\ (~expected \/ MayFail)
              /\ active' = active \ {m.t}
              /\ wire' = Put(Taken("receiver"), "receiver", Plain("FileAbort", m.t))
              /\ Report({m.t}, "failed")
              /\ UNCHANGED file
           \/ /\ m.t \notin active
              /\ wire' = Taken("receiver")
              /\ UNCHANGED <<active, file, gotTold>>
        /\ UNCHANGED <<link, shut, sending, offers, answer>>

\* Mutant: the size is checked, the hash is not.
ReadDoneUnhashed ==
    LET t == Head(wire["receiver"]).t
    IN  /\ Reads("receiver", "FileDone")
        /\ wire' = Taken("receiver")
        /\ active' = active \ {t}
        /\ Report({t} \cap active,
                  IF Len(file[t]) = Len(offer[t]) THEN "saved" ELSE "failed")
        /\ UNCHANGED <<link, shut, sending, offers, answer, file>>

\* complete_incoming
ReadDone ==
    LET t == Head(wire["receiver"]).t
    IN  /\ Reads("receiver", "FileDone")
        /\ wire' = Taken("receiver")
        /\ active' = active \ {t}
        /\ Report({t} \cap active, IF file[t] = offer[t] THEN "saved" ELSE "failed")
        /\ UNCHANGED <<link, shut, sending, offers, answer, file>>

\* Mutant: the transfer is reported as failed and left in the map.
ReadAbortKeeps ==
    LET t == Head(wire["receiver"]).t
    IN  /\ Reads("receiver", "FileAbort")
        /\ wire' = Taken("receiver")
        /\ offers' = offers \ {t}
        /\ Report({t} \cap active, "failed")
        /\ UNCHANGED <<link, shut, sending, answer, active, file>>

ReadAbort ==
    LET t == Head(wire["receiver"]).t
    IN  /\ Reads("receiver", "FileAbort")
        /\ wire' = Taken("receiver")
        /\ offers' = offers \ {t}
        /\ active' = active \ {t}
        /\ Report({t} \cap active, "failed")
        /\ UNCHANGED <<link, shut, sending, answer, file>>

\* The sender looks the receiver's abort up among what it is receiving.
IgnoreAbort ==
    /\ Reads("sender", "FileAbort")
    /\ wire' = Taken("sender")
    /\ UNCHANGED <<link, shut, sending, receiving>>

-----------------------------------------------------------------------------
(* Losing the link: peer_gone, cancel_transfers_with, leave.               *)

\* peer_gone up to the cancellation, on a Bye or when a receive fails; a
\* side that has left no longer knows the peer and does nothing more.
PeerGone(s, cancel, next) ==
    /\ known' = [known EXCEPT ![s] = FALSE]
    /\ shut' = IF known[s] \/ next = "done" THEN shut \cup {s} ELSE shut
    /\ reader' = [reader EXCEPT ![s] = IF known[s] THEN cancel ELSE next]

ReadBye(s) ==
    /\ Reads(s, "Bye")
    /\ wire' = Taken(s)
    /\ PeerGone(s, "cancelBye", "run")
    /\ UNCHANGED <<life, sending, receiving>>

RecvFails(s) ==
    /\ reader[s] = "run" /\ Cut
    /\ PeerGone(s, "cancelErr", "done")
    /\ UNCHANGED <<life, wire, sending, receiving>>

Cancelled(s) ==
    /\ reader[s] \in {"cancelBye", "cancelErr"}
    /\ reader' = [reader EXCEPT ![s] = IF @ = "cancelBye" THEN "run" ELSE "done"]

\* Mutant: the transfers being received are forgotten without a report.
CancelReceivingMute ==
    /\ Cancelled("receiver")
    /\ active' = {}
    /\ offers' = {}
    /\ UNCHANGED <<life, known, chan, sending, answer, file, gotTold>>

\* cancel_transfers_with at the receiver ...
CancelReceiving ==
    /\ Cancelled("receiver")
    /\ active' = {}
    /\ offers' = {}
    /\ Report(active, "failed")
    /\ UNCHANGED <<life, known, chan, sending, answer, file>>

\* ... and at the sender, where the waiting threads are given a decision.
CancelSending ==
    /\ Cancelled("sender")
    /\ decided' = [t \in Transfers |-> IF t \in outPeer \cap waiters
                                       THEN Append(decided[t], "decline")
                                       ELSE decided[t]]
    /\ waiters' = waiters \ outPeer
    /\ outPeer' = {}
    /\ UNCHANGED <<life, known, chan, disk, offer, out, sentTold, receiving>>

\* leave(): the peer is taken out of the map and `running` cleared; the
\* transfers are not looked at.
Leave(s) ==
    /\ s \in Leavers /\ life[s] = "live"
    /\ life' = [life EXCEPT ![s] = IF known[s] THEN "drained" ELSE "out"]
    /\ known' = [known EXCEPT ![s] = FALSE]
    /\ UNCHANGED <<reader, chan, sending, receiving>>

LeaveBye(s) ==
    /\ life[s] = "drained"
    /\ life' = [life EXCEPT ![s] = "out"]
    /\ wire' = Put(wire, s, Bye)
    /\ shut' = shut \cup {s}
    /\ UNCHANGED <<known, reader, sending, receiving>>

Break ==
    /\ MayBreak /\ shut # Sides
    /\ shut' = Sides
    /\ UNCHANGED <<link, wire, sending, receiving>>

-----------------------------------------------------------------------------
SendThread(t) ==
    \/ Register(t) \/ SendOffer(t) \/ TakeDecision(t) \/ TimeOut(t)
    \/ OpenFile(t) \/ ReadError(t) \/ SendChunk(t) \/ StopSending(t)
    \/ SendDone(t) \/ FinishOut(t)

AnswerThread(t) == EnterActive(t) \/ CreateFails(t) \/ TellAccept(t)

ReceiverReader ==
    ReadOffer \/ ReadChunk \/ ReadDone \/ ReadAbort \/ ReadBye("receiver")
    \/ RecvFails("receiver") \/ CancelReceiving

SenderReader ==
    ReadAnswer("FileAccept", "accept") \/ ReadAnswer("FileDecline", "decline")
    \/ IgnoreAbort \/ ReadBye("sender") \/ RecvFails("sender") \/ CancelSending

\* What the program does by itself.
System ==
    \/ \E t \in Transfers : SendThread(t) \/ AnswerThread(t)
    \/ ReceiverReader \/ SenderReader
    \/ \E s \in Sides : LeaveBye(s)

\* What operators and the environment choose to do.
Operator ==
    \/ \E t \in Transfers : SendFile(t) \/ Accept(t) \/ Decline(t) \/ Edit(t)
    \/ \E s \in Sides : Leave(s)
    \/ Break

Next == System \/ Operator

Spec == Init /\ [][Next]_vars

Fairness ==
    /\ \A t \in Transfers : WF_vars(SendThread(t)) /\ WF_vars(AnswerThread(t))
    /\ WF_vars(ReceiverReader) /\ WF_vars(SenderReader)
    /\ \A s \in Sides : WF_vars(LeaveBye(s))

FairSpec == Spec /\ Fairness

-----------------------------------------------------------------------------
(* Properties.                                                             *)

Saved(t) == "saved" \in {gotTold[t][i] : i \in DOMAIN gotTold[t]}

\* "Checked against a SHA-256 hash sent with the offer": what is reported as
\* saved is the contents that were offered, though the file may have been
\* edited since and transfers share the link (complete_incoming).
SavedIsWhatWasOffered == \A t \in Transfers : Saved(t) => file[t] = offer[t]

\* However a file grows after it was offered, no more is written than the
\* size the receiver was shown when it accepted (handle_chunk).
NoMoreThanOffered == \A t \in active : Len(file[t]) <= Len(offer[t])

\* The chunks of t in q count on from n without a gap: each is the first, or
\* follows the one before it.
ChunkAt(q, t, i) == q[i].type = "Chunk" /\ q[i].t = t
InTurn(q, t, n) ==
    \A i \in DOMAIN q : ChunkAt(q, t, i) =>
        \/ q[i].seq = n /\ \A k \in 1..(i - 1) : ~ChunkAt(q, t, k)
        \/ \E k \in 1..(i - 1) :
              /\ ChunkAt(q, t, k) /\ q[i].seq = q[k].seq + 1
              /\ \A j \in (k + 1)..(i - 1) : ~ChunkAt(q, t, j)

\* The transfer is entered before the sender is told, and the link is in
\* order: no chunk finds its transfer ahead of it or behind it.
ChunksComeInOrder == \A t \in active : InTurn(wire["receiver"], t, Len(file[t]))

\* Every way a transfer can end removes it from its map before it is
\* reported, so nobody is told twice, or told two different things.
ToldOnce == \A t \in Transfers : Len(sentTold[t]) <= 1 /\ Len(gotTold[t]) <= 1

\* Nothing is to come of t: the receiver's reader has ended with the link,
\* or the sender's thread is over and what it sent has been read.
Concerns(m, t) == m.type # "Bye" /\ m.t = t
NothingToCome(t) ==
    IF Cut THEN reader["receiver"] = "done"
    ELSE /\ out[t].pc \in {"finish", "done"}
         /\ \A i \in DOMAIN wire["receiver"] : ~Concerns(wire["receiver"][i], t)

\* "Reported as failed rather than silently saved": a receiver that is still
\* in the room has heard of every transfer it accepted once nothing more can
\* come of it.  One of those goes wrong, and is left out: the abort of an
\* offer that timed out, met while respond_offer creates the path, finds the
\* transfer neither among the offers nor among those being written.
TruncatedIsReported ==
    \A t \in Transfers :
        /\ life["receiver"] = "live" /\ answer[t] = "done"
        /\ out[t].how # "timedout" /\ NothingToCome(t)
        => gotTold[t] # <<>>

\* recv_timeout: every file that is sent ends in a report, whether the
\* receiver answers, leaves, or never decides; only a sender that leaves
\* goes without.
SendingEnds ==
    \A t \in Transfers :
        out[t].pc = "register" ~> sentTold[t] # <<>> \/ out[t].pc = "stopped"

-----------------------------------------------------------------------------
(* What the transfers promise.                                             *)

Consent(t) ==
    CASE answer[t] \in {"tell", "done", "broken"} -> "yes"
      [] answer[t] = "declined" -> "no"
      [] OTHER -> "none"
Last(told) == IF told = <<>> THEN "none" ELSE told[Len(told)]

Promise == INSTANCE FilePromise WITH
    offered  <- offer,
    consent  <- [t \in Transfers |-> Consent(t)],
    sent     <- [t \in Transfers |-> Last(sentTold[t])],
    received <- [t \in Transfers |-> Last(gotTold[t])],
    kept     <- file

\* Nothing is received without consent, each side is told once, "saved" is
\* what was offered, and no transfer that was saved is called failed.
KeepsPromise == Promise!Spec

=============================================================================
