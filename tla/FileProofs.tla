----------------------------- MODULE FileProofs -----------------------------
(***************************************************************************)
(* Theorems about FileTransfer for any transfers, files and faults: what a *)
(* receiver keeps is what was offered, nobody is told twice, chunks come   *)
(* in order, and no accepted transfer ends without a word; and that it     *)
(* implements FilePromise.                                                 *)
(***************************************************************************)
EXTENDS FileTransfer, TLAPS

-----------------------------------------------------------------------------
(* Messages and wires.                                                     *)

\* The messages the actions build are messages.
LEMMA PlainType ==
    ASSUME NEW t \in Transfers,
           NEW type \in {"FileOffer", "FileAccept", "FileDecline", "FileDone",
                         "FileAbort"}
    PROVE  Plain(type, t) \in Messages
  BY DEF Plain, Messages

\* A chunk is one too, for any block of a file.
LEMMA ChunkType ==
    ASSUME NEW t \in Transfers, NEW i \in Nat, NEW b \in Blocks
    PROVE  Chunk(t, i, b) \in Messages
  BY DEF Chunk, Messages

\* What has arrived is a message about a transfer, unless it is a Bye.
LEMMA ArrivedType ==
    ASSUME wire \in [Sides -> Seq(Messages)], NEW s \in Sides, NEW type,
           Reads(s, type)
    PROVE  /\ Taken(s) \in [Sides -> Seq(Messages)]
           /\ type # "Bye" => Head(wire[s]).t \in Transfers
           /\ type = "Chunk" => Head(wire[s]).block \in Blocks
<1>1. wire[s] \in Seq(Messages) /\ wire[s] # <<>>
  BY DEF Reads
<1>2. Head(wire[s]) \in Messages /\ Tail(wire[s]) \in Seq(Messages)
  BY <1>1
<1>3. Head(wire[s]).type = type
  BY DEF Reads
<1>. QED
  BY <1>2, <1>3 DEF Taken, Messages, Bye

\* Sending keeps the wires sequences of messages.
LEMMA PutType ==
    ASSUME NEW w \in [Sides -> Seq(Messages)], NEW s \in Sides,
           NEW msg \in Messages
    PROVE  Put(w, s, msg) \in [Sides -> Seq(Messages)]
<1>1. Other(s) \in Sides
  BY DEF Other, Sides
<1>2. Append(w[Other(s)], msg) \in Seq(Messages)
  BY <1>1
<1>. QED
  BY <1>2 DEF Put

\* A report is one of the outcomes a receiver can be told.
LEMMA ReportType ==
    ASSUME gotTold \in [Transfers -> Seq(GotOutcomes)], NEW ts,
           NEW how \in GotOutcomes, Report(ts, how)
    PROVE  gotTold' \in [Transfers -> Seq(GotOutcomes)]
  BY DEF Report

-----------------------------------------------------------------------------
(* Type correctness, a group of variables at a time.                       *)

LinkType ==
    /\ life \in [Sides -> {"live", "drained", "out"}]
    /\ known \in [Sides -> BOOLEAN]
    /\ reader \in [Sides -> ReaderStates]
WireType == wire \in [Sides -> Seq(Messages)] /\ shut \in SUBSET Sides
DiskType == disk \in [Transfers -> Contents] /\ offer \in [Transfers -> Contents]
OutType ==
    out \in [Transfers -> [pc : OutStates, sent : Nat,
                           how : SentOutcomes \cup {"none"}]]
WaitType ==
    /\ waiters \in SUBSET Transfers
    /\ outPeer \in SUBSET Transfers
    /\ decided \in [Transfers -> Seq({"accept", "decline"})]
ToldType == sentTold \in [Transfers -> Seq(SentOutcomes)]
GotType ==
    /\ offers \in SUBSET Transfers
    /\ answer \in [Transfers -> AnswerStates]
    /\ active \in SUBSET Transfers
    /\ file \in [Transfers -> Seq(Blocks)]
    /\ gotTold \in [Transfers -> Seq(GotOutcomes)]

\* TypeOK is the conjunction of its parts ...
LEMMA TypeParts ==
    TypeOK <=> /\ LinkType /\ WireType /\ DiskType /\ OutType /\ WaitType
               /\ ToldType /\ GotType
  BY DEF TypeOK, LinkType, WireType, DiskType, OutType, WaitType, ToldType, GotType

\* ... and so it is after a step.
LEMMA TypePartsPrimed ==
    TypeOK' <=> /\ LinkType' /\ WireType' /\ DiskType' /\ OutType' /\ WaitType'
                /\ ToldType' /\ GotType'
  BY DEF TypeOK, LinkType, WireType, DiskType, OutType, WaitType, ToldType, GotType

\* A thread that has decided how it ends has an outcome to report.
Decided == \A t \in Transfers : out[t].pc = "finish" => out[t].how \in SentOutcomes

\* The program counter of a sending thread moves within its states.
LEMMA OutPcType ==
    ASSUME OutType, NEW t \in Transfers, NEW pc \in OutStates, OutPc(t, pc)
    PROVE  OutType'
  BY DEF OutPc, OutType

\* A thread about to end holds one of the outcomes.
LEMMA EndingType ==
    ASSUME OutType, NEW t \in Transfers, NEW how \in SentOutcomes, Ending(t, how)
    PROVE  OutType'
  BY DEF Ending, OutType, OutStates

\* The steps of a sending thread are well typed.
LEMMA SendThreadType ==
    ASSUME TypeOK, Decided, NEW t \in Transfers, SendThread(t) \/ SendFile(t)
    PROVE  TypeOK'
<1>. USE TypeParts, TypePartsPrimed DEF link, chan, receiving
<1>a. "sender" \in Sides
  BY DEF Sides
<1>b. ASSUME NEW type \in {"FileOffer", "FileAbort", "FileDone"}
      PROVE  Put(wire, "sender", Plain(type, t)) \in [Sides -> Seq(Messages)]
  <2>1. Plain(type, t) \in Messages
    BY PlainType
  <2>. QED
    BY <1>a, <2>1, PutType DEF WireType
<1>1. CASE SendFile(t) \/ Register(t) \/ OpenFile(t) \/ StopSending(t)
  <2>1. OutType'
    BY <1>1, OutPcType DEF SendFile, Register, OpenFile, StopSending, OutStates
  <2>2. DiskType' /\ WaitType'
    BY <1>1 DEF SendFile, Register, OpenFile, StopSending, DiskType, WaitType
  <2>. QED
    BY <1>1, <2>1, <2>2 DEF SendFile, Register, OpenFile, StopSending, LinkType,
       WireType, ToldType, GotType
<1>2. CASE SendOffer(t) \/ TimeOut(t) \/ ReadError(t) \/ SendDone(t)
  <2>1. OutType'
    BY <1>2, OutPcType, EndingType DEF SendOffer, TimeOut, ReadError, SendDone,
       OutStates, SentOutcomes
  <2>2. WireType'
    BY <1>b, <1>2 DEF SendOffer, TimeOut, ReadError, SendDone, WireType
  <2>. QED
    BY <1>2, <2>1, <2>2 DEF SendOffer, TimeOut, ReadError, SendDone, LinkType,
       DiskType, WaitType, ToldType, GotType
<1>3. CASE TakeDecision(t)
  <2>1. OutType'
    BY <1>3, OutPcType, EndingType DEF TakeDecision, OutStates, SentOutcomes
  <2>2. Tail(decided[t]) \in Seq({"accept", "decline"})
    BY <1>3 DEF TakeDecision, WaitType
  <2>3. WaitType'
    BY <1>3, <2>2 DEF TakeDecision, WaitType
  <2>. QED
    BY <1>3, <2>1, <2>3 DEF TakeDecision, LinkType, WireType, DiskType, ToldType,
       GotType
<1>4. CASE SendChunk(t)
  <2>1. out[t].sent \in Nat
    BY DEF OutType
  <2>2. OutType'
    <3>1. CASE out' = [out EXCEPT ![t].sent = out[t].sent + 1]
      BY <2>1, <3>1 DEF OutType
    <3>2. CASE Ending(t, "failed")
      BY <3>2, EndingType DEF SentOutcomes
    <3>. QED
      BY <1>4, <3>1, <3>2 DEF SendChunk
  <2>3. ASSUME out[t].sent + 1 <= Len(disk[t])
        PROVE  disk[t][out[t].sent + 1] \in Blocks
    <3>1. disk[t] \in Seq(Blocks)
      BY FileAssumption DEF DiskType
    <3>. QED
      BY <2>1, <2>3, <3>1
  <2>4. WireType'
    <3>1. CASE UNCHANGED wire
      BY <1>4, <3>1 DEF SendChunk, WireType
    <3>2. CASE wire' = Put(wire, "sender",
                           Chunk(t, out[t].sent, disk[t][out[t].sent + 1]))
      <4>1. Chunk(t, out[t].sent, disk[t][out[t].sent + 1]) \in Messages
        BY <1>4, <2>1, <2>3, ChunkType DEF SendChunk
      <4>2. wire' \in [Sides -> Seq(Messages)]
        BY <1>a, <3>2, <4>1, PutType DEF WireType
      <4>. QED
        BY <1>4, <4>2 DEF SendChunk, WireType
    <3>. QED
      BY <1>4, <3>1, <3>2 DEF SendChunk
  <2>. QED
    BY <1>4, <2>2, <2>4 DEF SendChunk, LinkType, DiskType, WaitType, ToldType, GotType
<1>5. CASE FinishOut(t)
  <2>1. OutType'
    BY <1>5, OutPcType DEF FinishOut, OutStates
  <2>2. out[t].how \in SentOutcomes
    BY <1>5 DEF FinishOut, Decided
  <2>3. ToldType'
    BY <1>5, <2>2 DEF FinishOut, ToldType
  <2>. QED
    BY <1>5, <2>1, <2>3 DEF FinishOut, LinkType, WireType, DiskType, WaitType, GotType
<1>. QED
  BY <1>1, <1>2, <1>3, <1>4, <1>5 DEF SendThread

\* So are the steps with which the receiver answers.
LEMMA AnswerType ==
    ASSUME TypeOK, NEW t \in Transfers, AnswerThread(t) \/ Accept(t) \/ Decline(t)
    PROVE  TypeOK'
<1>. USE TypeParts, TypePartsPrimed DEF link, chan, sending
<1>a. "receiver" \in Sides
  BY DEF Sides
<1>b. ASSUME NEW type \in {"FileAccept", "FileDecline"}
      PROVE  Put(wire, "receiver", Plain(type, t)) \in [Sides -> Seq(Messages)]
  <2>1. Plain(type, t) \in Messages
    BY PlainType
  <2>. QED
    BY <1>a, <2>1, PutType DEF WireType
<1>1. GotType'
  <2>1. CASE EnterActive(t)
    <3>1. /\ answer' = [answer EXCEPT ![t] = "tell"]
          /\ file' = [file EXCEPT ![t] = <<>>]
      BY <2>1 DEF EnterActive
    <3>2. answer' \in [Transfers -> AnswerStates] /\ file' \in [Transfers -> Seq(Blocks)]
      BY <3>1 DEF GotType, AnswerStates
    <3>. QED
      BY <2>1, <3>2 DEF EnterActive, GotType
  <2>3. CASE Accept(t)
    BY <2>3 DEF Accept, Respond, GotType, AnswerStates
  <2>4. CASE CreateFails(t) \/ TellAccept(t)
    BY <2>4 DEF CreateFails, TellAccept, GotType, AnswerStates
  <2>2. CASE Decline(t)
    BY <2>2 DEF Decline, Respond, GotType, AnswerStates, GotOutcomes
  <2>. QED
    BY <2>1, <2>2, <2>3, <2>4 DEF AnswerThread
<1>2. WireType'
  BY <1>b DEF AnswerThread, Accept, Decline, EnterActive, CreateFails, TellAccept,
     WireType
<1>. QED
  BY <1>1, <1>2 DEF AnswerThread, Accept, Decline, EnterActive, CreateFails,
     TellAccept, LinkType, DiskType, OutType, WaitType, ToldType

\* The steps of the receiver's reader are well typed.
LEMMA ReceiverReaderType ==
    ASSUME TypeOK, ReceiverReader
    PROVE  TypeOK'
<1>. USE TypeParts, TypePartsPrimed DEF link, chan, sending, receiving
<1>a. "receiver" \in Sides
  BY DEF Sides
<1>1. CASE ReadOffer \/ ReadDone \/ ReadAbort
  <2>1. WireType' /\ Head(wire["receiver"]).t \in Transfers
    BY <1>a, <1>1, ArrivedType DEF ReadOffer, ReadDone, ReadAbort, WireType
  <2>2. GotType'
    BY <1>1, <2>1, ReportType DEF ReadOffer, ReadDone, ReadAbort, GotType, GotOutcomes
  <2>. QED
    BY <1>1, <2>1, <2>2 DEF ReadOffer, ReadDone, ReadAbort, LinkType, DiskType,
       OutType, WaitType, ToldType
<1>2. CASE ReadChunk
  <2>. DEFINE m == Head(wire["receiver"])
  <2>1. /\ m.t \in Transfers /\ m.block \in Blocks
        /\ Taken("receiver") \in [Sides -> Seq(Messages)]
    <3>1. Reads("receiver", "Chunk") /\ "Chunk" # "Bye"
      BY <1>2 DEF ReadChunk
    <3>2. wire \in [Sides -> Seq(Messages)]
      BY DEF WireType
    <3>. QED
      BY <1>a, <3>1, <3>2, ArrivedType
  <2>2. Plain("FileAbort", m.t) \in Messages
    BY <2>1, PlainType
  <2>3. Put(Taken("receiver"), "receiver", Plain("FileAbort", m.t))
          \in [Sides -> Seq(Messages)]
    BY <1>a, <2>1, <2>2, PutType
  <2>4. WireType'
    BY <1>2, <2>1, <2>3 DEF ReadChunk, WireType
  <2>5. Append(file[m.t], m.block) \in Seq(Blocks)
    BY <2>1 DEF GotType
  <2>6. GotType'
    BY <1>2, <2>5, ReportType DEF ReadChunk, GotType, GotOutcomes
  <2>. QED
    BY <1>2, <2>4, <2>6 DEF ReadChunk, LinkType, DiskType, OutType, WaitType, ToldType
<1>3. CASE ReadBye("receiver") \/ RecvFails("receiver")
  <2>1. WireType'
    BY <1>a, <1>3, ArrivedType DEF ReadBye, RecvFails, PeerGone, WireType
  <2>2. LinkType'
    BY <1>3 DEF ReadBye, RecvFails, PeerGone, LinkType, ReaderStates
  <2>. QED
    BY <1>3, <2>1, <2>2 DEF ReadBye, RecvFails, DiskType, OutType, WaitType,
       ToldType, GotType
<1>4. CASE CancelReceiving
  <2>1. LinkType'
    BY <1>4 DEF CancelReceiving, Cancelled, LinkType, ReaderStates
  <2>2. GotType'
    BY <1>4, ReportType DEF CancelReceiving, GotType, GotOutcomes
  <2>. QED
    BY <1>4, <2>1, <2>2 DEF CancelReceiving, WireType, DiskType, OutType, WaitType,
       ToldType
<1>. QED
  BY <1>1, <1>2, <1>3, <1>4 DEF ReceiverReader

\* So are those of the sender's reader.
LEMMA SenderReaderType ==
    ASSUME TypeOK, SenderReader
    PROVE  TypeOK'
<1>. USE TypeParts, TypePartsPrimed DEF link, chan, sending, receiving
<1>a. "sender" \in Sides
  BY DEF Sides
<1>1. ASSUME NEW type \in {"FileAccept", "FileDecline"},
             NEW decision \in {"accept", "decline"}, ReadAnswer(type, decision)
      PROVE  TypeOK'
  <2>1. WireType' /\ Head(wire["sender"]).t \in Transfers
    BY <1>a, <1>1, ArrivedType DEF ReadAnswer, WireType
  <2>2. WaitType'
    BY <1>1, <2>1 DEF ReadAnswer, WaitType
  <2>. QED
    BY <1>1, <2>1, <2>2 DEF ReadAnswer, LinkType, DiskType, OutType, ToldType, GotType
<1>2. CASE IgnoreAbort
  BY <1>a, <1>2, ArrivedType DEF IgnoreAbort, WireType, LinkType, DiskType, OutType,
     WaitType, ToldType, GotType
<1>3. CASE ReadBye("sender") \/ RecvFails("sender")
  <2>1. WireType'
    BY <1>a, <1>3, ArrivedType DEF ReadBye, RecvFails, PeerGone, WireType
  <2>2. LinkType'
    BY <1>3 DEF ReadBye, RecvFails, PeerGone, LinkType, ReaderStates
  <2>. QED
    BY <1>3, <2>1, <2>2 DEF ReadBye, RecvFails, DiskType, OutType, WaitType,
       ToldType, GotType
<1>4. CASE CancelSending
  <2>1. LinkType'
    BY <1>4 DEF CancelSending, Cancelled, LinkType, ReaderStates
  <2>2. WaitType'
    BY <1>4 DEF CancelSending, WaitType
  <2>. QED
    BY <1>4, <2>1, <2>2 DEF CancelSending, WireType, DiskType, OutType, ToldType,
       GotType
<1>. QED
  BY <1>1, <1>2, <1>3, <1>4 DEF SenderReader

\* Every step keeps the types.
LEMMA TypeStep ==
    ASSUME TypeOK, Decided, [Next]_vars
    PROVE  TypeOK'
<1>. USE TypeParts, TypePartsPrimed DEF link, chan, sending, receiving
<1>1. ASSUME NEW t \in Transfers, Edit(t)
      PROVE  TypeOK'
  BY <1>1 DEF Edit, LinkType, WireType, DiskType, OutType, WaitType, ToldType, GotType
<1>2. ASSUME NEW s \in Sides, Leave(s) \/ LeaveBye(s)
      PROVE  TypeOK'
  <2>1. Bye \in Messages
    BY DEF Messages
  <2>2. WireType'
    BY <1>2, <2>1, PutType DEF Leave, LeaveBye, WireType
  <2>3. LinkType'
    BY <1>2 DEF Leave, LeaveBye, LinkType
  <2>. QED
    BY <1>2, <2>2, <2>3 DEF Leave, LeaveBye, DiskType, OutType, WaitType, ToldType,
       GotType
<1>3. CASE Break \/ UNCHANGED vars
  BY <1>3 DEF Break, vars, LinkType, WireType, DiskType, OutType, WaitType, ToldType,
     GotType
<1>. QED
  BY <1>1, <1>2, <1>3, SendThreadType, AnswerType, ReceiverReaderType,
     SenderReaderType DEF Next, System, Operator

-----------------------------------------------------------------------------
(* The inductive invariant.                                                *)

\* The thread has put its offer on the wire, or failed to.
Past(t) == out[t].pc \notin {"no", "register", "offer"}

\* A thread reports once, when it is done.
SentOnce ==
    \A t \in Transfers : /\ Len(sentTold[t]) <= 1
                         /\ sentTold[t] # <<>> => out[t].pc = "done"

\* An offer is on the wire, or with the operator, or answered, and only one
\* of these: without this a transfer could be accepted a second time.
OnWire ==
    \A i \in DOMAIN wire["receiver"] :
        LET m == wire["receiver"][i]
        IN  m.type = "FileOffer" => m.t \notin offers /\ answer[m.t] = "no" /\ Past(m.t)
OnWireOnce ==
    \A i, j \in DOMAIN wire["receiver"] :
        LET m == wire["receiver"][i]
            n == wire["receiver"][j]
        IN  m.type = "FileOffer" /\ n.type = "FileOffer" /\ m.t = n.t => i = j
OpenUnanswered == \A t \in offers : answer[t] = "no" /\ Past(t)
AnsweredPast == \A t \in Transfers : answer[t] # "no" => Past(t)
OfferedOnce == OnWire /\ OnWireOnce /\ OpenUnanswered /\ AnsweredPast

\* A transfer is being written only between its acceptance and its report.
ReceivedOnce ==
    \A t \in Transfers :
        /\ t \in active => /\ answer[t] \in {"tell", "done", "broken"}
                           /\ gotTold[t] = <<>>
        /\ gotTold[t] # <<>> => answer[t] \notin {"no", "create", "error"}
        /\ Len(gotTold[t]) <= 1

Received == ReceivedOnce /\ SavedIsWhatWasOffered /\ NoMoreThanOffered

IInv == TypeOK /\ Decided /\ SentOnce /\ OfferedOnce /\ Received

-----------------------------------------------------------------------------
(* The sender reports once.                                                *)

\* Only a sending thread moves itself on, and never back before its offer;
\* what it is about to report is an outcome, and it reports when it ends.
LEMMA SentStep ==
    ASSUME TypeOK, Decided, SentOnce, [Next]_vars
    PROVE  /\ Decided' /\ SentOnce'
           /\ \A t \in Transfers : Past(t) => Past(t)'
<1>. USE DEF sending
<1>o. OutType /\ ToldType
  BY TypeParts
<1>1. ASSUME NEW t \in Transfers, NEW pc \in OutStates \ {"finish"}, OutPc(t, pc),
             UNCHANGED sentTold, sentTold[t] = <<>>,
             pc \in {"no", "register", "offer"} => ~Past(t)
      PROVE  /\ Decided' /\ SentOnce'
             /\ \A u \in Transfers : Past(u) => Past(u)'
  BY <1>o, <1>1 DEF OutPc, OutType, Decided, SentOnce, Past
<1>2. ASSUME NEW t \in Transfers, NEW how \in SentOutcomes, Ending(t, how),
             UNCHANGED sentTold, sentTold[t] = <<>>
      PROVE  /\ Decided' /\ SentOnce'
             /\ \A u \in Transfers : Past(u) => Past(u)'
  BY <1>o, <1>2 DEF Ending, OutType, Decided, SentOnce, Past
<1>3. ASSUME NEW t \in Transfers, SendThread(t) \/ SendFile(t)
      PROVE  /\ Decided' /\ SentOnce'
             /\ \A u \in Transfers : Past(u) => Past(u)'
  <2>1. CASE SendFile(t) \/ Register(t) \/ OpenFile(t) \/ StopSending(t)
    BY <1>1, <2>1 DEF SendFile, Register, OpenFile, StopSending, OutStates, Past,
       SentOnce
  <2>2. CASE TimeOut(t) \/ ReadError(t) \/ SendDone(t)
    BY <1>2, <2>2 DEF TimeOut, ReadError, SendDone, SentOutcomes, SentOnce
  <2>3. CASE SendOffer(t) \/ TakeDecision(t)
    BY <1>1, <1>2, <2>3 DEF SendOffer, TakeDecision, OutStates, SentOutcomes, Past,
       SentOnce
  <2>4. CASE SendChunk(t)
    <3>1. CASE out' = [out EXCEPT ![t].sent = out[t].sent + 1]
      BY <1>o, <2>4, <3>1 DEF SendChunk, OutType, Decided, SentOnce, Past
    <3>2. CASE Ending(t, "failed")
      BY <1>2, <2>4, <3>2 DEF SendChunk, SentOutcomes, SentOnce
    <3>. QED
      BY <2>4, <3>1, <3>2 DEF SendChunk
  <2>5. CASE FinishOut(t)
    <3>1. out[t].pc = "finish" /\ sentTold[t] = <<>>
      BY <2>5 DEF FinishOut, SentOnce
    <3>2. Len(Append(sentTold[t], out[t].how)) = 1
      BY <3>1
    <3>3. SentOnce'
      BY <1>o, <2>5, <3>1, <3>2 DEF FinishOut, OutPc, OutType, ToldType, SentOnce
    <3>. QED
      BY <1>o, <2>5, <3>1, <3>3 DEF FinishOut, OutPc, OutType, Decided, Past
  <2>. QED
    BY <1>3, <2>1, <2>2, <2>3, <2>4, <2>5 DEF SendThread
<1>4. CASE UNCHANGED <<out, sentTold>>
  BY <1>4 DEF Decided, SentOnce, Past
<1>5. ASSUME NEW t \in Transfers, AnswerThread(t) \/ Accept(t) \/ Decline(t) \/ Edit(t)
      PROVE  UNCHANGED <<out, sentTold>>
  BY <1>5 DEF AnswerThread, EnterActive, CreateFails, TellAccept, Accept, Decline, Edit
<1>6. CASE ReceiverReader \/ SenderReader
  BY <1>4, <1>6 DEF ReceiverReader, SenderReader, ReadOffer, ReadChunk, ReadDone,
     ReadAbort, ReadBye, RecvFails, CancelReceiving, ReadAnswer, IgnoreAbort,
     CancelSending
<1>7. ASSUME NEW s \in Sides, Leave(s) \/ LeaveBye(s)
      PROVE  UNCHANGED <<out, sentTold>>
  BY <1>7 DEF Leave, LeaveBye
<1>8. CASE Break \/ UNCHANGED vars
  BY <1>4, <1>8 DEF Break, vars
<1>. QED
  BY <1>3, <1>4, <1>5, <1>6, <1>7, <1>8 DEF Next, System, Operator

-----------------------------------------------------------------------------
(* A transfer is offered once.                                             *)

\* The receiver's wire has no offer it did not have before the step: what is
\* there was there, d places further back.
NoNewOffer(d) ==
    \A i \in DOMAIN wire'["receiver"] :
        wire'["receiver"][i].type = "FileOffer" =>
            /\ i + d \in DOMAIN wire["receiver"]
            /\ wire["receiver"][i + d] = wire'["receiver"][i]

\* The tail of a sequence is the sequence one place further on.
LEMMA TailShift ==
    ASSUME NEW S, NEW q \in Seq(S), q # <<>>, NEW i \in DOMAIN Tail(q)
    PROVE  i + 1 \in DOMAIN q /\ q[i + 1] = Tail(q)[i]
<1>1. Len(Tail(q)) = Len(q) - 1 /\ Len(q) \in Nat
  OBVIOUS
<1>2. i \in 1..Len(Tail(q))
  OBVIOUS
<1>. QED
  BY <1>1, <1>2

\* Nothing is said to the receiver.
LEMMA Quiet ==
    ASSUME WireType, wire'["receiver"] = wire["receiver"]
    PROVE  NoNewOffer(0)
<1>1. wire["receiver"] \in Seq(Messages)
  BY DEF WireType, Sides
<1>. QED
  BY <1>1 DEF NoNewOffer

\* What the receiver says goes the other way.
LEMMA ReceiverSays ==
    ASSUME NEW w \in [Sides -> Seq(Messages)], NEW msg
    PROVE  Put(w, "receiver", msg)["receiver"] = w["receiver"]
  BY DEF Put, Other, Sides

\* Something other than an offer is said to the receiver.
LEMMA SenderSays ==
    ASSUME WireType, NEW msg, msg.type # "FileOffer", wire' = Put(wire, "sender", msg)
    PROVE  NoNewOffer(0)
<1>1. wire["receiver"] \in Seq(Messages)
  BY DEF WireType, Sides
<1>2. \/ wire'["receiver"] = wire["receiver"]
      \/ wire'["receiver"] = Append(wire["receiver"], msg)
  BY DEF Put, Other, WireType, Sides
<1>. QED
  BY <1>1, <1>2 DEF NoNewOffer

\* The receiver takes a message off its wire.
LEMMA ReceiverHears ==
    ASSUME WireType, NEW type, Reads("receiver", type),
           wire'["receiver"] = Taken("receiver")["receiver"]
    PROVE  NoNewOffer(1)
<1>1. wire["receiver"] \in Seq(Messages) /\ wire["receiver"] # <<>>
  BY DEF WireType, Reads, Sides
<1>2. wire'["receiver"] = Tail(wire["receiver"])
  BY DEF Taken, WireType, Sides
<1>. QED
  BY <1>1, <1>2, TailShift DEF NoNewOffer

\* A step with no new offer, in which answers are only given to offers that
\* were taken, or changed once given, leaves every transfer offered once.
LEMMA OfferKept ==
    ASSUME OfferedOnce, NEW d \in {0, 1}, NoNewOffer(d), WireType, WireType',
           GotType, \A t \in Transfers : Past(t) => Past(t)',
           offers' \subseteq offers,
           \A t \in Transfers : \/ answer'[t] = answer[t]
                                \/ answer[t] # "no"
                                \/ t \in offers \ offers'
    PROVE  OfferedOnce'
<1>1. /\ wire["receiver"] \in Seq(Messages)
      /\ wire'["receiver"] \in Seq(Messages)
  BY DEF WireType, Sides
<1>2. \A i \in DOMAIN wire'["receiver"] :
          wire'["receiver"][i].type = "FileOffer" => wire'["receiver"][i].t \in Transfers
  BY <1>1 DEF Messages, Bye
<1>3. OnWire'
  <2>1. ASSUME NEW i \in DOMAIN wire'["receiver"], NEW t \in Transfers,
               wire'["receiver"][i].type = "FileOffer", wire'["receiver"][i].t = t
        PROVE  t \notin offers' /\ answer'[t] = "no" /\ Past(t)'
    <3>1. t \notin offers /\ answer[t] = "no" /\ Past(t)
      BY <2>1 DEF NoNewOffer, OfferedOnce, OnWire
    <3>. QED
      BY <3>1
  <2>. QED
    BY <1>2, <2>1 DEF OnWire, Past
<1>4. OnWireOnce'
  <2>. SUFFICES ASSUME NEW i \in DOMAIN wire'["receiver"],
                       NEW j \in DOMAIN wire'["receiver"],
                       wire'["receiver"][i].type = "FileOffer",
                       wire'["receiver"][j].type = "FileOffer",
                       wire'["receiver"][i].t = wire'["receiver"][j].t
                PROVE  i = j
    BY DEF OnWireOnce
  <2>1. i + d = j + d
    BY DEF NoNewOffer, OfferedOnce, OnWireOnce
  <2>2. i \in Nat /\ j \in Nat
    BY <1>1
  <2>. QED
    BY <2>1, <2>2
<1>5. OpenUnanswered'
  BY DEF OfferedOnce, OpenUnanswered, GotType, Past
<1>6. AnsweredPast'
  BY DEF OfferedOnce, AnsweredPast, OpenUnanswered, Past
<1>. QED
  BY <1>3, <1>4, <1>5, <1>6 DEF OfferedOnce

\* The one step that says FileOffer is the thread's, which leaves it behind.
LEMMA OfferMade ==
    ASSUME TypeOK, WireType', OfferedOnce, NEW t \in Transfers, SendOffer(t),
           \A u \in Transfers : Past(u) => Past(u)'
    PROVE  OfferedOnce'
<1>. USE DEF receiving
<1>t. WireType /\ OutType /\ GotType
  BY TypeParts
<1>q. wire["receiver"] \in Seq(Messages)
  BY <1>t DEF WireType, Sides
<1>s. UNCHANGED <<offers, answer>>
  BY DEF SendOffer
<1>1. CASE wire'["receiver"] = wire["receiver"]
  <2>1. NoNewOffer(0)
    BY <1>t, <1>1, Quiet
  <2>. QED
    BY <1>t, <1>s, <2>1, OfferKept
<1>2. CASE wire'["receiver"] = Append(wire["receiver"], Plain("FileOffer", t))
  <2>1. ~Past(t) /\ Past(t)'
    BY <1>t DEF SendOffer, OutPc, Ending, OutType, Past
  <2>. DEFINE n == Len(wire["receiver"])
  <2>2. /\ DOMAIN wire'["receiver"] = 1..(n + 1)
        /\ DOMAIN wire["receiver"] = 1..n /\ n \in Nat
        /\ \A i \in 1..n : wire'["receiver"][i] = wire["receiver"][i]
        /\ wire'["receiver"][n + 1] = Plain("FileOffer", t)
    BY <1>q, <1>2
  <2>. HIDE DEF n
  <2>3. answer[t] = "no" /\ t \notin offers
    BY <2>1 DEF OfferedOnce, AnsweredPast, OpenUnanswered
  <2>4. \A i \in 1..n :
            wire["receiver"][i].type = "FileOffer" =>
                wire["receiver"][i].t # t /\ wire["receiver"][i].t \in Transfers
    BY <1>q, <2>1, <2>2 DEF OfferedOnce, OnWire, Messages, Bye
  <2>5. OnWire'
    <3>1. ASSUME NEW i \in 1..(n + 1), NEW u \in Transfers,
                 wire'["receiver"][i].type = "FileOffer", wire'["receiver"][i].t = u
          PROVE  u \notin offers /\ answer[u] = "no" /\ Past(u)'
      <4>1. CASE i = n + 1
        BY <2>1, <2>2, <2>3, <3>1, <4>1 DEF Plain
      <4>2. CASE i \in 1..n
        <5>1. u \notin offers /\ answer[u] = "no" /\ Past(u)
          BY <2>2, <3>1, <4>2 DEF OfferedOnce, OnWire
        <5>. QED
          BY <5>1
      <4>. QED
        BY <2>2, <4>1, <4>2
    <3>2. \A i \in 1..(n + 1) : wire'["receiver"][i].type = "FileOffer" =>
                                    wire'["receiver"][i].t \in Transfers
      BY <2>2, <2>4 DEF Plain
    <3>. QED
      BY <1>s, <2>2, <3>1, <3>2 DEF OnWire, Past
  <2>6. OnWireOnce'
    <3>. SUFFICES ASSUME NEW i \in 1..(n + 1), NEW j \in 1..(n + 1),
                         wire'["receiver"][i].type = "FileOffer",
                         wire'["receiver"][j].type = "FileOffer",
                         wire'["receiver"][i].t = wire'["receiver"][j].t
                  PROVE  i = j
      BY <2>2 DEF OnWireOnce
    <3>1. CASE i \in 1..n /\ j \in 1..n
      BY <2>2, <3>1 DEF OfferedOnce, OnWireOnce
    <3>2. CASE i = n + 1 /\ j \in 1..n
      BY <2>2, <2>4, <3>2 DEF Plain
    <3>3. CASE i \in 1..n /\ j = n + 1
      BY <2>2, <2>4, <3>3 DEF Plain
    <3>. QED
      BY <2>2, <3>1, <3>2, <3>3
  <2>7. OpenUnanswered' /\ AnsweredPast'
    BY <1>s, <1>t DEF OfferedOnce, OpenUnanswered, AnsweredPast, GotType, Past
  <2>. QED
    BY <2>5, <2>6, <2>7 DEF OfferedOnce
<1>. QED
  BY <1>t, <1>1, <1>2 DEF SendOffer, Put, Other, WireType, Sides

\* The one step that enters an offer takes it off the wire.
LEMMA OfferTaken ==
    ASSUME TypeOK, OfferedOnce, ReadOffer
    PROVE  OfferedOnce'
<1>. DEFINE t == Head(wire["receiver"]).t
            n == Len(wire["receiver"])
<1>t. WireType /\ GotType
  BY TypeParts
<1>s. UNCHANGED <<out, answer>> /\ offers' = offers \cup {t}
  BY DEF ReadOffer, sending
<1>1. /\ wire["receiver"] \in Seq(Messages) /\ wire["receiver"] # <<>>
      /\ wire'["receiver"] = Tail(wire["receiver"])
  BY <1>t DEF ReadOffer, Reads, Taken, WireType, Sides
<1>2. wire["receiver"][1].type = "FileOffer" /\ wire["receiver"][1].t = t
  BY <1>1 DEF ReadOffer, Reads
<1>3. /\ n \in Nat \ {0} /\ DOMAIN wire["receiver"] = 1..n
      /\ DOMAIN wire'["receiver"] = 1..(n - 1)
  BY <1>1
<1>4. \A i \in 1..(n - 1) : /\ i + 1 \in 1..n
                            /\ wire'["receiver"][i] = wire["receiver"][i + 1]
  BY <1>1, <1>3, TailShift
<1>5. answer[t] = "no" /\ Past(t)
  BY <1>2, <1>3 DEF OfferedOnce, OnWire
<1>. HIDE DEF t, n
<1>6. \A i \in 1..(n - 1) : wire'["receiver"][i].type = "FileOffer" =>
                                wire'["receiver"][i].t # t
  <2>. SUFFICES ASSUME NEW i \in 1..(n - 1), wire'["receiver"][i].type = "FileOffer",
                       wire'["receiver"][i].t = t
                PROVE  FALSE
    OBVIOUS
  <2>1. /\ 1 \in DOMAIN wire["receiver"] /\ i + 1 \in DOMAIN wire["receiver"]
        /\ wire["receiver"][i + 1].type = "FileOffer"
        /\ wire["receiver"][i + 1].t = wire["receiver"][1].t
    BY <1>2, <1>3, <1>4
  <2>2. i + 1 = 1
    BY <1>2, <2>1 DEF OfferedOnce, OnWireOnce
  <2>. QED
    BY <1>3, <2>2
<1>7. OnWire'
  <2>1. ASSUME NEW i \in 1..(n - 1), NEW u, wire'["receiver"][i].type = "FileOffer",
               wire'["receiver"][i].t = u
        PROVE  u \notin offers' /\ answer'[u] = "no" /\ Past(u)'
    <3>1. u \notin offers /\ answer[u] = "no" /\ Past(u)
      <4>1. /\ i + 1 \in DOMAIN wire["receiver"]
            /\ wire["receiver"][i + 1].type = "FileOffer"
            /\ wire["receiver"][i + 1].t = u
        BY <1>3, <1>4, <2>1
      <4>2. OnWire
        BY DEF OfferedOnce
      <4>. QED
        BY <4>1, <4>2 DEF OnWire
    <3>. QED
      BY <1>s, <1>6, <2>1, <3>1 DEF Past
  <2>. QED
    BY <1>3, <2>1 DEF OnWire, Past
<1>8. OnWireOnce'
  <2>. SUFFICES ASSUME NEW i \in 1..(n - 1), NEW j \in 1..(n - 1),
                       wire'["receiver"][i].type = "FileOffer",
                       wire'["receiver"][j].type = "FileOffer",
                       wire'["receiver"][i].t = wire'["receiver"][j].t
                PROVE  i = j
    BY <1>3 DEF OnWireOnce
  <2>1. i + 1 = j + 1
    BY <1>3, <1>4 DEF OfferedOnce, OnWireOnce
  <2>. QED
    BY <1>3, <2>1
<1>9. OpenUnanswered' /\ AnsweredPast'
  BY <1>s, <1>5 DEF OfferedOnce, OpenUnanswered, AnsweredPast, Past
<1>. QED
  BY <1>7, <1>8, <1>9 DEF OfferedOnce

\* Every step leaves each transfer offered once.
LEMMA OfferedStep ==
    ASSUME TypeOK, TypeOK', Decided, SentOnce, OfferedOnce, [Next]_vars
    PROVE  OfferedOnce'
<1>. USE DEF link, chan, sending, receiving
<1>t. WireType /\ WireType' /\ GotType
  BY TypeParts, TypePartsPrimed
<1>p. \A t \in Transfers : Past(t) => Past(t)'
  BY SentStep
<1>a. ASSUME NEW d \in {0, 1}, NoNewOffer(d), UNCHANGED answer,
             offers' \subseteq offers
      PROVE  OfferedOnce'
  BY <1>t, <1>p, <1>a, OfferKept
<1>b. ASSUME UNCHANGED <<wire, offers, answer>>
      PROVE  OfferedOnce'
  BY <1>t, <1>a, <1>b, Quiet
<1>1. ASSUME NEW t \in Transfers, SendThread(t) \/ SendFile(t) \/ Edit(t)
      PROVE  OfferedOnce'
  <2>a. ASSUME NEW type \in {"FileAbort", "FileDone"},
               wire' = Put(wire, "sender", Plain(type, t)), UNCHANGED <<offers, answer>>
        PROVE  OfferedOnce'
    BY <1>t, <1>a, <2>a, SenderSays DEF Plain
  <2>1. CASE SendOffer(t)
    BY <1>t, <1>p, <2>1, OfferMade
  <2>2. CASE TimeOut(t) \/ ReadError(t) \/ SendDone(t)
    BY <2>2, <2>a DEF TimeOut, ReadError, SendDone
  <2>3. CASE SendChunk(t)
    <3>1. CASE wire' = Put(wire, "sender",
                           Chunk(t, out[t].sent, disk[t][out[t].sent + 1]))
      BY <1>t, <1>a, <2>3, <3>1, SenderSays DEF SendChunk, Chunk
    <3>. QED
      BY <1>b, <2>3, <3>1 DEF SendChunk
  <2>4. CASE \/ Register(t) \/ TakeDecision(t) \/ OpenFile(t) \/ StopSending(t)
             \/ FinishOut(t) \/ SendFile(t) \/ Edit(t)
    BY <1>b, <2>4 DEF Register, TakeDecision, OpenFile, StopSending, FinishOut,
       SendFile, Edit
  <2>. QED
    BY <1>1, <2>1, <2>2, <2>3, <2>4 DEF SendThread
<1>2. ASSUME NEW t \in Transfers, AnswerThread(t) \/ Accept(t) \/ Decline(t)
      PROVE  OfferedOnce'
  <2>1. wire'["receiver"] = wire["receiver"]
    BY <1>2, <1>t, ReceiverSays DEF AnswerThread, Accept, Decline, EnterActive,
       CreateFails, TellAccept, WireType
  <2>2. NoNewOffer(0)
    BY <1>t, <2>1, Quiet
  <2>3. offers' \subseteq offers
    BY <1>2 DEF AnswerThread, Accept, Decline, EnterActive, CreateFails, TellAccept,
       Respond
  <2>4. \A u \in Transfers : \/ answer'[u] = answer[u]
                             \/ answer[u] # "no"
                             \/ u \in offers \ offers'
    BY <1>2, <1>t DEF AnswerThread, Accept, Decline, EnterActive, CreateFails,
       TellAccept, Respond, GotType
  <2>. QED
    BY <1>t, <1>p, <2>2, <2>3, <2>4, OfferKept
<1>3. CASE ReceiverReader
  <2>a. "receiver" \in Sides
    BY DEF Sides
  <2>1. CASE ReadOffer
    BY <2>1, OfferTaken
  <2>2. CASE ReadDone \/ ReadAbort \/ ReadBye("receiver")
    <3>1. NoNewOffer(1)
      BY <1>t, <2>2, ReceiverHears DEF ReadDone, ReadAbort, ReadBye
    <3>. QED
      BY <1>a, <2>2, <3>1 DEF ReadDone, ReadAbort, ReadBye
  <2>3. CASE ReadChunk
    <3>1. Taken("receiver") \in [Sides -> Seq(Messages)]
      BY <1>t, <2>a, <2>3, ArrivedType DEF ReadChunk, WireType
    <3>2. wire'["receiver"] = Taken("receiver")["receiver"]
      BY <2>3, <3>1, ReceiverSays DEF ReadChunk
    <3>3. NoNewOffer(1)
      BY <1>t, <2>3, <3>2, ReceiverHears DEF ReadChunk
    <3>. QED
      BY <1>a, <2>3, <3>3 DEF ReadChunk
  <2>4. CASE RecvFails("receiver") \/ CancelReceiving
    <3>1. NoNewOffer(0)
      BY <1>t, <2>4, Quiet DEF RecvFails, CancelReceiving
    <3>. QED
      BY <1>a, <2>4, <3>1 DEF RecvFails, CancelReceiving
  <2>. QED
    BY <1>3, <2>1, <2>2, <2>3, <2>4 DEF ReceiverReader
<1>4. CASE SenderReader
  <2>1. wire'["receiver"] = wire["receiver"]
    BY <1>4, <1>t DEF SenderReader, ReadAnswer, IgnoreAbort, ReadBye, RecvFails,
       CancelSending, Taken, WireType, Sides
  <2>2. NoNewOffer(0)
    BY <1>t, <2>1, Quiet
  <2>. QED
    BY <1>4, <1>a, <2>2 DEF SenderReader, ReadAnswer, IgnoreAbort, ReadBye, RecvFails,
       CancelSending
<1>5. ASSUME NEW s \in Sides, LeaveBye(s)
      PROVE  OfferedOnce'
  <2>1. CASE s = "sender"
    BY <1>t, <1>a, <1>5, <2>1, SenderSays DEF LeaveBye, Bye
  <2>2. CASE s = "receiver"
    <3>1. wire'["receiver"] = wire["receiver"]
      BY <1>t, <1>5, <2>2, ReceiverSays DEF LeaveBye, WireType
    <3>. QED
      BY <1>t, <1>a, <1>5, <3>1, Quiet DEF LeaveBye
  <2>. QED
    BY <2>1, <2>2 DEF Sides
<1>6. ASSUME NEW s \in Sides, Leave(s)
      PROVE  OfferedOnce'
  BY <1>b, <1>6 DEF Leave
<1>7. CASE Break \/ UNCHANGED vars
  BY <1>b, <1>7 DEF Break, vars
<1>. QED
  BY <1>1, <1>2, <1>3, <1>4, <1>5, <1>6, <1>7 DEF Next, System, Operator

-----------------------------------------------------------------------------
(* A transfer is received once, and what is saved is what was offered.     *)

\* The offer is made of the contents hashed for it, and so it stays once the
\* transfer is known to the receiver.
LEMMA OfferStands ==
    ASSUME TypeOK, OfferedOnce, ReceivedOnce, [Next]_vars,
           NEW t \in Transfers, t \in active \/ gotTold[t] # <<>>
    PROVE  offer'[t] = offer[t]
<1>. USE DEF sending, receiving
<1>1. answer[t] # "no"
  BY DEF ReceivedOnce
<1>2. Past(t)
  BY <1>1 DEF OfferedOnce, AnsweredPast
<1>t. DiskType
  BY TypeParts
<1>3. ASSUME NEW u \in Transfers, SendFile(u)
      PROVE  offer'[t] = offer[t]
  BY <1>2, <1>3, <1>t DEF SendFile, Past, DiskType
<1>4. ASSUME NEW u \in Transfers,
             \/ SendThread(u) \/ Edit(u) \/ AnswerThread(u) \/ Accept(u) \/ Decline(u)
      PROVE  UNCHANGED offer
  BY <1>4 DEF SendThread, Register, SendOffer, TakeDecision, TimeOut, OpenFile,
     ReadError, SendChunk, StopSending, SendDone, FinishOut, Edit, AnswerThread,
     EnterActive, CreateFails, TellAccept, Accept, Decline
<1>5. CASE ReceiverReader \/ SenderReader
  BY <1>5 DEF ReceiverReader, SenderReader, ReadOffer, ReadChunk, ReadDone,
     ReadAbort, ReadBye, RecvFails, CancelReceiving, ReadAnswer, IgnoreAbort,
     CancelSending
<1>6. ASSUME NEW s \in Sides, Leave(s) \/ LeaveBye(s)
      PROVE  UNCHANGED offer
  BY <1>6 DEF Leave, LeaveBye
<1>7. CASE Break \/ UNCHANGED vars
  BY <1>7 DEF Break, vars
<1>. QED
  BY <1>3, <1>4, <1>5, <1>6, <1>7 DEF Next, System, Operator

\* Reporting: every transfer that is reported is taken out of `active`, and
\* is called saved only if the file is what was offered.
LEMMA ReportsOnce ==
    ASSUME GotType, Received, OfferedOnce, NEW ts \in SUBSET active,
           NEW how \in GotOutcomes, Report(ts, how), active' = active \ ts,
           UNCHANGED <<answer, file, offer>>,
           how = "saved" => \A t \in ts : file[t] = offer[t]
    PROVE  Received'
<1>1. ASSUME NEW t \in Transfers, t \in ts
      PROVE  /\ gotTold'[t] = <<how>> /\ t \notin active'
             /\ answer[t] \notin {"no", "create", "error"}
  <2>1. answer[t] \in {"tell", "done", "broken"} /\ gotTold[t] = <<>>
    BY <1>1 DEF Received, ReceivedOnce
  <2>2. gotTold'[t] = Append(gotTold[t], how)
    BY <1>1 DEF Report
  <2>3. Append(<<>>, how) = <<how>>
    OBVIOUS
  <2>. QED
    BY <1>1, <2>1, <2>2, <2>3
<1>2. ASSUME NEW t \in Transfers, t \notin ts
      PROVE  gotTold'[t] = gotTold[t] /\ (t \in active' <=> t \in active)
  BY <1>2 DEF Report
<1>3. ReceivedOnce'
  <2>. SUFFICES ASSUME NEW t \in Transfers
                PROVE  /\ t \in active' => /\ answer[t] \in {"tell", "done", "broken"}
                                           /\ gotTold'[t] = <<>>
                       /\ gotTold'[t] # <<>> => answer[t] \notin {"no", "create", "error"}
                       /\ Len(gotTold'[t]) <= 1
    BY DEF ReceivedOnce
  <2>1. CASE t \in ts
    <3>1. Len(<<how>>) = 1
      OBVIOUS
    <3>2. /\ gotTold'[t] = <<how>> /\ t \notin active'
          /\ answer[t] \notin {"no", "create", "error"}
      BY <1>1, <2>1
    <3>3. Len(gotTold'[t]) <= 1
      BY <3>1, <3>2
    <3>. QED
      BY <3>2, <3>3
  <2>2. CASE t \notin ts
    BY <1>2, <2>2 DEF Received, ReceivedOnce
  <2>. QED
    BY <2>1, <2>2
<1>4. SavedIsWhatWasOffered'
  <2>. SUFFICES ASSUME NEW t \in Transfers,
                       "saved" \in {gotTold'[t][i] : i \in DOMAIN gotTold'[t]}
                PROVE  file[t] = offer[t]
    BY DEF SavedIsWhatWasOffered, Saved
  <2>1. CASE t \in ts
    BY <1>1, <2>1
  <2>2. CASE t \notin ts
    BY <1>2, <2>2 DEF Received, SavedIsWhatWasOffered, Saved
  <2>. QED
    BY <2>1, <2>2
<1>5. NoMoreThanOffered'
  BY DEF Received, NoMoreThanOffered
<1>. QED
  BY <1>3, <1>4, <1>5 DEF Received

\* A step that touches none of what the receiver knows keeps it so.
LEMMA ReceivedKept ==
    ASSUME Received, UNCHANGED receiving,
           \A t \in Transfers : t \in active \/ gotTold[t] # <<>> => offer'[t] = offer[t],
           GotType
    PROVE  Received'
<1>. USE DEF receiving
<1>1. ReceivedOnce'
  BY DEF Received, ReceivedOnce
<1>2. SavedIsWhatWasOffered'
  <2>. SUFFICES ASSUME NEW t \in Transfers, Saved(t)
                PROVE  file[t] = offer'[t]
    BY DEF SavedIsWhatWasOffered, Saved
  <2>1. gotTold[t] # <<>>
    BY DEF Saved
  <2>. QED
    BY <2>1 DEF Received, SavedIsWhatWasOffered
<1>3. NoMoreThanOffered'
  BY DEF Received, NoMoreThanOffered, GotType
<1>. QED
  BY <1>1, <1>2, <1>3 DEF Received

\* The receiver's answers: an answer is given once, before anything is told.
LEMMA ReceivedAnswer ==
    ASSUME TypeOK, OfferedOnce, Received, NEW t \in Transfers,
           AnswerThread(t) \/ Accept(t) \/ Decline(t)
    PROVE  Received'
<1>. USE DEF sending
<1>t. GotType /\ DiskType
  BY TypeParts
<1>1. CASE EnterActive(t)
  <2>1. t \notin active /\ gotTold[t] = <<>>
    BY <1>1 DEF EnterActive, Received, ReceivedOnce
  <2>2. ReceivedOnce'
    BY <1>1, <1>t, <2>1 DEF EnterActive, Received, ReceivedOnce, GotType
  <2>3. SavedIsWhatWasOffered'
    BY <1>1, <1>t, <2>1 DEF EnterActive, Received, SavedIsWhatWasOffered, Saved,
       GotType
  <2>4. NoMoreThanOffered'
    <3>1. Len(<<>>) <= Len(offer[t])
      <4>1. offer[t] \in Seq(Blocks)
        BY <1>t, FileAssumption DEF DiskType
      <4>. QED
        BY <4>1
    <3>. QED
      BY <1>1, <1>t, <3>1 DEF EnterActive, Received, NoMoreThanOffered, GotType
  <2>. QED
    BY <2>2, <2>3, <2>4 DEF Received
<1>2. CASE CreateFails(t) \/ TellAccept(t)
  <2>1. ReceivedOnce'
    BY <1>2, <1>t DEF CreateFails, TellAccept, Received, ReceivedOnce, GotType
  <2>. QED
    BY <1>2, <2>1 DEF CreateFails, TellAccept, Received, SavedIsWhatWasOffered,
       NoMoreThanOffered, Saved
<1>3. CASE Accept(t)
  <2>1. answer[t] = "no"
    BY <1>3 DEF Accept, OfferedOnce, OpenUnanswered
  <2>2. t \notin active /\ gotTold[t] = <<>>
    BY <2>1 DEF Received, ReceivedOnce
  <2>3. ReceivedOnce'
    BY <1>3, <1>t, <2>2 DEF Accept, Respond, Received, ReceivedOnce, GotType
  <2>. QED
    BY <1>3, <2>3 DEF Accept, Received, SavedIsWhatWasOffered, NoMoreThanOffered, Saved
<1>4. CASE Decline(t)
  <2>1. answer[t] = "no"
    BY <1>4 DEF Decline, OfferedOnce, OpenUnanswered
  <2>2. t \notin active /\ gotTold[t] = <<>>
    BY <2>1 DEF Received, ReceivedOnce
  <2>3. Append(<<>>, "declined") = <<"declined">> /\ Len(<<"declined">>) = 1
    OBVIOUS
  <2>4. gotTold' = [gotTold EXCEPT ![t] = <<"declined">>]
    BY <1>4, <2>2, <2>3 DEF Decline
  <2>5. answer' = [answer EXCEPT ![t] = "declined"] /\ UNCHANGED <<active, file, offer>>
    BY <1>4 DEF Decline, Respond
  <2>6. ReceivedOnce'
    BY <1>t, <2>2, <2>3, <2>4, <2>5 DEF Received, ReceivedOnce, GotType
  <2>7. \A i \in DOMAIN <<"declined">> : <<"declined">>[i] = "declined"
    OBVIOUS
  <2>8. SavedIsWhatWasOffered'
    BY <1>t, <2>4, <2>5, <2>7 DEF Received, SavedIsWhatWasOffered, Saved, GotType
  <2>. QED
    BY <2>5, <2>6, <2>8 DEF Received, NoMoreThanOffered
<1>. QED
  BY <1>1, <1>2, <1>3, <1>4 DEF AnswerThread

\* The receiver's reader: whatever ends a transfer takes it out of the map.
LEMMA ReceivedRead ==
    ASSUME TypeOK, TypeOK', OfferedOnce, Received, ReceiverReader
    PROVE  Received'
<1>. USE DEF link, chan, sending
<1>t. GotType /\ GotType' /\ DiskType
  BY TypeParts, TypePartsPrimed
<1>a. "receiver" \in Sides
  BY DEF Sides
<1>b. ASSUME NEW type, Reads("receiver", type), type # "Bye"
      PROVE  Head(wire["receiver"]).t \in Transfers
  BY <1>a, <1>b, ArrivedType, TypeParts DEF WireType
<1>1. CASE ReadOffer \/ ReadBye("receiver") \/ RecvFails("receiver")
  BY <1>1 DEF ReadOffer, ReadBye, RecvFails, receiving, Received, ReceivedOnce,
     SavedIsWhatWasOffered, NoMoreThanOffered, Saved
<1>2. CASE ReadDone
  <2>. DEFINE t == Head(wire["receiver"]).t
              how == IF file[t] = offer[t] THEN "saved" ELSE "failed"
  <2>1. /\ active' = active \ ({t} \cap active) /\ Report({t} \cap active, how)
        /\ UNCHANGED <<answer, file, offer>>
    BY <1>2 DEF ReadDone
  <2>2. how \in GotOutcomes /\ (how = "saved" => file[t] = offer[t])
    BY DEF GotOutcomes
  <2>. QED
    BY <1>t, <2>1, <2>2, ReportsOnce
<1>3. CASE ReadAbort
  <2>. DEFINE t == Head(wire["receiver"]).t
  <2>1. /\ active' = active \ ({t} \cap active) /\ Report({t} \cap active, "failed")
        /\ UNCHANGED <<answer, file, offer>>
    BY <1>3 DEF ReadAbort
  <2>. QED
    BY <1>t, <2>1, ReportsOnce DEF GotOutcomes
<1>4. CASE CancelReceiving
  <2>1. /\ active' = active \ active /\ Report(active, "failed")
        /\ UNCHANGED <<answer, file, offer>>
    BY <1>4 DEF CancelReceiving
  <2>. QED
    BY <1>t, <2>1, ReportsOnce DEF GotOutcomes
<1>5. CASE ReadChunk
  <2>. DEFINE m == Head(wire["receiver"])
  <2>0. m.t \in Transfers
    BY <1>b, <1>5 DEF ReadChunk
  <2>1. CASE UNCHANGED <<active, file, gotTold>>
    BY <1>5, <2>1 DEF ReadChunk, Received, ReceivedOnce, SavedIsWhatWasOffered,
       NoMoreThanOffered, Saved
  <2>2. CASE /\ m.t \in active /\ active' = active \ {m.t}
             /\ Report({m.t}, "failed") /\ UNCHANGED file
    BY <1>t, <1>5, <2>2, ReportsOnce DEF ReadChunk, GotOutcomes
  <2>3. CASE /\ m.t \in active /\ Len(file[m.t]) < Len(offer[m.t])
             /\ file' = [file EXCEPT ![m.t] = Append(@, m.block)]
             /\ UNCHANGED <<active, gotTold>>
    <3>1. UNCHANGED <<answer, offer>>
      BY <1>5 DEF ReadChunk
    <3>2. gotTold[m.t] = <<>>
      BY <2>0, <2>3 DEF Received, ReceivedOnce
    <3>3. ~Saved(m.t)
      BY <3>2 DEF Saved
    <3>4. ReceivedOnce'
      BY <2>3, <3>1 DEF Received, ReceivedOnce
    <3>5. SavedIsWhatWasOffered'
      <4>. SUFFICES ASSUME NEW t \in Transfers, Saved(t)
                    PROVE  file'[t] = offer[t]
        BY <2>3, <3>1 DEF SavedIsWhatWasOffered, Saved
      <4>1. file'[t] = file[t]
        BY <1>t, <2>3, <3>3 DEF GotType
      <4>. QED
        BY <4>1 DEF Received, SavedIsWhatWasOffered
    <3>6. NoMoreThanOffered'
      <4>. SUFFICES ASSUME NEW t \in active
                    PROVE  Len(file'[t]) <= Len(offer[t])
        BY <2>3, <3>1 DEF NoMoreThanOffered
      <4>1. CASE t = m.t
        <5>1. file[t] \in Seq(Blocks) /\ offer[t] \in Seq(Blocks)
          BY <1>t, <2>0, <4>1, FileAssumption DEF GotType, DiskType
        <5>2. file'[t] = Append(file[t], m.block)
          BY <1>t, <2>0, <2>3, <4>1 DEF GotType
        <5>3. Len(file'[t]) = Len(file[t]) + 1
          BY <5>1, <5>2
        <5>4. Len(file[t]) \in Nat /\ Len(offer[t]) \in Nat
          BY <5>1
        <5>. QED
          BY <2>3, <4>1, <5>3, <5>4
      <4>2. CASE t # m.t
        BY <1>t, <2>3, <4>2 DEF GotType, Received, NoMoreThanOffered
      <4>. QED
        BY <4>1, <4>2
    <3>. QED
      BY <3>4, <3>5, <3>6 DEF Received
  <2>. QED
    BY <1>5, <2>1, <2>2, <2>3 DEF ReadChunk
<1>. QED
  BY <1>1, <1>2, <1>3, <1>4, <1>5 DEF ReceiverReader

\* Every step keeps what the receiver knows once.
LEMMA ReceivedStep ==
    ASSUME TypeOK, TypeOK', OfferedOnce, Received, [Next]_vars
    PROVE  Received'
<1>t. GotType
  BY TypeParts
<1>o. \A t \in Transfers : t \in active \/ gotTold[t] # <<>> => offer'[t] = offer[t]
  BY OfferStands DEF Received
<1>1. ASSUME NEW t \in Transfers, AnswerThread(t) \/ Accept(t) \/ Decline(t)
      PROVE  Received'
  BY <1>1, ReceivedAnswer
<1>2. ASSUME NEW t \in Transfers, SendThread(t) \/ SendFile(t) \/ Edit(t)
      PROVE  UNCHANGED receiving
  BY <1>2 DEF SendThread, Register, SendOffer, TakeDecision, TimeOut, OpenFile,
     ReadError, SendChunk, StopSending, SendDone, FinishOut, SendFile, Edit
<1>3. SenderReader => UNCHANGED receiving
  BY DEF SenderReader, ReadAnswer, IgnoreAbort, ReadBye, RecvFails, CancelSending
<1>4. ASSUME NEW s \in Sides, Leave(s) \/ LeaveBye(s)
      PROVE  UNCHANGED receiving
  BY <1>4 DEF Leave, LeaveBye
<1>5. Break \/ UNCHANGED vars => UNCHANGED receiving
  BY DEF Break, vars, receiving
<1>6. ASSUME UNCHANGED receiving
      PROVE  Received'
  BY <1>t, <1>o, <1>6, ReceivedKept
<1>. QED
  BY <1>1, <1>2, <1>3, <1>4, <1>5, <1>6, ReceivedRead DEF Next, System, Operator

-----------------------------------------------------------------------------
(* The theorems.                                                           *)

\* The invariant holds before anything is sent ...
LEMMA InitHolds == Init => IInv
<1>. SUFFICES ASSUME Init PROVE IInv
  OBVIOUS
<1>1. TypeOK
  BY DEF Init, TypeOK, OutStates, AnswerStates, ReaderStates
<1>2. Decided /\ SentOnce /\ OfferedOnce /\ ReceivedOnce
  BY DEF Init, Decided, SentOnce, OfferedOnce, OnWire, OnWireOnce, OpenUnanswered,
     AnsweredPast, ReceivedOnce, Sides
<1>3. SavedIsWhatWasOffered /\ NoMoreThanOffered
  BY DEF Init, SavedIsWhatWasOffered, NoMoreThanOffered, Saved
<1>. QED
  BY <1>1, <1>2, <1>3 DEF IInv, Received

\* ... and every step keeps it ...
LEMMA StepKeeps == IInv /\ [Next]_vars => IInv'
<1>. SUFFICES ASSUME IInv, [Next]_vars PROVE IInv'
  OBVIOUS
<1>1. TypeOK'
  BY TypeStep DEF IInv
<1>2. Decided' /\ SentOnce'
  BY SentStep DEF IInv
<1>3. OfferedOnce'
  BY <1>1, OfferedStep DEF IInv
<1>4. Received'
  BY <1>1, ReceivedStep DEF IInv
<1>. QED
  BY <1>1, <1>2, <1>3, <1>4 DEF IInv

\* ... so it always holds.
LEMMA Invariance == Spec => []IInv
  BY InitHolds, StepKeeps, PTL DEF Spec

\* The types of the two nodes' state are kept.
THEOREM FileTypeCorrect == Spec => []TypeOK
<1>1. IInv => TypeOK
  BY DEF IInv
<1>. QED
  BY <1>1, Invariance, PTL

\* A file reported as saved is the file that was offered, whatever happens to
\* the sender's copy, to the link, or to the other transfers on it.
THEOREM SavedIsOffered == Spec => []SavedIsWhatWasOffered
<1>1. IInv => SavedIsWhatWasOffered
  BY DEF IInv, Received
<1>. QED
  BY <1>1, Invariance, PTL

\* Nothing beyond the size offered is written to the receiver's disk.
THEOREM AtMostOffered == Spec => []NoMoreThanOffered
<1>1. IInv => NoMoreThanOffered
  BY DEF IInv, Received
<1>. QED
  BY <1>1, Invariance, PTL

\* Each operator hears how a transfer ended at most once.
THEOREM EachToldOnce == Spec => []ToldOnce
<1>1. IInv => ToldOnce
  BY DEF IInv, SentOnce, Received, ReceivedOnce, ToldOnce
<1>. QED
  BY <1>1, Invariance, PTL

-----------------------------------------------------------------------------
(* What each side's reports rest on.                                       *)

Agreed(t) == answer[t] \in {"tell", "done", "broken"}
Finished(t) == out[t].pc \in {"finish", "done"} /\ out[t].how = "sent"
In(q) == {q[i] : i \in DOMAIN q}

\* An accept that the sender has yet to read, or has read, was given ...
AcceptIsMeant ==
    /\ \A m \in In(wire["sender"]) : m.type = "FileAccept" => Agreed(m.t)
    /\ \A t \in Transfers : "accept" \in In(decided[t]) => Agreed(t)
    /\ \A t \in Transfers :
          out[t].pc \in {"open", "send"} \/ out[t].how = "sent" => Agreed(t)

\* ... and a FileDone, whether or not it has been read, came from a thread that
\* is about to report the file as sent, or has done so.
DoneIsMeant ==
    /\ \A m \in In(wire["receiver"]) : m.type = "FileDone" => Finished(m.t)
    /\ \A t \in Transfers : Saved(t) => Finished(t)
    /\ \A t \in Transfers : sentTold[t] # <<>> => sentTold[t] = <<out[t].how>>

\* Nothing is written without consent.
WrittenIfAgreed == \A t \in Transfers : file[t] # <<>> => Agreed(t)

Meant == AcceptIsMeant /\ DoneIsMeant /\ WrittenIfAgreed

\* What a sequence holds after one of its ends has changed.
LEMMA InAppend ==
    ASSUME NEW S, NEW q \in Seq(S), NEW e
    PROVE  In(Append(q, e)) \subseteq In(q) \cup {e}
BY DEF In

LEMMA InTail ==
    ASSUME NEW S, NEW q \in Seq(S), q # <<>>
    PROVE  In(Tail(q)) \subseteq In(q) /\ Head(q) \in In(q)
<1>1. Head(q) = q[1] /\ 1 \in DOMAIN q
  OBVIOUS
<1>. QED
  BY <1>1, TailShift DEF In

\* A wire has what it had and, on the far side, what was said.
LEMMA InPut ==
    ASSUME NEW w \in [Sides -> Seq(Messages)], NEW s \in Sides, NEW msg
    PROVE  /\ In(Put(w, s, msg)[Other(s)]) \subseteq In(w[Other(s)]) \cup {msg}
           /\ In(Put(w, s, msg)[s]) = In(w[s])
<1>1. Other(s) \in Sides /\ Other(s) # s
  BY DEF Other, Sides
<1>2. \/ Put(w, s, msg) = w
      \/ /\ Put(w, s, msg)[Other(s)] = Append(w[Other(s)], msg)
         /\ Put(w, s, msg)[s] = w[s]
  BY <1>1 DEF Put
<1>3. In(Append(w[Other(s)], msg)) \subseteq In(w[Other(s)]) \cup {msg}
  BY <1>1, InAppend
<1>. QED
  BY <1>2, <1>3

\* A reader takes its own wire's first message and leaves the other's alone.
LEMMA InTaken ==
    ASSUME WireType, NEW s \in Sides, NEW type, Reads(s, type)
    PROVE  /\ In(Taken(s)[s]) \subseteq In(wire[s])
           /\ Taken(s)[Other(s)] = wire[Other(s)]
           /\ Head(wire[s]) \in In(wire[s]) /\ Head(wire[s]).type = type
<1>1. wire[s] \in Seq(Messages) /\ wire[s] # <<>> /\ Head(wire[s]).type = type
  BY DEF WireType, Reads
<1>2. Taken(s)[s] = Tail(wire[s]) /\ Taken(s)[Other(s)] = wire[Other(s)]
  BY DEF Taken, WireType, Other, Sides
<1>. QED
  BY <1>1, <1>2, InTail

\* Consent is not taken back, nor is the outcome of a thread that has ended.
LEMMA MeaningStays ==
    ASSUME TypeOK, OfferedOnce, [Next]_vars, NEW t \in Transfers
    PROVE  /\ Agreed(t) => Agreed(t)'
           /\ Finished(t) => Finished(t)'
<1>. USE DEF sending, receiving
<1>t. OutType /\ GotType
  BY TypeParts
<1>1. ASSUME NEW u \in Transfers, SendThread(u) \/ SendFile(u)
      PROVE  UNCHANGED answer /\ (Finished(t) => Finished(t)')
  <2>1. UNCHANGED answer
    BY <1>1 DEF SendThread, Register, SendOffer, TakeDecision, TimeOut, OpenFile,
       ReadError, SendChunk, StopSending, SendDone, FinishOut, SendFile
  <2>2. CASE u = t /\ Finished(t)
    BY <1>1, <1>t, <2>2 DEF SendThread, Register, SendOffer, TakeDecision, TimeOut,
       OpenFile, ReadError, SendChunk, StopSending, SendDone, FinishOut, SendFile,
       OutPc, OutType, Finished
  <2>3. CASE u # t
    <3>1. out'[t] = out[t]
      BY <1>1, <1>t, <2>3 DEF SendThread, Register, SendOffer, TakeDecision, TimeOut,
         OpenFile, ReadError, SendChunk, StopSending, SendDone, FinishOut, SendFile,
         OutPc, Ending, OutType
    <3>. QED
      BY <2>1, <3>1 DEF Finished
  <2>. QED
    BY <2>1, <2>2, <2>3
<1>2. ASSUME NEW u \in Transfers, AnswerThread(u) \/ Accept(u) \/ Decline(u) \/ Edit(u)
      PROVE  UNCHANGED out /\ (Agreed(t) => Agreed(t)')
  <2>1. UNCHANGED out
    BY <1>2 DEF AnswerThread, EnterActive, CreateFails, TellAccept, Accept, Decline, Edit
  <2>2. CASE AnswerThread(u) \/ Edit(u)
    BY <1>t, <2>2 DEF AnswerThread, EnterActive, CreateFails, TellAccept, Edit, GotType,
       Agreed
  <2>3. CASE Accept(u) \/ Decline(u)
    <3>1. answer[u] = "no"
      BY <2>3 DEF Accept, Decline, OfferedOnce, OpenUnanswered
    <3>. QED
      BY <1>t, <2>1, <2>3, <3>1 DEF Accept, Decline, Respond, GotType, Agreed
  <2>. QED
    BY <1>2, <2>1, <2>2, <2>3
<1>3. CASE ReceiverReader \/ SenderReader
  BY <1>3 DEF ReceiverReader, SenderReader, ReadOffer, ReadChunk, ReadDone,
     ReadAbort, ReadBye, RecvFails, CancelReceiving, ReadAnswer, IgnoreAbort,
     CancelSending, Agreed, Finished
<1>4. ASSUME NEW s \in Sides, Leave(s) \/ LeaveBye(s)
      PROVE  UNCHANGED <<out, answer>>
  BY <1>4 DEF Leave, LeaveBye
<1>5. CASE Break \/ UNCHANGED vars
  BY <1>5 DEF Break, vars, Agreed, Finished
<1>. QED
  BY <1>1, <1>2, <1>3, <1>4, <1>5 DEF Next, System, Operator, Agreed, Finished

\* A step leaves on the receiver's wire what was there, and adds a FileDone
\* only for a thread that then ends by reporting the file as sent.
LEMMA SaidToReceiver ==
    ASSUME TypeOK, [Next]_vars, NEW m \in In(wire'["receiver"]), m.type = "FileDone"
    PROVE  m \in In(wire["receiver"]) \/ Finished(m.t)'
<1>. USE DEF link, chan
<1>t. WireType /\ OutType
  BY TypeParts
<1>w. /\ wire \in [Sides -> Seq(Messages)] /\ "sender" \in Sides /\ "receiver" \in Sides
      /\ Other("sender") = "receiver" /\ Other("receiver") = "sender"
  BY <1>t DEF WireType, Sides, Other
<1>1. CASE UNCHANGED wire
  BY <1>1
<1>2. ASSUME NEW msg, wire' = Put(wire, "sender", msg), msg.type # "FileDone"
      PROVE  m \in In(wire["receiver"])
  <2>1. In(Put(wire, "sender", msg)["receiver"]) \subseteq In(wire["receiver"]) \cup {msg}
    BY <1>w, InPut
  <2>. QED
    BY <1>2, <2>1
<1>3. ASSUME NEW msg, wire' = Put(wire, "receiver", msg)
      PROVE  m \in In(wire["receiver"])
  BY <1>w, <1>3, InPut
<1>4. ASSUME NEW s \in Sides, NEW type, Reads(s, type), wire' = Taken(s)
      PROVE  m \in In(wire["receiver"])
  BY <1>t, <1>w, <1>4, InTaken DEF Sides
<1>5. ASSUME NEW t \in Transfers, SendThread(t)
      PROVE  m \in In(wire["receiver"]) \/ Finished(m.t)'
  <2>1. CASE SendDone(t)
    <3>. DEFINE msg == Plain("FileDone", t)
    <3>1. m \in In(wire["receiver"]) \/ m = msg
      <4>. HIDE DEF msg
      <4>1. In(Put(wire, "sender", msg)["receiver"]) \subseteq In(wire["receiver"]) \cup {msg}
        BY <1>w, InPut
      <4>. QED
        BY <2>1, <4>1 DEF SendDone, msg
    <3>2. Finished(t)'
      BY <1>t, <2>1 DEF SendDone, Ending, OutType, Finished
    <3>. QED
      BY <3>1, <3>2 DEF Plain
  <2>2. CASE SendOffer(t) \/ TimeOut(t) \/ ReadError(t) \/ SendChunk(t)
    <3>1. UNCHANGED wire \/ \E msg : wire' = Put(wire, "sender", msg) /\ msg.type # "FileDone"
      BY <2>2 DEF SendOffer, TimeOut, ReadError, SendChunk, Plain, Chunk
    <3>. QED
      BY <1>1, <1>2, <3>1
  <2>3. CASE Register(t) \/ TakeDecision(t) \/ OpenFile(t) \/ StopSending(t) \/ FinishOut(t)
    BY <1>1, <2>3 DEF Register, TakeDecision, OpenFile, StopSending, FinishOut
  <2>. QED
    BY <1>5, <2>1, <2>2, <2>3 DEF SendThread
<1>6. ASSUME NEW t \in Transfers, AnswerThread(t) \/ Accept(t) \/ Decline(t)
      PROVE  m \in In(wire["receiver"])
  BY <1>1, <1>3, <1>6 DEF AnswerThread, EnterActive, CreateFails, TellAccept, Accept, Decline
<1>7. ASSUME NEW t \in Transfers, SendFile(t) \/ Edit(t)
      PROVE  m \in In(wire["receiver"])
  BY <1>1, <1>7 DEF SendFile, Edit
<1>8. CASE ReceiverReader
  <2>1. ASSUME NEW msg, Reads("receiver", "Chunk"),
               wire' = Put(Taken("receiver"), "receiver", msg)
        PROVE  m \in In(wire["receiver"])
    <3>1. Taken("receiver") \in [Sides -> Seq(Messages)]
      BY <1>w, <2>1, ArrivedType
    <3>2. m \in In(Taken("receiver")["receiver"])
      BY <1>w, <2>1, <3>1, InPut
    <3>. QED
      BY <1>t, <1>w, <2>1, <3>2, InTaken
  <2>. QED
    BY <1>1, <1>4, <1>8, <1>w, <2>1 DEF ReceiverReader, ReadOffer, ReadChunk, ReadDone,
       ReadAbort, ReadBye, RecvFails, CancelReceiving
<1>9. CASE SenderReader
  BY <1>1, <1>4, <1>9, <1>w DEF SenderReader, ReadAnswer, IgnoreAbort, ReadBye, RecvFails,
     CancelSending
<1>10. ASSUME NEW s \in Sides, Leave(s) \/ LeaveBye(s)
       PROVE  m \in In(wire["receiver"])
  BY <1>1, <1>2, <1>3, <1>10 DEF Leave, LeaveBye, Sides, Bye
<1>11. CASE Break \/ UNCHANGED vars
  BY <1>1, <1>11 DEF Break, vars
<1>. QED
  BY <1>5, <1>6, <1>7, <1>8, <1>9, <1>10, <1>11 DEF Next, System, Operator

\* So does the sender's, with an accept only from an operator who gave it.
LEMMA SaidToSender ==
    ASSUME TypeOK, [Next]_vars, NEW m \in In(wire'["sender"]), m.type = "FileAccept"
    PROVE  m \in In(wire["sender"]) \/ Agreed(m.t)
<1>. USE DEF link, chan
<1>t. WireType /\ OutType
  BY TypeParts
<1>w. /\ wire \in [Sides -> Seq(Messages)] /\ "sender" \in Sides /\ "receiver" \in Sides
      /\ Other("sender") = "receiver" /\ Other("receiver") = "sender"
  BY <1>t DEF WireType, Sides, Other
<1>1. CASE UNCHANGED wire
  BY <1>1
<1>2. ASSUME NEW msg, wire' = Put(wire, "sender", msg)
      PROVE  m \in In(wire["sender"])
  BY <1>w, <1>2, InPut
<1>3. ASSUME NEW msg, wire' = Put(wire, "receiver", msg), msg.type # "FileAccept"
      PROVE  m \in In(wire["sender"])
  <2>1. In(Put(wire, "receiver", msg)["sender"]) \subseteq In(wire["sender"]) \cup {msg}
    BY <1>w, InPut
  <2>. QED
    BY <1>3, <2>1
<1>4. ASSUME NEW s \in Sides, NEW type, Reads(s, type), wire' = Taken(s)
      PROVE  m \in In(wire["sender"])
  BY <1>t, <1>w, <1>4, InTaken DEF Sides
<1>5. ASSUME NEW t \in Transfers, SendThread(t) \/ SendFile(t) \/ Edit(t)
      PROVE  m \in In(wire["sender"])
  BY <1>1, <1>2, <1>5 DEF SendThread, Register, SendOffer, TakeDecision, TimeOut,
     OpenFile, ReadError, SendChunk, StopSending, SendDone, FinishOut, SendFile, Edit
<1>6. ASSUME NEW t \in Transfers, AnswerThread(t) \/ Accept(t) \/ Decline(t)
      PROVE  m \in In(wire["sender"]) \/ Agreed(m.t)
  <2>1. CASE TellAccept(t)
    <3>1. UNCHANGED wire \/ wire' = Put(wire, "receiver", Plain("FileAccept", t))
      BY <2>1 DEF TellAccept
    <3>2. m \in In(wire["sender"]) \/ m = Plain("FileAccept", t)
      BY <1>w, <3>1, InPut
    <3>. QED
      BY <2>1, <3>2 DEF TellAccept, Plain, Agreed
  <2>2. CASE EnterActive(t) \/ CreateFails(t) \/ Accept(t)
    BY <1>1, <2>2 DEF EnterActive, CreateFails, Accept
  <2>3. CASE Decline(t)
    BY <1>1, <1>3, <2>3 DEF Decline, Plain
  <2>. QED
    BY <1>6, <2>1, <2>2, <2>3 DEF AnswerThread
<1>7. CASE ReceiverReader
  <2>1. ASSUME NEW msg, msg.type # "FileAccept", Reads("receiver", "Chunk"),
               wire' = Put(Taken("receiver"), "receiver", msg)
        PROVE  m \in In(wire["sender"])
    <3>1. Taken("receiver") \in [Sides -> Seq(Messages)]
      BY <1>w, <2>1, ArrivedType
    <3>. DEFINE w == Taken("receiver")
    <3>2. m \in In(w["sender"])
      <4>. HIDE DEF w
      <4>1. In(Put(w, "receiver", msg)["sender"]) \subseteq In(w["sender"]) \cup {msg}
        BY <1>w, <3>1, InPut DEF w
      <4>. QED
        BY <2>1, <4>1 DEF w
    <3>. QED
      BY <1>t, <1>w, <2>1, <3>2, InTaken
  <2>2. ASSUME ReadChunk
        PROVE  m \in In(wire["sender"])
    <3>1. /\ Reads("receiver", "Chunk")
          /\ \/ wire' = Taken("receiver")
             \/ \E t : wire' = Put(Taken("receiver"), "receiver", Plain("FileAbort", t))
      BY <2>2 DEF ReadChunk
    <3>2. \A t : Plain("FileAbort", t).type = "FileAbort"
      BY DEF Plain
    <3>3. CASE wire' = Taken("receiver")
      BY <1>4, <1>w, <3>1, <3>3
    <3>4. CASE wire' # Taken("receiver")
      BY <2>1, <3>1, <3>2, <3>4
    <3>. QED
      BY <3>3, <3>4
  <2>. QED
    BY <1>1, <1>4, <1>7, <1>w, <2>2 DEF ReceiverReader, ReadOffer, ReadDone, ReadAbort,
       ReadBye, RecvFails, CancelReceiving
<1>8. CASE SenderReader
  BY <1>1, <1>4, <1>8, <1>w DEF SenderReader, ReadAnswer, IgnoreAbort, ReadBye, RecvFails,
     CancelSending
<1>9. ASSUME NEW s \in Sides, Leave(s) \/ LeaveBye(s)
      PROVE  m \in In(wire["sender"])
  BY <1>1, <1>2, <1>3, <1>9 DEF Leave, LeaveBye, Sides, Bye
<1>10. CASE Break \/ UNCHANGED vars
  BY <1>1, <1>10 DEF Break, vars
<1>. QED
  BY <1>5, <1>6, <1>7, <1>8, <1>9, <1>10 DEF Next, System, Operator

\* A thread is given an accept only by one that is read off the wire.
LEMMA GivenDecision ==
    ASSUME TypeOK, [Next]_vars, NEW t \in Transfers, "accept" \in In(decided'[t])
    PROVE  \/ "accept" \in In(decided[t])
           \/ \E m \in In(wire["sender"]) : m.type = "FileAccept" /\ m.t = t
<1>. USE DEF sending
<1>t. WireType /\ WaitType /\ "sender" \in Sides
  BY TypeParts DEF Sides
<1>q. decided[t] \in Seq({"accept", "decline"})
  BY <1>t DEF WaitType
<1>1. CASE decided'[t] = decided[t]
  BY <1>1
<1>2. ASSUME NEW u \in Transfers, TakeDecision(u)
      PROVE  "accept" \in In(decided[t])
  <2>1. CASE u = t
    <3>1. decided[t] # <<>> /\ decided'[t] = Tail(decided[t])
      BY <1>t, <1>2, <2>1 DEF TakeDecision, WaitType
    <3>. QED
      BY <1>q, <3>1, InTail
  <2>2. CASE u # t
    BY <1>t, <1>2, <2>2 DEF TakeDecision, WaitType
  <2>. QED
    BY <2>1, <2>2
<1>3. ASSUME NEW d, decided'[t] = Append(decided[t], d)
      PROVE  "accept" \in In(decided[t]) \/ d = "accept"
  BY <1>q, <1>3, InAppend
<1>4. ASSUME NEW type, NEW d, ReadAnswer(type, d), d = "accept" => type = "FileAccept"
      PROVE  \/ "accept" \in In(decided[t])
             \/ \E m \in In(wire["sender"]) : m.type = "FileAccept" /\ m.t = t
  <2>. DEFINE m == Head(wire["sender"])
  <2>1. m \in In(wire["sender"]) /\ m.type = type
    BY <1>t, <1>4, InTaken DEF ReadAnswer
  <2>2. \/ decided'[t] = decided[t]
        \/ m.t = t /\ decided'[t] = Append(decided[t], d)
    BY <1>t, <1>4 DEF ReadAnswer, WaitType
  <2>. QED
    BY <1>3, <1>4, <2>1, <2>2
<1>5. CASE SenderReader
  <2>1. CASE IgnoreAbort \/ ReadBye("sender") \/ RecvFails("sender")
    BY <1>1, <2>1 DEF IgnoreAbort, ReadBye, RecvFails
  <2>2. CASE CancelSending
    BY <1>1, <1>3, <2>2 DEF CancelSending
  <2>3. CASE ReadAnswer("FileAccept", "accept") \/ ReadAnswer("FileDecline", "decline")
    BY <1>4, <2>3
  <2>. QED
    BY <1>5, <2>1, <2>2, <2>3 DEF SenderReader
<1>6. ASSUME NEW u \in Transfers, SendThread(u) \/ SendFile(u) \/ Edit(u)
      PROVE  TakeDecision(u) \/ UNCHANGED decided
  BY <1>6 DEF SendThread, Register, SendOffer, TimeOut, OpenFile, ReadError, SendChunk,
     StopSending, SendDone, FinishOut, SendFile, Edit
<1>7. ASSUME NEW u \in Transfers, AnswerThread(u) \/ Accept(u) \/ Decline(u)
      PROVE  UNCHANGED decided
  BY <1>7 DEF AnswerThread, EnterActive, CreateFails, TellAccept, Accept, Decline
<1>8. CASE ReceiverReader
  BY <1>1, <1>8 DEF ReceiverReader, ReadOffer, ReadChunk, ReadDone, ReadAbort, ReadBye,
     RecvFails, CancelReceiving
<1>9. ASSUME NEW s \in Sides, Leave(s) \/ LeaveBye(s)
      PROVE  UNCHANGED decided
  BY <1>9 DEF Leave, LeaveBye
<1>10. CASE Break \/ UNCHANGED vars
  BY <1>1, <1>10 DEF Break, vars
<1>. QED
  BY <1>1, <1>2, <1>5, <1>6, <1>7, <1>8, <1>9, <1>10 DEF Next, System, Operator

\* A thread opens its file when it takes an accept, and not otherwise; it
\* reports once, what it ended with, and then moves no more.
LEMMA ThreadMeans ==
    ASSUME TypeOK, Decided, SentOnce, [Next]_vars, NEW t \in Transfers
    PROVE  /\ \/ out'[t].pc \in {"open", "send"}
              \/ out'[t].how = "sent"
              => \/ out[t].pc \in {"open", "send"}
                 \/ out[t].how = "sent"
                 \/ "accept" \in In(decided[t])
           /\ sentTold[t] # <<>> => UNCHANGED <<out[t], sentTold[t]>>
           /\ sentTold[t] = <<>> => sentTold'[t] \in {<<>>, <<out'[t].how>>}
<1>. USE DEF sending
<1>t. OutType /\ ToldType /\ WaitType
  BY TypeParts
<1>1. CASE UNCHANGED <<out, sentTold>>
  BY <1>1
<1>2. ASSUME NEW u \in Transfers, u # t, SendThread(u) \/ SendFile(u)
      PROVE  UNCHANGED <<out[t], sentTold[t]>>
  BY <1>t, <1>2 DEF SendThread, Register, SendOffer, TakeDecision, TimeOut, OpenFile,
     ReadError, SendChunk, StopSending, SendDone, FinishOut, SendFile, OutPc, Ending,
     OutType, ToldType
<1>3. CASE SendThread(t) \/ SendFile(t)
  <2>1. out[t].pc # "done" /\ sentTold[t] = <<>>
    BY <1>3 DEF SendThread, Register, SendOffer, TakeDecision, TimeOut, OpenFile,
       ReadError, SendChunk, StopSending, SendDone, FinishOut, SendFile, SentOnce
  <2>2. sentTold'[t] \in {<<>>, <<out'[t].how>>}
    <3>1. CASE FinishOut(t)
      <4>1. sentTold'[t] = Append(<<>>, out[t].how) /\ out'[t].how = out[t].how
        BY <1>t, <2>1, <3>1 DEF FinishOut, OutPc, OutType, ToldType
      <4>2. Append(<<>>, out[t].how) = <<out[t].how>>
        OBVIOUS
      <4>. QED
        BY <4>1, <4>2
    <3>2. CASE ~FinishOut(t)
      <4>1. UNCHANGED sentTold
        BY <1>3, <3>2 DEF SendThread, Register, SendOffer, TakeDecision, TimeOut,
           OpenFile, ReadError, SendChunk, StopSending, SendDone, SendFile
      <4>. QED
        BY <2>1, <4>1
    <3>. QED
      BY <3>1, <3>2
  <2>3. ASSUME NEW pc, OutPc(t, pc), pc \notin {"open", "send"}
        PROVE  out'[t].pc \notin {"open", "send"} /\ out'[t].how = out[t].how
    BY <1>t, <2>3 DEF OutPc, OutType
  <2>4. ASSUME NEW how, Ending(t, how), how # "sent"
        PROVE  out'[t].pc \notin {"open", "send"} /\ out'[t].how # "sent"
    BY <1>t, <2>4 DEF Ending, OutType
  <2>5. CASE TakeDecision(t)
    <3>1. CASE Head(decided[t]) = "accept"
      <4>1. decided[t] \in Seq({"accept", "decline"}) /\ decided[t] # <<>>
        BY <1>t, <2>5 DEF TakeDecision, WaitType
      <4>2. "accept" \in In(decided[t])
        BY <3>1, <4>1, InTail
      <4>. QED
        BY <2>1, <2>2, <4>2
    <3>2. CASE Head(decided[t]) # "accept"
      <4>1. Ending(t, "declined")
        BY <2>5, <3>2 DEF TakeDecision
      <4>. QED
        BY <2>1, <2>2, <2>4, <4>1
    <3>. QED
      BY <3>1, <3>2
  <2>6. CASE OpenFile(t) \/ SendChunk(t) \/ SendDone(t)
    BY <2>1, <2>2, <2>6 DEF OpenFile, SendChunk, SendDone
  <2>7. CASE Register(t) \/ StopSending(t) \/ FinishOut(t) \/ SendFile(t)
    <3>1. \E pc \in {"offer", "stopped", "done", "register"} : OutPc(t, pc)
      BY <2>7 DEF Register, StopSending, FinishOut, SendFile
    <3>. QED
      BY <2>1, <2>2, <2>3, <3>1
  <2>8. CASE SendOffer(t) \/ TimeOut(t) \/ ReadError(t)
    <3>1. OutPc(t, "wait") \/ \E how \in {"failed", "timedout"} : Ending(t, how)
      BY <2>8 DEF SendOffer, TimeOut, ReadError
    <3>. QED
      BY <2>1, <2>2, <2>3, <2>4, <3>1
  <2>. QED
    BY <1>3, <2>5, <2>6, <2>7, <2>8 DEF SendThread
<1>4. ASSUME NEW u \in Transfers, AnswerThread(u) \/ Accept(u) \/ Decline(u) \/ Edit(u)
      PROVE  UNCHANGED <<out, sentTold>>
  BY <1>4 DEF AnswerThread, EnterActive, CreateFails, TellAccept, Accept, Decline, Edit
<1>5. CASE ReceiverReader \/ SenderReader
  BY <1>1, <1>5 DEF ReceiverReader, SenderReader, ReadOffer, ReadChunk, ReadDone,
     ReadAbort, ReadBye, RecvFails, CancelReceiving, ReadAnswer, IgnoreAbort,
     CancelSending
<1>6. ASSUME NEW s \in Sides, Leave(s) \/ LeaveBye(s)
      PROVE  UNCHANGED <<out, sentTold>>
  BY <1>6 DEF Leave, LeaveBye
<1>7. CASE Break \/ UNCHANGED vars
  BY <1>1, <1>7 DEF Break, vars
<1>. QED
  BY <1>1, <1>2, <1>3, <1>4, <1>5, <1>6, <1>7 DEF Next, System, Operator

\* Nothing is written for a transfer that is not being received, and none is
\* called saved but on a FileDone.
LEMMA ReceiverMeans ==
    ASSUME TypeOK, ReceivedOnce, [Next]_vars, NEW t \in Transfers
    PROVE  /\ file'[t] # <<>> => file[t] # <<>> \/ Agreed(t)
           /\ Saved(t)' => \/ Saved(t)
                           \/ \E m \in In(wire["receiver"]) : m.type = "FileDone" /\ m.t = t
<1>. USE DEF receiving
<1>t. WireType /\ GotType /\ "receiver" \in Sides
  BY TypeParts DEF Sides
<1>1. CASE UNCHANGED <<file, gotTold>>
  BY <1>1 DEF Saved
<1>2. ASSUME NEW ts, NEW how, Report(ts, how), how # "saved"
      PROVE  Saved(t)' => Saved(t)
  <2>1. CASE t \in ts
    <3>1. gotTold[t] \in Seq(GotOutcomes) /\ gotTold'[t] = Append(gotTold[t], how)
      BY <1>t, <1>2, <2>1 DEF Report, GotType
    <3>2. In(gotTold'[t]) \subseteq In(gotTold[t]) \cup {how}
      BY <3>1, InAppend
    <3>. QED
      BY <1>2, <3>2 DEF Saved, In
  <2>2. CASE t \notin ts
    BY <1>2, <2>2 DEF Report, Saved
  <2>. QED
    BY <2>1, <2>2
<1>3. ASSUME NEW u \in Transfers, EnterActive(u)
      PROVE  file'[t] \in {file[t], <<>>} /\ UNCHANGED gotTold
  BY <1>t, <1>3 DEF EnterActive, GotType
<1>4. ASSUME NEW u \in Transfers, Decline(u)
      PROVE  UNCHANGED file /\ (Saved(t)' => Saved(t))
  <2>1. gotTold'[t] = gotTold[t] \/ gotTold'[t] = Append(gotTold[t], "declined")
    BY <1>t, <1>4 DEF Decline, GotType
  <2>2. In(Append(gotTold[t], "declined")) \subseteq In(gotTold[t]) \cup {"declined"}
    BY <1>t, InAppend DEF GotType
  <2>3. UNCHANGED file
    BY <1>4 DEF Decline
  <2>. QED
    BY <2>1, <2>2, <2>3 DEF Saved, In
<1>5. CASE ReadChunk
  <2>. DEFINE m == Head(wire["receiver"])
  <2>1. file'[t] = file[t] \/ t \in active
    BY <1>t, <1>5 DEF ReadChunk, GotType
  <2>2. UNCHANGED gotTold \/ \E ts : Report(ts, "failed")
    BY <1>5 DEF ReadChunk
  <2>3. t \in active => Agreed(t)
    BY DEF ReceivedOnce, Agreed
  <2>. QED
    BY <1>2, <2>1, <2>2, <2>3 DEF Saved
<1>6. CASE ReadDone
  <2>. DEFINE m == Head(wire["receiver"])
  <2>1. m \in In(wire["receiver"]) /\ m.type = "FileDone"
    BY <1>t, <1>6, InTaken DEF ReadDone
  <2>2. \E how : Report({m.t} \cap active, how)
    BY <1>6 DEF ReadDone
  <2>3. m.t = t \/ gotTold'[t] = gotTold[t]
    BY <2>2 DEF Report
  <2>4. UNCHANGED file
    BY <1>6 DEF ReadDone
  <2>. QED
    BY <2>1, <2>3, <2>4 DEF Saved
<1>7. CASE ReadAbort \/ CancelReceiving
  <2>1. UNCHANGED file /\ \E ts : Report(ts, "failed")
    BY <1>7 DEF ReadAbort, CancelReceiving
  <2>. QED
    BY <1>2, <2>1
<1>8. CASE ReadOffer \/ ReadBye("receiver") \/ RecvFails("receiver") \/ SenderReader
  BY <1>1, <1>8 DEF ReadOffer, ReadBye, RecvFails, SenderReader, ReadAnswer, IgnoreAbort,
     CancelSending
<1>9. ASSUME NEW u \in Transfers,
             \/ CreateFails(u) \/ TellAccept(u) \/ Accept(u)
             \/ SendThread(u) \/ SendFile(u) \/ Edit(u)
      PROVE  UNCHANGED <<file, gotTold>>
  BY <1>9 DEF CreateFails, TellAccept, Accept, SendThread, Register, SendOffer,
     TakeDecision, TimeOut, OpenFile, ReadError, SendChunk, StopSending, SendDone,
     FinishOut, SendFile, Edit
<1>10. ASSUME NEW s \in Sides, Leave(s) \/ LeaveBye(s)
       PROVE  UNCHANGED <<file, gotTold>>
  BY <1>10 DEF Leave, LeaveBye
<1>11. CASE Break \/ UNCHANGED vars
  BY <1>1, <1>11 DEF Break, vars
<1>12. ASSUME NEW u \in Transfers, EnterActive(u)
       PROVE  /\ file'[t] # <<>> => file[t] # <<>> \/ Agreed(t)
              /\ Saved(t)' => Saved(t)
  BY <1>3, <1>12 DEF Saved
<1>. QED
  BY <1>1, <1>4, <1>5, <1>6, <1>7, <1>8, <1>9, <1>10, <1>11, <1>12
     DEF Next, System, Operator, AnswerThread, ReceiverReader

\* Every step keeps what the reports rest on ...
LEMMA MeantStep ==
    ASSUME IInv, Meant, [Next]_vars
    PROVE  Meant'
<1>t. TypeOK /\ TypeOK' /\ WireType /\ WireType' /\ Decided /\ SentOnce /\ OfferedOnce
      /\ ReceivedOnce /\ "sender" \in Sides /\ "receiver" \in Sides
  BY TypeStep, TypeParts, TypePartsPrimed DEF IInv, Received, Sides
<1>s. \A t \in Transfers : /\ Agreed(t) => Agreed(t)'
                           /\ Finished(t) => Finished(t)'
  BY <1>t, MeaningStays
<1>1. ASSUME NEW m \in In(wire'["sender"]), m.type = "FileAccept"
      PROVE  Agreed(m.t)'
  <2>1. m.t \in Transfers
    BY <1>t, <1>1 DEF In, WireType, Messages, Bye
  <2>2. Agreed(m.t)
    BY <1>t, <1>1, SaidToSender DEF Meant, AcceptIsMeant
  <2>. QED
    BY <1>s, <2>1, <2>2
<1>2. ASSUME NEW t \in Transfers, "accept" \in In(decided'[t])
      PROVE  Agreed(t)'
  <2>1. Agreed(t)
    BY <1>t, <1>2, GivenDecision DEF Meant, AcceptIsMeant
  <2>. QED
    BY <1>s, <2>1
<1>3. ASSUME NEW t \in Transfers, out'[t].pc \in {"open", "send"} \/ out'[t].how = "sent"
      PROVE  Agreed(t)'
  <2>1. Agreed(t)
    BY <1>t, <1>3, ThreadMeans DEF Meant, AcceptIsMeant
  <2>. QED
    BY <1>s, <2>1
<1>4. ASSUME NEW m \in In(wire'["receiver"]), m.type = "FileDone"
      PROVE  Finished(m.t)'
  <2>1. m.t \in Transfers
    BY <1>t, <1>4 DEF In, WireType, Messages, Bye
  <2>2. Finished(m.t) \/ Finished(m.t)'
    BY <1>t, <1>4, SaidToReceiver DEF Meant, DoneIsMeant
  <2>. QED
    BY <1>s, <2>1, <2>2
<1>5. ASSUME NEW t \in Transfers, Saved(t)'
      PROVE  Finished(t)'
  <2>1. Finished(t)
    BY <1>t, <1>5, ReceiverMeans DEF Meant, DoneIsMeant
  <2>. QED
    BY <1>s, <2>1
<1>6. ASSUME NEW t \in Transfers, sentTold'[t] # <<>>
      PROVE  sentTold'[t] = <<out'[t].how>>
  BY <1>t, <1>6, ThreadMeans DEF Meant, DoneIsMeant
<1>7. ASSUME NEW t \in Transfers, file'[t] # <<>>
      PROVE  Agreed(t)'
  <2>1. Agreed(t)
    BY <1>t, <1>7, ReceiverMeans DEF Meant, WrittenIfAgreed
  <2>. QED
    BY <1>s, <2>1
<1>8. AcceptIsMeant'
  BY <1>1, <1>2, <1>3 DEF AcceptIsMeant
<1>9. DoneIsMeant'
  BY <1>4, <1>5, <1>6 DEF DoneIsMeant
<1>10. WrittenIfAgreed'
  BY <1>7 DEF WrittenIfAgreed
<1>. QED
  BY <1>8, <1>9, <1>10 DEF Meant

\* ... so it always holds.
LEMMA MeantAlways == Spec => []Meant
<1>1. Init => Meant
  <2>. SUFFICES ASSUME Init PROVE Meant
    OBVIOUS
  <2>1. /\ \A s \in Sides : In(wire[s]) = {}
        /\ \A t \in Transfers : /\ In(decided[t]) = {} /\ ~Saved(t) /\ sentTold[t] = <<>>
                                /\ file[t] = <<>> /\ out[t].pc = "no" /\ out[t].how = "none"
    BY DEF Init, In, Saved
  <2>. QED
    BY <2>1 DEF Meant, AcceptIsMeant, DoneIsMeant, WrittenIfAgreed, Sides
<1>2. IInv /\ Meant /\ [Next]_vars => Meant'
  BY MeantStep
<1>. QED
  BY <1>1, <1>2, Invariance, PTL DEF Spec

-----------------------------------------------------------------------------
(* The transfers keep their promise: FileTransfer implements FilePromise.  *)

\* The last report of one that is told nothing, and of one that is told once.
LEMMA LastReport ==
    /\ Last(<<>>) = "none"
    /\ \A how : Append(<<>>, how) = <<how>> /\ Last(<<how>>) = how
BY DEF Last

\* What the operators are promised says nothing of this step.
LEMMA PromiseStutters ==
    ASSUME UNCHANGED <<offer, file, sentTold, gotTold>>,
           \A t \in Transfers : Consent(t)' = Consent(t)
    PROVE  UNCHANGED Promise!vars
BY DEF Promise!vars, Last

\* What is reported as failed was open.
LEMMA PromiseLoses ==
    ASSUME GotType, ReceivedOnce, NEW ts \in SUBSET active, Report(ts, "failed"),
           UNCHANGED <<offer, answer, file, sentTold>>
    PROVE  Promise!Lose(ts)
<1>1. \A t \in ts : Consent(t) = "yes" /\ gotTold[t] = <<>>
  BY DEF ReceivedOnce, Consent, GotType
<1>2. ASSUME NEW t \in Transfers
      PROVE  Last(gotTold'[t]) = IF t \in ts THEN "failed" ELSE Last(gotTold[t])
  <2>1. CASE t \in ts
    <3>1. gotTold'[t] = Append(<<>>, "failed")
      BY <1>1, <2>1 DEF Report
    <3>. QED
      BY <2>1, <3>1, LastReport
  <2>2. CASE t \notin ts
    BY <2>2 DEF Report
  <2>. QED
    BY <2>1, <2>2
<1>3. \A t \in ts : t \in Transfers
  BY DEF GotType
<1>4. \A t \in ts : Last(gotTold[t]) = "none"
  BY <1>1, LastReport
<1>5. [t \in Transfers |-> Last(gotTold[t])]'
        = [t \in Transfers |-> IF t \in ts THEN "failed"
                               ELSE [u \in Transfers |-> Last(gotTold[u])][t]]
  BY <1>2
<1>6. UNCHANGED <<[t \in Transfers |-> Consent(t)], [t \in Transfers |-> Last(sentTold[t])]>>
  BY DEF Consent
<1>. QED
  BY <1>1, <1>3, <1>4, <1>5, <1>6 DEF Promise!Lose

\* send_file: the offer is made before anything is answered or reported.
LEMMA PromiseOffers ==
    ASSUME IInv, NEW t \in Transfers, SendFile(t)
    PROVE  Promise!Offer(t)
<1>. USE DEF receiving
<1>t. DiskType /\ OutType
  BY TypeParts DEF IInv
<1>1. ~Past(t) /\ out[t].pc # "done"
  BY DEF SendFile, Past
<1>2. Consent(t) = "none"
  BY <1>1 DEF IInv, OfferedOnce, AnsweredPast, Consent
<1>3. Last(sentTold[t]) = "none"
  BY <1>1, LastReport DEF IInv, SentOnce
<1>4. disk[t] \in Contents /\ offer' = [offer EXCEPT ![t] = disk[t]]
  BY <1>t DEF SendFile, DiskType
<1>5. UNCHANGED <<answer, file, sentTold, gotTold>>
  BY DEF SendFile
<1>6. UNCHANGED <<[u \in Transfers |-> Consent(u)], [u \in Transfers |-> Last(sentTold[u])],
                  [u \in Transfers |-> Last(gotTold[u])]>>
  BY <1>5 DEF Consent
<1>. QED
  BY <1>2, <1>3, <1>4, <1>5, <1>6 DEF Promise!Offer

\* finish_out: a file is reported as sent only after it was accepted, and one
\* that was saved is not reported as anything else.
LEMMA PromiseSenderReports ==
    ASSUME IInv, Meant, NEW t \in Transfers, FinishOut(t)
    PROVE  Promise!SenderReports(t, out[t].how)
<1>. USE DEF receiving
<1>t. OutType /\ ToldType /\ GotType
  BY TypeParts DEF IInv
<1>1. out[t].pc = "finish" /\ sentTold[t] = <<>> /\ out[t].how \in SentOutcomes
  BY DEF FinishOut, IInv, SentOnce, Decided
<1>2. Last(sentTold[t]) = "none"
  BY <1>1, LastReport
<1>3. out[t].how = "sent" => Consent(t) = "yes"
  BY DEF Meant, AcceptIsMeant, Agreed, Consent
<1>4. out[t].how # "sent" => Last(gotTold[t]) # "saved"
  <2>. SUFFICES ASSUME Last(gotTold[t]) = "saved"
                PROVE  Saved(t)
    BY DEF Meant, DoneIsMeant, Finished
  <2>1. gotTold[t] # <<>> /\ gotTold[t] \in Seq(GotOutcomes)
    BY <1>t, LastReport DEF GotType
  <2>2. Len(gotTold[t]) \in DOMAIN gotTold[t]
    BY <2>1
  <2>. QED
    BY <2>1, <2>2 DEF Saved, Last
<1>5. sentTold' = [sentTold EXCEPT ![t] = <<out[t].how>>]
  <2>1. sentTold' = [sentTold EXCEPT ![t] = Append(sentTold[t], out[t].how)]
    BY DEF FinishOut
  <2>. QED
    BY <1>1, <2>1, LastReport
<1>6. [u \in Transfers |-> Last(sentTold[u])]'
        = [[u \in Transfers |-> Last(sentTold[u])] EXCEPT ![t] = out[t].how]
  BY <1>t, <1>5, LastReport DEF ToldType
<1>7. UNCHANGED <<offer, answer, file, gotTold>>
  BY DEF FinishOut
<1>8. UNCHANGED <<[u \in Transfers |-> Consent(u)], [u \in Transfers |-> Last(gotTold[u])]>>
  BY <1>7 DEF Consent
<1>. QED
  BY <1>2, <1>3, <1>4, <1>6, <1>7, <1>8 DEF Promise!SenderReports

\* respond_offer: consent is given once, to a file of which nothing is kept yet.
LEMMA PromiseAccepts ==
    ASSUME IInv, Meant, NEW t \in Transfers, EnterActive(t)
    PROVE  Promise!Accept(t)
<1>. USE DEF sending
<1>t. GotType
  BY TypeParts DEF IInv
<1>1. Consent(t) = "none" /\ file[t] = <<>>
  BY DEF EnterActive, Consent, Meant, WrittenIfAgreed, Agreed
<1>2. file' = file /\ answer' = [answer EXCEPT ![t] = "tell"]
  BY <1>t, <1>1 DEF EnterActive, GotType
<1>3. [u \in Transfers |-> Consent(u)]' = [[u \in Transfers |-> Consent(u)] EXCEPT ![t] = "yes"]
  BY <1>t, <1>2 DEF Consent, GotType
<1>4. UNCHANGED <<offer, sentTold, gotTold>>
  BY DEF EnterActive
<1>5. UNCHANGED <<[u \in Transfers |-> Last(sentTold[u])],
                  [u \in Transfers |-> Last(gotTold[u])]>>
  BY <1>4
<1>. QED
  BY <1>1, <1>2, <1>3, <1>4, <1>5 DEF Promise!Accept

\* ... or it is refused, once.
LEMMA PromiseDeclines ==
    ASSUME IInv, NEW t \in Transfers, Decline(t)
    PROVE  Promise!Decline(t)
<1>. USE DEF sending
<1>t. GotType
  BY TypeParts DEF IInv
<1>1. answer[t] = "no"
  BY DEF Decline, IInv, OfferedOnce, OpenUnanswered
<1>2. gotTold[t] = <<>>
  BY <1>1 DEF IInv, Received, ReceivedOnce
<1>3. answer' = [answer EXCEPT ![t] = "declined"]
  BY DEF Decline, Respond
<1>4. gotTold' = [gotTold EXCEPT ![t] = <<"declined">>]
  <2>1. gotTold' = [gotTold EXCEPT ![t] = Append(gotTold[t], "declined")]
    BY DEF Decline
  <2>. QED
    BY <1>2, <2>1, LastReport
<1>5. [u \in Transfers |-> Consent(u)]' = [[u \in Transfers |-> Consent(u)] EXCEPT ![t] = "no"]
  BY <1>t, <1>3 DEF Consent, GotType
<1>6. [u \in Transfers |-> Last(gotTold[u])]'
        = [[u \in Transfers |-> Last(gotTold[u])] EXCEPT ![t] = "declined"]
  BY <1>t, <1>4, LastReport DEF GotType
<1>7. UNCHANGED <<offer, sentTold, file>>
  BY DEF Decline
<1>8. UNCHANGED [u \in Transfers |-> Last(sentTold[u])]
  BY <1>7
<1>9. Consent(t) = "none"
  BY <1>1 DEF Consent
<1>. QED
  BY <1>5, <1>6, <1>7, <1>8, <1>9 DEF Promise!Decline

\* handle_chunk: a block is kept, or the transfer is given up, or nothing.
LEMMA PromiseWrites ==
    ASSUME IInv, ReadChunk
    PROVE  [Promise!Next]_(Promise!vars)
<1>. USE DEF sending
<1>. DEFINE m == Head(wire["receiver"])
<1>t. GotType /\ WireType /\ "receiver" \in Sides /\ ReceivedOnce
  BY TypeParts DEF IInv, Received, Sides
<1>1. m.t \in Transfers /\ m.block \in Blocks
  <2>1. Reads("receiver", "Chunk") /\ "Chunk" # "Bye" /\ wire \in [Sides -> Seq(Messages)]
    BY <1>t DEF ReadChunk, WireType
  <2>. QED
    BY <1>t, <2>1, ArrivedType
<1>2. UNCHANGED <<offer, answer, sentTold>>
  BY DEF ReadChunk
<1>3. CASE UNCHANGED <<active, file, gotTold>>
  <2>1. \A t \in Transfers : Consent(t)' = Consent(t)
    BY <1>2 DEF Consent
  <2>. QED
    BY <1>2, <1>3, <2>1, PromiseStutters
<1>4. CASE m.t \in active /\ Report({m.t}, "failed") /\ UNCHANGED file
  <2>1. Promise!Lose({m.t})
    BY <1>t, <1>2, <1>4, PromiseLoses
  <2>2. {m.t} \in SUBSET Transfers
    BY <1>1
  <2>. QED
    BY <2>1, <2>2 DEF Promise!Next
<1>5. CASE /\ m.t \in active /\ file' = [file EXCEPT ![m.t] = Append(@, m.block)]
           /\ UNCHANGED <<active, gotTold>>
  <2>1. Consent(m.t) = "yes" /\ Last(gotTold[m.t]) = "none"
    BY <1>t, <1>1, <1>5, LastReport DEF ReceivedOnce, Consent
  <2>2. file'[m.t] # file[m.t]
    <3>1. file[m.t] \in Seq(Blocks) /\ file'[m.t] = Append(file[m.t], m.block)
      BY <1>t, <1>1, <1>5 DEF GotType
    <3>2. ASSUME NEW q \in Seq(Blocks), NEW x
          PROVE  Append(q, x) # q
      <4>1. Len(Append(q, x)) = Len(q) + 1 /\ Len(q) \in Nat
        OBVIOUS
      <4>. QED
        BY <4>1
    <3>. QED
      BY <3>1, <3>2
  <2>3. \A u \in Transfers \ {m.t} : file'[u] = file[u]
    BY <1>t, <1>5 DEF GotType
  <2>4. UNCHANGED <<[u \in Transfers |-> Consent(u)], [u \in Transfers |-> Last(sentTold[u])],
                    [u \in Transfers |-> Last(gotTold[u])]>>
    BY <1>2, <1>5 DEF Consent
  <2>5. PICK t \in Transfers : t = m.t
    BY <1>1
  <2>. HIDE DEF m
  <2>6. Promise!Write(t)
    BY <1>1, <1>2, <2>1, <2>2, <2>3, <2>4, <2>5 DEF Promise!Write
  <2>. QED
    BY <2>6 DEF Promise!Next
<1>. QED
  BY <1>3, <1>4, <1>5 DEF ReadChunk

\* complete_incoming: what is saved is what was offered, and its sender has
\* reported nothing else.
LEMMA PromiseSaves ==
    ASSUME IInv, Meant, ReadDone
    PROVE  [Promise!Next]_(Promise!vars)
<1>. USE DEF sending
<1>. DEFINE t == Head(wire["receiver"]).t
<1>t. GotType /\ WireType /\ "receiver" \in Sides /\ ReceivedOnce
  BY TypeParts DEF IInv, Received, Sides
<1>1. t \in Transfers
  BY <1>t, ArrivedType DEF ReadDone, WireType
<1>2. UNCHANGED <<offer, answer, sentTold, file>>
  BY DEF ReadDone
<1>3. CASE t \in active /\ file[t] = offer[t]
  <2>1. Report({t}, "saved")
    <3>1. {t} \cap active = {t}
      BY <1>3
    <3>. QED
      BY <1>3, <3>1 DEF ReadDone
  <2>2. Consent(t) = "yes" /\ gotTold[t] = <<>>
    BY <1>t, <1>1, <1>3 DEF ReceivedOnce, Consent
  <2>3. Finished(t)
    BY <1>t, InTaken DEF ReadDone, Meant, DoneIsMeant
  <2>4. sentTold[t] = <<>> \/ sentTold[t] = <<"sent">>
    BY <1>1, <2>3 DEF Meant, DoneIsMeant, Finished
  <2>5. Last(sentTold[t]) \in {"none", "sent"} /\ Last(gotTold[t]) = "none"
    BY <2>2, <2>4, LastReport
  <2>. HIDE DEF t
  <2>6. \A u \in Transfers : Last(gotTold'[u]) = IF u = t THEN "saved" ELSE Last(gotTold[u])
    <3>1. \A u \in Transfers : gotTold'[u] = IF u = t THEN Append(<<>>, "saved")
                                                    ELSE gotTold[u]
      BY <2>1, <2>2 DEF Report
    <3>2. Last(Append(<<>>, "saved")) = "saved"
      BY LastReport
    <3>. QED
      BY <3>1, <3>2
  <2>7. [u \in Transfers |-> Last(gotTold[u])]'
          = [[u \in Transfers |-> Last(gotTold[u])] EXCEPT ![t] = "saved"]
    BY <2>6
  <2>8. UNCHANGED <<[u \in Transfers |-> Consent(u)], [u \in Transfers |-> Last(sentTold[u])]>>
    BY <1>2 DEF Consent
  <2>9. Promise!Save(t)
    BY <1>1, <1>2, <1>3, <2>2, <2>5, <2>7, <2>8 DEF Promise!Save
  <2>. QED
    BY <1>1, <2>9 DEF Promise!Next
<1>4. CASE ~(t \in active /\ file[t] = offer[t])
  <2>1. Report({t} \cap active, "failed")
    <3>1. CASE t \in active
      BY <1>4, <3>1 DEF ReadDone
    <3>2. CASE t \notin active
      <4>1. {t} \cap active = {}
        BY <3>2
      <4>. QED
        BY <4>1 DEF ReadDone, Report
    <3>. QED
      BY <3>1, <3>2
  <2>2. Promise!Lose({t} \cap active)
    BY <1>t, <1>2, <2>1, PromiseLoses
  <2>3. {t} \cap active \in SUBSET Transfers
    BY <1>1
  <2>. QED
    BY <2>2, <2>3 DEF Promise!Next
<1>. QED
  BY <1>3, <1>4

\* Every step of a transfer is one that its operators were promised, or one
\* that they do not see.
LEMMA PromiseStep ==
    ASSUME IInv, Meant, [Next]_vars
    PROVE  [Promise!Next]_(Promise!vars)
<1>t. GotType /\ ReceivedOnce
  BY TypeParts DEF IInv, Received
<1>1. ASSUME NEW t \in Transfers, SendFile(t)
      PROVE  Promise!Next
  BY <1>1, PromiseOffers DEF Promise!Next
<1>2. ASSUME NEW t \in Transfers, FinishOut(t)
      PROVE  Promise!Next
  <2>1. out[t].how \in Promise!SentOutcomes \ {"none"}
    BY <1>2 DEF FinishOut, IInv, Decided, SentOutcomes, Promise!SentOutcomes
  <2>. QED
    BY <1>2, <2>1, PromiseSenderReports DEF Promise!Next
<1>3. ASSUME NEW t \in Transfers, EnterActive(t) \/ Decline(t)
      PROVE  Promise!Next
  BY <1>3, PromiseAccepts, PromiseDeclines DEF Promise!Next
<1>4. CASE ReadAbort \/ CancelReceiving
  <2>1. UNCHANGED <<offer, answer, sentTold, file>>
    BY <1>4 DEF ReadAbort, CancelReceiving, sending
  <2>2. PICK ts \in SUBSET active : Report(ts, "failed")
    BY <1>4 DEF ReadAbort, CancelReceiving
  <2>3. Promise!Lose(ts) /\ ts \in SUBSET Transfers
    BY <1>t, <2>1, <2>2, PromiseLoses DEF GotType
  <2>. QED
    BY <2>3 DEF Promise!Next
<1>5. ASSUME UNCHANGED <<offer, file, sentTold, gotTold, answer>>
      PROVE  UNCHANGED Promise!vars
  <2>1. \A t \in Transfers : Consent(t)' = Consent(t)
    BY <1>5 DEF Consent
  <2>. QED
    BY <1>5, <2>1, PromiseStutters
<1>6. ASSUME NEW t \in Transfers, Accept(t) \/ CreateFails(t) \/ TellAccept(t)
      PROVE  UNCHANGED Promise!vars
  <2>1. UNCHANGED <<offer, file, sentTold, gotTold>>
    BY <1>6 DEF Accept, CreateFails, TellAccept, sending
  <2>2. Accept(t) => answer[t] = "no"
    BY DEF Accept, IInv, OfferedOnce, OpenUnanswered
  <2>3. \A u \in Transfers : Consent(u)' = Consent(u)
    BY <1>t, <1>6, <2>2 DEF Accept, Respond, CreateFails, TellAccept, Consent, GotType
  <2>. QED
    BY <2>1, <2>3, PromiseStutters
<1>7. ASSUME NEW t \in Transfers,
             \/ Register(t) \/ SendOffer(t) \/ TakeDecision(t) \/ TimeOut(t) \/ OpenFile(t)
             \/ ReadError(t) \/ SendChunk(t) \/ StopSending(t) \/ SendDone(t) \/ Edit(t)
      PROVE  UNCHANGED Promise!vars
  BY <1>5, <1>7 DEF Register, SendOffer, TakeDecision, TimeOut, OpenFile, ReadError,
     SendChunk, StopSending, SendDone, Edit, receiving
<1>8. CASE ReadOffer \/ ReadBye("receiver") \/ RecvFails("receiver") \/ SenderReader
  BY <1>5, <1>8 DEF ReadOffer, ReadBye, RecvFails, SenderReader, ReadAnswer, IgnoreAbort,
     CancelSending, sending, receiving
<1>9. ASSUME NEW s \in Sides, Leave(s) \/ LeaveBye(s)
      PROVE  UNCHANGED Promise!vars
  BY <1>5, <1>9 DEF Leave, LeaveBye, sending, receiving
<1>10. CASE Break \/ UNCHANGED vars
  BY <1>5, <1>10 DEF Break, vars, sending, receiving
<1>. QED
  BY <1>1, <1>2, <1>3, <1>4, <1>6, <1>7, <1>8, <1>9, <1>10, PromiseWrites, PromiseSaves
     DEF Next, System, Operator, SendThread, AnswerThread, ReceiverReader

\* A file transfer keeps what FilePromise.tla promises the two operators: no
\* byte is kept without consent, each side is told one outcome, "saved" is
\* what was offered, and no transfer that was saved is reported as failed,
\* whatever the link, the disk, the clock and the operators do.
THEOREM TransferKeepsPromise == Spec => KeepsPromise
<1>1. Init => Promise!Init
  <2>. SUFFICES ASSUME Init PROVE Promise!Init
    OBVIOUS
  <2>1. \A t \in Transfers : /\ Consent(t) = "none" /\ sentTold[t] = <<>> /\ gotTold[t] = <<>>
    BY DEF Init, Consent
  <2>. QED
    BY <2>1, LastReport DEF Init, Promise!Init
<1>2. IInv /\ Meant /\ [Next]_vars => [Promise!Next]_(Promise!vars)
  BY PromiseStep
<1>. QED
  BY <1>1, <1>2, Invariance, MeantAlways, PTL DEF Spec, KeepsPromise, Promise!Spec

-----------------------------------------------------------------------------
(* Chunks come in order.                                                   *)

\* The chunks of t in q that count on from n end at s.
UpTo(q, t, n, s) ==
    \/ s = n /\ \A i \in DOMAIN q : ~ChunkAt(q, t, i)
    \/ \E k \in DOMAIN q : /\ ChunkAt(q, t, k) /\ s = q[k].seq + 1
                           /\ \A j \in DOMAIN q : j > k => ~ChunkAt(q, t, j)

\* The next chunk of a transfer, put last, counts on.
LEMMA TurnTaken ==
    ASSUME NEW q \in Seq(Messages), NEW t, NEW n, NEW s \in Nat, NEW m \in Messages,
           InTurn(q, t, n), UpTo(q, t, n, s), m.type = "Chunk", m.t = t, m.seq = s
    PROVE  InTurn(Append(q, m), t, n) /\ UpTo(Append(q, m), t, n, s + 1)
<1>. DEFINE l == Len(q)
            r == Append(q, m)
<1>1. /\ l \in Nat /\ DOMAIN q = 1..l /\ DOMAIN r = 1..(l + 1)
      /\ r[l + 1] = m /\ \A i \in 1..l : r[i] = q[i]
  OBVIOUS
<1>. HIDE DEF l, r
<1>2. \A i \in 1..l : ChunkAt(r, t, i) <=> ChunkAt(q, t, i)
  BY <1>1 DEF ChunkAt
<1>3. ChunkAt(r, t, l + 1)
  BY <1>1 DEF ChunkAt
<1>4. UpTo(r, t, n, s + 1)
  BY <1>1, <1>3 DEF UpTo
<1>5. ASSUME NEW i \in 1..l, ChunkAt(r, t, i)
      PROVE  \/ r[i].seq = n /\ \A k \in 1..(i - 1) : ~ChunkAt(r, t, k)
             \/ \E k \in 1..(i - 1) :
                   /\ ChunkAt(r, t, k) /\ r[i].seq = r[k].seq + 1
                   /\ \A j \in (k + 1)..(i - 1) : ~ChunkAt(r, t, j)
  <2>1. \A k \in 1..(i - 1) : k \in 1..l /\ \A j \in (k + 1)..(i - 1) : j \in 1..l
    BY <1>1
  <2>2. ChunkAt(q, t, i) /\ r[i] = q[i]
    BY <1>1, <1>2, <1>5
  <2>3. CASE q[i].seq = n /\ \A k \in 1..(i - 1) : ~ChunkAt(q, t, k)
    BY <1>2, <2>1, <2>2, <2>3
  <2>4. ASSUME NEW k \in 1..(i - 1), ChunkAt(q, t, k), q[i].seq = q[k].seq + 1,
               \A j \in (k + 1)..(i - 1) : ~ChunkAt(q, t, j)
        PROVE  /\ ChunkAt(r, t, k) /\ r[i].seq = r[k].seq + 1
               /\ \A j \in (k + 1)..(i - 1) : ~ChunkAt(r, t, j)
    BY <1>1, <1>2, <2>1, <2>2, <2>4
  <2>. QED
    BY <1>1, <2>2, <2>3, <2>4 DEF InTurn
<1>6. \/ r[l + 1].seq = n /\ \A k \in 1..l : ~ChunkAt(r, t, k)
      \/ \E k \in 1..l : /\ ChunkAt(r, t, k) /\ r[l + 1].seq = r[k].seq + 1
                         /\ \A j \in (k + 1)..l : ~ChunkAt(r, t, j)
  <2>1. CASE s = n /\ \A i \in 1..l : ~ChunkAt(q, t, i)
    BY <1>1, <1>2, <2>1
  <2>2. ASSUME NEW k \in 1..l, ChunkAt(q, t, k), s = q[k].seq + 1,
               \A j \in 1..l : j > k => ~ChunkAt(q, t, j)
        PROVE  /\ ChunkAt(r, t, k) /\ r[l + 1].seq = r[k].seq + 1
               /\ \A j \in (k + 1)..l : ~ChunkAt(r, t, j)
    <3>1. \A j \in (k + 1)..l : j \in 1..l /\ j > k
      BY <1>1
    <3>. QED
      BY <1>1, <1>2, <2>2, <3>1
  <2>. QED
    BY <1>1, <2>1, <2>2 DEF UpTo
<1>7. InTurn(r, t, n)
  <2>1. (l + 1) - 1 = l /\ \A i \in 1..(l + 1) : i \in 1..l \/ i = l + 1
    BY <1>1
  <2>. QED
    BY <1>1, <1>5, <1>6, <2>1 DEF InTurn
<1>. QED
  BY <1>4, <1>7 DEF r

\* Anything else put last changes nothing of that.
LEMMA TurnKept ==
    ASSUME NEW q \in Seq(Messages), NEW t, NEW n, NEW m,
           InTurn(q, t, n), ~(m.type = "Chunk" /\ m.t = t)
    PROVE  /\ InTurn(Append(q, m), t, n)
           /\ \A s : UpTo(q, t, n, s) => UpTo(Append(q, m), t, n, s)
<1>. DEFINE l == Len(q)
            r == Append(q, m)
<1>1. /\ l \in Nat /\ DOMAIN q = 1..l /\ DOMAIN r = 1..(l + 1)
      /\ r[l + 1] = m /\ \A i \in 1..l : r[i] = q[i]
  OBVIOUS
<1>. HIDE DEF l, r
<1>2. \A i \in 1..(l + 1) : ChunkAt(r, t, i) <=> i \in 1..l /\ ChunkAt(q, t, i)
  <2>1. \A i \in 1..(l + 1) : i \in 1..l \/ (i = l + 1 /\ i \notin 1..l)
    BY <1>1
  <2>. QED
    BY <1>1, <2>1 DEF ChunkAt
<1>3. ASSUME NEW i \in 1..(l + 1), ChunkAt(r, t, i)
      PROVE  \/ r[i].seq = n /\ \A k \in 1..(i - 1) : ~ChunkAt(r, t, k)
             \/ \E k \in 1..(i - 1) :
                   /\ ChunkAt(r, t, k) /\ r[i].seq = r[k].seq + 1
                   /\ \A j \in (k + 1)..(i - 1) : ~ChunkAt(r, t, j)
  <2>0. i \in 1..l
    BY <1>2, <1>3
  <2>1. \A k \in 1..(i - 1) : k \in 1..l /\ k \in 1..(l + 1)
                              /\ \A j \in (k + 1)..(i - 1) : j \in 1..l /\ j \in 1..(l + 1)
    BY <1>1, <2>0
  <2>2. ChunkAt(q, t, i) /\ r[i] = q[i]
    BY <1>1, <1>2, <1>3
  <2>3. CASE q[i].seq = n /\ \A k \in 1..(i - 1) : ~ChunkAt(q, t, k)
    BY <1>2, <2>1, <2>2, <2>3
  <2>4. ASSUME NEW k \in 1..(i - 1), ChunkAt(q, t, k), q[i].seq = q[k].seq + 1,
               \A j \in (k + 1)..(i - 1) : ~ChunkAt(q, t, j)
        PROVE  /\ ChunkAt(r, t, k) /\ r[i].seq = r[k].seq + 1
               /\ \A j \in (k + 1)..(i - 1) : ~ChunkAt(r, t, j)
    BY <1>1, <1>2, <2>1, <2>2, <2>4
  <2>. QED
    BY <1>1, <2>0, <2>2, <2>3, <2>4 DEF InTurn
<1>4. InTurn(r, t, n)
  BY <1>1, <1>3 DEF InTurn
<1>5. ASSUME NEW s, UpTo(q, t, n, s)
      PROVE  UpTo(r, t, n, s)
  <2>1. \A i \in 1..l : i \in 1..(l + 1)
    BY <1>1
  <2>. QED
    BY <1>1, <1>2, <1>5, <2>1 DEF UpTo
<1>. QED
  BY <1>4, <1>5 DEF r

\* When the first message is taken off, a chunk of the transfer counts one on.
LEMMA TurnRead ==
    ASSUME NEW q \in Seq(Messages), q # <<>>, NEW t, NEW n \in Nat, InTurn(q, t, n)
    PROVE  /\ ChunkAt(q, t, 1) =>
                 /\ q[1].seq = n
                 /\ InTurn(Tail(q), t, n + 1)
                 /\ \A s : UpTo(q, t, n, s) => UpTo(Tail(q), t, n + 1, s)
           /\ ~ChunkAt(q, t, 1) =>
                 /\ InTurn(Tail(q), t, n)
                 /\ \A s : UpTo(q, t, n, s) => UpTo(Tail(q), t, n, s)
<1>. DEFINE l == Len(q) - 1
            r == Tail(q)
            m == IF ChunkAt(q, t, 1) THEN n + 1 ELSE n
<1>1. /\ l \in Nat /\ DOMAIN q = 1..(l + 1) /\ DOMAIN r = 1..l
      /\ \A i \in 1..l : i + 1 \in 1..(l + 1) /\ r[i] = q[i + 1]
  <2>1. Len(q) \in Nat \ {0} /\ DOMAIN r = 1..(Len(q) - 1)
    OBVIOUS
  <2>. QED
    BY <2>1, TailShift
<1>. HIDE DEF l, r
<1>2. \A i \in 1..l : ChunkAt(r, t, i) <=> ChunkAt(q, t, i + 1)
  BY <1>1 DEF ChunkAt
<1>3. ChunkAt(q, t, 1) => q[1].seq = n
  <2>1. 1 \in DOMAIN q /\ \A k \in 1..(1 - 1) : FALSE
    BY <1>1
  <2>. QED
    BY <2>1 DEF InTurn
<1>4. ASSUME NEW i \in 1..l, ChunkAt(r, t, i)
      PROVE  \/ r[i].seq = m /\ \A k \in 1..(i - 1) : ~ChunkAt(r, t, k)
             \/ \E k \in 1..(i - 1) :
                   /\ ChunkAt(r, t, k) /\ r[i].seq = r[k].seq + 1
                   /\ \A j \in (k + 1)..(i - 1) : ~ChunkAt(r, t, j)
  <2>1. i + 1 \in DOMAIN q /\ ChunkAt(q, t, i + 1) /\ r[i] = q[i + 1] /\ (i + 1) - 1 = i
    BY <1>1, <1>2, <1>4
  <2>2. \A k \in 1..(i - 1) : k \in 1..l /\ k + 1 \in 1..i
    BY <1>1
  <2>3. CASE q[i + 1].seq = n /\ \A k \in 1..i : ~ChunkAt(q, t, k)
    <3>1. ~ChunkAt(q, t, 1)
      BY <2>3
    <3>. QED
      BY <1>2, <2>1, <2>2, <2>3, <3>1
  <2>4. ASSUME NEW k \in 1..i, ChunkAt(q, t, k), q[i + 1].seq = q[k].seq + 1,
               \A j \in (k + 1)..i : ~ChunkAt(q, t, j)
        PROVE  \/ r[i].seq = m /\ \A h \in 1..(i - 1) : ~ChunkAt(r, t, h)
               \/ /\ k - 1 \in 1..(i - 1) /\ ChunkAt(r, t, k - 1)
                  /\ r[i].seq = r[k - 1].seq + 1
                  /\ \A j \in ((k - 1) + 1)..(i - 1) : ~ChunkAt(r, t, j)
    <3>1. CASE k = 1
      <4>1. r[i].seq = m
        BY <1>3, <2>1, <2>4, <3>1
      <4>2. \A h \in 1..(i - 1) : h + 1 \in (k + 1)..i
        BY <3>1
      <4>. QED
        BY <1>2, <2>2, <2>4, <4>1, <4>2
    <3>2. CASE k # 1
      <4>1. k - 1 \in 1..(i - 1) /\ k - 1 \in 1..l /\ (k - 1) + 1 = k
        BY <1>1, <3>2
      <4>2. ChunkAt(r, t, k - 1) /\ r[k - 1] = q[k]
        BY <1>1, <1>2, <2>4, <4>1
      <4>3. \A j \in k..(i - 1) : j \in 1..l /\ j + 1 \in (k + 1)..i
        BY <1>1
      <4>. QED
        BY <1>2, <2>1, <2>4, <4>1, <4>2, <4>3
    <3>. QED
      BY <3>1, <3>2
  <2>. QED
    BY <2>1, <2>3, <2>4 DEF InTurn
<1>5. InTurn(r, t, m)
  BY <1>1, <1>4 DEF InTurn
<1>6. ASSUME NEW s, UpTo(q, t, n, s)
      PROVE  UpTo(r, t, m, s)
  <2>1. CASE s = n /\ \A i \in 1..(l + 1) : ~ChunkAt(q, t, i)
    <3>1. 1 \in 1..(l + 1)
      BY <1>1
    <3>. QED
      BY <1>1, <1>2, <2>1, <3>1 DEF UpTo
  <2>2. ASSUME NEW k \in 1..(l + 1), ChunkAt(q, t, k), s = q[k].seq + 1,
               \A j \in 1..(l + 1) : j > k => ~ChunkAt(q, t, j)
        PROVE  UpTo(r, t, m, s)
    <3>1. CASE k = 1
      <4>1. s = m
        BY <1>3, <2>2, <3>1
      <4>2. \A i \in 1..l : i + 1 > k
        BY <3>1
      <4>. QED
        BY <1>1, <1>2, <2>2, <4>1, <4>2 DEF UpTo
    <3>2. CASE k # 1
      <4>1. k - 1 \in 1..l /\ (k - 1) + 1 = k
        BY <1>1, <3>2
      <4>2. ChunkAt(r, t, k - 1) /\ r[k - 1] = q[k]
        BY <1>1, <1>2, <2>2, <4>1
      <4>3. \A j \in 1..l : j > k - 1 => ~ChunkAt(r, t, j)
        <5>1. \A j \in 1..l : j > k - 1 => j + 1 > k
          BY <1>1
        <5>. QED
          BY <1>1, <1>2, <2>2, <5>1
      <4>. QED
        BY <1>1, <2>2, <4>1, <4>2, <4>3 DEF UpTo
    <3>. QED
      BY <3>1, <3>2
  <2>. QED
    BY <1>1, <1>6, <2>1, <2>2 DEF UpTo
<1>. QED
  BY <1>3, <1>5, <1>6 DEF r

\* What has not been accepted has not begun: nothing of it is on the wire.
NotBegun(t) == out[t].sent = 0 /\ \A m \in In(wire["receiver"]) : ~(m.type = "Chunk" /\ m.t = t)

\* What is being received has come to where the wire goes on, and the wire to
\* where the sender stands, unless the link has been cut.
InOrder(t) ==
    /\ ~Agreed(t) => NotBegun(t)
    /\ t \in active => /\ InTurn(wire["receiver"], t, Len(file[t]))
                       /\ ~Cut => UpTo(wire["receiver"], t, Len(file[t]), out[t].sent)
InOrderAll == \A t \in Transfers : InOrder(t)

\* What a step leaves on the receiver's wire for t: all of it, perhaps with
\* something that is no chunk of t put last, or all but such a message.
Keeps(t, q, r) ==
    \/ r = q
    \/ \E m \in Messages : r = Append(q, m) /\ ~(m.type = "Chunk" /\ m.t = t)
    \/ q # <<>> /\ r = Tail(q) /\ ~ChunkAt(q, t, 1)

\* A step that sends, reads and writes no chunk of t leaves t in order.
LEMMA InOrderKept ==
    ASSUME TypeOK, NEW t \in Transfers, InOrder(t),
           Agreed(t) => Agreed(t)', Cut => Cut',
           out'[t].sent = out[t].sent,
           t \in active' => t \in active /\ file'[t] = file[t],
           Keeps(t, wire["receiver"], wire'["receiver"])
    PROVE  InOrder(t)'
<1>. DEFINE q == wire["receiver"]
            r == wire'["receiver"]
<1>t. q \in Seq(Messages) /\ (t \in active => Len(file[t]) \in Nat)
  BY TypeParts DEF WireType, Sides, GotType
<1>. HIDE DEF q, r
<1>1. \A m \in In(r) : m \in In(q) \/ ~(m.type = "Chunk" /\ m.t = t)
  <2>1. ASSUME NEW n \in Messages, ~(n.type = "Chunk" /\ n.t = t)
        PROVE  \A m \in In(Append(q, n)) : m \in In(q) \/ ~(m.type = "Chunk" /\ m.t = t)
    <3>1. In(Append(q, n)) \subseteq In(q) \cup {n}
      BY <1>t, InAppend
    <3>. QED
      BY <2>1, <3>1
  <2>2. q # <<>> => In(Tail(q)) \subseteq In(q)
    BY <1>t, InTail
  <2>. QED
    BY <2>1, <2>2 DEF Keeps, q, r
<1>2. ASSUME NotBegun(t)
      PROVE  NotBegun(t)'
  BY <1>1, <1>2 DEF NotBegun, q, r
<1>3. ASSUME NEW n \in Nat, InTurn(q, t, n)
      PROVE  /\ InTurn(r, t, n)
             /\ \A s : UpTo(q, t, n, s) => UpTo(r, t, n, s)
  <2>1. CASE r = q
    BY <1>3, <2>1
  <2>2. ASSUME NEW m \in Messages, r = Append(q, m), ~(m.type = "Chunk" /\ m.t = t)
        PROVE  /\ InTurn(Append(q, m), t, n)
               /\ \A s : UpTo(q, t, n, s) => UpTo(Append(q, m), t, n, s)
    BY <1>t, <1>3, <2>2, TurnKept
  <2>3. CASE q # <<>> /\ r = Tail(q) /\ ~ChunkAt(q, t, 1)
    BY <1>t, <1>3, <2>3, TurnRead
  <2>. QED
    BY <2>1, <2>2, <2>3 DEF Keeps, q, r
<1>4. ASSUME t \in active'
      PROVE  /\ InTurn(wire'["receiver"], t, Len(file'[t]))
             /\ ~Cut' => UpTo(wire'["receiver"], t, Len(file'[t]), out'[t].sent)
  <2>1. t \in active /\ file'[t] = file[t] /\ InTurn(q, t, Len(file[t]))
    BY <1>4 DEF InOrder, q
  <2>2. /\ InTurn(r, t, Len(file[t]))
        /\ \A s : UpTo(q, t, Len(file[t]), s) => UpTo(r, t, Len(file[t]), s)
    BY <1>t, <1>3, <2>1
  <2>. QED
    BY <2>1, <2>2 DEF InOrder, q, r
<1>. QED
  BY <1>2, <1>4 DEF InOrder

\* Sending a chunk keeps its transfer in order ...
LEMMA InOrderSent ==
    ASSUME TypeOK, TypeOK', Meant, NEW t \in Transfers, InOrder(t), SendChunk(t)
    PROVE  InOrder(t)'
<1>. USE DEF sending, receiving
<1>. DEFINE q == wire["receiver"]
            s == out[t].sent
            m == Chunk(t, s, disk[t][s + 1])
<1>t. /\ OutType /\ q \in Seq(Messages) /\ s \in Nat
      /\ wire \in [Sides -> Seq(Messages)] /\ wire' \in [Sides -> Seq(Messages)]
      /\ "receiver" \in Sides /\ "sender" \in Sides /\ Other("sender") = "receiver"
  BY TypeParts, TypePartsPrimed DEF WireType, OutType, Sides, Other
<1>1. Agreed(t) /\ UNCHANGED <<answer, active, file, shut>>
  BY DEF SendChunk, Meant, AcceptIsMeant
<1>2. CASE Cut
  BY <1>1, <1>2 DEF SendChunk, Put, InOrder, Agreed, Cut
<1>3. CASE ~Cut
  <2>1. wire' = Put(wire, "sender", m) /\ out' = [out EXCEPT ![t].sent = s + 1]
    BY <1>3 DEF SendChunk
  <2>2. wire'["receiver"] = Append(q, m) /\ out'[t].sent = s + 1
    BY <1>t, <1>3, <2>1 DEF Put, OutType
  <2>3. m \in Messages /\ m.type = "Chunk" /\ m.t = t /\ m.seq = s
    <3>1. m.type = "Chunk" /\ m.t = t /\ m.seq = s
      BY DEF Chunk
    <3>2. wire'["receiver"] \in Seq(Messages)
      BY <1>t
    <3>. HIDE DEF m, q
    <3>3. Append(q, m)[Len(q) + 1] = m /\ Len(q) + 1 \in DOMAIN Append(q, m)
      BY <1>t
    <3>4. m \in Messages
      BY <2>2, <3>2, <3>3
    <3>. QED
      BY <3>1, <3>4
  <2>. HIDE DEF m, q, s
  <2>4. ASSUME t \in active
        PROVE  /\ InTurn(Append(q, m), t, Len(file[t]))
               /\ UpTo(Append(q, m), t, Len(file[t]), s + 1)
    <3>1. InTurn(q, t, Len(file[t])) /\ UpTo(q, t, Len(file[t]), s)
      BY <1>3, <2>4 DEF InOrder, q, s
    <3>. QED
      BY <1>t, <2>3, <3>1, TurnTaken
  <2>. QED
    BY <1>1, <2>2, <2>4 DEF InOrder, Agreed
<1>. QED
  BY <1>2, <1>3

\* ... so does reading one, of this transfer or of another ...
LEMMA InOrderRead ==
    ASSUME TypeOK, NEW t \in Transfers, InOrder(t), ReadChunk,
           Agreed(t) => Agreed(t)', ReceivedOnce
    PROVE  InOrder(t)'
<1>. USE DEF sending
<1>. DEFINE q == wire["receiver"]
            m == Head(q)
<1>t. /\ q \in Seq(Messages) /\ q # <<>> /\ m = q[1] /\ m.type = "Chunk"
      /\ GotType /\ wire \in [Sides -> Seq(Messages)]
      /\ "receiver" \in Sides /\ "sender" \in Sides /\ Other("receiver") = "sender"
  <2>1. wire \in [Sides -> Seq(Messages)] /\ GotType
    BY TypeParts DEF WireType
  <2>2. "receiver" \in Sides /\ "sender" \in Sides /\ Other("receiver") = "sender"
    BY DEF Sides, Other
  <2>3. q # <<>> /\ m.type = "Chunk"
    BY DEF ReadChunk, Reads
  <2>4. q \in Seq(Messages)
    BY <2>1, <2>2
  <2>. HIDE DEF q
  <2>5. Head(q) = q[1]
    BY <2>3, <2>4
  <2>. QED
    BY <2>1, <2>2, <2>3, <2>4, <2>5
<1>1. wire'["receiver"] = Tail(q)
  BY <1>t DEF ReadChunk, Put, Taken
<1>2. UNCHANGED <<out, answer, shut>>
  BY DEF ReadChunk
<1>3. CASE m.t # t
  <2>1. Keeps(t, q, Tail(q))
    BY <1>t, <1>3 DEF Keeps, ChunkAt
  <2>2. t \in active' => t \in active /\ file'[t] = file[t]
    BY <1>t, <1>3 DEF ReadChunk, GotType
  <2>. QED
    BY <1>1, <1>2, <2>1, <2>2, InOrderKept DEF Cut
<1>4. CASE m.t = t /\ t \in active'
  <2>1. t \in active /\ file' = [file EXCEPT ![t] = Append(@, m.block)]
    BY <1>t, <1>4 DEF ReadChunk
  <2>2. Len(file[t]) \in Nat /\ Len(file'[t]) = Len(file[t]) + 1
    BY <1>t, <2>1 DEF GotType
  <2>3. Agreed(t)
    BY <2>1 DEF ReceivedOnce, Agreed
  <2>4. ChunkAt(q, t, 1)
    BY <1>t, <1>4 DEF ChunkAt
  <2>5. InTurn(q, t, Len(file[t])) /\ (~Cut => UpTo(q, t, Len(file[t]), out[t].sent))
    BY <2>1 DEF InOrder
  <2>. HIDE DEF q, m
  <2>6. /\ InTurn(Tail(q), t, Len(file[t]) + 1)
        /\ ~Cut => UpTo(Tail(q), t, Len(file[t]) + 1, out[t].sent)
    BY <1>t, <2>2, <2>4, <2>5, TurnRead
  <2>. QED
    BY <1>1, <1>2, <2>2, <2>3, <2>6 DEF InOrder, Agreed, Cut
<1>5. CASE m.t = t /\ t \notin active'
  <2>1. Agreed(t)
    <3>1. m \in In(q)
      BY <1>t, InTail
    <3>. QED
      BY <1>t, <1>5, <3>1 DEF InOrder, NotBegun
  <2>. QED
    BY <1>2, <1>5, <2>1 DEF InOrder, Agreed
<1>. QED
  BY <1>3, <1>4, <1>5

\* ... and a transfer is entered before any of it has been sent.
LEMMA InOrderEntered ==
    ASSUME TypeOK, NEW t \in Transfers, InOrder(t), EnterActive(t)
    PROVE  InOrder(t)'
<1>. USE DEF sending, chan
<1>t. OutType /\ GotType
  BY TypeParts
<1>1. NotBegun(t)
  BY DEF InOrder, EnterActive, Agreed
<1>2. /\ UNCHANGED <<wire, out>> /\ answer'[t] = "tell" /\ file'[t] = <<>>
      /\ Len(<<>>) = 0
  BY <1>t DEF EnterActive, GotType
<1>3. out[t].sent = 0 /\ \A i \in DOMAIN wire["receiver"] : ~ChunkAt(wire["receiver"], t, i)
  BY <1>1 DEF NotBegun, In, ChunkAt
<1>4. /\ InTurn(wire["receiver"], t, 0)
      /\ UpTo(wire["receiver"], t, 0, 0)
  BY <1>3 DEF InTurn, UpTo
<1>. QED
  BY <1>2, <1>3, <1>4 DEF InOrder, Agreed

\* Every step keeps every transfer in order.
LEMMA InOrderStep ==
    ASSUME IInv, Meant, InOrderAll, [Next]_vars
    PROVE  InOrderAll'
<1>. USE DEF link, chan, sending, receiving
<1>. SUFFICES ASSUME NEW t \in Transfers PROVE InOrder(t)'
  BY DEF InOrderAll
<1>. DEFINE q == wire["receiver"]
            r == wire'["receiver"]
<1>t. /\ TypeOK /\ TypeOK' /\ OfferedOnce /\ ReceivedOnce /\ InOrder(t)
      /\ OutType /\ GotType /\ GotType' /\ q \in Seq(Messages) /\ r \in Seq(Messages)
      /\ wire \in [Sides -> Seq(Messages)]
      /\ "receiver" \in Sides /\ "sender" \in Sides
      /\ Other("sender") = "receiver" /\ Other("receiver") = "sender"
  BY TypeStep, TypeParts, TypePartsPrimed
     DEF IInv, Received, InOrderAll, WireType, Sides, Other
<1>a. Agreed(t) => Agreed(t)'
  BY <1>t, MeaningStays
<1>k. ASSUME Cut => Cut', out'[t].sent = out[t].sent,
             t \in active' => t \in active /\ file'[t] = file[t], Keeps(t, q, r)
      PROVE  InOrder(t)'
  BY <1>t, <1>a, <1>k, InOrderKept
<1>s. r = q => Keeps(t, q, r)
  BY DEF Keeps
<1>1. ASSUME NEW u \in Transfers, NEW type \in {"FileOffer", "FileAbort", "FileDone"},
             wire' = Put(wire, "sender", Plain(type, u))
      PROVE  Keeps(t, q, r)
  <2>1. q = r \/ r = Append(q, Plain(type, u))
    BY <1>t, <1>1 DEF Put
  <2>2. Plain(type, u) \in Messages /\ Plain(type, u).type # "Chunk"
    BY PlainType DEF Plain
  <2>. QED
    BY <1>s, <2>1, <2>2 DEF Keeps
<1>2. ASSUME NEW msg, wire' = Put(wire, "receiver", msg)
      PROVE  r = q
  BY <1>t, <1>2 DEF Put
<1>3. ASSUME NEW type, Reads("receiver", type), type # "Chunk", wire' = Taken("receiver")
      PROVE  Keeps(t, q, r)
  <2>1. q # <<>> /\ r = Tail(q) /\ Head(q) = q[1] /\ q[1].type # "Chunk"
    BY <1>t, <1>3 DEF Reads, Taken
  <2>. QED
    BY <2>1 DEF Keeps, ChunkAt
<1>4. ASSUME NEW u \in Transfers, SendChunk(u), u # t
      PROVE  InOrder(t)'
  <2>. DEFINE m == Chunk(u, out[u].sent, disk[u][out[u].sent + 1])
  <2>1. /\ UNCHANGED <<active, file, shut>> /\ out'[t].sent = out[t].sent
        /\ UNCHANGED wire \/ wire' = Put(wire, "sender", m)
    BY <1>t, <1>4 DEF SendChunk, Ending, OutType
  <2>2. Keeps(t, q, r)
    <3>1. m.t = u
      BY DEF Chunk
    <3>. HIDE DEF m
    <3>2. r = q \/ r = Append(q, m)
      BY <1>t, <2>1 DEF Put
    <3>3. r = Append(q, m) => m \in Messages
      <4>. SUFFICES ASSUME r = Append(q, m) PROVE m \in Messages
        OBVIOUS
      <4>. HIDE DEF q
      <4>1. r[Len(q) + 1] = m /\ Len(q) + 1 \in DOMAIN r
        BY <1>t
      <4>. HIDE DEF r
      <4>. QED
        BY <1>t, <4>1
    <3>. QED
      BY <1>4, <1>s, <3>1, <3>2, <3>3 DEF Keeps
  <2>. QED
    BY <1>k, <2>1, <2>2 DEF Cut
<1>5. ASSUME NEW u \in Transfers, SendThread(u) \/ SendFile(u) \/ Edit(u), ~SendChunk(u)
      PROVE  InOrder(t)'
  <2>1. UNCHANGED <<active, file, shut>>
    BY <1>5 DEF SendThread, Register, SendOffer, TakeDecision, TimeOut, OpenFile,
       ReadError, StopSending, SendDone, FinishOut, SendFile, Edit
  <2>2. out'[t].sent = out[t].sent
    <3>1. \/ UNCHANGED out \/ \E pc : OutPc(u, pc) \/ \E how : Ending(u, how)
      BY <1>5 DEF SendThread, Register, SendOffer, TakeDecision, TimeOut, OpenFile,
         ReadError, StopSending, SendDone, FinishOut, SendFile, Edit
    <3>2. ASSUME NEW pc, OutPc(u, pc)
          PROVE  out'[t].sent = out[t].sent
      BY <1>t, <3>2 DEF OutPc, OutType
    <3>3. ASSUME NEW how, Ending(u, how)
          PROVE  out'[t].sent = out[t].sent
      BY <1>t, <3>3 DEF Ending, OutType
    <3>. QED
      BY <3>1, <3>2, <3>3
  <2>3. \/ UNCHANGED wire
        \/ \E type \in {"FileOffer", "FileAbort", "FileDone"} :
              wire' = Put(wire, "sender", Plain(type, u))
    BY <1>5 DEF SendThread, Register, SendOffer, TakeDecision, TimeOut, OpenFile,
       ReadError, StopSending, SendDone, FinishOut, SendFile, Edit
  <2>. QED
    BY <1>k, <1>s, <1>1, <2>1, <2>2, <2>3 DEF Cut
<1>6. ASSUME NEW u \in Transfers, CreateFails(u) \/ TellAccept(u) \/ Accept(u) \/ Decline(u)
      PROVE  InOrder(t)'
  <2>1. UNCHANGED <<out, active, file, shut>>
    BY <1>6 DEF CreateFails, TellAccept, Accept, Decline
  <2>2. r = q
    BY <1>2, <1>6 DEF CreateFails, TellAccept, Accept, Decline
  <2>. QED
    BY <1>k, <1>s, <2>1, <2>2 DEF Cut
<1>7. ASSUME NEW u \in Transfers, EnterActive(u), u # t
      PROVE  InOrder(t)'
  <2>1. /\ UNCHANGED <<out, shut, wire>>
        /\ t \in active' => t \in active /\ file'[t] = file[t]
    BY <1>t, <1>7 DEF EnterActive, GotType
  <2>. QED
    BY <1>k, <1>s, <2>1 DEF Cut
<1>8. CASE ReadOffer \/ ReadDone \/ ReadAbort \/ ReadBye("receiver")
  <2>1. UNCHANGED <<out, file>> /\ active' \subseteq active /\ (Cut => Cut')
    BY <1>8 DEF ReadOffer, ReadDone, ReadAbort, ReadBye, PeerGone, Cut
  <2>2. Keeps(t, q, r)
    BY <1>3, <1>8 DEF ReadOffer, ReadDone, ReadAbort, ReadBye
  <2>. QED
    BY <1>k, <2>1, <2>2
<1>9. CASE RecvFails("receiver") \/ CancelReceiving \/ SenderReader
  <2>1. UNCHANGED <<out, file>> /\ active' \subseteq active /\ (Cut => Cut')
    BY <1>9 DEF RecvFails, CancelReceiving, SenderReader, ReadAnswer, IgnoreAbort,
       ReadBye, CancelSending, PeerGone, Cut
  <2>2. r = q
    BY <1>9, <1>t DEF RecvFails, CancelReceiving, SenderReader, ReadAnswer, IgnoreAbort,
       ReadBye, CancelSending, Taken
  <2>. QED
    BY <1>k, <1>s, <2>1, <2>2
<1>10. ASSUME NEW s \in Sides, Leave(s) \/ LeaveBye(s)
       PROVE  InOrder(t)'
  <2>1. UNCHANGED <<out, file, active>> /\ (Cut => Cut')
    BY <1>10 DEF Leave, LeaveBye, Cut
  <2>2. r = q \/ r = Append(q, Bye)
    BY <1>10, <1>t DEF Leave, LeaveBye, Put, Sides, Other
  <2>3. Bye \in Messages /\ Bye.type # "Chunk"
    BY DEF Messages, Bye
  <2>4. Keeps(t, q, r)
    BY <2>2, <2>3 DEF Keeps
  <2>. QED
    BY <1>k, <2>1, <2>4
<1>11. CASE Break \/ UNCHANGED vars
  <2>1. UNCHANGED <<out, file, active, wire>> /\ (Cut => Cut')
    BY <1>11 DEF Break, vars, Cut, Sides
  <2>. QED
    BY <1>k, <1>s, <2>1
<1>12. SendChunk(t) => InOrder(t)'
  BY <1>t, InOrderSent
<1>13. ReadChunk => InOrder(t)'
  BY <1>t, <1>a, InOrderRead
<1>14. EnterActive(t) => InOrder(t)'
  BY <1>t, InOrderEntered
<1>. HIDE DEF link, chan, sending, receiving
<1>15. ASSUME NEW u \in Transfers, SendThread(u) \/ AnswerThread(u)
       PROVE  InOrder(t)'
  BY <1>15, <1>4, <1>5, <1>6, <1>7, <1>12, <1>14 DEF AnswerThread
<1>16. CASE ReceiverReader \/ SenderReader
  BY <1>8, <1>9, <1>13, <1>16 DEF ReceiverReader
<1>17. ASSUME NEW u \in Transfers, SendFile(u) \/ Edit(u)
       PROVE  InOrder(t)'
  <2>1. CASE ~SendChunk(u)
    BY <1>5, <1>17, <2>1
  <2>2. CASE SendChunk(u)
    BY <1>4, <1>12, <2>2
  <2>. QED
    BY <2>1, <2>2
<1>18. CASE System
  BY <1>10, <1>15, <1>16, <1>18 DEF System
<1>19. CASE Operator
  BY <1>6, <1>10, <1>11, <1>17, <1>19 DEF Operator
<1>. QED
  BY <1>11, <1>18, <1>19 DEF Next

\* No chunk finds its transfer ahead of it or behind it: respond_offer enters
\* the transfer before it sends the accept, and the link keeps its order.
THEOREM ChunksStayInOrder == Spec => []ChunksComeInOrder
<1>1. Init => InOrderAll
  <2>. SUFFICES ASSUME Init, NEW t \in Transfers PROVE InOrder(t)
    BY DEF InOrderAll
  <2>1. In(wire["receiver"]) = {} /\ out[t].sent = 0 /\ active = {}
    BY DEF Init, In, Sides
  <2>. QED
    BY <2>1 DEF InOrder, NotBegun
<1>2. IInv /\ Meant /\ InOrderAll /\ [Next]_vars => InOrderAll'
  BY InOrderStep
<1>3. InOrderAll /\ TypeOK => ChunksComeInOrder
  BY TypeParts DEF InOrderAll, InOrder, ChunksComeInOrder, GotType
<1>4. IInv => TypeOK
  BY DEF IInv
<1>. QED
  BY <1>1, <1>2, <1>3, <1>4, Invariance, MeantAlways, PTL DEF Spec

-----------------------------------------------------------------------------
(* Every accepted transfer is reported.                                    *)

Ended(t) == out[t].pc \in {"finish", "done"} /\ out[t].how # "timedout"
Closes(m, t) == m.type \in {"FileDone", "FileAbort"} /\ m.t = t

\* The answer a sender has yet to read, or has read, is the one that was
\* given, unless the link was lost.
AnswerIsHeard ==
    /\ \A m \in In(wire["sender"]) :
          /\ m.type = "FileAccept" => answer[m.t] = "done"
          /\ m.type = "FileDecline" => answer[m.t] = "declined"
    /\ \A t \in Transfers :
          /\ "accept" \in In(decided[t]) => answer[t] = "done"
          /\ "decline" \in In(decided[t]) => answer[t] = "declined" \/ Cut
          /\ out[t].pc \in {"open", "send"} => answer[t] = "done"

\* While the link is up, the end of an accepted transfer that is still being
\* written is on its way to the receiver.
EndIsHeard ==
    \A t \in Transfers : Ended(t) =>
        \/ Cut
        \/ answer[t] = "declined"
        \/ /\ answer[t] = "done"
           /\ t \in active => \E m \in In(wire["receiver"]) : Closes(m, t)

\* What was accepted and not reported is among those being written.
UnreportedIsOpen ==
    \A t \in Transfers :
        answer[t] \in {"tell", "done"} /\ gotTold[t] = <<>> => t \in active

\* A receiver that has lost its peer closes its end first, and then gives up
\* what it was writing.
CancelComes ==
    /\ \A s \in Sides : reader[s] \in {"cancelBye", "cancelErr"} =>
          s \in shut /\ ~known[s]
    /\ reader["receiver"] = "done" => ~known["receiver"]
    /\ life["receiver"] = "live" /\ ~known["receiver"] =>
          /\ "receiver" \in shut
          /\ reader["receiver"] \in {"run", "done"} =>
                \A t \in active : answer[t] # "done"

Heard == AnswerIsHeard /\ EndIsHeard /\ UnreportedIsOpen /\ CancelComes

\* Appending loses nothing, and taking the first loses only the first.
LEMMA InKept ==
    ASSUME NEW S, NEW q \in Seq(S)
    PROVE  /\ \A e : In(q) \subseteq In(Append(q, e)) /\ e \in In(Append(q, e))
           /\ q # <<>> => In(q) \subseteq In(Tail(q)) \cup {Head(q)}
<1>1. ASSUME NEW e PROVE In(q) \subseteq In(Append(q, e)) /\ e \in In(Append(q, e))
  <2>1. /\ \A i \in DOMAIN q : i \in DOMAIN Append(q, e) /\ Append(q, e)[i] = q[i]
        /\ Len(q) + 1 \in DOMAIN Append(q, e) /\ Append(q, e)[Len(q) + 1] = e
    OBVIOUS
  <2>. QED
    BY <2>1 DEF In
<1>2. ASSUME q # <<>>, NEW i \in DOMAIN q PROVE q[i] \in In(Tail(q)) \cup {Head(q)}
  <2>1. CASE i = 1
    BY <1>2, <2>1
  <2>2. CASE i # 1
    <3>1. i - 1 \in DOMAIN Tail(q) /\ Tail(q)[i - 1] = q[i]
      BY <1>2, <2>2
    <3>. QED
      BY <3>1 DEF In
  <2>. QED
    BY <2>1, <2>2
<1>. QED
  BY <1>1, <1>2 DEF In

\* A wire keeps what it had when something is said.
LEMMA PutKeeps ==
    ASSUME NEW w \in [Sides -> Seq(Messages)], NEW s \in Sides, NEW msg, NEW r \in Sides
    PROVE  /\ In(w[r]) \subseteq In(Put(w, s, msg)[r])
           /\ ~Cut => msg \in In(Put(w, s, msg)[Other(s)])
<1>1. Other(s) \in Sides
  BY DEF Other, Sides
<1>2. \/ Put(w, s, msg) = w /\ Cut
      \/ /\ Put(w, s, msg)[Other(s)] = Append(w[Other(s)], msg)
         /\ r # Other(s) => Put(w, s, msg)[r] = w[r]
  BY <1>1 DEF Put
<1>3. /\ In(w[Other(s)]) \subseteq In(Append(w[Other(s)], msg))
      /\ msg \in In(Append(w[Other(s)], msg))
  BY <1>1, InKept
<1>. QED
  BY <1>2, <1>3

\* An answer that was sent stands, and a closed link stays closed.
LEMMA AnswerStands ==
    ASSUME TypeOK, OfferedOnce, [Next]_vars, NEW t \in Transfers
    PROVE  /\ answer[t] \in {"done", "declined"} => answer'[t] = answer[t]
           /\ shut \subseteq shut'
<1>. USE DEF sending, receiving, link, chan
<1>t. GotType /\ WireType
  BY TypeParts
<1>1. ASSUME NEW u \in Transfers, SendThread(u) \/ SendFile(u) \/ Edit(u)
      PROVE  UNCHANGED <<answer, shut>>
  BY <1>1 DEF SendThread, Register, SendOffer, TakeDecision, TimeOut, OpenFile,
     ReadError, SendChunk, StopSending, SendDone, FinishOut, SendFile, Edit
<1>2. ASSUME NEW u \in Transfers, AnswerThread(u) \/ Accept(u) \/ Decline(u)
      PROVE  UNCHANGED shut /\ (answer[t] \in {"done", "declined"} => answer'[t] = answer[t])
  <2>1. UNCHANGED shut
    BY <1>2 DEF AnswerThread, EnterActive, CreateFails, TellAccept, Accept, Decline
  <2>2. answer[u] \in {"no", "create", "tell"}
    BY <1>2 DEF AnswerThread, EnterActive, CreateFails, TellAccept, Accept, Decline,
       OfferedOnce, OpenUnanswered
  <2>3. u # t => answer'[t] = answer[t]
    BY <1>2, <1>t DEF AnswerThread, EnterActive, CreateFails, TellAccept, Accept,
       Decline, Respond, GotType
  <2>. QED
    BY <2>1, <2>2, <2>3
<1>3. CASE ReceiverReader \/ SenderReader
  <2>1. UNCHANGED answer
    BY <1>3 DEF ReceiverReader, SenderReader, ReadOffer, ReadChunk, ReadDone,
       ReadAbort, ReadBye, RecvFails, CancelReceiving, ReadAnswer, IgnoreAbort,
       CancelSending
  <2>2. shut \subseteq shut'
    BY <1>3 DEF ReceiverReader, SenderReader, ReadOffer, ReadChunk, ReadDone,
       ReadAbort, ReadBye, RecvFails, CancelReceiving, ReadAnswer, IgnoreAbort,
       CancelSending, PeerGone
  <2>. QED
    BY <2>1, <2>2
<1>4. ASSUME NEW s \in Sides, Leave(s) \/ LeaveBye(s)
      PROVE  UNCHANGED answer /\ shut \subseteq shut'
  BY <1>4 DEF Leave, LeaveBye
<1>5. CASE Break \/ UNCHANGED vars
  BY <1>5, <1>t DEF Break, vars, WireType
<1>. QED
  BY <1>1, <1>2, <1>3, <1>4, <1>5 DEF Next, System, Operator

\* What a step adds to the sender's wire is the answer that was given.
LEMMA HeardOnWire ==
    ASSUME TypeOK, [Next]_vars, NEW m \in In(wire'["sender"]),
           m.type \in {"FileAccept", "FileDecline"}
    PROVE  \/ m \in In(wire["sender"])
           \/ answer'[m.t] = IF m.type = "FileAccept" THEN "done" ELSE "declined"
<1>. USE DEF link, chan
<1>t. WireType /\ OutType /\ GotType
  BY TypeParts
<1>w. /\ wire \in [Sides -> Seq(Messages)] /\ "sender" \in Sides /\ "receiver" \in Sides
      /\ Other("sender") = "receiver" /\ Other("receiver") = "sender"
  BY <1>t DEF WireType, Sides, Other
<1>1. CASE UNCHANGED wire
  BY <1>1
<1>2. ASSUME NEW msg, wire' = Put(wire, "sender", msg)
      PROVE  m \in In(wire["sender"])
  BY <1>w, <1>2, InPut
<1>3. ASSUME NEW msg, wire' = Put(wire, "receiver", msg)
      PROVE  m \in In(wire["sender"]) \/ m = msg
  <2>1. In(Put(wire, "receiver", msg)["sender"]) \subseteq In(wire["sender"]) \cup {msg}
    BY <1>w, InPut
  <2>. QED
    BY <1>3, <2>1
<1>4. ASSUME NEW s \in Sides, NEW type, Reads(s, type), wire' = Taken(s)
      PROVE  m \in In(wire["sender"])
  BY <1>t, <1>w, <1>4, InTaken DEF Sides
<1>5. ASSUME NEW t \in Transfers, SendThread(t) \/ SendFile(t) \/ Edit(t)
      PROVE  m \in In(wire["sender"])
  BY <1>1, <1>2, <1>5 DEF SendThread, Register, SendOffer, TakeDecision, TimeOut,
     OpenFile, ReadError, SendChunk, StopSending, SendDone, FinishOut, SendFile, Edit
<1>6. ASSUME NEW t \in Transfers, AnswerThread(t) \/ Accept(t) \/ Decline(t)
      PROVE  \/ m \in In(wire["sender"])
             \/ answer'[m.t] = IF m.type = "FileAccept" THEN "done" ELSE "declined"
  <2>1. CASE TellAccept(t)
    <3>1. \/ UNCHANGED wire
          \/ /\ wire' = Put(wire, "receiver", Plain("FileAccept", t))
             /\ answer'[t] = "done"
      BY <1>t, <2>1 DEF TellAccept, GotType
    <3>2. CASE wire' = Put(wire, "receiver", Plain("FileAccept", t)) /\ answer'[t] = "done"
      <4>1. m \in In(wire["sender"]) \/ m = Plain("FileAccept", t)
        BY <1>3, <3>2
      <4>. QED
        BY <3>2, <4>1 DEF Plain
    <3>. QED
      BY <1>1, <3>1, <3>2
  <2>2. CASE EnterActive(t) \/ CreateFails(t) \/ Accept(t)
    BY <1>1, <2>2 DEF EnterActive, CreateFails, Accept
  <2>3. CASE Decline(t)
    <3>1. answer'[t] = "declined"
      BY <1>t, <2>3 DEF Decline, Respond, GotType
    <3>2. UNCHANGED wire \/ wire' = Put(wire, "receiver", Plain("FileDecline", t))
      BY <2>3 DEF Decline
    <3>3. m \in In(wire["sender"]) \/ m = Plain("FileDecline", t)
      BY <1>1, <1>3, <3>2
    <3>. QED
      BY <3>1, <3>3 DEF Plain
  <2>. QED
    BY <1>6, <2>1, <2>2, <2>3 DEF AnswerThread
<1>7. CASE ReceiverReader
  <2>1. ASSUME NEW t, Reads("receiver", "Chunk"),
               wire' = Put(Taken("receiver"), "receiver", Plain("FileAbort", t))
        PROVE  m \in In(wire["sender"])
    <3>. DEFINE w == Taken("receiver")
                msg == Plain("FileAbort", t)
    <3>1. w \in [Sides -> Seq(Messages)]
      BY <1>w, <2>1, ArrivedType
    <3>2. m \in In(w["sender"]) \/ m = msg
      <4>1. wire' = Put(w, "receiver", msg)
        BY <2>1
      <4>. HIDE DEF w, msg
      <4>2. In(Put(w, "receiver", msg)["sender"]) \subseteq In(w["sender"]) \cup {msg}
        BY <1>w, <3>1, InPut
      <4>. QED
        BY <4>1, <4>2
    <3>3. m # msg
      BY DEF Plain
    <3>. QED
      BY <1>t, <1>w, <2>1, <3>2, <3>3, InTaken
  <2>2. ASSUME ReadChunk PROVE m \in In(wire["sender"])
    <3>1. /\ Reads("receiver", "Chunk")
          /\ \/ wire' = Taken("receiver")
             \/ \E t : wire' = Put(Taken("receiver"), "receiver", Plain("FileAbort", t))
      BY <2>2 DEF ReadChunk
    <3>. QED
      BY <1>4, <1>w, <2>1, <3>1
  <2>. QED
    BY <1>1, <1>4, <1>7, <1>w, <2>2 DEF ReceiverReader, ReadOffer, ReadDone, ReadAbort,
       ReadBye, RecvFails, CancelReceiving
<1>8. CASE SenderReader
  BY <1>1, <1>4, <1>8, <1>w DEF SenderReader, ReadAnswer, IgnoreAbort, ReadBye, RecvFails,
     CancelSending
<1>9. ASSUME NEW s \in Sides, Leave(s) \/ LeaveBye(s)
      PROVE  m \in In(wire["sender"])
  BY <1>1, <1>2, <1>3, <1>9 DEF Leave, LeaveBye, Sides, Bye
<1>10. CASE Break \/ UNCHANGED vars
  BY <1>1, <1>10 DEF Break, vars
<1>. QED
  BY <1>5, <1>6, <1>7, <1>8, <1>9, <1>10 DEF Next, System, Operator

\* A thread is given an answer that came off the wire, or a decline once the
\* sender has closed its end.
LEMMA HeardByThread ==
    ASSUME TypeOK, CancelComes, [Next]_vars, NEW t \in Transfers, NEW d \in In(decided'[t])
    PROVE  \/ d \in In(decided[t])
           \/ \E m \in In(wire["sender"]) :
                 m.t = t /\ \/ m.type = "FileAccept" /\ d = "accept"
                            \/ m.type = "FileDecline" /\ d = "decline"
           \/ d = "decline" /\ Cut
<1>. USE DEF sending
<1>t. WireType /\ WaitType /\ "sender" \in Sides
  BY TypeParts DEF Sides
<1>q. decided[t] \in Seq({"accept", "decline"})
  BY <1>t DEF WaitType
<1>1. CASE decided'[t] = decided[t]
  BY <1>1
<1>2. ASSUME NEW u \in Transfers, TakeDecision(u)
      PROVE  d \in In(decided[t])
  <2>1. CASE u = t
    <3>1. decided[t] # <<>> /\ decided'[t] = Tail(decided[t])
      BY <1>t, <1>2, <2>1 DEF TakeDecision, WaitType
    <3>. QED
      BY <1>q, <3>1, InTail
  <2>2. CASE u # t
    BY <1>t, <1>2, <2>2 DEF TakeDecision, WaitType
  <2>. QED
    BY <2>1, <2>2
<1>3. ASSUME NEW e, decided'[t] = Append(decided[t], e)
      PROVE  d \in In(decided[t]) \/ d = e
  BY <1>q, <1>3, InAppend
<1>4. ASSUME NEW type, NEW e, ReadAnswer(type, e)
      PROVE  \/ d \in In(decided[t])
             \/ d = e /\ \E m \in In(wire["sender"]) : m.type = type /\ m.t = t
  <2>. DEFINE m == Head(wire["sender"])
  <2>1. m \in In(wire["sender"]) /\ m.type = type
    BY <1>t, <1>4, InTaken DEF ReadAnswer
  <2>2. \/ decided'[t] = decided[t]
        \/ m.t = t /\ decided'[t] = Append(decided[t], e)
    BY <1>t, <1>4 DEF ReadAnswer, WaitType
  <2>. QED
    BY <1>3, <2>1, <2>2
<1>5. CASE SenderReader
  <2>1. CASE IgnoreAbort \/ ReadBye("sender") \/ RecvFails("sender")
    BY <1>1, <2>1 DEF IgnoreAbort, ReadBye, RecvFails
  <2>2. CASE CancelSending
    <3>1. Cut
      BY <1>t, <2>2 DEF CancelSending, Cancelled, CancelComes, Cut
    <3>2. decided'[t] = decided[t] \/ decided'[t] = Append(decided[t], "decline")
      BY <2>2 DEF CancelSending
    <3>. QED
      BY <1>1, <1>3, <3>1, <3>2
  <2>3. CASE ReadAnswer("FileAccept", "accept") \/ ReadAnswer("FileDecline", "decline")
    BY <1>4, <2>3
  <2>. QED
    BY <1>5, <2>1, <2>2, <2>3 DEF SenderReader
<1>6. ASSUME NEW u \in Transfers, SendThread(u) \/ SendFile(u) \/ Edit(u)
      PROVE  TakeDecision(u) \/ UNCHANGED decided
  BY <1>6 DEF SendThread, Register, SendOffer, TimeOut, OpenFile, ReadError, SendChunk,
     StopSending, SendDone, FinishOut, SendFile, Edit
<1>7. ASSUME NEW u \in Transfers, AnswerThread(u) \/ Accept(u) \/ Decline(u)
      PROVE  UNCHANGED decided
  BY <1>7 DEF AnswerThread, EnterActive, CreateFails, TellAccept, Accept, Decline
<1>8. CASE ReceiverReader
  BY <1>1, <1>8 DEF ReceiverReader, ReadOffer, ReadChunk, ReadDone, ReadAbort, ReadBye,
     RecvFails, CancelReceiving
<1>9. ASSUME NEW s \in Sides, Leave(s) \/ LeaveBye(s)
      PROVE  UNCHANGED decided
  BY <1>9 DEF Leave, LeaveBye
<1>10. CASE Break \/ UNCHANGED vars
  BY <1>1, <1>10 DEF Break, vars
<1>. QED
  BY <1>1, <1>2, <1>5, <1>6, <1>7, <1>8, <1>9, <1>10 DEF Next, System, Operator

\* A thread opens its file on an accept.
LEMMA OpensOnAccept ==
    ASSUME TypeOK, [Next]_vars, NEW t \in Transfers, out'[t].pc \in {"open", "send"}
    PROVE  out[t].pc \in {"open", "send"} \/ "accept" \in In(decided[t])
<1>. USE DEF sending
<1>t. OutType /\ WaitType
  BY TypeParts
<1>1. CASE UNCHANGED out
  BY <1>1
<1>2. ASSUME NEW u \in Transfers, SendThread(u) \/ SendFile(u)
      PROVE  out[t].pc \in {"open", "send"} \/ "accept" \in In(decided[t])
  <2>1. CASE u # t
    <3>1. out'[t] = out[t]
      BY <1>2, <1>t, <2>1 DEF SendThread, Register, SendOffer, TakeDecision, TimeOut,
         OpenFile, ReadError, SendChunk, StopSending, SendDone, FinishOut, SendFile,
         OutPc, Ending, OutType
    <3>. QED
      BY <3>1
  <2>2. CASE u = t /\ TakeDecision(t)
    <3>1. decided[t] \in Seq({"accept", "decline"}) /\ decided[t] # <<>>
      BY <1>t, <2>2 DEF TakeDecision, WaitType
    <3>2. Head(decided[t]) \in In(decided[t])
      BY <3>1, InTail
    <3>3. Head(decided[t]) = "accept"
      BY <1>t, <2>2 DEF TakeDecision, Ending, OutType
    <3>. QED
      BY <3>2, <3>3
  <2>3. CASE u = t /\ ~TakeDecision(t) /\ out[t].pc \notin {"open", "send"}
    <3>1. SendFile(t) \/ Register(t) \/ SendOffer(t) \/ TimeOut(t) \/ FinishOut(t)
      BY <1>2, <2>3 DEF SendThread, OpenFile, ReadError, SendChunk, StopSending, SendDone
    <3>. QED
      BY <1>t, <3>1 DEF SendFile, Register, SendOffer, TimeOut, FinishOut, OutPc, Ending,
         OutType
  <2>. QED
    BY <2>1, <2>2, <2>3
<1>4. ASSUME NEW u \in Transfers, AnswerThread(u) \/ Accept(u) \/ Decline(u) \/ Edit(u)
      PROVE  UNCHANGED out
  BY <1>4 DEF AnswerThread, EnterActive, CreateFails, TellAccept, Accept, Decline, Edit
<1>5. CASE ReceiverReader \/ SenderReader
  BY <1>1, <1>5 DEF ReceiverReader, SenderReader, ReadOffer, ReadChunk, ReadDone,
     ReadAbort, ReadBye, RecvFails, CancelReceiving, ReadAnswer, IgnoreAbort,
     CancelSending
<1>6. ASSUME NEW s \in Sides, Leave(s) \/ LeaveBye(s)
      PROVE  UNCHANGED out
  BY <1>6 DEF Leave, LeaveBye
<1>7. CASE Break \/ UNCHANGED vars
  BY <1>1, <1>7 DEF Break, vars
<1>. QED
  BY <1>1, <1>2, <1>4, <1>5, <1>6, <1>7 DEF Next, System, Operator

\* Every step keeps what the sender hears of the answers.
LEMMA AnswerHeardStep ==
    ASSUME IInv, AnswerIsHeard, CancelComes, [Next]_vars
    PROVE  AnswerIsHeard'
<1>t. TypeOK /\ TypeOK' /\ WireType /\ WireType' /\ OfferedOnce
  BY TypeStep, TypeParts, TypePartsPrimed DEF IInv
<1>s. \A t \in Transfers :
         answer[t] \in {"done", "declined"} => answer'[t] = answer[t]
  BY <1>t, AnswerStands
<1>c. ASSUME NEW t \in Transfers, Cut PROVE Cut'
  BY <1>c, <1>t, AnswerStands DEF Cut
<1>m. \A m \in In(wire["sender"]) : m.type # "Bye" => m.t \in Transfers
  BY <1>t DEF In, WireType, Messages, Bye, Sides
<1>1. ASSUME NEW m \in In(wire'["sender"]), m.type \in {"FileAccept", "FileDecline"}
      PROVE  answer'[m.t] = IF m.type = "FileAccept" THEN "done" ELSE "declined"
  <2>1. CASE m \in In(wire["sender"])
    <3>1. m.t \in Transfers
      BY <1>1, <1>m, <2>1
    <3>2. answer[m.t] = IF m.type = "FileAccept" THEN "done" ELSE "declined"
      BY <1>1, <2>1 DEF AnswerIsHeard
    <3>. QED
      BY <1>s, <3>1, <3>2
  <2>. QED
    BY <1>1, <1>t, <2>1, HeardOnWire
<1>2. ASSUME NEW t \in Transfers, "accept" \in In(decided'[t])
      PROVE  answer'[t] = "done"
  <2>1. answer[t] = "done"
    BY <1>2, <1>t, HeardByThread DEF AnswerIsHeard
  <2>. QED
    BY <1>s, <2>1
<1>3. ASSUME NEW t \in Transfers, "decline" \in In(decided'[t])
      PROVE  answer'[t] = "declined" \/ Cut'
  <2>1. answer[t] = "declined" \/ Cut
    BY <1>3, <1>t, HeardByThread DEF AnswerIsHeard
  <2>. QED
    BY <1>c, <1>s, <2>1
<1>4. ASSUME NEW t \in Transfers, out'[t].pc \in {"open", "send"}
      PROVE  answer'[t] = "done"
  <2>1. answer[t] = "done"
    BY <1>4, <1>t, OpensOnAccept DEF AnswerIsHeard
  <2>. QED
    BY <1>s, <2>1
<1>. QED
  BY <1>1, <1>2, <1>3, <1>4 DEF AnswerIsHeard

\* The end of a transfer stays on its way until the receiver has read it, and
\* then the transfer is no longer being written.
LEMMA CloseStays ==
    ASSUME TypeOK, [Next]_vars, NEW m \in In(wire["receiver"]),
           m.type \in {"FileDone", "FileAbort"}
    PROVE  m \in In(wire'["receiver"]) \/ m.t \notin active'
<1>. USE DEF link, chan
<1>t. WireType /\ OutType /\ GotType
  BY TypeParts
<1>w. /\ wire \in [Sides -> Seq(Messages)] /\ "sender" \in Sides /\ "receiver" \in Sides
      /\ Other("sender") = "receiver" /\ Other("receiver") = "sender"
  BY <1>t DEF WireType, Sides, Other
<1>1. CASE UNCHANGED wire
  BY <1>1
<1>2. ASSUME NEW s \in Sides, NEW msg, wire' = Put(wire, s, msg)
      PROVE  m \in In(wire'["receiver"])
  BY <1>w, <1>2, PutKeeps
<1>3. ASSUME NEW type, Reads("sender", type), wire' = Taken("sender")
      PROVE  m \in In(wire'["receiver"])
  BY <1>t, <1>w, <1>3, InTaken
<1>4. ASSUME NEW type, Reads("receiver", type)
      PROVE  m \in In(Taken("receiver")["receiver"]) \/ m = Head(wire["receiver"])
  <2>1. wire["receiver"] \in Seq(Messages) /\ wire["receiver"] # <<>>
    BY <1>w, <1>4 DEF Reads
  <2>2. Taken("receiver")["receiver"] = Tail(wire["receiver"])
    BY <1>w DEF Taken
  <2>. QED
    BY <2>1, <2>2, InKept
<1>5. ASSUME NEW t \in Transfers,
             \/ SendThread(t) \/ SendFile(t) \/ Edit(t)
             \/ AnswerThread(t) \/ Accept(t) \/ Decline(t)
      PROVE  m \in In(wire'["receiver"])
  <2>1. UNCHANGED wire \/ \E s \in Sides : \E msg : wire' = Put(wire, s, msg)
    BY <1>5, <1>w DEF SendThread, Register, SendOffer, TakeDecision, TimeOut, OpenFile,
       ReadError, SendChunk, StopSending, SendDone, FinishOut, SendFile, Edit,
       AnswerThread, EnterActive, CreateFails, TellAccept, Accept, Decline
  <2>. QED
    BY <1>1, <1>2, <2>1
<1>6. CASE ReadOffer \/ ReadBye("receiver")
  BY <1>4, <1>6 DEF ReadOffer, ReadBye, Reads
<1>7. CASE ReadDone \/ ReadAbort
  BY <1>4, <1>7 DEF ReadDone, ReadAbort
<1>8. CASE ReadChunk
  <2>. DEFINE w == Taken("receiver")
  <2>1. m \in In(w["receiver"])
    BY <1>4, <1>8 DEF ReadChunk, Reads
  <2>2. w \in [Sides -> Seq(Messages)]
    BY <1>8, <1>w, ArrivedType DEF ReadChunk
  <2>3. wire' = w \/ \E msg : wire' = Put(w, "receiver", msg)
    BY <1>8 DEF ReadChunk
  <2>. HIDE DEF w
  <2>. QED
    BY <1>w, <2>1, <2>2, <2>3, PutKeeps
<1>9. CASE SenderReader \/ RecvFails("receiver") \/ CancelReceiving
  BY <1>1, <1>3, <1>9, <1>w DEF SenderReader, ReadAnswer, IgnoreAbort, ReadBye, RecvFails,
     CancelSending, CancelReceiving
<1>10. ASSUME NEW s \in Sides, Leave(s) \/ LeaveBye(s)
       PROVE  m \in In(wire'["receiver"])
  BY <1>1, <1>2, <1>10 DEF Leave, LeaveBye
<1>11. CASE Break \/ UNCHANGED vars
  BY <1>1, <1>11 DEF Break, vars
<1>. QED
  BY <1>5, <1>6, <1>7, <1>8, <1>9, <1>10, <1>11
     DEF Next, System, Operator, ReceiverReader

\* Only the thread of a transfer ends it; only an answer that was not given
\* yet is followed by the transfer's being written.
LEMMA EndsByItself ==
    ASSUME TypeOK, [Next]_vars, NEW t \in Transfers
    PROVE  /\ SendThread(t) \/ out'[t] = out[t] \/ SendFile(t)
           /\ t \in active' => t \in active \/ answer[t] = "create"
<1>. USE DEF sending, receiving
<1>t. OutType /\ GotType
  BY TypeParts
<1>1. ASSUME NEW u \in Transfers, SendThread(u) \/ SendFile(u)
      PROVE  UNCHANGED active /\ (u # t => out'[t] = out[t])
  BY <1>t, <1>1 DEF SendThread, Register, SendOffer, TakeDecision, TimeOut, OpenFile,
     ReadError, SendChunk, StopSending, SendDone, FinishOut, SendFile, OutPc, Ending,
     OutType
<1>2. ASSUME NEW u \in Transfers, AnswerThread(u) \/ Accept(u) \/ Decline(u) \/ Edit(u)
      PROVE  UNCHANGED out /\ (t \in active' => t \in active \/ answer[t] = "create")
  BY <1>2 DEF AnswerThread, EnterActive, CreateFails, TellAccept, Accept, Decline, Edit
<1>3. CASE ReceiverReader \/ SenderReader
  BY <1>3 DEF ReceiverReader, SenderReader, ReadOffer, ReadChunk, ReadDone,
     ReadAbort, ReadBye, RecvFails, CancelReceiving, ReadAnswer, IgnoreAbort,
     CancelSending
<1>4. ASSUME NEW s \in Sides, Leave(s) \/ LeaveBye(s)
      PROVE  UNCHANGED <<out, active>>
  BY <1>4 DEF Leave, LeaveBye
<1>5. CASE Break \/ UNCHANGED vars
  BY <1>5 DEF Break, vars
<1>. QED
  BY <1>1, <1>2, <1>3, <1>4, <1>5 DEF Next, System, Operator

\* Every step keeps the ends on their way: a thread ends by telling the
\* receiver, unless the receiver declined or the link is lost.
LEMMA EndHeardStep ==
    ASSUME IInv, AnswerIsHeard, EndIsHeard, [Next]_vars
    PROVE  EndIsHeard'
<1>. USE DEF link, chan, receiving
<1>t. TypeOK /\ WireType /\ OutType /\ WaitType /\ GotType /\ OfferedOnce
  BY TypeParts DEF IInv
<1>w. wire \in [Sides -> Seq(Messages)] /\ "sender" \in Sides /\ "receiver" \in Sides
      /\ Other("sender") = "receiver"
  BY <1>t DEF WireType, Sides, Other
<1>. SUFFICES ASSUME NEW t \in Transfers, Ended(t)', ~Cut'
     PROVE  \/ answer'[t] = "declined"
            \/ /\ answer'[t] = "done"
               /\ t \in active' => \E m \in In(wire'["receiver"]) : Closes(m, t)
  BY DEF EndIsHeard, Closes
<1>c. ~Cut
  BY <1>t, AnswerStands DEF Cut
<1>s. answer[t] \in {"done", "declined"} => answer'[t] = answer[t]
  BY <1>t, AnswerStands
<1>1. CASE Ended(t)
  <2>1. \/ answer[t] = "declined"
        \/ /\ answer[t] = "done"
           /\ t \in active => \E m \in In(wire["receiver"]) : Closes(m, t)
    BY <1>1, <1>c DEF EndIsHeard
  <2>2. CASE answer[t] = "declined"
    BY <1>s, <2>2
  <2>3. CASE answer[t] = "done" /\ t \in active'
    <3>1. t \in active
      BY <1>t, <2>3, EndsByItself
    <3>2. PICK m \in In(wire["receiver"]) : Closes(m, t)
      BY <2>1, <2>3, <3>1
    <3>3. m \in In(wire'["receiver"])
      BY <1>t, <2>3, <3>2, CloseStays DEF Closes
    <3>. QED
      BY <1>s, <2>3, <3>2, <3>3
  <2>. QED
    BY <1>s, <2>1, <2>2, <2>3
<1>2. CASE ~Ended(t)
  <2>1. SendThread(t) \/ SendFile(t)
    <3>1. out'[t] # out[t]
      BY <1>2 DEF Ended
    <3>. QED
      BY <1>t, <3>1, EndsByItself
  <2>2. CASE TakeDecision(t)
    <3>1. decided[t] \in Seq({"accept", "decline"}) /\ decided[t] # <<>>
      BY <1>t, <2>2 DEF TakeDecision, WaitType
    <3>2. Head(decided[t]) = "decline"
      BY <1>t, <2>2, <3>1 DEF TakeDecision, Ended, OutPc, OutType
    <3>3. "decline" \in In(decided[t])
      BY <3>1, <3>2, InTail
    <3>. QED
      BY <1>c, <1>s, <3>3 DEF AnswerIsHeard
  <2>3. ASSUME NEW type \in {"FileDone", "FileAbort"}, out[t].pc \in {"open", "send"},
               wire' = Put(wire, "sender", Plain(type, t))
        PROVE  /\ answer'[t] = "done"
               /\ \E m \in In(wire'["receiver"]) : Closes(m, t)
    <3>1. Plain(type, t) \in In(wire'["receiver"])
      BY <1>c, <1>w, <2>3, PutKeeps
    <3>2. Closes(Plain(type, t), t)
      BY DEF Closes, Plain
    <3>3. answer[t] = "done"
      BY <2>3 DEF AnswerIsHeard
    <3>. QED
      BY <1>s, <3>1, <3>2, <3>3
  <2>4. CASE ReadError(t) \/ SendDone(t)
    BY <2>3, <2>4 DEF ReadError, SendDone
  <2>5. CASE TimeOut(t)
    BY <1>t, <2>5 DEF TimeOut, Ending, OutType, Ended
  <2>6. CASE SendOffer(t) \/ SendChunk(t)
    BY <1>2, <1>c, <1>t, <2>6 DEF SendOffer, SendChunk, OutPc, OutType, Ended
  <2>7. CASE Register(t) \/ OpenFile(t) \/ StopSending(t) \/ FinishOut(t) \/ SendFile(t)
    BY <1>2, <1>t, <2>7 DEF Register, OpenFile, StopSending, FinishOut, SendFile, OutPc,
       OutType, Ended
  <2>. QED
    BY <2>1, <2>2, <2>4, <2>5, <2>6, <2>7 DEF SendThread
<1>. QED
  BY <1>1, <1>2

\* Every step keeps what is accepted and unreported among what is written.
LEMMA UnreportedStep ==
    ASSUME IInv, UnreportedIsOpen, [Next]_vars
    PROVE  UnreportedIsOpen'
<1>. USE DEF sending, receiving
<1>t. TypeOK /\ WireType /\ GotType /\ OfferedOnce
  BY TypeParts DEF IInv
<1>. SUFFICES ASSUME NEW t \in Transfers, answer'[t] \in {"tell", "done"},
                     gotTold'[t] = <<>>
     PROVE  t \in active'
  BY DEF UnreportedIsOpen
<1>1. CASE UNCHANGED <<answer, gotTold, active>>
  BY <1>1 DEF UnreportedIsOpen
<1>2. ASSUME NEW ts, NEW how, Report(ts, how), UNCHANGED answer, active \subseteq active' \cup ts
      PROVE  t \in active'
  <2>1. gotTold[t] \in Seq(GotOutcomes)
    BY <1>t DEF GotType
  <2>2. t \notin ts /\ gotTold'[t] = gotTold[t]
    BY <1>2, <2>1 DEF Report
  <2>. QED
    BY <1>2, <2>2 DEF UnreportedIsOpen
<1>3. ASSUME NEW u \in Transfers, SendThread(u) \/ SendFile(u) \/ Edit(u)
      PROVE  UNCHANGED <<answer, gotTold, active>>
  BY <1>3 DEF SendThread, Register, SendOffer, TakeDecision, TimeOut, OpenFile,
     ReadError, SendChunk, StopSending, SendDone, FinishOut, SendFile, Edit
<1>4. ASSUME NEW u \in Transfers, AnswerThread(u) \/ Accept(u)
      PROVE  t \in active'
  BY <1>4, <1>t DEF AnswerThread, EnterActive, CreateFails, TellAccept, Accept, Respond,
     GotType, UnreportedIsOpen
<1>5. ASSUME NEW u \in Transfers, Decline(u)
      PROVE  t \in active'
  <2>1. u # t
    BY <1>5, <1>t DEF Decline, Respond, GotType
  <2>2. answer'[t] = answer[t] /\ gotTold'[t] = gotTold[t] /\ active' = active
    BY <1>5, <1>t, <2>1 DEF Decline, Respond, GotType
  <2>. QED
    BY <2>2 DEF UnreportedIsOpen
<1>6. CASE ReadOffer \/ ReadBye("receiver") \/ RecvFails("receiver")
  BY <1>1, <1>6 DEF ReadOffer, ReadBye, RecvFails
<1>7. CASE ReadDone \/ ReadAbort
  BY <1>2, <1>7 DEF ReadDone, ReadAbort
<1>8. CASE ReadChunk
  BY <1>1, <1>2, <1>8 DEF ReadChunk
<1>9. CASE CancelReceiving
  BY <1>2, <1>9 DEF CancelReceiving
<1>10. CASE SenderReader
  BY <1>1, <1>10 DEF SenderReader, ReadAnswer, IgnoreAbort, ReadBye, RecvFails,
     CancelSending
<1>11. ASSUME NEW s \in Sides, Leave(s) \/ LeaveBye(s)
       PROVE  UNCHANGED <<answer, gotTold, active>>
  BY <1>11 DEF Leave, LeaveBye
<1>12. CASE Break \/ UNCHANGED vars
  BY <1>1, <1>12 DEF Break, vars
<1>. QED
  BY <1>1, <1>3, <1>4, <1>5, <1>6, <1>7, <1>8, <1>9, <1>10, <1>11, <1>12
     DEF Next, System, Operator, ReceiverReader

\* Every step keeps the order in which a side that has lost its peer acts.
LEMMA CancelStep ==
    ASSUME IInv, CancelComes, [Next]_vars
    PROVE  CancelComes'
<1>. USE DEF link, chan, sending, receiving
<1>t. /\ TypeOK /\ LinkType /\ WireType /\ GotType /\ "sender" \in Sides
      /\ "receiver" \in Sides
  BY TypeParts DEF IInv, Sides
<1>1. ASSUME UNCHANGED link, shut \subseteq shut',
             \A t \in active' : answer'[t] = "done" =>
                 \/ t \in active /\ answer[t] = "done"
                 \/ "receiver" \notin shut
      PROVE  CancelComes'
  BY <1>1 DEF CancelComes
<1>2. ASSUME NEW u \in Transfers, SendThread(u) \/ SendFile(u) \/ Edit(u)
      PROVE  UNCHANGED <<link, shut, answer, active>>
  BY <1>2 DEF SendThread, Register, SendOffer, TakeDecision, TimeOut, OpenFile,
     ReadError, SendChunk, StopSending, SendDone, FinishOut, SendFile, Edit
<1>3. ASSUME NEW u \in Transfers, AnswerThread(u) \/ Accept(u) \/ Decline(u)
      PROVE  CancelComes'
  <2>1. UNCHANGED <<link, shut>>
    BY <1>3 DEF AnswerThread, EnterActive, CreateFails, TellAccept, Accept, Decline
  <2>2. CASE TellAccept(u)
    <3>1. active' = active /\ \A t \in Transfers : t # u => answer'[t] = answer[t]
      BY <1>t, <2>2 DEF TellAccept, GotType
    <3>2. answer'[u] = "done" => "receiver" \notin shut
      BY <1>t, <2>2 DEF TellAccept, CanSend, GotType
    <3>3. active \subseteq Transfers
      BY <1>t DEF GotType
    <3>. QED
      BY <1>1, <2>1, <3>1, <3>2, <3>3
  <2>3. CASE EnterActive(u) \/ CreateFails(u) \/ Accept(u) \/ Decline(u)
    <3>1. \A t \in active' : answer'[t] = "done" => t \in active /\ answer[t] = "done"
      BY <1>t, <2>3 DEF EnterActive, CreateFails, Accept, Decline, Respond, GotType
    <3>. QED
      BY <1>1, <2>1, <3>1
  <2>. QED
    BY <1>3, <2>2, <2>3 DEF AnswerThread
<1>4. CASE ReadOffer \/ ReadChunk \/ ReadDone \/ ReadAbort
  <2>1. UNCHANGED <<link, shut, answer>> /\ active' \subseteq active
    BY <1>4 DEF ReadOffer, ReadChunk, ReadDone, ReadAbort
  <2>. QED
    BY <1>1, <2>1
<1>5. ASSUME NEW s \in Sides, ReadBye(s) \/ RecvFails(s)
      PROVE  CancelComes'
  <2>1. /\ UNCHANGED <<life, answer, active>> /\ reader[s] = "run"
        /\ known' = [known EXCEPT ![s] = FALSE]
    BY <1>5 DEF ReadBye, RecvFails, PeerGone, Reads
  <2>2. /\ \A r \in Sides : r # s => reader'[r] = reader[r] /\ known'[r] = known[r]
        /\ known'[s] = FALSE /\ shut \subseteq shut'
        /\ known[s] => s \in shut' /\ reader'[s] \in {"cancelBye", "cancelErr"}
        /\ ~known[s] => reader'[s] \in {"run", "done"}
    BY <1>5, <1>t DEF ReadBye, RecvFails, PeerGone, LinkType
  <2>. QED
    BY <1>t, <2>1, <2>2 DEF CancelComes
<1>6. CASE CancelReceiving
  <2>1. /\ UNCHANGED <<life, known, shut>> /\ active' = {}
        /\ reader["receiver"] \in {"cancelBye", "cancelErr"}
        /\ reader'["sender"] = reader["sender"]
        /\ reader'["receiver"] \in {"run", "done"}
    BY <1>6, <1>t DEF CancelReceiving, Cancelled, LinkType
  <2>. QED
    BY <1>t, <2>1 DEF CancelComes, Sides
<1>7. CASE CancelSending
  <2>1. /\ UNCHANGED <<life, known, shut, answer, active>>
        /\ reader["sender"] \in {"cancelBye", "cancelErr"}
        /\ reader'["receiver"] = reader["receiver"]
        /\ reader'["sender"] \in {"run", "done"}
    BY <1>7, <1>t DEF CancelSending, Cancelled, LinkType
  <2>. QED
    BY <1>t, <2>1 DEF CancelComes, Sides
<1>8. CASE SenderReader
  <2>1. CASE ReadBye("sender") \/ RecvFails("sender") \/ CancelSending
    BY <1>5, <1>7, <1>t, <2>1
  <2>2. CASE ReadAnswer("FileAccept", "accept") \/ ReadAnswer("FileDecline", "decline")
             \/ IgnoreAbort
    BY <1>1, <2>2 DEF ReadAnswer, IgnoreAbort
  <2>. QED
    BY <1>8, <2>1, <2>2 DEF SenderReader
<1>9. ASSUME NEW s \in Sides, Leave(s)
      PROVE  CancelComes'
  <2>1. /\ UNCHANGED <<reader, shut, answer, active>>
        /\ \A r \in Sides : r # s => life'[r] = life[r] /\ known'[r] = known[r]
        /\ life'[s] # "live" /\ known'[s] = FALSE
    BY <1>9, <1>t DEF Leave, LinkType
  <2>. QED
    BY <1>t, <2>1 DEF CancelComes
<1>10. ASSUME NEW s \in Sides, LeaveBye(s)
       PROVE  CancelComes'
  <2>1. /\ UNCHANGED <<known, reader, answer, active>> /\ shut \subseteq shut'
        /\ \A r \in Sides : life'[r] = "live" => life[r] = "live"
    BY <1>10, <1>t DEF LeaveBye, LinkType
  <2>. QED
    BY <1>t, <2>1 DEF CancelComes
<1>11. CASE Break
  <2>1. shut \subseteq shut' /\ UNCHANGED <<link, answer, active>>
    BY <1>11, <1>t DEF Break, WireType
  <2>. QED
    BY <1>1, <2>1
<1>12. CASE UNCHANGED vars
  BY <1>1, <1>12 DEF vars
<1>. QED
  BY <1>1, <1>2, <1>3, <1>4, <1>5, <1>6, <1>8, <1>9, <1>10, <1>11, <1>12, <1>t
     DEF Next, System, Operator, ReceiverReader

\* Nothing is unreported and closed at the start, and no step makes it so ...
LEMMA HeardAlways == Spec => []Heard
<1>1. Init => Heard
  <2>. SUFFICES ASSUME Init PROVE Heard
    OBVIOUS
  <2>1. /\ \A s \in Sides : In(wire[s]) = {}
        /\ \A t \in Transfers : In(decided[t]) = {}
    BY DEF Init, In
  <2>2. "sender" \in Sides /\ "receiver" \in Sides
    BY DEF Sides
  <2>. QED
    BY <2>1, <2>2 DEF Init, Heard, AnswerIsHeard, EndIsHeard, Ended, UnreportedIsOpen,
       CancelComes
<1>2. IInv /\ Heard /\ [Next]_vars => Heard'
  BY AnswerHeardStep, EndHeardStep, UnreportedStep, CancelStep DEF Heard
<1>. QED
  BY <1>1, <1>2, Invariance, PTL DEF Spec

\* ... so a receiver still in the room has heard of every transfer it
\* accepted, save offers that timed out, once nothing can come of it: either
\* its reader gave the transfer up when the link was lost, or the sender's
\* thread ended by sending a FileDone or a FileAbort that it has read.
THEOREM TruncatedAreReported == Spec => []TruncatedIsReported
<1>1. TypeOK /\ Heard => TruncatedIsReported
  <2>. SUFFICES ASSUME TypeOK, Heard, NEW t \in Transfers,
                       life["receiver"] = "live", answer[t] = "done",
                       out[t].how # "timedout", NothingToCome(t), gotTold[t] = <<>>
       PROVE  FALSE
    BY DEF TruncatedIsReported
  <2>1. t \in active
    BY DEF Heard, UnreportedIsOpen
  <2>2. CASE Cut
    BY <2>1, <2>2 DEF NothingToCome, Heard, CancelComes
  <2>3. CASE ~Cut
    <3>1. PICK m \in In(wire["receiver"]) : Closes(m, t)
      BY <2>1, <2>3 DEF NothingToCome, Heard, EndIsHeard, Ended
    <3>2. Concerns(m, t)
      BY <3>1 DEF Closes, Concerns
    <3>. QED
      BY <2>3, <3>1, <3>2 DEF NothingToCome, In
  <2>. QED
    BY <2>2, <2>3
<1>2. IInv => TypeOK
  BY DEF IInv
<1>. QED
  BY <1>1, <1>2, Invariance, HeardAlways, PTL

=============================================================================
