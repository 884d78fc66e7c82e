-------------------------- MODULE SecureLinkProofs --------------------------
(***************************************************************************)
(* Theorems about SecureLink for any threads, sizes and schedules: the     *)
(* gate keeps the order of the frames, so every frame decrypts; and two    *)
(* ends that fill the socket do not block each other, unless both answer.  *)
(***************************************************************************)
EXTENDS SecureLink, SequenceTheorems, TLAPS

\* Whoever is between taking the gate and returning is its holder, and holds
\* the last frame that was encrypted at its end.
Exclusive ==
    /\ \A w \in Writers : pc[w] \in {"encrypt", "write"} => gate[At(w)] = w
    /\ \A w \in Writers : pc[w] = "write" => /\ frame[w].nonce + 1 = nonce[At(w)]
                                             /\ frame[w].done < Pieces

\* The piece that follows p in the stream.
After(p) == IF p.k < Pieces THEN [nonce |-> p.nonce, k |-> p.k + 1]
                            ELSE [nonce |-> p.nonce + 1, k |-> 1]

\* The piece that end e will put on the wire next.
Due(e, p) ==
    \/ \E w \in Writers : /\ At(w) = e /\ pc[w] = "write"
                          /\ p = [nonce |-> frame[w].nonce, k |-> frame[w].done + 1]
    \/ /\ \A w \in Writers : At(w) = e => pc[w] # "write"
       /\ p = [nonce |-> nonce[e], k |-> 1]

\* The piece that end e must read next.
Awaited(e) == [nonce |-> expect[e], k |-> Len(part[e]) + 1]

\* What is on its way runs on from what was read to what is written next.
PartOk(e) == \A i \in DOMAIN part[e] : part[e][i] = [nonce |-> expect[e], k |-> i]
Chained(e) ==
    /\ wire[e] # <<>> => wire[e][1] = Awaited(e)
    /\ \A i \in 1..(Len(wire[e]) - 1) : wire[e][i + 1] = After(wire[e][i])
Tip(e) == IF wire[e] = <<>> THEN Awaited(e) ELSE After(wire[e][Len(wire[e])])
RunsOn(e) == ~Cut => Due(Other(e), Tip(e))
InStep == \A e \in Ends : PartOk(e) /\ Chained(e) /\ RunsOn(e)

\* A thread inside send() has a payload it is not done with.
Busy == \A t \in Threads : pc[t] # "idle" => sent[t] < Sends

IInv == TypeOK /\ Busy /\ Exclusive /\ InStep /\ NeverGarbled

-----------------------------------------------------------------------------
(* The ends.                                                               *)

\* Every writer is at an end, and the ends are each other's other end.
LEMMA EndsFacts ==
    /\ \A w \in Writers : At(w) \in Ends
    /\ \A e \in Ends : Other(e) \in Ends /\ Other(e) # e /\ Other(Other(e)) = e
  BY LinkAssumption DEF Writers, At, Ends, Other

\* Only one thread at an end is writing, and it holds the gate.
LEMMA OneWriter ==
    ASSUME Exclusive, NEW w \in Writers, pc[w] \in {"encrypt", "write"},
           NEW u \in Writers, u # w, At(u) = At(w)
    PROVE  pc[u] \notin {"encrypt", "write"}
  BY DEF Exclusive

\* The three parts of InStep read no more than the wires, what the readers
\* have read, and which piece is due.
LEMMA InStepKept ==
    ASSUME InStep, UNCHANGED <<wire, part, expect>>,
           ~Cut' => ~Cut /\ \A e \in Ends : \A p : Due(e, p) => Due(e, p)'
    PROVE  InStep'
<1>. SUFFICES ASSUME NEW e \in Ends
              PROVE  PartOk(e)' /\ Chained(e)' /\ RunsOn(e)'
  BY DEF InStep
<1>1. PartOk(e)' /\ Chained(e)'
  BY DEF InStep, PartOk, Chained, Awaited, After
<1>2. Tip(e)' = Tip(e)
  BY DEF Tip, Awaited, After
<1>3. RunsOn(e)'
  <2>. SUFFICES ASSUME ~Cut'
                PROVE  Due(Other(e), Tip(e))'
    BY DEF RunsOn
  <2>1. Due(Other(e), Tip(e))
    BY DEF InStep, RunsOn
  <2>2. \A p : Due(Other(e), p) => Due(Other(e), p)'
    BY EndsFacts
  <2>. QED
    BY <1>2, <2>1, <2>2 DEF Due
<1>. QED
  BY <1>1, <1>3

\* A queue without its first entry ends where it ended.
LEMMA TailEnds ==
    ASSUME NEW S, NEW q \in Seq(S), q # <<>>
    PROVE  IF Len(q) = 1 THEN Tail(q) = <<>>
           ELSE Tail(q) # <<>> /\ Tail(q)[Len(Tail(q))] = q[Len(q)]
<1>1. /\ Tail(q) \in Seq(S) /\ Len(Tail(q)) = Len(q) - 1
      /\ \A i \in 1..Len(Tail(q)) : Tail(q)[i] = q[i + 1]
  BY HeadTailProperties
<1>2. Len(q) \in Nat \ {0} /\ (Tail(q) # <<>> => Len(Tail(q)) # 0)
  BY <1>1, EmptySeq
<1>3. CASE Len(q) = 1
  BY <1>1, <1>2, <1>3
<1>4. CASE Len(q) # 1
  <2>1. Len(Tail(q)) # 0 /\ Len(Tail(q)) \in 1..Len(Tail(q))
    BY <1>1, <1>2, <1>4
  <2>2. Tail(q)[Len(Tail(q))] = q[Len(Tail(q)) + 1]
    BY <1>1, <2>1
  <2>3. Len(Tail(q)) + 1 = Len(q)
    BY <1>1, <1>2
  <2>4. Tail(q) # <<>>
    <3>1. \A s : s = <<>> => Len(s) = 0
      OBVIOUS
    <3>. QED
      BY <2>1, <3>1, Zenon
  <2>. QED
    BY <1>4, <2>2, <2>3, <2>4
<1>. QED
  BY <1>3, <1>4

-----------------------------------------------------------------------------
(* The steps.                                                              *)

\* Until a thread has encrypted nothing is due that was not.
LEMMA PrepareKeeps ==
    ASSUME IInv,
           \/ \E t \in Threads : Call(t)
           \/ \E w \in Writers : TakeGate(w)
           \/ \E e \in Ends : Reply(e)
    PROVE  IInv'
<1>. USE DEF IInv, reading
<1>1. UNCHANGED <<frame, sent, nonce, wire, part, expect, reader, shut>>
  BY DEF Call, TakeGate, Reply
<1>2. PICK w \in Writers :
          \/ /\ pc[w] = "idle" /\ pc' = [pc EXCEPT ![w] = "wait"] /\ UNCHANGED gate
             /\ w \in Threads => sent[w] < Sends
          \/ /\ pc[w] = "wait" /\ pc' = [pc EXCEPT ![w] = "encrypt"]
             /\ gate[At(w)] = Nobody /\ gate' = [gate EXCEPT ![At(w)] = w]
  BY LinkAssumption DEF Call, CanCall, TakeGate, CanTakeGate, Reply, CanReply,
     PcIs, Writers
<1>3. TypeOK'
  <2>1. pc' \in [Writers -> {"idle", "wait", "encrypt", "write"}]
    BY <1>2 DEF TypeOK
  <2>2. gate' \in [Ends -> Writers \cup {Nobody}]
    BY <1>2 DEF TypeOK
  <2>. QED
    BY <1>1, <2>1, <2>2 DEF TypeOK
<1>4. Busy'
  BY <1>1, <1>2 DEF Busy, TypeOK, Writers
<1>5. Exclusive'
  <2>. SUFFICES ASSUME NEW u \in Writers, pc'[u] \in {"encrypt", "write"}
                PROVE  gate'[At(u)] = u
    BY <1>1, <1>2 DEF Exclusive, TypeOK
  <2>1. CASE u = w
    BY <1>2, <2>1, EndsFacts DEF TypeOK
  <2>2. CASE u # w
    <3>1. pc[u] \in {"encrypt", "write"} /\ gate[At(u)] = u
      BY <1>2, <2>2 DEF TypeOK, Exclusive
    <3>2. At(u) = At(w) => gate[At(w)] # Nobody
      BY <3>1, LinkAssumption
    <3>. QED
      BY <1>2, <3>1, <3>2, EndsFacts DEF TypeOK
  <2>. QED
    BY <2>1, <2>2
<1>6. \A u \in Writers : pc'[u] = "write" <=> pc[u] = "write"
  BY <1>2 DEF TypeOK
<1>7. InStep'
  <2>1. \A e \in Ends : \A p : Due(e, p) => Due(e, p)'
    BY <1>1, <1>6 DEF Due
  <2>2. Cut' = Cut
    BY <1>1 DEF Cut
  <2>. QED
    BY <1>1, <2>1, <2>2, InStepKept
<1>. QED
  BY <1>1, <1>3, <1>4, <1>5, <1>7 DEF NeverGarbled

\* Encrypting gives the thread the frame that is due, and the gate is its own.
LEMMA EncryptKeeps ==
    ASSUME IInv, NEW w \in Writers, Encrypt(w)
    PROVE  IInv'
<1>. USE DEF IInv, reading
<1>1. /\ UNCHANGED <<sent, gate, wire, part, expect, reader, shut>>
      /\ pc[w] = "encrypt" /\ pc' = [pc EXCEPT ![w] = "write"]
      /\ frame' = [frame EXCEPT ![w] = [nonce |-> nonce[At(w)], done |-> 0]]
      /\ nonce' = [nonce EXCEPT ![At(w)] = @ + 1]
  BY DEF Encrypt, PcIs
<1>2. At(w) \in Ends /\ nonce[At(w)] \in Nat /\ 0 \in 0..Pieces
  BY EndsFacts, LinkAssumption DEF TypeOK
<1>3. TypeOK'
  <2>1. /\ pc' \in [Writers -> {"idle", "wait", "encrypt", "write"}]
        /\ nonce' \in [Ends -> Nat]
        /\ frame' \in [Writers -> [nonce : Nat, done : 0..Pieces]]
    BY <1>1, <1>2 DEF TypeOK
  <2>. QED
    BY <1>1, <2>1 DEF TypeOK
<1>4. Busy'
  BY <1>1 DEF Busy, TypeOK, Writers
<1>5. \A u \in Writers : u # w /\ At(u) = At(w) => pc[u] # "write"
  BY <1>1, OneWriter
<1>6. Exclusive'
  <2>. SUFFICES ASSUME NEW u \in Writers, pc'[u] \in {"encrypt", "write"}
                PROVE  /\ gate[At(u)] = u
                       /\ pc'[u] = "write" => /\ frame'[u].nonce + 1 = nonce'[At(u)]
                                              /\ frame'[u].done < Pieces
    BY <1>1 DEF Exclusive
  <2>1. CASE u = w
    BY <1>1, <1>2, <2>1, LinkAssumption DEF Exclusive, TypeOK
  <2>2. CASE u # w
    <3>1. pc[u] = pc'[u] /\ frame'[u] = frame[u]
      BY <1>1, <2>2 DEF TypeOK
    <3>2. pc[u] = "write" => nonce'[At(u)] = nonce[At(u)]
      BY <1>1, <1>5, <2>2, EndsFacts DEF TypeOK
    <3>. QED
      BY <3>1, <3>2 DEF Exclusive
  <2>. QED
    BY <2>1, <2>2
<1>7. InStep'
  <2>1. ASSUME NEW e \in Ends, NEW p, Due(e, p)
        PROVE  Due(e, p)'
    <3>1. CASE e = At(w)
      <4>1. p = [nonce |-> nonce[e], k |-> 1]
        BY <1>1, <1>5, <2>1, <3>1 DEF Due
      <4>2. p = [nonce |-> frame'[w].nonce, k |-> frame'[w].done + 1] /\ pc'[w] = "write"
        BY <1>1, <3>1, <4>1 DEF TypeOK
      <4>. QED
        BY <3>1, <4>2 DEF Due
    <3>2. CASE e # At(w)
      <4>1. \A u \in Writers : At(u) = e => pc'[u] = pc[u] /\ frame'[u] = frame[u]
        BY <1>1, <3>2 DEF TypeOK
      <4>2. nonce'[e] = nonce[e]
        BY <1>1, <3>2 DEF TypeOK
      <4>. QED
        BY <2>1, <4>1, <4>2 DEF Due
    <3>. QED
      BY <3>1, <3>2
  <2>2. Cut' = Cut
    BY <1>1 DEF Cut
  <2>. QED
    BY <1>1, <2>1, <2>2, InStepKept
<1>. QED
  BY <1>1, <1>3, <1>4, <1>6, <1>7 DEF NeverGarbled

\* Returning from send() gives the gate back and ends nobody else's turn.
LEMMA ReturnKeeps ==
    ASSUME IInv, NEW w \in Writers, pc[w] = "write", Return(w),
           UNCHANGED <<frame, nonce>>
    PROVE  /\ pc' = [pc EXCEPT ![w] = "idle"]
           /\ pc' \in [Writers -> {"idle", "wait", "encrypt", "write"}]
           /\ sent' \in [Threads -> 0..Sends]
           /\ gate' \in [Ends -> Writers \cup {Nobody}]
           /\ reader' \in [Ends -> {"read", "reply", "done", "garbled"}]
           /\ NeverGarbled' /\ Busy' /\ Exclusive'
<1>. USE DEF IInv
<1>1. pc' = [pc EXCEPT ![w] = "idle"] /\ gate' = [gate EXCEPT ![At(w)] = Nobody]
  BY DEF Return, PcIs
<1>2. pc' \in [Writers -> {"idle", "wait", "encrypt", "write"}]
  BY <1>1 DEF TypeOK
<1>3. gate' \in [Ends -> Writers \cup {Nobody}]
  BY <1>1 DEF TypeOK
<1>4. sent' \in [Threads -> 0..Sends]
  <2>1. CASE w \in Ends
    BY <2>1 DEF Return, TypeOK
  <2>2. CASE w \notin Ends
    <3>1. sent' = [sent EXCEPT ![w] = @ + 1] /\ w \in Threads
      BY <2>2 DEF Return, Writers
    <3>2. sent[w] < Sends /\ sent[w] \in 0..Sends
      BY <3>1 DEF Busy, TypeOK
    <3>3. sent[w] + 1 \in 0..Sends
      BY <3>2, LinkAssumption
    <3>. QED
      BY <3>1, <3>3 DEF TypeOK
  <2>. QED
    BY <2>1, <2>2
<1>5. /\ reader' \in [Ends -> {"read", "reply", "done", "garbled"}]
      /\ NeverGarbled'
  BY DEF Return, TypeOK, NeverGarbled
<1>6. Busy'
  <2>. SUFFICES ASSUME NEW t \in Threads, pc'[t] # "idle"
                PROVE  sent'[t] < Sends
    BY DEF Busy
  <2>1. t # w /\ pc[t] # "idle" /\ t \in Writers
    BY <1>1 DEF TypeOK, Writers
  <2>2. sent'[t] = sent[t]
    BY <2>1 DEF Return, TypeOK
  <2>. QED
    BY <2>1, <2>2 DEF Busy
<1>7. Exclusive'
  <2>. SUFFICES ASSUME NEW u \in Writers, pc'[u] \in {"encrypt", "write"}
                PROVE  gate'[At(u)] = u /\ pc[u] = pc'[u]
    BY DEF Exclusive
  <2>1. u # w /\ pc[u] = pc'[u]
    BY <1>1 DEF TypeOK
  <2>2. At(u) # At(w)
    BY <2>1, OneWriter
  <2>3. gate'[At(u)] = gate[At(u)]
    BY <1>1, <2>2, EndsFacts DEF TypeOK
  <2>. QED
    BY <2>1, <2>3 DEF Exclusive
<1>. QED
  BY <1>1, <1>2, <1>3, <1>4, <1>5, <1>6, <1>7

\* A write that fails is one on a link that is cut, where nothing is due.
LEMMA WriteFailsKeeps ==
    ASSUME IInv, NEW w \in Writers, WriteFails(w)
    PROVE  IInv'
<1>1. /\ pc[w] = "write" /\ Cut /\ Return(w)
      /\ UNCHANGED <<frame, nonce, wire, part, expect, shut>>
  BY DEF WriteFails
<1>2. /\ pc' \in [Writers -> {"idle", "wait", "encrypt", "write"}]
      /\ sent' \in [Threads -> 0..Sends]
      /\ gate' \in [Ends -> Writers \cup {Nobody}]
      /\ reader' \in [Ends -> {"read", "reply", "done", "garbled"}]
      /\ NeverGarbled' /\ Busy' /\ Exclusive'
  BY <1>1, ReturnKeeps
<1>3. TypeOK'
  BY <1>1, <1>2 DEF IInv, TypeOK
<1>4. InStep'
  <2>1. Cut'
    BY <1>1 DEF Cut
  <2>. QED
    BY <1>1, <2>1, InStepKept DEF IInv
<1>. QED
  BY <1>2, <1>3, <1>4 DEF IInv

\* A write that succeeds puts the piece that is due on the wire, and makes the
\* one after it due.
LEMMA WriteKeeps ==
    ASSUME IInv, NEW w \in Writers, Write(w)
    PROVE  IInv'
<1>. USE DEF IInv
<1>. DEFINE q == [nonce |-> frame[w].nonce, k |-> frame[w].done + 1]
            o == Other(At(w))
<1>1. /\ pc[w] = "write" /\ Len(wire[o]) < Room /\ wire' = Put(w)
      /\ UNCHANGED <<nonce, part, expect, shut>>
  BY DEF Write, CanWrite
<1>2. /\ At(w) \in Ends /\ o \in Ends /\ Other(o) = At(w)
      /\ Pieces \in Nat \ {0} /\ Room \in Nat
  BY EndsFacts, LinkAssumption
<1>3. /\ frame[w] \in [nonce : Nat, done : 0..Pieces] /\ frame[w].done < Pieces
      /\ frame[w].nonce + 1 = nonce[At(w)] /\ gate[At(w)] = w
  BY <1>1 DEF Exclusive, TypeOK
<1>4. q \in Piece
  BY <1>2, <1>3 DEF Piece
<1>5. /\ wire' \in [Ends -> Seq(Piece)]
      /\ \A e \in Ends : Len(wire'[e]) <= Room
  BY <1>1, <1>2, <1>4 DEF Put, TypeOK
<1>6. \/ /\ frame[w].done + 1 = Pieces /\ Return(w) /\ UNCHANGED frame
      \/ /\ frame[w].done + 1 # Pieces /\ UNCHANGED <<pc, gate, sent, reader>>
         /\ frame' = [frame EXCEPT ![w].done = @ + 1]
  BY DEF Write
<1>7. TypeOK' /\ Busy' /\ Exclusive' /\ NeverGarbled'
  <2>1. CASE Return(w) /\ UNCHANGED frame
    <3>1. /\ pc' \in [Writers -> {"idle", "wait", "encrypt", "write"}]
          /\ sent' \in [Threads -> 0..Sends]
          /\ gate' \in [Ends -> Writers \cup {Nobody}]
          /\ reader' \in [Ends -> {"read", "reply", "done", "garbled"}]
          /\ NeverGarbled' /\ Busy' /\ Exclusive'
      BY <1>1, <2>1, ReturnKeeps
    <3>2. TypeOK'
      BY <1>1, <1>5, <2>1, <3>1 DEF TypeOK
    <3>. QED
      BY <3>1, <3>2
  <2>2. CASE /\ frame[w].done + 1 # Pieces /\ UNCHANGED <<pc, gate, sent, reader>>
             /\ frame' = [frame EXCEPT ![w].done = @ + 1]
    <3>1. frame[w].done + 1 \in 0..Pieces /\ frame[w].nonce \in Nat
      BY <1>2, <1>3
    <3>2. frame' \in [Writers -> [nonce : Nat, done : 0..Pieces]]
      BY <2>2, <3>1 DEF TypeOK
    <3>3. TypeOK'
      BY <1>1, <1>5, <2>2, <3>2 DEF TypeOK
    <3>4. Exclusive'
      <4>1. frame'[w].done < Pieces /\ frame'[w].nonce = frame[w].nonce
        BY <1>2, <1>3, <2>2 DEF TypeOK
      <4>2. \A u \in Writers \ {w} : frame'[u] = frame[u]
        BY <2>2 DEF TypeOK
      <4>. QED
        BY <1>1, <2>2, <4>1, <4>2 DEF Exclusive
    <3>. QED
      BY <2>2, <3>3, <3>4 DEF Busy, NeverGarbled
  <2>. QED
    BY <1>6, <2>1, <2>2
<1>8. InStep'
  <2>1. CASE Cut
    <3>1. UNCHANGED wire /\ Cut'
      BY <1>1, <2>1 DEF Put, Cut
    <3>. QED
      BY <1>1, <3>1, InStepKept
  <2>2. CASE ~Cut
    <3>1. /\ wire' = [wire EXCEPT ![o] = Append(@, q)] /\ ~Cut'
          /\ wire'[o] = Append(wire[o], q) /\ wire[o] \in Seq(Piece)
      BY <1>1, <1>2, <2>2 DEF Put, Cut, TypeOK
    <3>2. \A p : Due(At(w), p) => p = q
      BY <1>1, OneWriter DEF Due
    <3>3. Tip(o) = q
      BY <1>2, <2>2, <3>2 DEF InStep, RunsOn
    <3>4. PICK t : t = q
      OBVIOUS
    <3>5. Due(At(w), After(t))'
      <4>1. CASE frame[w].done + 1 = Pieces /\ Return(w) /\ UNCHANGED frame
        <5>1. After(t) = [nonce |-> nonce[At(w)], k |-> 1]
          BY <1>2, <1>3, <3>4, <4>1 DEF After
        <5>2. pc' = [pc EXCEPT ![w] = "idle"]
          BY <4>1 DEF Return, PcIs
        <5>3. \A u \in Writers : At(u) = At(w) => pc'[u] # "write"
          BY <1>1, <5>2, OneWriter DEF TypeOK
        <5>. QED
          BY <1>1, <5>1, <5>3 DEF Due
      <4>2. CASE /\ frame[w].done + 1 # Pieces /\ UNCHANGED pc
                 /\ frame' = [frame EXCEPT ![w].done = @ + 1]
        <5>1. After(t) = [nonce |-> frame[w].nonce, k |-> (frame[w].done + 1) + 1]
          BY <1>2, <1>3, <3>4, <4>2 DEF After
        <5>2. frame'[w].nonce = frame[w].nonce /\ frame'[w].done = frame[w].done + 1
          BY <1>3, <4>2 DEF TypeOK
        <5>. QED
          BY <1>1, <4>2, <5>1, <5>2 DEF Due
      <4>. QED
        BY <1>6, <4>1, <4>2
    <3>6. wire'[o] # <<>> /\ Len(wire'[o]) = Len(wire[o]) + 1 /\ wire'[o][Len(wire'[o])] = t
      <4>1. \A s \in Seq(Piece) : LET a == Append(s, t)
                                  IN  a # <<>> /\ Len(a) = Len(s) + 1 /\ a[Len(a)] = t
        OBVIOUS
      <4>2. wire'[o] = Append(wire[o], t) /\ wire[o] \in Seq(Piece)
        BY <3>1, <3>4
      <4>. HIDE DEF q
      <4>. QED
        BY <4>1, <4>2
    <3>7. ASSUME NEW e \in Ends
          PROVE  PartOk(e)' /\ Chained(e)' /\ RunsOn(e)'
      <4>1. PartOk(e)'
        BY <1>1 DEF InStep, PartOk
      <4>2. CASE e = o
        <5>1. Awaited(o)' = Awaited(o)
          BY <1>1 DEF Awaited
        <5>2. wire'[o][1] = Awaited(o)
          BY <3>1, <3>3, <4>2 DEF InStep, Chained, Tip
        <5>3. ASSUME NEW i \in 1..(Len(wire'[o]) - 1)
              PROVE  wire'[o][i + 1] = After(wire'[o][i])
          <6>1. CASE i = Len(wire[o])
            BY <3>1, <3>3, <6>1 DEF Tip
          <6>2. CASE i # Len(wire[o])
            BY <3>1, <3>6, <4>2, <6>2 DEF InStep, Chained
          <6>. QED
            BY <6>1, <6>2
        <5>4. Chained(o)'
          BY <5>1, <5>2, <5>3 DEF Chained, After
        <5>5. Tip(o)' = After(t)
          BY <3>6 DEF Tip, After
        <5>. QED
          BY <1>2, <3>5, <4>1, <4>2, <5>4, <5>5 DEF RunsOn, Due
      <4>3. CASE e # o
        <5>1. wire'[e] = wire[e]
          BY <3>1, <4>3 DEF TypeOK
        <5>2. Chained(e)' /\ Tip(e)' = Tip(e)
          BY <1>1, <5>1 DEF InStep, Chained, Tip, Awaited, After
        <5>3. \A u \in Writers : At(u) = Other(e) => u # w
          BY <4>3, EndsFacts
        <5>4. \A u \in Writers \ {w} : pc'[u] = pc[u] /\ frame'[u] = frame[u]
          BY <1>6 DEF Return, PcIs, TypeOK
        <5>5. \A p : Due(Other(e), p) => Due(Other(e), p)'
          BY <1>1, <5>3, <5>4 DEF Due
        <5>6. Due(Other(e), Tip(e))
          BY <2>2 DEF InStep, RunsOn
        <5>. QED
          BY <4>1, <5>2, <5>5, <5>6 DEF RunsOn, Due
      <4>. QED
        BY <4>2, <4>3
    <3>. QED
      BY <3>7 DEF InStep
  <2>. QED
    BY <2>1, <2>2
<1>. QED
  BY <1>7, <1>8

\* The piece read is the one awaited, so the frame it completes decrypts, and
\* the piece behind it is awaited next.
LEMMA ReadKeeps ==
    ASSUME IInv, NEW e \in Ends, Read(e)
    PROVE  IInv'
<1>. USE DEF IInv
<1>. DEFINE q == wire[e]
<1>1. /\ reader[e] = "read" /\ q # <<>> /\ wire' = [wire EXCEPT ![e] = Tail(@)]
      /\ UNCHANGED <<pc, frame, sent, gate, nonce, shut>>
  BY DEF Read, CanRead, writing
<1>2. /\ q \in Seq(Piece) /\ Len(q) \in Nat /\ Len(q) > 0 /\ wire'[e] = Tail(q)
      /\ part[e] \in Seq(Piece) /\ Len(part[e]) < Pieces /\ Len(part[e]) \in Nat
      /\ expect[e] \in Nat /\ Pieces \in Nat \ {0}
  BY <1>1, LinkAssumption DEF TypeOK
<1>3. Head(q) = Awaited(e) /\ Head(q) \in Piece
  BY <1>1, <1>2 DEF InStep, Chained
<1>4. /\ Fetched(e) \in Seq(Piece) /\ Len(Fetched(e)) = Len(part[e]) + 1
      /\ \A i \in 1..(Len(part[e]) + 1) : Fetched(e)[i] = [nonce |-> expect[e], k |-> i]
  BY <1>2, <1>3 DEF Fetched, Awaited, InStep, PartOk
<1>5. part[e] \in [1..Len(part[e]) -> Piece]
  BY <1>2
<1>6. Len(part[e]) + 1 = Pieces => Decrypts(e)
  <2>. SUFFICES ASSUME Len(part[e]) + 1 = Pieces
                PROVE  Fetched(e) = [k \in 1..Pieces |-> [nonce |-> expect[e], k |-> k]]
    BY DEF Decrypts
  <2>1. Fetched(e) \in [1..Pieces -> Piece]
    BY <1>4
  <2>2. \A i \in 1..Pieces : Fetched(e)[i] = [nonce |-> expect[e], k |-> i]
    BY <1>4
  <2>. QED
    BY <2>1, <2>2
<1>7. \/ /\ Len(part[e]) + 1 < Pieces /\ part' = [part EXCEPT ![e] = Fetched(e)]
         /\ UNCHANGED <<expect, reader>>
      \/ /\ Len(part[e]) + 1 = Pieces /\ part' = [part EXCEPT ![e] = <<>>]
         /\ expect' = [expect EXCEPT ![e] = @ + 1]
         /\ \E next \in {"read", "reply"} : reader' = [reader EXCEPT ![e] = next]
  <2>1. CASE Len(part[e]) + 1 < Pieces
    BY <2>1 DEF Read
  <2>2. CASE ~(Len(part[e]) + 1 < Pieces)
    <3>1. Len(part[e]) + 1 = Pieces /\ Decrypts(e)
      BY <1>2, <1>6, <2>2
    <3>. QED
      BY <2>2, <3>1 DEF Read
  <2>. QED
    BY <2>1, <2>2
<1>8. TypeOK' /\ NeverGarbled'
  <2>1. reader' \in [Ends -> {"read", "reply", "done", "garbled"}] /\ NeverGarbled'
    <3>1. reader \in [Ends -> {"read", "reply", "done", "garbled"}]
          /\ \A f \in Ends : reader[f] # "garbled"
      BY DEF TypeOK, NeverGarbled
    <3>2. CASE reader' = reader
      BY <3>1, <3>2 DEF NeverGarbled
    <3>3. ASSUME NEW next \in {"read", "reply"}, reader' = [reader EXCEPT ![e] = next]
          PROVE  reader' \in [Ends -> {"read", "reply", "done", "garbled"}] /\ NeverGarbled'
      <4>1. next \in {"read", "reply", "done", "garbled"} /\ next # "garbled"
        OBVIOUS
      <4>2. \A f \in Ends : reader'[f] = IF f = e THEN next ELSE reader[f]
        BY <3>1, <3>3
      <4>. QED
        BY <3>1, <3>3, <4>1, <4>2 DEF NeverGarbled
    <3>. QED
      BY <1>7, <3>2, <3>3
  <2>2. expect' \in [Ends -> Nat]
    BY <1>2, <1>7 DEF TypeOK
  <2>3. part' \in [Ends -> Seq(Piece)] /\ \A f \in Ends : Len(part'[f]) < Pieces
    <3>1. /\ <<>> \in Seq(Piece) /\ Len(<<>>) = 0 /\ 0 < Pieces
          /\ part \in [Ends -> Seq(Piece)] /\ \A f \in Ends : Len(part[f]) < Pieces
      BY <1>2 DEF TypeOK
    <3>2. \/ part' = [part EXCEPT ![e] = <<>>]
          \/ part' = [part EXCEPT ![e] = Fetched(e)] /\ Len(part[e]) + 1 < Pieces
      BY <1>7
    <3>. QED
      BY <1>4, <3>1, <3>2
  <2>4. Tail(q) \in Seq(Piece) /\ Len(Tail(q)) = Len(q) - 1
    BY <1>1, <1>2
  <2>5. wire' \in [Ends -> Seq(Piece)] /\ \A f \in Ends : Len(wire'[f]) <= Room
    BY <1>1, <1>2, <2>4, LinkAssumption DEF TypeOK
  <2>. QED
    BY <1>1, <2>1, <2>2, <2>3, <2>5 DEF TypeOK
<1>9. Busy' /\ Exclusive'
  BY <1>1 DEF Busy, Exclusive
<1>10. \A f \in Ends : \A p : Due(f, p) => Due(f, p)'
  BY <1>1 DEF Due
<1>11. Awaited(e)' = After(q[1])
  BY <1>2, <1>3, <1>4, <1>7 DEF Awaited, After, TypeOK
<1>12. PartOk(e)'
  <2>1. CASE part' = [part EXCEPT ![e] = Fetched(e)] /\ UNCHANGED expect
    <3>1. part'[e] = Fetched(e) /\ DOMAIN Fetched(e) = 1..(Len(part[e]) + 1)
      BY <1>4, <2>1 DEF TypeOK
    <3>. QED
      BY <1>4, <2>1, <3>1 DEF PartOk
  <2>2. CASE part' = [part EXCEPT ![e] = <<>>]
    <3>1. part'[e] = <<>>
      BY <2>2 DEF TypeOK
    <3>. QED
      BY <3>1 DEF PartOk
  <2>. QED
    BY <1>7, <2>1, <2>2
<1>13. /\ Tail(q) \in Seq(Piece) /\ Len(Tail(q)) = Len(q) - 1
       /\ \A i \in 1..(Len(q) - 1) : Tail(q)[i] = q[i + 1]
  BY <1>1, <1>2
<1>14. Chained(e)'
  <2>1. Tail(q) # <<>> => Tail(q)[1] = After(q[1])
    BY <1>2, <1>13 DEF InStep, Chained
  <2>2. \A i \in 1..(Len(Tail(q)) - 1) : Tail(q)[i + 1] = After(Tail(q)[i])
    BY <1>2, <1>13 DEF InStep, Chained
  <2>. QED
    BY <1>2, <1>11, <2>1, <2>2 DEF Chained, After
<1>15. Tip(e)' = Tip(e)
  <2>1. CASE Len(q) = 1
    <3>2. Tail(q) = <<>>
      BY <1>1, <1>2, <2>1, TailEnds
    <3>3. Tip(e) = After(q[1])
      BY <1>1, <2>1 DEF Tip
    <3>. QED
      BY <1>2, <1>11, <3>2, <3>3 DEF Tip
  <2>2. CASE Len(q) # 1
    <3>1. Tail(q) # <<>> /\ Tail(q)[Len(Tail(q))] = q[Len(q)]
      BY <1>1, <1>2, <2>2, TailEnds
    <3>. QED
      BY <1>1, <1>2, <3>1 DEF Tip, After
  <2>. QED
    BY <2>1, <2>2
<1>16. ASSUME NEW f \in Ends, f # e
       PROVE  PartOk(f)' /\ Chained(f)' /\ Tip(f)' = Tip(f)
  <2>1. wire'[f] = wire[f] /\ part'[f] = part[f] /\ expect'[f] = expect[f]
    BY <1>1, <1>7, <1>16 DEF TypeOK
  <2>. QED
    <3>1. PartOk(f) /\ Chained(f)
      BY DEF InStep
    <3>2. Awaited(f)' = Awaited(f)
      BY <2>1 DEF Awaited
    <3>. QED
      BY <2>1, <3>1, <3>2 DEF PartOk, Chained, Tip, After
<1>17. InStep'
  <2>. SUFFICES ASSUME NEW f \in Ends
                PROVE  PartOk(f)' /\ Chained(f)' /\ RunsOn(f)'
    BY DEF InStep
  <2>1. PartOk(f)' /\ Chained(f)' /\ Tip(f)' = Tip(f)
    BY <1>12, <1>14, <1>15, <1>16
  <2>2. Cut' = Cut
    BY <1>1 DEF Cut
  <2>3. \A p : Due(Other(f), p) => Due(Other(f), p)'
    BY <1>10, EndsFacts
  <2>. QED
    BY <2>1, <2>2, <2>3 DEF InStep, RunsOn, Due
<1>. QED
  BY <1>8, <1>9, <1>17

\* Closing an end, and stuttering, move nothing.
LEMMA CloseKeeps ==
    ASSUME IInv, \/ \E e \in Ends : RecvFails(e) \/ Close(e)
                 \/ UNCHANGED vars
    PROVE  IInv'
<1>1. /\ UNCHANGED <<pc, frame, sent, gate, nonce, wire, part, expect>>
      /\ shut \subseteq shut' /\ shut' \in SUBSET Ends
      /\ \A e \in Ends : reader'[e] \in {reader[e], "done"}
      /\ reader' \in [Ends -> {"read", "reply", "done", "garbled"}]
  BY DEF RecvFails, Close, vars, writing, reading, IInv, TypeOK
<1>2. TypeOK' /\ NeverGarbled' /\ Busy' /\ Exclusive'
  BY <1>1 DEF IInv, TypeOK, NeverGarbled, Busy, Exclusive
<1>3. InStep'
  <2>1. ~Cut' => ~Cut
    BY <1>1 DEF Cut
  <2>2. \A e \in Ends : \A p : Due(e, p) => Due(e, p)'
    BY <1>1 DEF Due
  <2>. QED
    BY <1>1, <2>1, <2>2, InStepKept DEF IInv
<1>. QED
  BY <1>2, <1>3 DEF IInv

-----------------------------------------------------------------------------
(* The invariant.                                                          *)

LEMMA InitHolds == Init => IInv
<1>. SUFFICES ASSUME Init PROVE IInv
  OBVIOUS
<1>1. TypeOK
  BY LinkAssumption DEF Init, TypeOK
<1>2. Busy /\ Exclusive /\ NeverGarbled
  BY DEF Init, Busy, Exclusive, NeverGarbled, Writers
<1>3. InStep
  BY EndsFacts DEF Init, InStep, PartOk, Chained, RunsOn, Tip, Awaited, Due
<1>. QED
  BY <1>1, <1>2, <1>3 DEF IInv

LEMMA StepKeeps == IInv /\ [Next]_vars => IInv'
<1>. SUFFICES ASSUME IInv, [Next]_vars PROVE IInv'
  OBVIOUS
<1>1. CASE \/ \E t \in Threads : Call(t)
           \/ \E w \in Writers : TakeGate(w)
           \/ \E e \in Ends : Reply(e)
  BY <1>1, PrepareKeeps
<1>2. CASE \E w \in Writers : Encrypt(w)
  BY <1>2, EncryptKeeps
<1>3. CASE \E w \in Writers : Write(w)
  BY <1>3, WriteKeeps
<1>4. CASE \E w \in Writers : WriteFails(w)
  BY <1>4, WriteFailsKeeps
<1>5. CASE \E e \in Ends : Read(e)
  BY <1>5, ReadKeeps
<1>6. CASE \/ \E e \in Ends : RecvFails(e) \/ Close(e)
           \/ UNCHANGED vars
  BY <1>6, CloseKeeps
<1>. QED
  BY <1>1, <1>2, <1>3, <1>4, <1>5, <1>6 DEF Next, System

LEMMA Invariance == Spec => []IInv
  BY InitHolds, StepKeeps, PTL DEF Spec

\* The state of both ends keeps its type: no buffer overflows, and no frame
\* is written past its end.
THEOREM LinkTypeCorrect == Spec => []TypeOK
<1>1. IInv => TypeOK
  BY DEF IInv
<1>. QED
  BY Invariance, <1>1, PTL

\* Every frame decrypts, however many threads send on the link: write_gate
\* keeps the cipher's numbers and the bytes on the wire in one order.
THEOREM FramesDecrypt == Spec => []NeverGarbled
<1>1. IInv => NeverGarbled
  BY DEF IInv
<1>. QED
  BY Invariance, <1>1, PTL

-----------------------------------------------------------------------------
(* Nothing waits for ever on a link that is up.                            *)

\* Whoever holds a gate is inside send(); a reader ends with the link, and
\* answers only at an end that may.
Held == \A e \in Ends : gate[e] # Nobody =>
           At(gate[e]) = e /\ pc[gate[e]] \in {"encrypt", "write"}
EndsWithLink == \A e \in Ends : reader[e] = "done" => Cut
MayAnswer == \A e \in Ends : reader[e] = "reply" => e \in MayReply
Waiting == Held /\ EndsWithLink /\ MayAnswer

\* A writer that gives the gate back is not the holder of the other.
LEMMA HeldReturned ==
    ASSUME IInv, Held, NEW w \in Writers, pc[w] = "write", Return(w)
    PROVE  Held'
<1>. SUFFICES ASSUME NEW e \in Ends, gate'[e] # Nobody
              PROVE  At(gate'[e]) = e /\ pc'[gate'[e]] \in {"encrypt", "write"}
  BY DEF Held
<1>1. gate' = [gate EXCEPT ![At(w)] = Nobody] /\ pc' = [pc EXCEPT ![w] = "idle"]
  BY DEF Return, PcIs
<1>2. e # At(w) /\ gate'[e] = gate[e]
  BY <1>1 DEF IInv, TypeOK
<1>3. gate[e] \in Writers /\ gate[e] # w
  BY <1>2 DEF IInv, TypeOK, Held
<1>. QED
  BY <1>1, <1>2, <1>3 DEF Held, IInv, TypeOK

\* Every step keeps what waits.
LEMMA WaitingStep == IInv /\ Waiting /\ [Next]_vars => Waiting'
<1>. SUFFICES ASSUME IInv, Waiting, [Next]_vars PROVE Waiting'
  OBVIOUS
<1>. USE DEF reading, writing
<1>t. /\ pc \in [Writers -> {"idle", "wait", "encrypt", "write"}]
      /\ gate \in [Ends -> Writers \cup {Nobody}]
      /\ reader \in [Ends -> {"read", "reply", "done", "garbled"}]
      /\ \A w \in Writers : At(w) \in Ends
  BY EndsFacts DEF IInv, TypeOK
<1>1. CASE (\E t \in Threads : Call(t)) \/ \E e \in Ends : Reply(e)
  <2>1. /\ UNCHANGED <<gate, reader, shut>>
        /\ \E w \in Writers : pc[w] = "idle" /\ pc' = [pc EXCEPT ![w] = "wait"]
    BY <1>1 DEF Call, CanCall, Reply, CanReply, PcIs, Writers
  <2>. QED
    BY <1>t, <2>1 DEF Waiting, Held, EndsWithLink, MayAnswer, Cut
<1>2. ASSUME NEW w \in Writers, TakeGate(w) PROVE Waiting'
  <2>1. /\ UNCHANGED <<reader, shut>> /\ gate[At(w)] = Nobody
        /\ pc' = [pc EXCEPT ![w] = "encrypt"] /\ gate' = [gate EXCEPT ![At(w)] = w]
    BY <1>2 DEF TakeGate, CanTakeGate, PcIs
  <2>. QED
    BY <1>t, <2>1 DEF Waiting, Held, EndsWithLink, MayAnswer, Cut
<1>3. ASSUME NEW w \in Writers, Encrypt(w) PROVE Waiting'
  <2>1. UNCHANGED <<gate, reader, shut>> /\ pc' = [pc EXCEPT ![w] = "write"]
    BY <1>3 DEF Encrypt, PcIs
  <2>. QED
    BY <1>t, <2>1 DEF Waiting, Held, EndsWithLink, MayAnswer, Cut
<1>4. ASSUME NEW w \in Writers, Write(w) \/ WriteFails(w) PROVE Waiting'
  <2>1. /\ UNCHANGED shut /\ pc[w] = "write"
        /\ Return(w) \/ UNCHANGED <<pc, gate, reader>>
    BY <1>4 DEF Write, CanWrite, WriteFails
  <2>2. Held'
    <3>1. CASE Return(w)
      BY <2>1, <3>1, HeldReturned DEF Waiting
    <3>. QED
      BY <2>1, <3>1 DEF Waiting, Held
  <2>3. \A e \in Ends : reader'[e] \in {reader[e], "read"}
    BY <1>t, <2>1 DEF Return
  <2>. QED
    BY <2>1, <2>2, <2>3 DEF Waiting, EndsWithLink, MayAnswer, Cut
<1>5. ASSUME NEW e \in Ends, Read(e) PROVE Waiting'
  <2>1. /\ UNCHANGED <<pc, gate, shut>>
        /\ \/ UNCHANGED reader
           \/ reader' = [reader EXCEPT ![e] = "read"]
           \/ reader' = [reader EXCEPT ![e] = "reply"] /\ e \in MayReply
           \/ reader' = [reader EXCEPT ![e] = "garbled"]
    BY <1>5 DEF Read
  <2>. QED
    BY <1>t, <2>1 DEF Waiting, Held, EndsWithLink, MayAnswer, Cut
<1>6. ASSUME NEW e \in Ends, RecvFails(e) \/ Close(e) PROVE Waiting'
  <2>1. /\ UNCHANGED <<pc, gate>> /\ Cut'
        /\ UNCHANGED reader \/ reader' = [reader EXCEPT ![e] = "done"]
    BY <1>6 DEF RecvFails, Close, Cut
  <2>. QED
    BY <1>t, <2>1 DEF Waiting, Held, EndsWithLink, MayAnswer
<1>7. CASE UNCHANGED vars
  BY <1>7 DEF vars, Waiting, Held, EndsWithLink, MayAnswer, Cut
<1>. QED
  BY <1>1, <1>2, <1>3, <1>4, <1>5, <1>6, <1>7 DEF Next, System

LEMMA WaitingAlways == Spec => []Waiting
<1>1. Init => Waiting
  BY DEF Init, Waiting, Held, EndsWithLink, MayAnswer
<1>. QED
  BY <1>1, Invariance, WaitingStep, PTL DEF Spec

\* When nothing is written at an end and nothing is on the wire, all frames
\* encrypted there have been decrypted at the other.
LEMMA AllRead ==
    ASSUME IInv, ~Cut, NEW e \in Ends, wire[e] = <<>>,
           \A w \in Writers : At(w) = Other(e) => pc[w] = "idle"
    PROVE  expect[e] = nonce[Other(e)]
<1>1. Due(Other(e), Awaited(e))
  BY DEF IInv, InStep, RunsOn, Tip
<1>2. Awaited(e) = [nonce |-> nonce[Other(e)], k |-> 1]
  BY <1>1 DEF Due
<1>. QED
  BY <1>2 DEF Awaited

\* Where nobody can take a step and the way out is clear, everybody is idle.
LEMMA AllIdle ==
    ASSUME IInv, Waiting, ~Cut, NEW e \in Ends, Resting(e), wire[Other(e)] = <<>>
    PROVE  /\ \A w \in Writers : At(w) = e => pc[w] = "idle"
           /\ wire[e] = <<>>
<1>t. /\ pc \in [Writers -> {"idle", "wait", "encrypt", "write"}]
      /\ gate \in [Ends -> Writers \cup {Nobody}]
      /\ reader[e] \in {"read", "reply", "done", "garbled"}
  BY DEF IInv, TypeOK
<1>1. ASSUME NEW w \in Writers, At(w) = e PROVE pc[w] \notin {"encrypt", "write"}
  <2>1. e \notin shut /\ Len(wire[Other(e)]) < Room
    BY LinkAssumption DEF Cut
  <2>. QED
    BY <1>1, <2>1 DEF Resting, CanWrite
<1>2. gate[e] = Nobody
  BY <1>t, <1>1 DEF Waiting, Held
<1>3. ASSUME NEW w \in Writers, At(w) = e PROVE pc[w] = "idle"
  BY <1>t, <1>1, <1>2, <1>3 DEF Resting, CanTakeGate
<1>4. e \in Writers /\ At(e) = e
  BY DEF Writers, At
<1>5. reader[e] # "reply"
  BY <1>3, <1>4 DEF Resting, CanReply
<1>6. reader[e] # "garbled" /\ reader[e] # "done"
  BY DEF IInv, NeverGarbled, Waiting, EndsWithLink
<1>7. wire[e] = <<>>
  BY <1>t, <1>5, <1>6 DEF Resting, CanRead
<1>. QED
  BY <1>3, <1>7

\* With any number of threads and however small the buffers, two ends that
\* send at once cannot block each other as long as one of them has a reader
\* that does not send: when nobody can take a step everything that was sent
\* has been received, for the cipher is not held while a frame is written.
THEOREM EverythingDoesArrive ==
    ASSUME MayReply # Ends
    PROVE  Spec => []EverythingArrives
<1>1. IInv /\ Waiting => EverythingArrives
  <2>. SUFFICES ASSUME IInv, Waiting, ~Cut, AtRest
                PROVE  /\ \A t \in Threads : sent[t] = Sends
                       /\ \A e \in Ends : expect[e] = nonce[Other(e)]
    BY DEF EverythingArrives
  <2>1. PICK q \in Ends : q \notin MayReply
    BY LinkAssumption
  <2>2. reader[q] = "read"
    BY <2>1 DEF IInv, TypeOK, NeverGarbled, Waiting, EndsWithLink, MayAnswer
  <2>3. wire[q] = <<>>
    BY <2>2 DEF AtRest, Resting, CanRead
  <2>4. /\ \A w \in Writers : At(w) = Other(q) => pc[w] = "idle"
        /\ wire[Other(q)] = <<>>
    <3>1. Resting(Other(q)) /\ wire[Other(Other(q))] = <<>> /\ Other(q) \in Ends
      BY <2>3, EndsFacts DEF AtRest
    <3>. QED
      BY <3>1, AllIdle
  <2>5. \A w \in Writers : At(w) = q => pc[w] = "idle"
    BY <2>4, AllIdle DEF AtRest
  <2>6. \A e \in Ends : e = q \/ e = Other(q)
    BY DEF Ends, Other
  <2>7. ASSUME NEW t \in Threads PROVE sent[t] = Sends
    <3>1. t \in Writers /\ At(t) = Home[t] /\ Home[t] \in Ends /\ sent[t] \in 0..Sends
      BY LinkAssumption DEF Writers, At, IInv, TypeOK
    <3>2. pc[t] = "idle" /\ ~CanCall(t)
      BY <2>4, <2>5, <2>6, <3>1 DEF AtRest, Resting
    <3>. QED
      BY <3>1, <3>2, LinkAssumption DEF CanCall
  <2>8. ASSUME NEW e \in Ends PROVE expect[e] = nonce[Other(e)]
    <3>1. wire[e] = <<>> /\ \A w \in Writers : At(w) = Other(e) => pc[w] = "idle"
      BY <2>3, <2>4, <2>5, <2>6, EndsFacts
    <3>. QED
      BY <3>1, AllRead
  <2>. QED
    BY <2>7, <2>8
<1>. QED
  BY <1>1, Invariance, WaitingAlways, PTL

=============================================================================
