--------------------------- MODULE SessionProofs ---------------------------
(***************************************************************************)
(* What the link promises holds from the first byte, a handshake waits no  *)
(* longer than its reads may, and nobody is left in the middle of one.     *)
(***************************************************************************)
EXTENDS Session, SecureLinkProofs, FiniteSetTheorems

\* Every step of the session is a step of the link alone, or leaves the link
\* as it is.
LEMMA SessionStep ==
    ASSUME [SessionNext]_<<vars, handshake>>
    PROVE  [Next]_vars
<1>1. ASSUME NEW e \in Ends, WriteMessage(e) \/ ReadMessage(e) \/ Stall(e)
      PROVE  [Next]_vars
  BY <1>1 DEF WriteMessage, ReadMessage, Stall
<1>2. ASSUME NEW e \in Ends, HandshakeFails(e)
      PROVE  [Next]_vars
  BY <1>2 DEF HandshakeFails, Next
<1>3. CASE TimePasses
  BY <1>3 DEF TimePasses
<1>4. CASE LinkSystem
  BY <1>4 DEF LinkSystem, Next, System
<1>5. CASE LinkCloses
  BY <1>5 DEF LinkCloses, Next
<1>6. CASE UNCHANGED <<vars, handshake>>
  BY <1>6
<1> QED
  BY <1>1, <1>2, <1>3, <1>4, <1>5, <1>6 DEF SessionNext, SessionSystem

\* A link that begins with its handshake, of which either end may fail, stop
\* or still be reading the last message while frames arrive, behaves as
\* SecureLink.tla says a link does.
THEOREM LinksSecurelyHolds == SessionSpec => LinksSecurely
<1>1. SessionInit => Init
  BY DEF SessionInit
<1>2. [SessionNext]_<<vars, handshake>> => [Next]_vars
  BY SessionStep
<1> QED
  BY <1>1, <1>2, PTL DEF SessionSpec, LinksSecurely, Spec

\* So no frame fails to decrypt, wherever the two handshakes stand.
THEOREM SessionFramesDecrypt == SessionSpec => []NeverGarbled
BY LinksSecurelyHolds, FramesDecrypt, PTL DEF LinksSecurely

-----------------------------------------------------------------------------
(* How long a handshake may wait.                                          *)

\* The pieces e has read of the messages that it reads.
Have(e) ==
    got[e] + IF e = Dialler THEN (IF step[e] >= 2 THEN Reads ELSE 0)
             ELSE IF step[e] = 3 THEN Reads + Reads
             ELSE IF step[e] >= 1 THEN Reads ELSE 0

StepOK ==
    /\ step \in [Ends -> 0..3]
    /\ got \in [Ends -> 0..(Reads - 1)]
    /\ quiet \in [Ends -> 0..Limit]
    /\ spent \in [Ends -> Nat]

\* An end has waited for, or read part of, nothing but a message that it reads.
OnlyWhenAwaiting ==
    \A e \in Ends : quiet[e] > 0 \/ got[e] > 0 =>
        step[e] < 3 /\ Writer(Turn(e)) # e

\* Every piece that was read was waited for at most as long as one read() may.
PaidFor == \A e \in Ends : spent[e] <= Limit * Have(e) + quiet[e]

WaitInv == StepOK /\ OnlyWhenAwaiting /\ PaidFor

LEMMA Distribute ==
    /\ \A n \in Nat : Limit * (n + 1) = Limit * n + Limit
    /\ \A m, n \in Nat : m <= n => Limit * m <= Limit * n
<1> Limit \in Nat
  BY SessionAssumption
<1>1. \A n \in Nat : Limit * (n + 1) = Limit * n + Limit
  OBVIOUS
<1>2. ASSUME NEW m \in Nat, NEW n \in Nat, m <= n
      PROVE  Limit * m <= Limit * n
  <2>1. PICK d \in Nat : n = m + d
    <3>1. n - m \in Nat /\ n = m + (n - m)
      BY <1>2
    <3> QED
      BY <3>1
  <2>2. Limit * n = Limit * m + Limit * d
    BY <2>1
  <2>3. Limit * d \in Nat /\ Limit * m \in Nat
    OBVIOUS
  <2> QED
    BY <2>2, <2>3
<1> QED
  BY <1>1, <1>2

LEMMA ThreeMessages == Cardinality(Messages) = 3
<1>1. 1 \in Int /\ 3 \in Int /\ ~(1 > 3) /\ 3 - 1 + 1 = 3
  OBVIOUS
<1>2. Cardinality(1..3) = IF 1 > 3 THEN 0 ELSE 3 - 1 + 1
  BY <1>1, FS_Interval, Zenon
<1> QED
  BY <1>1, <1>2 DEF Messages

\* The bound of WaitIsBounded, in the pieces an end has to read.
PiecesToRead(e) == IF e = Dialler THEN Reads ELSE Reads + Reads

LEMMA BoundInPieces ==
    ASSUME NEW e \in Ends
    PROVE  Limit * Reads * Cardinality({m \in Messages : Writer(m) # e})
              = Limit * PiecesToRead(e)
<1> Limit \in Nat /\ Reads \in Nat
  BY SessionAssumption
<1>1. CASE e = Dialler
  <2>1. {m \in Messages : Writer(m) # e} = {2}
    BY <1>1 DEF Messages, Writer, Dialler, Listener
  <2>2. Cardinality({2}) = 1
    BY FS_Singleton
  <2>3. Limit * Reads * 1 = Limit * Reads
    OBVIOUS
  <2> QED
    BY <1>1, <2>1, <2>2, <2>3 DEF PiecesToRead
<1>2. CASE e # Dialler
  <2>1. {m \in Messages : Writer(m) # e} = {1} \cup {3}
    BY <1>2 DEF Messages, Writer, Dialler, Listener, Ends
  <2>2. IsFiniteSet({1}) /\ Cardinality({1}) = 1 /\ 3 \notin {1}
    BY FS_Singleton
  <2>3. Cardinality({1} \cup {3}) = 2
    BY <2>2, FS_AddElement
  <2>4. Limit * Reads * 2 = Limit * (Reads + Reads)
    OBVIOUS
  <2> QED
    BY <1>2, <2>1, <2>3, <2>4 DEF PiecesToRead
<1> QED
  BY <1>1, <1>2

\* A message is written by an end that waits for nothing, and changes nothing
\* that it has read.
LEMMA WriteKeepsWaitInv ==
    ASSUME WaitInv, NEW e \in Ends, WriteMessage(e)
    PROVE  WaitInv'
<1> USE SessionAssumption
<1>1. step[e] \in 0..2 /\ Writer(step[e] + 1) = e /\ step' = [step EXCEPT ![e] = @ + 1]
  <2>1. Cardinality(Messages) = 3
    BY ThreeMessages
  <2> QED
    BY <2>1 DEF WaitInv, StepOK, WriteMessage, CanWriteMessage, Shaking, Up, Turn
<1>2. UNCHANGED <<got, quiet, spent>>
  BY DEF WriteMessage
<1>3. StepOK'
  BY <1>1, <1>2 DEF WaitInv, StepOK
<1>4. quiet[e] = 0 /\ got[e] = 0
  BY <1>1 DEF WaitInv, StepOK, OnlyWhenAwaiting, Turn
<1>5. OnlyWhenAwaiting'
  BY <1>1, <1>2, <1>4 DEF WaitInv, StepOK, OnlyWhenAwaiting, Turn
<1>6. \A f \in Ends : Have(f)' = Have(f)
  BY <1>1, <1>2 DEF WaitInv, StepOK, Have, Writer, Dialler, Listener, Ends
<1>7. PaidFor'
  BY <1>2, <1>6 DEF WaitInv, PaidFor
<1> QED
  BY <1>3, <1>5, <1>7 DEF WaitInv

\* A piece that is read pays for the wait for it.
LEMMA ReadKeepsWaitInv ==
    ASSUME WaitInv, NEW e \in Ends, ReadMessage(e)
    PROVE  WaitInv'
<1> USE SessionAssumption
<1>1. step[e] \in 0..2 /\ Writer(step[e] + 1) # e
  <2>1. Cardinality(Messages) = 3
    BY ThreeMessages
  <2> QED
    BY <2>1 DEF WaitInv, StepOK, ReadMessage, CanReadMessage, Awaiting,
        Shaking, Up, Turn
<1>2. quiet' = [quiet EXCEPT ![e] = 0] /\ spent' = spent
  BY DEF ReadMessage
<1>3. \/ got[e] + 1 < Reads /\ got' = [got EXCEPT ![e] = @ + 1] /\ step' = step
      \/ got[e] + 1 = Reads /\ got' = [got EXCEPT ![e] = 0]
         /\ step' = [step EXCEPT ![e] = @ + 1]
  BY DEF ReadMessage, Turn
<1>4. StepOK'
  BY <1>1, <1>2, <1>3 DEF WaitInv, StepOK
<1>5. OnlyWhenAwaiting'
  BY <1>1, <1>2, <1>3 DEF WaitInv, StepOK, OnlyWhenAwaiting, Turn
<1>6. Have(e)' = Have(e) + 1 /\ Have(e) \in Nat
  BY <1>1, <1>3 DEF WaitInv, StepOK, Have, Writer, Dialler, Listener, Ends
<1>7. \A f \in Ends \ {e} : Have(f)' = Have(f)
  BY <1>3 DEF WaitInv, StepOK, Have
<1>8. ASSUME NEW f \in Ends
      PROVE  spent'[f] <= Limit * Have(f)' + quiet'[f]
  <2>1. CASE f = e
    <3>1. Limit * Have(e)' = Limit * Have(e) + Limit
      BY <1>6, Distribute
    <3>2. Limit * Have(e) \in Nat
      BY <1>6
    <3>3. spent[e] <= Limit * Have(e) + quiet[e] /\ quiet[e] \in 0..Limit /\ spent[e] \in Nat
      BY DEF WaitInv, StepOK, PaidFor
    <3>4. quiet'[e] = 0
      BY <1>2 DEF WaitInv, StepOK
    <3> HIDE DEF Have
    <3> QED
      BY <1>2, <2>1, <3>1, <3>2, <3>3, <3>4
  <2>2. CASE f # e
    BY <1>2, <1>7, <2>2 DEF WaitInv, StepOK, PaidFor
  <2> QED
    BY <2>1, <2>2
<1>9. PaidFor'
  BY <1>8 DEF PaidFor
<1> QED
  BY <1>4, <1>5, <1>9 DEF WaitInv

\* Time that passes is time that is waited.
LEMMA TimeKeepsWaitInv ==
    ASSUME WaitInv, TimePasses
    PROVE  WaitInv'
<1> USE SessionAssumption
<1>1. UNCHANGED <<step, got>>
  BY DEF TimePasses
<1>2. \A e \in Waits : step[e] \in 0..2 /\ Writer(step[e] + 1) # e /\ quiet[e] < Limit
  <2>1. Cardinality(Messages) = 3
    BY ThreeMessages
  <2> QED
    BY <2>1 DEF WaitInv, StepOK, TimePasses, TimeCanPass, Waits, Awaiting,
        Shaking, Up, Turn
<1>3. \A e \in Ends :
         \/ e \in Waits /\ quiet'[e] = quiet[e] + 1 /\ spent'[e] = spent[e] + 1
         \/ quiet'[e] = quiet[e] /\ spent'[e] = spent[e]
  BY DEF TimePasses
<1>4. StepOK'
  BY <1>1, <1>2, <1>3 DEF WaitInv, StepOK, TimePasses
<1>5. OnlyWhenAwaiting'
  BY <1>1, <1>2, <1>3 DEF WaitInv, StepOK, OnlyWhenAwaiting, Turn
<1>6. \A e \in Ends : Have(e)' = Have(e) /\ Have(e) \in Nat
  BY <1>1 DEF Have, WaitInv, StepOK
<1>7. ASSUME NEW e \in Ends
      PROVE  spent'[e] <= Limit * Have(e)' + quiet'[e]
  <2>1. Limit * Have(e) \in Nat /\ Have(e)' = Have(e)
    BY <1>6
  <2>2. spent[e] <= Limit * Have(e) + quiet[e] /\ quiet[e] \in Nat /\ spent[e] \in Nat
    BY DEF WaitInv, StepOK, PaidFor
  <2> QED
    BY <1>3, <2>1, <2>2
<1>8. PaidFor'
  BY <1>7 DEF PaidFor
<1> QED
  BY <1>4, <1>5, <1>8 DEF WaitInv

LEMMA WaitInvStep ==
    ASSUME WaitInv, [SessionNext]_<<vars, handshake>>
    PROVE  WaitInv'
<1>1. ASSUME NEW e \in Ends, WriteMessage(e)
      PROVE  WaitInv'
  BY <1>1, WriteKeepsWaitInv
<1>2. ASSUME NEW e \in Ends, ReadMessage(e)
      PROVE  WaitInv'
  BY <1>2, ReadKeepsWaitInv
<1>3. CASE TimePasses
  BY <1>3, TimeKeepsWaitInv
<1>4. UNCHANGED <<step, got, quiet, spent>> => WaitInv'
  BY DEF WaitInv, StepOK, OnlyWhenAwaiting, PaidFor, Have, Turn
<1>5. ASSUME NEW e \in Ends, HandshakeFails(e) \/ Stall(e)
      PROVE  WaitInv'
  BY <1>4, <1>5 DEF HandshakeFails, Stall
<1>6. CASE LinkSystem \/ LinkCloses \/ UNCHANGED <<vars, handshake>>
  BY <1>4, <1>6 DEF LinkSystem, LinkCloses, handshake
<1> QED
  BY <1>1, <1>2, <1>3, <1>5, <1>6 DEF SessionNext, SessionSystem

\* What was read is at most what there is to read, and while a read() waits it
\* is less.
LEMMA WaitInvBounds == WaitInv => WaitIsBounded
<1> SUFFICES ASSUME WaitInv, NEW e \in Ends
             PROVE  spent[e] <= Limit * PiecesToRead(e)
  BY BoundInPieces DEF WaitIsBounded
<1> Limit \in Nat /\ Reads \in Nat \ {0}
  BY SessionAssumption
<1> DEFINE all == PiecesToRead(e)
<1>1. Have(e) \in Nat /\ all \in Nat /\ Have(e) <= all
  BY DEF WaitInv, StepOK, Have, PiecesToRead, OnlyWhenAwaiting, Writer, Turn,
         Dialler, Listener, Ends
<1>2. quiet[e] > 0 => Have(e) + 1 <= all
  BY DEF WaitInv, StepOK, Have, PiecesToRead, OnlyWhenAwaiting, Writer, Turn,
         Dialler, Listener, Ends
<1>3. /\ spent[e] <= Limit * Have(e) + quiet[e]
      /\ spent[e] \in Nat /\ quiet[e] \in 0..Limit
  BY DEF WaitInv, StepOK, PaidFor
<1>4. /\ Limit * Have(e) \in Nat /\ Limit * all \in Nat
      /\ Limit * Have(e) <= Limit * all
  BY <1>1, Distribute
<1>5. quiet[e] > 0 => Limit * Have(e) + Limit <= Limit * all
  <2>1. Limit * (Have(e) + 1) = Limit * Have(e) + Limit
    BY <1>1, Distribute
  <2>2. Have(e) + 1 <= all => Limit * (Have(e) + 1) <= Limit * all
    BY <1>1, Distribute
  <2> QED
    BY <1>2, <2>1, <2>2
<1> HIDE DEF all
<1> QED
  BY <1>3, <1>4, <1>5 DEF all

\* For any timeout and however the messages come in pieces, what an end waits
\* in its whole handshake is the timeout times the pieces it reads: bounded,
\* but not by the timeout itself.
THEOREM HandshakeWaitIsBounded == SessionSpec => []WaitIsBounded
<1>1. SessionInit => WaitInv
  BY SessionAssumption
     DEF SessionInit, WaitInv, StepOK, OnlyWhenAwaiting, PaidFor, Have
<1>2. WaitInv /\ [SessionNext]_<<vars, handshake>> => WaitInv'
  BY WaitInvStep
<1> QED
  BY <1>1, <1>2, WaitInvBounds, PTL DEF SessionSpec
-----------------------------------------------------------------------------
(* Who waits for whom when everybody waits.                                *)

\* A handshake that fails closes its end.
LEMMA FailedIsShut == SessionSpec => [](failed \subseteq shut)
<1>1. SessionInit => failed \subseteq shut
  BY DEF SessionInit
<1>2. failed \subseteq shut /\ [SessionNext]_<<vars, handshake>> => (failed \subseteq shut)'
  <2>. SUFFICES ASSUME failed \subseteq shut, [SessionNext]_<<vars, handshake>>
                PROVE  failed' \subseteq shut'
    OBVIOUS
  <2>1. ASSUME NEW e \in Ends, HandshakeFails(e) PROVE failed' \subseteq shut'
    BY <2>1 DEF HandshakeFails, Close
  <2>2. ASSUME NEW e \in Ends, WriteMessage(e) \/ ReadMessage(e) \/ Stall(e)
        PROVE  failed' \subseteq shut'
    BY <2>2 DEF WriteMessage, ReadMessage, Stall, vars
  <2>3. CASE TimePasses \/ UNCHANGED <<vars, handshake>>
    BY <2>3 DEF TimePasses, vars, handshake
  <2>4. CASE LinkSystem
    <3>1. UNCHANGED failed
      BY <2>4 DEF LinkSystem, handshake
    <3>2. shut \subseteq shut'
      BY <2>4 DEF LinkSystem, Call, TakeGate, Encrypt, Write, WriteFails, Read, Reply,
         RecvFails
    <3>. QED
      BY <3>1, <3>2
  <2>5. CASE LinkCloses
    BY <2>5 DEF LinkCloses, Close, handshake
  <2>. QED
    BY <2>1, <2>2, <2>3, <2>4, <2>5 DEF SessionNext, SessionSystem
<1>. QED
  BY <1>1, <1>2, PTL DEF SessionSpec

\* An end whose reader has not ended can take a step once the link is cut.
LEMMA CutIsHeard ==
    ASSUME IInv, Waiting, Cut, NEW e \in Ends, Resting(e)
    PROVE  reader[e] = "done"
<1>t. /\ pc \in [Writers -> {"idle", "wait", "encrypt", "write"}]
      /\ gate \in [Ends -> Writers \cup {Nobody}]
      /\ reader[e] \in {"read", "reply", "done", "garbled"}
  BY DEF IInv, TypeOK
<1>1. \A w \in Writers : At(w) = e => pc[w] \notin {"encrypt", "write"}
  BY DEF Resting
<1>2. gate[e] = Nobody
  BY <1>t, <1>1 DEF Waiting, Held
<1>3. e \in Writers /\ At(e) = e
  BY DEF Writers, At
<1>4. pc[e] = "idle"
  BY <1>t, <1>1, <1>2, <1>3 DEF Resting, CanTakeGate
<1>5. reader[e] \notin {"read", "reply", "garbled"}
  BY <1>4 DEF Resting, CanReply, IInv, NeverGarbled
<1>. QED
  BY <1>t, <1>5

\* For any timeout, threads and sizes: when everybody waits, no handshake is
\* left in the middle except by an end that stopped, and an end that made its
\* link while the other's handshake failed has found the link closed.
THEOREM NobodyStaysHalfway == SessionSpec => []NobodyIsLeftHalfway
<1>1. ASSUME IInv, Waiting, WaitInv, failed \subseteq shut
      PROVE  NobodyIsLeftHalfway
  <2>. SUFFICES ASSUME SessionAtRest, NEW e \in Ends, e \notin stalled
                PROVE  /\ Up(e) \/ e \in failed
                       /\ Up(e) /\ Other(e) \in failed => reader[e] = "done"
    BY DEF NobodyIsLeftHalfway
  <2>1. ASSUME Shaking(e) PROVE FALSE
    <3>1. ~Cut
      BY <2>1 DEF SessionAtRest, HandshakeCanFail
    <3>2. Awaiting(e)
      BY <2>1, <3>1 DEF SessionAtRest, CanWriteMessage, Awaiting
    <3>3. ASSUME NEW f \in Waits PROVE quiet[f] < Limit
      <4>1. f \in Ends /\ Awaiting(f) /\ Shaking(f)
        BY DEF Waits, Awaiting
      <4>2. quiet[f] # Limit
        BY <4>1 DEF SessionAtRest, HandshakeCanFail
      <4>3. quiet[f] \in 0..Limit /\ Limit \in Nat
        BY <1>1, <4>1, SessionAssumption DEF WaitInv, StepOK
      <4>. QED
        BY <4>2, <4>3
    <3>. QED
      BY <3>2, <3>3 DEF SessionAtRest, TimeCanPass, Waits
  <2>2. Up(e) \/ e \in failed
    BY <2>1 DEF Shaking
  <2>3. ASSUME Up(e), Other(e) \in failed PROVE reader[e] = "done"
    <3>1. Cut /\ Resting(e)
      BY <1>1, <2>3 DEF Cut, SessionAtRest
    <3>. QED
      BY <1>1, <3>1, CutIsHeard
  <2>. QED
    BY <2>2, <2>3
<1>2. SessionSpec => []IInv /\ []Waiting
  BY LinksSecurelyHolds, Invariance, WaitingAlways, PTL DEF LinksSecurely
<1>3. SessionSpec => []WaitInv
  <2>1. SessionInit => WaitInv
    BY SessionAssumption
       DEF SessionInit, WaitInv, StepOK, OnlyWhenAwaiting, PaidFor, Have
  <2>2. WaitInv /\ [SessionNext]_<<vars, handshake>> => WaitInv'
    BY WaitInvStep
  <2>. QED
    BY <2>1, <2>2, PTL DEF SessionSpec
<1>. QED
  BY <1>1, <1>2, <1>3, FailedIsShut, PTL

\* And everything sent on the link that was made arrives, as on any link.
THEOREM SessionEverythingArrives ==
    ASSUME MayReply # Ends
    PROVE  SessionSpec => []EverythingArrives
<1>1. Spec => []EverythingArrives
  BY EverythingDoesArrive
<1>. QED
  BY <1>1, LinksSecurelyHolds, PTL DEF LinksSecurely

=============================================================================
