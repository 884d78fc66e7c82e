--------------------------- MODULE InboundProofs ---------------------------
(***************************************************************************)
(* The limiter by itself, for any sources, budgets and window: the budgets *)
(* hold in every window and refusals cost nothing.  Then the listener that *)
(* asks it: the limiter keeps its promises whatever the accept loop, its    *)
(* threads and leave() do; and leaving is quiet.                           *)
(***************************************************************************)
EXTENDS Inbound, FiniteSetTheorems, TLAPS

\* Attempts are stamped when they are let in, and their stamps are kept for
\* the whole window, by the room and by the source they came from.
Stamped == \A i \in DOMAIN log : log[i].at <= now
Own == \A s \in Sources : hits[s] \subseteq From(s, Mine)
Kept ==
    \A i \in Mine : now - log[i].at < Window => i \in all /\ i \in hits[log[i].source]

IInv == TypeOK /\ Stamped /\ Own /\ Kept /\ WithinBudget

-----------------------------------------------------------------------------
(* Facts about the log.                                                    *)

\* The entries of a sequence over a set are members of it.
LEMMA EntryOf ==
    ASSUME NEW R, NEW q \in Seq(R), NEW i \in DOMAIN q
    PROVE  q[i] \in R
  OBVIOUS

\* The attempts of the present limiter are entries of the log.
LEMMA MineInLog ==
    ASSUME TypeOK
    PROVE  /\ Mine \subseteq DOMAIN log
           /\ \A i \in DOMAIN log : log[i].at \in Nat /\ log[i].source \in Sources
           /\ made \in Nat /\ Len(log) \in Nat /\ now \in Nat
<1>1. log \in Seq([source : Sources, at : Nat]) /\ made \in 0..Len(log) /\ now \in Nat
  BY DEF TypeOK
<1>2. Len(log) \in Nat /\ DOMAIN log = 1..Len(log)
  BY <1>1
<1>3. Mine \subseteq DOMAIN log
  BY <1>1, <1>2 DEF Mine
<1>4. \A i \in DOMAIN log : log[i] \in [source : Sources, at : Nat]
  BY <1>1, EntryOf
<1>. QED
  BY <1>1, <1>2, <1>3, <1>4

\* Any set of them is finite.
LEMMA MineFinite ==
    ASSUME TypeOK, NEW S \in SUBSET Mine
    PROVE  IsFiniteSet(S) /\ Cardinality(S) \in Nat
<1>1. IsFiniteSet(Mine)
  BY MineInLog, FS_Interval DEF Mine
<1>. QED
  BY <1>1, FS_Subset, FS_CardinalityType

\* A set within another of them is no larger.
LEMMA MineSmaller ==
    ASSUME TypeOK, NEW S \in SUBSET Mine, NEW T \in SUBSET S, NEW n \in Nat,
           Cardinality(S) <= n
    PROVE  Cardinality(T) <= n
<1>1. IsFiniteSet(S) /\ Cardinality(S) \in Nat
  BY MineFinite
<1>2. Cardinality(T) <= Cardinality(S) /\ Cardinality(T) \in Nat
  BY <1>1, FS_Subset, FS_CardinalityType
<1>. QED
  BY <1>1, <1>2

\* What the code keeps is what was let in within the window that ends now.
LEMMA RetainIsWindow ==
    ASSUME TypeOK, Stamped, Own, Kept
    PROVE  /\ Retain(all) = During(Mine, now)
           /\ \A s \in Sources : Retain(hits[s]) = During(From(s, Mine), now)
<1>1. \A i \in Mine : i \in DOMAIN log /\ log[i].at <= now
  BY MineInLog DEF Stamped
<1>2. all \subseteq Mine /\ \A s \in Sources : hits[s] \subseteq Mine
  BY DEF TypeOK
<1>3. Retain(all) = During(Mine, now)
  BY <1>1, <1>2 DEF Retain, During, Kept
<1>4. ASSUME NEW s \in Sources
      PROVE  Retain(hits[s]) = During(From(s, Mine), now)
  BY <1>1, <1>2 DEF Retain, During, Kept, From, Own
<1>. QED
  BY <1>3, <1>4

-----------------------------------------------------------------------------
(* The steps.                                                              *)

\* Letting an attempt in: the window that ends now gains one, every earlier
\* window keeps what it had.
LEMMA AllowKeeps ==
    ASSUME IInv, NEW s \in Sources, Allow(s)
    PROVE  IInv'
<1>. DEFINE n == Len(log) + 1
<1>. USE DEF IInv
<1>1. /\ made \in Nat /\ Len(log) \in Nat /\ now \in Nat /\ made <= Len(log)
      /\ Mine \subseteq DOMAIN log
      /\ \A i \in DOMAIN log : log[i].at \in Nat /\ log[i].source \in Sources
  BY MineInLog DEF TypeOK
<1>2. /\ log' \in Seq([source : Sources, at : Nat]) /\ Len(log') = n
      /\ DOMAIN log' = DOMAIN log \cup {n} /\ n \notin DOMAIN log
      /\ \A i \in DOMAIN log : log'[i] = log[i]
      /\ log'[n] = [source |-> s, at |-> now]
  BY <1>1 DEF Allow, TypeOK
<1>3. Mine' = Mine \cup {n} /\ n \notin Mine
  BY <1>1, <1>2 DEF Mine, Allow
<1>. HIDE DEF n
<1>4. UNCHANGED <<now, made>>
  BY DEF Allow
<1>5. /\ hits' = [hits EXCEPT ![s] = Retain(hits[s]) \cup {n}]
      /\ all' = Retain(all) \cup {n}
  BY DEF Allow, n
<1>6. /\ hits \in [Sources -> SUBSET Mine] /\ all \in SUBSET Mine
      /\ Retain(hits[s]) \subseteq hits[s] /\ Retain(all) \subseteq all
  BY DEF TypeOK, Retain
<1>7. TypeOK'
  <2>1. made' \in 0..Len(log')
    BY <1>1, <1>2, <1>4 DEF n
  <2>2. hits' \in [Sources -> SUBSET Mine'] /\ all' \in SUBSET Mine'
    BY <1>3, <1>5, <1>6
  <2>. QED
    BY <1>1, <1>2, <1>4, <2>1, <2>2 DEF TypeOK
<1>8. Stamped'
  BY <1>1, <1>2, <1>4 DEF Stamped
<1>9. Own'
  <2>1. \A u \in Sources : From(u, Mine)' =
            IF u = s THEN From(u, Mine) \cup {n} ELSE From(u, Mine)
    BY <1>1, <1>2, <1>3 DEF From
  <2>. QED
    BY <1>5, <1>6, <2>1 DEF Own
<1>10. Kept'
  <2>. SUFFICES ASSUME NEW i \in Mine', now - log'[i].at < Window
                PROVE  i \in all' /\ i \in hits'[log'[i].source]
    BY <1>4 DEF Kept
  <2>1. CASE i = n
    BY <1>2, <1>5, <1>6, <2>1
  <2>2. CASE i \in Mine
    <3>1. log'[i] = log[i] /\ log[i].source \in Sources
      BY <1>1, <1>2, <2>2
    <3>2. i \in all /\ i \in hits[log[i].source]
      BY <2>2, <3>1 DEF Kept
    <3>3. i \in Retain(all) /\ i \in Retain(hits[log[i].source])
      BY <3>1, <3>2 DEF Retain
    <3>. QED
      BY <1>5, <1>6, <3>1, <3>2, <3>3
  <2>. QED
    BY <1>3, <2>1, <2>2
<1>11. WithinBudget'
  <2>a. /\ Retain(all) = During(Mine, now)
        /\ \A u \in Sources : Retain(hits[u]) = During(From(u, Mine), now)
    BY RetainIsWindow
  <2>b. /\ Cardinality(During(Mine, now)) < Global
        /\ Cardinality(During(From(s, Mine), now)) < PerSource
    <3>1. /\ ~(Cardinality(Retain(hits[s])) >= PerSource)
          /\ ~(Cardinality(Retain(all)) >= Global)
      BY DEF Allow, Refuses
    <3>2. During(Mine, now) \in SUBSET Mine /\ During(From(s, Mine), now) \in SUBSET Mine
      BY DEF During, From
    <3>3. /\ Cardinality(During(Mine, now)) \in Nat
          /\ Cardinality(During(From(s, Mine), now)) \in Nat
      BY <3>2, MineFinite
    <3>. QED
      BY <2>a, <3>1, <3>3, LimiterAssumption
  <2>c. ASSUME NEW S \in SUBSET Mine, NEW k \in Nat, Cardinality(S) < k
        PROVE  Cardinality(S \cup {n}) <= k
    <3>1. IsFiniteSet(S) /\ Cardinality(S) \in Nat
      BY MineFinite
    <3>2. Cardinality(S \cup {n}) = Cardinality(S) + 1
      BY <1>3, <3>1, FS_AddElement
    <3>. QED
      BY <2>c, <3>1, <3>2
  <2>. SUFFICES ASSUME NEW t \in 0..now
                PROVE  /\ \A u \in Sources : Cardinality(During(From(u, Mine), t)') <= PerSource
                       /\ Cardinality(During(Mine, t)') <= Global
    BY <1>4 DEF WithinBudget, During, From
  <2>1. ASSUME NEW u \in Sources
        PROVE  Cardinality(During(From(u, Mine), t)') <= PerSource
    <3>1. CASE t = now /\ u = s
      <4>1. During(From(u, Mine), t)' = During(From(u, Mine), t) \cup {n}
        BY <1>1, <1>2, <1>3, <1>4, <3>1, LimiterAssumption DEF During, From
      <4>2. During(From(u, Mine), t) \in SUBSET Mine
        BY DEF During, From
      <4>. QED
        BY <2>b, <2>c, <3>1, <4>1, <4>2, LimiterAssumption
    <3>2. CASE t # now \/ u # s
      <4>1. During(From(u, Mine), t)' = During(From(u, Mine), t)
        BY <1>1, <1>2, <1>3, <1>4, <3>2 DEF During, From
      <4>. QED
        BY <4>1 DEF WithinBudget
    <3>. QED
      BY <3>1, <3>2
  <2>2. Cardinality(During(Mine, t)') <= Global
    <3>1. CASE t = now
      <4>1. During(Mine, t)' = During(Mine, t) \cup {n}
        BY <1>1, <1>2, <1>3, <1>4, <3>1, LimiterAssumption DEF During
      <4>2. During(Mine, t) \in SUBSET Mine
        BY DEF During
      <4>. QED
        BY <2>b, <2>c, <3>1, <4>1, <4>2, LimiterAssumption
    <3>2. CASE t # now
      <4>1. During(Mine, t)' = During(Mine, t)
        BY <1>1, <1>2, <1>3, <1>4, <3>2 DEF During
      <4>. QED
        BY <4>1 DEF WithinBudget
    <3>. QED
      BY <3>1, <3>2
  <2>. QED
    BY <2>1, <2>2
<1>. QED
  BY <1>7, <1>8, <1>9, <1>10, <1>11

\* A refusal forgets what has left the window, and nothing else.
LEMMA RefuseKeeps ==
    ASSUME IInv, NEW s \in Sources, Refuse(s)
    PROVE  IInv'
<1>. USE DEF IInv
<1>1. UNCHANGED <<now, log, made, Mine>>
  BY DEF Refuse, Mine
<1>2. /\ hits' = [hits EXCEPT ![s] = Retain(hits[s])] /\ all' = Retain(all)
      /\ Retain(hits[s]) \subseteq hits[s] /\ Retain(all) \subseteq all
  BY DEF Refuse, Retain
<1>3. TypeOK'
  BY <1>1, <1>2 DEF TypeOK
<1>4. Own'
  BY <1>1, <1>2 DEF Own, From, TypeOK
<1>5. Kept'
  <2>. SUFFICES ASSUME NEW i \in Mine, now - log[i].at < Window
                PROVE  i \in all' /\ i \in hits'[log[i].source]
    BY <1>1 DEF Kept
  <2>1. i \in all /\ i \in hits[log[i].source]
    BY DEF Kept
  <2>2. i \in Retain(all) /\ i \in Retain(hits[log[i].source])
    BY <2>1 DEF Retain
  <2>. QED
    BY <1>2, <2>1, <2>2 DEF TypeOK
<1>6. Stamped' /\ WithinBudget'
  BY <1>1 DEF Stamped, WithinBudget, During, From
<1>. QED
  BY <1>3, <1>4, <1>5, <1>6

\* A new limiter has let nobody in.
LEMMA ReopenKeeps ==
    ASSUME IInv, Reopen
    PROVE  IInv'
<1>. USE DEF IInv
<1>1. /\ Len(log) \in Nat /\ UNCHANGED <<now, log>> /\ made' = Len(log)
      /\ hits' = [s \in Sources |-> {}] /\ all' = {}
  BY MineInLog DEF Reopen
<1>2. Mine' = {}
  BY <1>1 DEF Mine
<1>3. TypeOK'
  BY <1>1, <1>2 DEF TypeOK
<1>4. Stamped' /\ Own' /\ Kept'
  BY <1>1, <1>2 DEF Stamped, Own, Kept
<1>5. WithinBudget'
  <2>1. ASSUME NEW t \in 0..now', NEW s \in Sources
        PROVE  During(From(s, Mine), t)' = {} /\ During(Mine, t)' = {}
    BY <1>2 DEF During, From
  <2>2. ASSUME NEW t \in 0..now'
        PROVE  During(Mine, t)' = {}
    BY <1>2 DEF During
  <2>. QED
    BY <2>1, <2>2, FS_EmptySet, LimiterAssumption DEF WithinBudget
<1>. QED
  BY <1>3, <1>4, <1>5

\* As the clock goes on, what is in the window that ends now was in the one
\* that ended a tick before.
LEMMA TickKeeps ==
    ASSUME IInv, Tick
    PROVE  IInv'
<1>. USE DEF IInv
<1>1. /\ UNCHANGED <<log, made, hits, all, Mine>> /\ now' = now + 1 /\ now \in Nat
      /\ Mine \subseteq DOMAIN log /\ \A i \in DOMAIN log : log[i].at \in Nat
  BY MineInLog DEF Tick, Mine
<1>2. TypeOK'
  BY <1>1 DEF TypeOK
<1>3. Stamped' /\ Own'
  BY <1>1 DEF Stamped, Own, From
<1>4. Kept'
  <2>. SUFFICES ASSUME NEW i \in Mine, (now + 1) - log[i].at < Window
                PROVE  i \in all /\ i \in hits[log[i].source]
    BY <1>1 DEF Kept
  <2>1. log[i].at \in Nat
    BY <1>1
  <2>2. now - log[i].at < Window
    BY <1>1, <2>1, LimiterAssumption
  <2>. QED
    BY <2>2 DEF Kept
<1>5. WithinBudget'
  <2>2. ASSUME NEW S \in SUBSET Mine
        PROVE  During(S, now + 1) \subseteq During(S, now)
    <3>. SUFFICES ASSUME NEW i \in During(S, now + 1)
                  PROVE  i \in During(S, now)
      OBVIOUS
    <3>1. i \in S /\ (now + 1) - log[i].at < Window
      BY DEF During
    <3>2. log[i].at \in Nat /\ log[i].at <= now
      BY <1>1, <3>1 DEF Stamped
    <3>3. now - log[i].at < Window
      BY <1>1, <3>1, <3>2, LimiterAssumption
    <3>. QED
      BY <3>1, <3>2, <3>3 DEF During
  <2>3. Cardinality(During(Mine, now + 1)) <= Global
    <3>1. During(Mine, now) \in SUBSET Mine
      BY DEF During
    <3>2. Cardinality(During(Mine, now)) <= Global
      BY <1>1 DEF WithinBudget
    <3>. QED
      BY <2>2, <3>1, <3>2, MineSmaller, LimiterAssumption
  <2>4. ASSUME NEW s \in Sources
        PROVE  Cardinality(During(From(s, Mine), now + 1)) <= PerSource
    <3>1. From(s, Mine) \in SUBSET Mine
      BY DEF From
    <3>2. During(From(s, Mine), now) \in SUBSET Mine
      BY <3>1 DEF During
    <3>3. Cardinality(During(From(s, Mine), now)) <= PerSource
      BY <1>1 DEF WithinBudget
    <3>. QED
      BY <2>2, <3>1, <3>2, <3>3, MineSmaller, LimiterAssumption
  <2>5. ASSUME NEW t \in 0..now'
        PROVE  /\ \A s \in Sources : Cardinality(During(From(s, Mine), t)) <= PerSource
               /\ Cardinality(During(Mine, t)) <= Global
    <3>1. CASE t \in 0..now
      BY <3>1 DEF WithinBudget
    <3>2. CASE t = now + 1
      BY <2>3, <2>4, <3>2
    <3>. QED
      BY <1>1, <3>1, <3>2
  <2>. QED
    BY <1>1, <2>5 DEF WithinBudget, During, From
<1>. QED
  BY <1>2, <1>3, <1>4, <1>5

-----------------------------------------------------------------------------
(* The theorems.                                                           *)

\* The invariant holds of a new room ...
LEMMA InitHolds == Init => IInv
<1>. SUFFICES ASSUME Init PROVE IInv
  OBVIOUS
<1>1. Mine = {} /\ Len(log) = 0 /\ DOMAIN log = {} /\ now = 0
  BY DEF Init, Mine
<1>2. TypeOK
  BY <1>1 DEF Init, TypeOK
<1>3. Stamped /\ Own /\ Kept
  BY <1>1 DEF Init, Stamped, Own, Kept
<1>4. \A S, t : S = {} => Cardinality(During(S, t)) = 0
  BY FS_EmptySet DEF During
<1>5. \A s \in Sources : From(s, Mine) = {}
  BY <1>1 DEF From
<1>6. WithinBudget
  BY <1>1, <1>4, <1>5, LimiterAssumption DEF WithinBudget
<1>. QED
  BY <1>2, <1>3, <1>6 DEF IInv

\* ... and is kept by every step ...
LEMMA StepKeeps == IInv /\ [Next]_vars => IInv'
<1>1. IInv /\ UNCHANGED vars => IInv'
  BY DEF vars, IInv, TypeOK, Stamped, Own, Kept, WithinBudget, During, From, Mine
<1>. QED
  BY <1>1, AllowKeeps, RefuseKeeps, ReopenKeeps, TickKeeps DEF Next

\* ... so it always holds.
LEMMA Invariance == Spec => []IInv
  BY InitHolds, StepKeeps, PTL DEF Spec

\* The limiter's own records are of attempts it let in.
THEOREM LimiterTypeCorrect == Spec => []TypeOK
<1>1. IInv => TypeOK
  BY DEF IInv
<1>. QED
  BY <1>1, Invariance, PTL

\* Whatever window one looks through, no source and no room had more than its
\* budget let in by one limiter.
THEOREM BudgetHolds == Spec => []WithinBudget
<1>1. IInv => WithinBudget
  BY DEF IInv
<1>. QED
  BY <1>1, Invariance, PTL

\* Whoever is refused has used up a budget within the window, or the room has.
THEOREM RefusalsCostNothing == Spec => []RefusedOnlyWhenSpent
<1>1. IInv => RefusedOnlyWhenSpent
  BY RetainIsWindow DEF IInv, RefusedOnlyWhenSpent, Refuses
<1>. QED
  BY <1>1, Invariance, PTL

-----------------------------------------------------------------------------
(* The listener.                                                           *)

\* Every step of the composition is a step of the limiter alone, or leaves the
\* limiter as it is.
LEMMA InboundStep ==
    ASSUME [InboundNext]_<<vars, inbound>>
    PROVE  [Next]_vars
<1>1. CASE LoopNext
  BY <1>1 DEF LoopNext, Accept, LookAtFlag, Take, Spawn, StopListening, Report
<1>2. CASE LeaveNext
  BY <1>2 DEF LeaveNext, Close, PokeSelf, DropListener
<1>3. CASE AcceptFails
  BY <1>3 DEF AcceptFails
<1>4. CASE Leave
  BY <1>4 DEF Leave
<1>5. CASE ReopenJoining
  BY <1>5 DEF ReopenJoining, Next
<1>6. CASE TimePasses
  BY <1>6 DEF TimePasses, Next
<1>7. ASSUME NEW s \in Sources, Dial(s) \/ HandleIncoming(s)
      PROVE  [Next]_vars
  BY <1>7 DEF Dial, HandleIncoming, Next
<1>8. CASE UNCHANGED <<vars, inbound>>
  BY <1>8
<1> QED
  BY <1>1, <1>2, <1>3, <1>4, <1>5, <1>6, <1>7, <1>8 DEF InboundNext

\* Connections reach the limiter only as RateLimiter.tla says they may: the
\* accept loop, its threads and leave() implement its specification.
THEOREM AsksTheLimiterHolds == InboundSpec => AsksTheLimiter
<1>1. InboundInit => Init
  BY DEF InboundInit
<1>2. [InboundNext]_<<vars, inbound>> => [Next]_vars
  BY InboundStep
<1> QED
  BY <1>1, <1>2, PTL DEF InboundSpec, AsksTheLimiter, Spec

\* So the budgets hold for what handle_incoming lets in, however its threads
\* are scheduled and whatever is queued or closed around them.
THEOREM InboundWithinBudget == InboundSpec => []WithinBudget
BY AsksTheLimiterHolds, BudgetHolds, PTL DEF AsksTheLimiter

\* Nobody is locked out by the composition either.
THEOREM InboundRefusals == InboundSpec => []RefusedOnlyWhenSpent
BY AsksTheLimiterHolds, RefusalsCostNothing, PTL DEF AsksTheLimiter

-----------------------------------------------------------------------------
\* leave() clears `running` before anything of the listener is touched.
FlagFirst ==
    /\ leaver # "no" => ~running
    /\ closed => leaver # "no"

\* The poke comes after the flag of the listener, which only LAN looks at, and
\* only LAN pokes: the loop takes it as a failure and no thread gets it.
PokedLate ==
    /\ leaver \in {"poke", "over"} => closed
    /\ leaver = "poke" => kind = "lan"
    /\ hand = Poke \/ (\E i \in DOMAIN backlog : backlog[i] = Poke)
         => closed /\ kind = "lan"
    /\ hand = Poke => loop = "look"
    /\ serving[Poke] = 0

Counts == /\ serving \in [Sources \cup {Poke} -> Nat]
          /\ backlog \in Seq(Sources \cup {Poke})
          /\ hand \in Sources \cup {Poke, Nobody}
          /\ loop \in {"taken", "spawn", "look"} => hand # Nobody

QuietInv == FlagFirst /\ Counts /\ PokedLate

LEMMA FlagFirstStep ==
    ASSUME FlagFirst, [InboundNext]_<<vars, inbound>>
    PROVE  FlagFirst'
<1> USE DEF FlagFirst, inbound, socket, threads
<1>1. CASE LoopNext
  BY <1>1 DEF LoopNext, Accept, LookAtFlag, Take, Spawn, StopListening, Report
<1>2. CASE LeaveNext
  BY <1>2 DEF LeaveNext, Close, PokeSelf, DropListener
<1>3. CASE AcceptFails
  BY <1>3 DEF AcceptFails
<1>4. CASE Leave
  BY <1>4 DEF Leave
<1>5. CASE ReopenJoining
  BY <1>5 DEF ReopenJoining
<1>6. CASE TimePasses
  BY <1>6 DEF TimePasses
<1>7. ASSUME NEW s \in Sources, Dial(s) \/ HandleIncoming(s)
      PROVE  FlagFirst'
  BY <1>7 DEF Dial, HandleIncoming
<1>8. CASE UNCHANGED <<vars, inbound>>
  BY <1>8
<1> QED
  BY <1>1, <1>2, <1>3, <1>4, <1>5, <1>6, <1>7, <1>8 DEF InboundNext

LEMMA CountsStep ==
    ASSUME Counts, [InboundNext]_<<vars, inbound>>
    PROVE  Counts'
<1> USE InboundAssumption DEF Counts, inbound, socket, threads
<1>1. CASE Accept
  <2>1. Head(backlog) \in Sources \cup {Poke} /\ Tail(backlog) \in Seq(Sources \cup {Poke})
    BY <1>1 DEF Accept
  <2> QED
    BY <1>1, <2>1 DEF Accept
<1>2. CASE LookAtFlag \/ Take \/ StopListening \/ Report
  BY <1>2 DEF LookAtFlag, Take, StopListening, Report
<1>3. CASE Spawn
  <2>1. hand \in Sources \cup {Poke}
    BY <1>3 DEF Spawn
  <2> QED
    BY <1>3, <2>1 DEF Spawn
<1>4. ASSUME NEW s \in Sources, HandleIncoming(s)
      PROVE  Counts'
  <2>1. serving[s] \in Nat /\ serving[s] > 0
    BY <1>4 DEF HandleIncoming
  <2>2. serving[s] - 1 \in Nat
    BY <2>1
  <2> QED
    BY <1>4, <2>2 DEF HandleIncoming
<1>5. CASE LeaveNext
  <2>1. Append(backlog, Poke) \in Seq(Sources \cup {Poke})
    OBVIOUS
  <2>2. <<>> \in Seq(Sources \cup {Poke})
    OBVIOUS
  <2>3. backlog' \in {backlog, <<>>, Append(backlog, Poke)}
    BY <1>5 DEF LeaveNext, Close, PokeSelf, DropListener
  <2>4. backlog' \in Seq(Sources \cup {Poke})
    BY <2>1, <2>2, <2>3
  <2> QED
    BY <1>5, <2>4 DEF LeaveNext, Close, PokeSelf, DropListener
<1>6. CASE AcceptFails \/ Leave \/ ReopenJoining \/ TimePasses
  BY <1>6 DEF AcceptFails, Leave, ReopenJoining, TimePasses
<1>7. ASSUME NEW s \in Sources, Dial(s)
      PROVE  Counts'
  BY <1>7 DEF Dial
<1>8. CASE UNCHANGED <<vars, inbound>>
  BY <1>8
<1> QED
  BY <1>1, <1>2, <1>3, <1>4, <1>5, <1>6, <1>7, <1>8 DEF InboundNext, LoopNext

LEMMA PokedLateStep ==
    ASSUME Counts, PokedLate, [InboundNext]_<<vars, inbound>>
    PROVE  PokedLate'
<1> USE InboundAssumption DEF PokedLate, Counts, inbound, socket, threads
<1>1. CASE Accept
  <2>1. Len(backlog) \in Nat /\ Len(backlog) > 0 /\ DOMAIN backlog = 1..Len(backlog)
    BY <1>1 DEF Accept
  <2>2. Head(backlog) = backlog[1] /\ 1 \in DOMAIN backlog
    BY <2>1
  <2>3. \A i \in DOMAIN Tail(backlog) : i + 1 \in DOMAIN backlog /\ Tail(backlog)[i] = backlog[i + 1]
    BY <2>1
  <2> QED
    BY <1>1, <2>2, <2>3 DEF Accept
<1>2. CASE LookAtFlag \/ Take \/ StopListening \/ Report
  BY <1>2 DEF LookAtFlag, Take, StopListening, Report
<1>3. CASE Spawn
  <2>1. hand # Poke
    BY <1>3 DEF Spawn
  <2> QED
    BY <1>3, <2>1 DEF Spawn
<1>4. ASSUME NEW s \in Sources, HandleIncoming(s)
      PROVE  PokedLate'
  BY <1>4 DEF HandleIncoming
<1>5. CASE PokeSelf
  <2>1. \A i \in DOMAIN Append(backlog, Poke) :
          i \in DOMAIN backlog => Append(backlog, Poke)[i] = backlog[i]
    OBVIOUS
  <2> QED
    BY <1>5, <2>1 DEF PokeSelf
<1>6. CASE Close \/ DropListener
  BY <1>6 DEF Close, DropListener
<1>7. CASE AcceptFails \/ Leave \/ ReopenJoining \/ TimePasses
  BY <1>7 DEF AcceptFails, Leave, ReopenJoining, TimePasses
<1>8. ASSUME NEW s \in Sources, Dial(s)
      PROVE  PokedLate'
  <2>1. \A i \in DOMAIN Append(backlog, s) :
          \/ i \in DOMAIN backlog /\ Append(backlog, s)[i] = backlog[i]
          \/ Append(backlog, s)[i] = s
    OBVIOUS
  <2>2. s # Poke
    OBVIOUS
  <2> QED
    BY <1>8, <2>1, <2>2 DEF Dial
<1>9. CASE UNCHANGED <<vars, inbound>>
  BY <1>9
<1> QED
  BY <1>1, <1>2, <1>3, <1>4, <1>5, <1>6, <1>7, <1>8, <1>9 DEF InboundNext, LoopNext, LeaveNext

\* What LeavingIsQuiet says of one step.
QuietStep ==
    closed => /\ loop' \in {"spawn", "report"} => loop' = loop
              /\ serving'[Poke] = 0

\* With `running` cleared the loop decides to serve or to report no more.
LEMMA NoNewDecision ==
    ASSUME ~running, [InboundNext]_<<vars, inbound>>
    PROVE  loop' \in {"spawn", "report"} => loop' = loop
<1> USE DEF inbound, socket, threads
<1>1. CASE LoopNext
  BY <1>1 DEF LoopNext, Accept, LookAtFlag, Take, Spawn, StopListening, Report
<1>2. CASE LeaveNext
  BY <1>2 DEF LeaveNext, Close, PokeSelf, DropListener
<1>3. CASE AcceptFails \/ Leave \/ ReopenJoining \/ TimePasses
  BY <1>3 DEF AcceptFails, Leave, ReopenJoining, TimePasses
<1>4. ASSUME NEW s \in Sources, Dial(s) \/ HandleIncoming(s)
      PROVE  UNCHANGED loop
  BY <1>4 DEF Dial, HandleIncoming
<1>5. CASE UNCHANGED <<vars, inbound>>
  BY <1>5
<1> QED
  BY <1>1, <1>2, <1>3, <1>4, <1>5 DEF InboundNext

LEMMA QuietInvGivesQuietStep ==
    ASSUME QuietInv, [InboundNext]_<<vars, inbound>>
    PROVE  QuietStep
<1>1. closed => ~running
  BY DEF QuietInv, FlagFirst
<1>2. serving'[Poke] = 0
  BY PokedLateStep DEF QuietInv, PokedLate
<1> QED
  BY <1>1, <1>2, NoNewDecision DEF QuietStep

\* Once the listener is closed the accept loop decides on nothing new, wherever
\* it stands: at most it finishes the one connection or report it had decided
\* on before leave() cleared the flag, and the poke is served by nobody.
THEOREM LeavingIsQuietHolds == InboundSpec => LeavingIsQuiet
<1>1. InboundInit => QuietInv
  BY InboundAssumption DEF InboundInit, QuietInv, FlagFirst, Counts, PokedLate
<1>2. QuietInv /\ [InboundNext]_<<vars, inbound>> => QuietInv'
  BY FlagFirstStep, CountsStep, PokedLateStep DEF QuietInv
<1>3. QuietInv /\ [InboundNext]_<<vars, inbound>> => [QuietStep]_<<vars, inbound>>
  BY QuietInvGivesQuietStep
<1> QED
  BY <1>1, <1>2, <1>3, PTL DEF InboundSpec, LeavingIsQuiet, QuietStep
=============================================================================
