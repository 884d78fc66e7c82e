----------------------------- MODULE ChatProofs -----------------------------
(***************************************************************************)
(* Proofs about Chat: for any members, links, writers and numbers of lines, *)
(* transcripts and windows have every author's lines in order, each once    *)
(* and without a gap, linked members have all of each other's, nothing on   *)
(* record stays unseen, and a saved transcript holds what the user sees.    *)
(***************************************************************************)
EXTENDS Chat, SequenceTheorems, TLAPS

RowTypes == {"chat", "undelivered", "left", "bye"}
Rows == [type : RowTypes, who : Nodes, k : Nat]
UiStates == {Idle} \cup [at : {"emit"}] \cup [at : {"send"}, to : SUBSET Nodes]
            \cup [at : {"write"}, lines : Seq(Rows)]
ReaderStates == {Receiving} \cup [at : {"emit"}, line : Rows]
                \cup [at : {"tell"}, to : SUBSET Nodes]

TypeOK ==
    /\ said \in [Nodes -> Nat]
    /\ history \in [Nodes -> Seq(Rows)]
    /\ events \in [Nodes -> Seq(Rows)]
    /\ screen \in [Nodes -> Seq(Rows)]
    /\ ui \in [Nodes -> UiStates]
    /\ peers \in [Nodes -> SUBSET Nodes]
    /\ wire \in [Nodes -> [Nodes -> Seq(Rows)]]
    /\ shut \in SUBSET SUBSET Nodes
    /\ DOMAIN reader = Nodes
    /\ \A n \in Nodes : reader[n] \in [Nodes \ {n} -> ReaderStates]
    /\ left \in SUBSET Nodes

\* Whoever sends a line has written it.
Signed ==
    \A a, n \in Nodes : \A i \in DOMAIN wire[a][n] :
        wire[a][n][i].type = "chat" => wire[a][n][i].who = a

\* Both ends of an open link have each other among their peers.
Together ==
    \A n, m \in Nodes : n # m /\ {n, m} \notin shut => m \in peers[n]

\* A window that is not followed, or was left, has no rows.
Blank ==
    \A n \in Nodes \ (Viewers \ left) : screen[n] = <<>> /\ events[n] = <<>>

\* a has yet to send n the last line; n has yet to show the last one recorded.
Pending(a, n) ==
    \/ ui[a].at = "emit"
    \/ ui[a].at = "send" /\ n \in ui[a].to
Unshown(n, a) ==
    \/ n = a /\ ui[n].at = "emit"
    \/ n # a /\ reader[n][a].at = "emit"

\* n's transcript has a's lines up to the r-th, ...
Kept(n, a, r) ==
    /\ Runs(history[n], a, 0, r)
    /\ n = a => r = said[a]

\* ... those up to the t-th are on their way, ...
Coming(n, a, r, t) ==
    n # a =>
        /\ r <= t
        /\ Runs(wire[a][n], a, r, t)
        /\ {a, n} \notin shut => said[a] = IF Pending(a, n) THEN t + 1 ELSE t
        /\ reader[n][a].at = "emit" => reader[n][a].line = Line(a, r)

\* ... and its window has those after the s-th, up to the u-th.
Seen(n, a, r, s, u) ==
    n \in Viewers \ left =>
        /\ s <= u
        /\ Runs(screen[n] \o events[n], a, s, u)
        /\ r = IF Unshown(n, a) THEN u + 1 ELSE u

Chain(n, a) ==
    \E r, t, s, u \in 0..said[a] :
        Kept(n, a, r) /\ Coming(n, a, r, t) /\ Seen(n, a, r, s, u)
Chained == \A n, a \in Nodes : Chain(n, a)

-----------------------------------------------------------------------------
(* Sequences of rows.                                                      *)

Mine(x, a) == x.type = "chat" /\ x.who = a

\* The author's next line.
LEMMA RunsNext ==
    ASSUME NEW S, NEW s \in Seq(S), NEW a, NEW x \in S, NEW f \in Nat, NEW t \in Nat,
           f <= t, Runs(s, a, f, t), Mine(x, a), x.k = t + 1
    PROVE  Runs(Append(s, x), a, f, t + 1)
<1> DEFINE w == Append(s, x)
<1>1. /\ Len(w) = Len(s) + 1 /\ w \in Seq(S)
      /\ \A i \in 1..Len(s) : w[i] = s[i]
      /\ w[Len(s) + 1] = x
  BY AppendProperties
<1>2. DOMAIN w = 1..(Len(s) + 1) /\ DOMAIN s = 1..Len(s) /\ Len(s) \in Nat
  BY <1>1, LenProperties
<1> HIDE DEF w
<1>3. By(a, w) = By(a, s) \cup {Len(s) + 1} /\ By(a, s) \subseteq 1..Len(s)
  BY <1>1, <1>2 DEF By, Mine
<1>4. \A i \in By(a, s) : s[i].k \in (f + 1)..t
  BY DEF Runs
<1>5. {w[i].k : i \in By(a, w)} = {s[i].k : i \in By(a, s)} \cup {t + 1}
  BY <1>1, <1>3
<1>6. {w[i].k : i \in By(a, w)} = (f + 1)..(t + 1)
  BY <1>5 DEF Runs
<1>7. \A i, j \in By(a, w) : i < j => w[i].k < w[j].k
  BY <1>1, <1>2, <1>3, <1>4 DEF Runs
<1> QED  BY <1>6, <1>7 DEF Runs, w

\* Any other row.
LEMMA RunsOther ==
    ASSUME NEW S, NEW s \in Seq(S), NEW a, NEW x \in S, NEW f, NEW t,
           Runs(s, a, f, t), ~ Mine(x, a)
    PROVE  Runs(Append(s, x), a, f, t)
<1> DEFINE w == Append(s, x)
<1>1. /\ Len(w) = Len(s) + 1 /\ w \in Seq(S)
      /\ \A i \in 1..Len(s) : w[i] = s[i]
      /\ w[Len(s) + 1] = x
  BY AppendProperties
<1>2. DOMAIN w = 1..(Len(s) + 1) /\ DOMAIN s = 1..Len(s) /\ Len(s) \in Nat
  BY <1>1, LenProperties
<1> HIDE DEF w
<1>3. By(a, w) = By(a, s) /\ By(a, s) \subseteq 1..Len(s)
  BY <1>1, <1>2 DEF By, Mine
<1>4. \A i \in By(a, w) : w[i].k = s[i].k
  BY <1>1, <1>3
<1>5. {w[i].k : i \in By(a, w)} = {s[i].k : i \in By(a, s)}
  BY <1>3, <1>4
<1> QED  BY <1>3, <1>4, <1>5 DEF Runs, w

\* The row in front is the author's next one, if it is the author's at all.
LEMMA RunsTail ==
    ASSUME NEW S, NEW s \in Seq(S), s # <<>>, NEW a, NEW f \in Nat, NEW t \in Nat,
           Runs(s, a, f, t)
    PROVE  /\ Mine(Head(s), a) => /\ Head(s).k = f + 1 /\ f + 1 <= t
                                  /\ Runs(Tail(s), a, f + 1, t)
           /\ ~ Mine(Head(s), a) => Runs(Tail(s), a, f, t)
<1> DEFINE w == Tail(s)
<1>1. /\ Len(w) = Len(s) - 1 /\ w \in Seq(S) /\ Head(s) = s[1]
      /\ \A i \in 1..Len(w) : w[i] = s[i + 1]
  BY HeadTailProperties
<1>2. /\ DOMAIN w = 1..Len(w) /\ DOMAIN s = 1..Len(s)
      /\ Len(s) \in Nat \ {0} /\ Len(w) \in Nat
  BY <1>1, LenProperties, EmptySeq
<1> HIDE DEF w
<1>3. \A i \in 1..Len(w) : i \in By(a, w) <=> i + 1 \in By(a, s)
  BY <1>1, <1>2 DEF By
<1>4. By(a, w) \subseteq 1..Len(w) /\ By(a, s) \subseteq 1..Len(s)
  BY <1>2 DEF By
<1>5. 1 \in By(a, s) <=> Mine(Head(s), a)
  BY <1>1, <1>2 DEF By, Mine
<1>6. \A j \in By(a, s) : j # 1 => j - 1 \in By(a, w) /\ w[j - 1].k = s[j].k
  BY <1>1, <1>2, <1>3, <1>4
<1>7. \A i \in By(a, w) : i + 1 \in By(a, s) /\ w[i].k = s[i + 1].k
  BY <1>1, <1>3, <1>4
<1>8. \A i, j \in By(a, w) : i < j => w[i].k < w[j].k
  BY <1>4, <1>7 DEF Runs
<1>9. {s[i].k : i \in By(a, s)} = (f + 1)..t
  BY DEF Runs
<1>10. ASSUME Mine(Head(s), a)
       PROVE  /\ Head(s).k = f + 1 /\ f + 1 <= t
              /\ {w[i].k : i \in By(a, w)} = (f + 2)..t
  <2>1. s[1].k \in (f + 1)..t
    BY <1>5, <1>9, <1>10
  <2>2. \A j \in By(a, s) : j # 1 => s[1].k < s[j].k
    BY <1>4, <1>5, <1>10 DEF Runs
  <2>3. f + 1 \in (f + 1)..t
    BY <2>1
  <2>4. PICK j \in By(a, s) : s[j].k = f + 1
    BY <1>9, <2>3
  <2>5. s[1].k = f + 1
    BY <2>1, <2>2, <2>4
  <2>6. \A i \in By(a, w) : w[i].k \in (f + 2)..t
    <3> TAKE i \in By(a, w)
    <3>1. i + 1 \in By(a, s) /\ i + 1 # 1 /\ w[i].k = s[i + 1].k
      BY <1>4, <1>7
    <3>2. s[i + 1].k \in (f + 1)..t
      BY <1>9, <3>1
    <3>3. f + 1 < s[i + 1].k
      BY <2>2, <2>5, <3>1
    <3> QED  BY <3>1, <3>2, <3>3
  <2>7. \A k \in (f + 2)..t : \E i \in By(a, w) : w[i].k = k
    <3> TAKE k \in (f + 2)..t
    <3>1. k \in (f + 1)..t /\ k # f + 1
      OBVIOUS
    <3>2. PICK i \in By(a, s) : s[i].k = k
      BY <1>9, <3>1
    <3>3. i # 1
      BY <2>5, <3>1, <3>2
    <3> QED  BY <1>6, <3>2, <3>3
  <2> QED  BY <1>1, <2>1, <2>5, <2>6, <2>7
<1>11. ASSUME ~ Mine(Head(s), a)
       PROVE  {w[i].k : i \in By(a, w)} = {s[i].k : i \in By(a, s)}
  <2>1. \A j \in By(a, s) : \E i \in By(a, w) : w[i].k = s[j].k
    BY <1>5, <1>6, <1>11
  <2> QED  BY <1>7, <2>1
<1>12. ASSUME Mine(Head(s), a)  PROVE  Runs(Tail(s), a, f + 1, t)
  <2>1. f + 1 + 1 = f + 2
    OBVIOUS
  <2> QED  BY <1>8, <1>10, <1>12, <2>1 DEF Runs, w
<1>13. ASSUME ~ Mine(Head(s), a)  PROVE  Runs(Tail(s), a, f, t)
  BY <1>8, <1>9, <1>11, <1>13 DEF Runs, w
<1> QED  BY <1>10, <1>12, <1>13

LEMMA RunsEmpty ==
    ASSUME NEW a, NEW f \in Nat  PROVE  Runs(<<>>, a, f, f)
BY DEF Runs, By

\* Rows that are added to the events come last in what is shown in the end.
LEMMA ShowOne ==
    ASSUME NEW S, NEW s \in Seq(S), NEW q \in Seq(S), NEW x \in S
    PROVE  s \o (q \o <<x>>) = Append(s \o q, x)
<1>1. <<x>> \in Seq(S)
  OBVIOUS
<1>2. s \o (q \o <<x>>) = (s \o q) \o <<x>>
  BY <1>1, ConcatAssociative
<1>3. s \o q \in Seq(S)
  BY ConcatProperties
<1> QED  BY <1>2, <1>3, AppendIsConcat

LEMMA ShowTwo ==
    ASSUME NEW S, NEW s \in Seq(S), NEW q \in Seq(S), NEW x \in S, NEW y \in S
    PROVE  s \o (q \o <<x, y>>) = Append(Append(s \o q, x), y)
<1>1. <<x, y>> \in Seq(S) /\ <<x>> \in Seq(S) /\ <<y>> \in Seq(S)
  OBVIOUS
<1>2. <<x, y>> = <<x>> \o <<y>>
  <2> DEFINE z == <<x>> \o <<y>>
  <2>1. z \in Seq(S) /\ Len(z) = 2 /\ z[1] = x /\ z[2] = y
    BY <1>1, ConcatProperties
  <2> HIDE DEF z
  <2>2. <<x, y>> = z
    BY <1>1, <2>1, SeqEqual
  <2> QED  BY <2>2 DEF z
<1>3. q \o <<x, y>> = (q \o <<x>>) \o <<y>> /\ q \o <<x>> \in Seq(S)
  BY <1>1, <1>2, ConcatAssociative, ConcatProperties
<1>4. s \o (q \o <<x, y>>) = Append(s \o (q \o <<x>>), y)
  <2> DEFINE z == q \o <<x>>
  <2>1. z \in Seq(S) /\ q \o <<x, y>> = z \o <<y>>
    BY <1>3
  <2> HIDE DEF z
  <2>2. s \o (z \o <<y>>) = Append(s \o z, y)
    BY <2>1, ShowOne
  <2> QED  BY <2>1, <2>2 DEF z
<1>5. s \o (q \o <<x>>) = Append(s \o q, x)
  BY ShowOne
<1> QED  BY <1>4, <1>5

\* Showing the next event changes nothing, but for the row that makes room.
LEMMA PushedRow ==
    ASSUME NEW S, NEW s \in Seq(S), NEW q \in Seq(S), q # <<>>
    PROVE  /\ Append(s, Head(q)) \o Tail(q) = s \o q
           /\ s # <<>> => Append(Tail(s), Head(q)) \o Tail(q) = Tail(s \o q)
           /\ s # <<>> => Head(s \o q) = Head(s) /\ s \o q # <<>>
<1>1. Head(q) \in S /\ Tail(q) \in Seq(S) /\ <<Head(q)>> \in Seq(S)
  BY HeadTailProperties
<1>2. q = <<Head(q)>> \o Tail(q)
  OBVIOUS
<1>3. \A z \in Seq(S) : Append(z, Head(q)) \o Tail(q) = z \o q
  <2> TAKE z \in Seq(S)
  <2>1. Append(z, Head(q)) = z \o <<Head(q)>>
    BY <1>1, AppendIsConcat
  <2>2. (z \o <<Head(q)>>) \o Tail(q) = z \o (<<Head(q)>> \o Tail(q))
    BY <1>1, ConcatAssociative
  <2> QED  BY <1>2, <2>1, <2>2
<1>4. ASSUME s # <<>>
      PROVE  Tail(s) \o q = Tail(s \o q) /\ Head(s \o q) = Head(s) /\ s \o q # <<>>
             /\ Tail(s) \in Seq(S)
  BY <1>4
<1> QED  BY <1>3, <1>4

LEMMA PrefixGrows ==
    ASSUME NEW S, NEW p \in Seq(S), NEW s \in Seq(S), NEW x \in S
    PROVE  /\ IsPrefix(s, s)
           /\ IsPrefix(p, s) => IsPrefix(p, Append(s, x))
BY DEF IsPrefix

-----------------------------------------------------------------------------
(* What the helpers of the actions change.                                 *)

LEMMA LinesAreRows ==
    ASSUME ChatAssumption
    PROVE  /\ \A n \in Nodes, k \in Nat : Line(n, k) \in Rows
           /\ \A n \in Nodes : Note("left", n) \in Rows /\ Note("undelivered", n) \in Rows
           /\ Bye \in Rows
           /\ \A n, a \in Nodes, k \in Nat : Mine(Line(n, k), a) <=> n = a
           /\ \A n, a \in Nodes : /\ ~ Mine(Note("left", n), a)
                                  /\ ~ Mine(Note("undelivered", n), a)
BY DEF ChatAssumption, Line, Note, Bye, Rows, RowTypes, Mine

LEMMA RecordMoves ==
    ASSUME TypeOK, NEW n \in Nodes, NEW x \in Rows, record(n, x)
    PROVE  /\ history' \in [Nodes -> Seq(Rows)]
           /\ history'[n] = Append(history[n], x)
           /\ \A i \in Nodes : i # n => history'[i] = history[i]
<1>1. history[n] \in Seq(Rows) /\ history \in [Nodes -> Seq(Rows)]
  BY DEF TypeOK
<1>2. Append(history[n], x) \in Seq(Rows)
  BY <1>1, AppendProperties
<1> QED  BY <1>1, <1>2 DEF record

LEMMA EmitMoves ==
    ASSUME TypeOK, NEW n \in Nodes, NEW rows \in Seq(Rows), emit(n, rows)
    PROVE  /\ events' \in [Nodes -> Seq(Rows)]
           /\ n \in Viewers \ left => events'[n] = events[n] \o rows
           /\ n \notin Viewers \ left => events' = events
           /\ \A i \in Nodes : i # n => events'[i] = events[i]
<1>1. events[n] \in Seq(Rows) /\ events \in [Nodes -> Seq(Rows)]
  BY DEF TypeOK
<1>2. events[n] \o rows \in Seq(Rows)
  BY <1>1, ConcatProperties
<1> QED  BY <1>1, <1>2 DEF emit

LEMMA UiMoves ==
    ASSUME TypeOK, NEW n \in Nodes, NEW s \in UiStates, UiIs(n, s)
    PROVE  /\ ui' \in [Nodes -> UiStates]
           /\ ui'[n] = s
           /\ \A i \in Nodes : i # n => ui'[i] = ui[i]
BY DEF TypeOK, UiIs

LEMMA ReaderMoves ==
    ASSUME TypeOK, NEW n \in Nodes, NEW m \in Nodes \ {n}, NEW s \in ReaderStates,
           ReaderIs(n, m, s)
    PROVE  /\ DOMAIN reader' = Nodes
           /\ \A i \in Nodes : reader'[i] \in [Nodes \ {i} -> ReaderStates]
           /\ reader'[n][m] = s
           /\ \A i \in Nodes : \A j \in Nodes \ {i} :
                 <<i, j>> # <<n, m>> => reader'[i][j] = reader[i][j]
<1>1. DOMAIN reader = Nodes /\ \A i \in Nodes : reader[i] \in [Nodes \ {i} -> ReaderStates]
  BY DEF TypeOK
<1>2. reader' = [reader EXCEPT ![n] = [reader[n] EXCEPT ![m] = s]]
  BY DEF ReaderIs
<1>3. [reader[n] EXCEPT ![m] = s] \in [Nodes \ {n} -> ReaderStates]
  BY <1>1
<1>4. /\ DOMAIN reader' = Nodes
      /\ reader'[n] = [reader[n] EXCEPT ![m] = s]
      /\ \A i \in Nodes : i # n => reader'[i] = reader[i]
  BY <1>1, <1>2
<1> QED  BY <1>1, <1>3, <1>4

LEMMA PutMoves ==
    ASSUME TypeOK, NEW n \in Nodes, NEW m \in Nodes, NEW x \in Rows,
           wire' = Put(wire, n, m, x)
    PROVE  /\ wire' \in [Nodes -> [Nodes -> Seq(Rows)]]
           /\ {n, m} \in shut => wire' = wire
           /\ {n, m} \notin shut => wire'[n][m] = Append(wire[n][m], x)
           /\ \A i, j \in Nodes : <<i, j>> # <<n, m>> => wire'[i][j] = wire[i][j]
<1>1. /\ wire \in [Nodes -> [Nodes -> Seq(Rows)]] /\ wire[n] \in [Nodes -> Seq(Rows)]
      /\ wire[n][m] \in Seq(Rows)
  BY DEF TypeOK
<1>2. Append(wire[n][m], x) \in Seq(Rows)
  BY <1>1, AppendProperties
<1>3. CASE {n, m} \in shut
  BY <1>1, <1>3 DEF Put
<1>4. CASE {n, m} \notin shut
  <2>1. wire' = [wire EXCEPT ![n] = [wire[n] EXCEPT ![m] = Append(wire[n][m], x)]]
    BY <1>4 DEF Put
  <2>2. [wire[n] EXCEPT ![m] = Append(wire[n][m], x)] \in [Nodes -> Seq(Rows)]
    BY <1>1, <1>2
  <2>3. /\ wire'[n] = [wire[n] EXCEPT ![m] = Append(wire[n][m], x)]
        /\ wire' \in [Nodes -> [Nodes -> Seq(Rows)]]
        /\ \A i \in Nodes : i # n => wire'[i] = wire[i]
    BY <1>1, <2>1, <2>2
  <2> QED  BY <1>1, <1>4, <2>3
<1> QED  BY <1>3, <1>4

\* A reader takes the message in front.
LEMMA TakeMoves ==
    ASSUME TypeOK, NEW n \in Nodes, NEW m \in Nodes \ {n}, wire[m][n] # <<>>,
           wire' = [wire EXCEPT ![m][n] = Tail(@)]
    PROVE  /\ wire' \in [Nodes -> [Nodes -> Seq(Rows)]]
           /\ wire'[m][n] = Tail(wire[m][n])
           /\ Head(wire[m][n]) \in Rows
           /\ \A i, j \in Nodes : <<i, j>> # <<m, n>> => wire'[i][j] = wire[i][j]
<1>1. /\ wire \in [Nodes -> [Nodes -> Seq(Rows)]] /\ wire[m] \in [Nodes -> Seq(Rows)]
      /\ wire[m][n] \in Seq(Rows)
  BY DEF TypeOK
<1>2. Tail(wire[m][n]) \in Seq(Rows) /\ Head(wire[m][n]) \in Rows
  BY <1>1, HeadTailProperties
<1>3. wire' = [wire EXCEPT ![m] = [wire[m] EXCEPT ![n] = Tail(wire[m][n])]]
  OBVIOUS
<1>4. [wire[m] EXCEPT ![n] = Tail(wire[m][n])] \in [Nodes -> Seq(Rows)]
  BY <1>1, <1>2
<1>5. /\ wire'[m] = [wire[m] EXCEPT ![n] = Tail(wire[m][n])]
      /\ wire' \in [Nodes -> [Nodes -> Seq(Rows)]]
      /\ \A i \in Nodes : i # m => wire'[i] = wire[i]
  BY <1>1, <1>3, <1>4
<1> QED  BY <1>1, <1>2, <1>5

\* peer_gone leaves the links it does not close in both ends' peers.
LEMMA PeerGoneMoves ==
    ASSUME TypeOK, Together, NEW n \in Nodes, NEW m \in Nodes \ {n}, PeerGone(n, m)
    PROVE  /\ peers' \in [Nodes -> SUBSET Nodes] /\ shut' \in SUBSET SUBSET Nodes
           /\ shut \subseteq shut'
           /\ Together'
           /\ \E s \in ReaderStates : s.at = "tell" /\ ReaderIs(n, m, s)
<1>1. /\ peers \in [Nodes -> SUBSET Nodes] /\ shut \in SUBSET SUBSET Nodes
      /\ peers[n] \subseteq Nodes
  BY DEF TypeOK
<1>2. \A to \in SUBSET Nodes : Telling(to) \in ReaderStates /\ Telling(to).at = "tell"
  BY DEF Telling, ReaderStates
<1>3. CASE m \in peers[n] /\ peers' = [peers EXCEPT ![n] = @ \ {m}]
           /\ shut' = shut \cup {{n, m}}
           /\ ReaderIs(n, m, Telling(IF n = Host THEN peers[n] \ {m} ELSE {}))
  <2>1. peers' \in [Nodes -> SUBSET Nodes] /\ shut' \in SUBSET SUBSET Nodes
    BY <1>1, <1>3
  <2>2. \A i, j \in Nodes : j \in peers[i] /\ {i, j} \notin shut' => j \in peers'[i]
    BY <1>1, <1>3
  <2>3. Together'
    BY <1>3, <2>2 DEF Together
  <2>4. (IF n = Host THEN peers[n] \ {m} ELSE {}) \in SUBSET Nodes
    BY <1>1
  <2> QED  BY <1>2, <1>3, <2>1, <2>3, <2>4
<1>4. CASE ReaderIs(n, m, Over) /\ UNCHANGED <<peers, shut>>
  BY <1>1, <1>2, <1>4 DEF Together, Over
<1> QED  BY <1>3, <1>4 DEF PeerGone

-----------------------------------------------------------------------------
(* Types, authorship, and the two ends of a link.                          *)

LEMMA SignedPut ==
    ASSUME TypeOK, Signed, NEW n \in Nodes, NEW m \in Nodes, NEW x \in Rows,
           x.type = "chat" => x.who = n, wire' = Put(wire, n, m, x)
    PROVE  Signed'
<1>1. /\ {n, m} \in shut => wire' = wire
      /\ {n, m} \notin shut => wire'[n][m] = Append(wire[n][m], x)
      /\ \A i, j \in Nodes : <<i, j>> # <<n, m>> => wire'[i][j] = wire[i][j]
  BY PutMoves
<1>2. CASE {n, m} \in shut
  BY <1>1, <1>2 DEF Signed
<1>3. CASE {n, m} \notin shut
  <2> DEFINE q == wire[n][m]
             w == wire'[n][m]
  <2>1. q \in Seq(Rows) /\ w = Append(q, x)
    BY <1>1, <1>3 DEF TypeOK
  <2>2. \A i \in DOMAIN q : q[i].type = "chat" => q[i].who = n
    BY DEF Signed
  <2> HIDE DEF q, w
  <2>3. /\ Len(w) = Len(q) + 1 /\ w \in Seq(Rows)
        /\ \A i \in 1..Len(q) : w[i] = q[i]
        /\ w[Len(q) + 1] = x
    BY <2>1, AppendProperties
  <2>4. DOMAIN w = 1..(Len(q) + 1) /\ DOMAIN q = 1..Len(q) /\ Len(q) \in Nat
    BY <2>1, <2>3, LenProperties
  <2>5. \A i \in DOMAIN w : w[i].type = "chat" => w[i].who = n
    BY <2>3, <2>4, <2>2
  <2> QED  BY <1>1, <2>5 DEF Signed, w
<1> QED  BY <1>2, <1>3

LEMMA SignedTake ==
    ASSUME TypeOK, Signed, NEW n \in Nodes, NEW m \in Nodes \ {n}, wire[m][n] # <<>>,
           wire' = [wire EXCEPT ![m][n] = Tail(@)]
    PROVE  Signed' /\ (Head(wire[m][n]).type = "chat" => Head(wire[m][n]).who = m)
<1> DEFINE q == wire[m][n]
           w == wire'[m][n]
<1>1. /\ w = Tail(q)
      /\ \A i, j \in Nodes : <<i, j>> # <<m, n>> => wire'[i][j] = wire[i][j]
  BY TakeMoves
<1>2. q \in Seq(Rows) /\ q # <<>>
  BY DEF TypeOK
<1>3. \A i \in DOMAIN q : q[i].type = "chat" => q[i].who = m
  BY DEF Signed
<1>4. w = Tail(q)
  BY <1>1
<1> HIDE DEF q, w
<1>5. /\ Len(w) = Len(q) - 1 /\ w \in Seq(Rows) /\ Head(q) = q[1]
      /\ \A i \in 1..Len(w) : w[i] = q[i + 1]
  BY <1>2, <1>4, HeadTailProperties
<1>6. /\ DOMAIN w = 1..Len(w) /\ DOMAIN q = 1..Len(q)
      /\ Len(q) \in Nat \ {0} /\ Len(w) \in Nat
  BY <1>2, <1>5, LenProperties, EmptySeq
<1>7. \A i \in DOMAIN w : w[i].type = "chat" => w[i].who = m
  BY <1>5, <1>6, <1>3
<1>8. Head(q).type = "chat" => Head(q).who = m
  BY <1>5, <1>6, <1>3
<1> QED  BY <1>1, <1>7, <1>8 DEF Signed, q, w

Sound == TypeOK /\ Signed /\ Together /\ Blank

\* Whoever is shown something has a window that is followed.
LEMMA EmitBlank ==
    ASSUME TypeOK, Blank, NEW n \in Nodes, NEW rows \in Seq(Rows), emit(n, rows),
           UNCHANGED <<screen, left>>
    PROVE  Blank'
BY EmitMoves DEF Blank

LEMMA OwnSound ==
    ASSUME ChatAssumption, Sound, NEW n \in Nodes,
           SendChat(n) \/ ShowOwn(n) \/ SendTo(n) \/ Export(n) \/ WriteFile(n)
    PROVE  Sound'
<1> USE DEF Sound
<1>1. TypeOK
  OBVIOUS
<1>2. /\ said[n] \in Nat /\ history[n] \in Seq(Rows) /\ peers[n] \in SUBSET Nodes
      /\ ui[n] \in UiStates
  BY DEF TypeOK
<1>3. CASE SendChat(n)
  <2>1. record(n, Line(n, said[n] + 1)) /\ Line(n, said[n] + 1) \in Rows
    BY <1>2, <1>3, LinesAreRows DEF SendChat
  <2>2. [at |-> "emit"] \in UiStates /\ UiIs(n, [at |-> "emit"])
    BY <1>3 DEF SendChat, UiStates
  <2>3. TypeOK'
    <3>1. history' \in [Nodes -> Seq(Rows)]
      BY <2>1, RecordMoves
    <3>2. ui' \in [Nodes -> UiStates]
      BY <2>2, UiMoves
    <3>3. said' \in [Nodes -> Nat]
      BY <1>3 DEF SendChat, TypeOK
    <3> QED  BY <1>3, <3>1, <3>2, <3>3 DEF SendChat, TypeOK
  <2> QED  BY <1>3, <2>3 DEF SendChat, Signed, Together, Blank
<1>4. CASE ShowOwn(n)
  <2>1. Line(n, said[n]) \in Rows /\ Note("undelivered", n) \in Rows
    BY <1>2, LinesAreRows
  <2>2. /\ <<Line(n, said[n])>> \in Seq(Rows)
        /\ <<Line(n, said[n]), Note("undelivered", n)>> \in Seq(Rows)
    BY <2>1
  <2>3. PICK rows \in Seq(Rows) : emit(n, rows)
    BY <1>4, <2>2 DEF ShowOwn
  <2>4. PICK s \in UiStates : UiIs(n, s)
    BY <1>2, <1>4 DEF ShowOwn, UiStates
  <2>5. TypeOK'
    <3>1. events' \in [Nodes -> Seq(Rows)]
      BY <2>3, EmitMoves
    <3>2. ui' \in [Nodes -> UiStates]
      BY <2>4, UiMoves
    <3> QED  BY <1>4, <3>1, <3>2 DEF ShowOwn, TypeOK
  <2>6. Blank'
    BY <1>4, <2>3, EmitBlank DEF ShowOwn
  <2> QED  BY <1>4, <2>5, <2>6 DEF ShowOwn, Signed, Together
<1>5. CASE SendTo(n)
  <2>1. PICK m \in ui[n].to :
           /\ wire' = Put(wire, n, m, Line(n, said[n]))
           /\ UiIs(n, IF ui[n].to = {m} THEN Idle ELSE [ui[n] EXCEPT !.to = @ \ {m}])
    BY <1>5 DEF SendTo
  <2>2. ui[n] \in [at : {"send"}, to : SUBSET Nodes]
    BY <1>2, <1>5 DEF SendTo, UiStates, Idle
  <2>3. m \in Nodes /\ [ui[n] EXCEPT !.to = @ \ {m}] \in UiStates /\ Idle \in UiStates
    BY <2>2 DEF UiStates
  <2>4. Line(n, said[n]) \in Rows /\ Line(n, said[n]).who = n
    BY <1>2, LinesAreRows DEF Line
  <2>5. TypeOK'
    <3>1. wire' \in [Nodes -> [Nodes -> Seq(Rows)]]
      BY <2>1, <2>3, <2>4, PutMoves
    <3>2. ui' \in [Nodes -> UiStates]
      BY <2>1, <2>3, UiMoves
    <3> QED  BY <1>5, <3>1, <3>2 DEF SendTo, TypeOK
  <2>6. Signed'
    BY <2>1, <2>3, <2>4, SignedPut
  <2> QED  BY <1>5, <2>5, <2>6 DEF SendTo, Together, Blank
<1>6. CASE Export(n)
  <2>1. /\ UiIs(n, [at |-> "write", lines |-> history[n]])
        /\ [at |-> "write", lines |-> history[n]] \in UiStates
    BY <1>2, <1>6 DEF Export, UiStates
  <2>2. ui' \in [Nodes -> UiStates]
    BY <2>1, UiMoves
  <2>3. TypeOK'
    BY <1>6, <2>2 DEF Export, TypeOK
  <2> QED  BY <1>6, <2>3 DEF Export, Signed, Together, Blank
<1>7. CASE WriteFile(n)
  <2>1. UiIs(n, Idle) /\ Idle \in UiStates
    BY <1>7 DEF WriteFile, UiStates
  <2>2. ui' \in [Nodes -> UiStates]
    BY <2>1, UiMoves
  <2>3. TypeOK'
    BY <1>7, <2>2 DEF WriteFile, TypeOK
  <2> QED  BY <1>7, <2>3 DEF WriteFile, Signed, Together, Blank
<1> QED  BY <1>3, <1>4, <1>5, <1>6, <1>7

LEMMA ReaderSound ==
    ASSUME ChatAssumption, Sound, NEW n \in Nodes, NEW m \in Nodes \ {n},
           Receive(n, m) \/ ShowTheirs(n, m) \/ RecvFails(n, m) \/ TellGone(n, m)
    PROVE  Sound'
<1> USE DEF Sound
<1>1. reader[n][m] \in ReaderStates
  <2>1. reader[n] \in [Nodes \ {n} -> ReaderStates]
    BY DEF TypeOK
  <2> QED  BY <2>1
<1>2. CASE Receive(n, m)
  <2> DEFINE msg == Head(wire[m][n])
  <2>1. wire[m][n] # <<>> /\ wire' = [wire EXCEPT ![m][n] = Tail(@)]
    BY <1>2 DEF Receive
  <2>2. wire' \in [Nodes -> [Nodes -> Seq(Rows)]] /\ msg \in Rows
    BY <2>1, TakeMoves
  <2>3. Signed'
    BY <2>1, SignedTake
  <2>4. UNCHANGED <<said, screen, ui, left, exported>>
    BY <1>2 DEF Receive
  <2>5. CASE /\ record(n, msg)
             /\ ReaderIs(n, m, [at |-> "emit", line |-> msg])
             /\ UNCHANGED <<events, peers, shut>>
    <3>1. history' \in [Nodes -> Seq(Rows)]
      BY <2>2, <2>5, RecordMoves
    <3>2. [at |-> "emit", line |-> msg] \in ReaderStates
      BY <2>2 DEF ReaderStates
    <3>3. /\ DOMAIN reader' = Nodes
          /\ \A i \in Nodes : reader'[i] \in [Nodes \ {i} -> ReaderStates]
      BY <2>5, <3>2, ReaderMoves
    <3>4. TypeOK'
      BY <2>2, <2>4, <2>5, <3>1, <3>3 DEF TypeOK
    <3> QED  BY <2>3, <2>4, <2>5, <3>4 DEF Together, Blank
  <2>6. CASE emit(n, <<msg>>) /\ UNCHANGED <<history, reader, peers, shut>>
    <3>1. <<msg>> \in Seq(Rows)
      BY <2>2
    <3>2. events' \in [Nodes -> Seq(Rows)]
      BY <2>6, <3>1, EmitMoves
    <3>3. Blank'
      BY <2>4, <2>6, <3>1, EmitBlank
    <3>4. TypeOK'
      BY <2>2, <2>4, <2>6, <3>2 DEF TypeOK
    <3> QED  BY <2>3, <2>6, <3>3, <3>4 DEF Together
  <2>7. CASE PeerGone(n, m) /\ UNCHANGED <<history, events>>
    <3>1. /\ peers' \in [Nodes -> SUBSET Nodes] /\ shut' \in SUBSET SUBSET Nodes
          /\ Together'
          /\ \E s \in ReaderStates : s.at = "tell" /\ ReaderIs(n, m, s)
      BY <2>7, PeerGoneMoves
    <3>2. /\ DOMAIN reader' = Nodes
          /\ \A i \in Nodes : reader'[i] \in [Nodes \ {i} -> ReaderStates]
      BY <3>1, ReaderMoves
    <3>3. TypeOK'
      BY <2>2, <2>4, <2>7, <3>1, <3>2 DEF TypeOK
    <3> QED  BY <2>3, <2>4, <2>7, <3>1, <3>3 DEF Blank
  <2> QED  BY <1>2, <2>5, <2>6, <2>7 DEF Receive
<1>3. CASE ShowTheirs(n, m)
  <2>1. reader[n][m] \in [at : {"emit"}, line : Rows]
    BY <1>1, <1>3 DEF ShowTheirs, ReaderStates, Receiving
  <2>2. emit(n, <<reader[n][m].line>>) /\ <<reader[n][m].line>> \in Seq(Rows)
    BY <1>3, <2>1 DEF ShowTheirs
  <2>3. ReaderIs(n, m, Receiving) /\ Receiving \in ReaderStates
    BY <1>3 DEF ShowTheirs, ReaderStates
  <2>4. events' \in [Nodes -> Seq(Rows)]
    BY <2>2, EmitMoves
  <2>5. /\ DOMAIN reader' = Nodes
        /\ \A i \in Nodes : reader'[i] \in [Nodes \ {i} -> ReaderStates]
    BY <2>3, ReaderMoves
  <2>6. TypeOK'
    BY <1>3, <2>4, <2>5 DEF ShowTheirs, TypeOK
  <2>7. Blank'
    BY <1>3, <2>2, EmitBlank DEF ShowTheirs
  <2> QED  BY <1>3, <2>6, <2>7 DEF ShowTheirs, Signed, Together
<1>4. CASE RecvFails(n, m)
  <2>1. /\ peers' \in [Nodes -> SUBSET Nodes] /\ shut' \in SUBSET SUBSET Nodes
        /\ Together'
        /\ \E s \in ReaderStates : s.at = "tell" /\ ReaderIs(n, m, s)
    BY <1>4, PeerGoneMoves DEF RecvFails
  <2>2. /\ DOMAIN reader' = Nodes
        /\ \A i \in Nodes : reader'[i] \in [Nodes \ {i} -> ReaderStates]
    BY <2>1, ReaderMoves
  <2>3. TypeOK'
    BY <1>4, <2>1, <2>2 DEF RecvFails, TypeOK
  <2> QED  BY <1>4, <2>1, <2>3 DEF RecvFails, Signed, Blank
<1>5. CASE TellGone(n, m)
  <2>1. PICK p \in reader[n][m].to :
           /\ wire' = Put(wire, n, p, Note("left", m))
           /\ ReaderIs(n, m, Telling(reader[n][m].to \ {p}))
    BY <1>5 DEF TellGone
  <2>2. reader[n][m] \in [at : {"tell"}, to : SUBSET Nodes]
    BY <1>1, <1>5 DEF TellGone, ReaderStates, Receiving
  <2>3. p \in Nodes /\ Telling(reader[n][m].to \ {p}) \in ReaderStates
    BY <2>2 DEF ReaderStates, Telling
  <2>4. Note("left", m) \in Rows /\ Note("left", m).type # "chat"
    BY LinesAreRows DEF Note
  <2>5. wire' \in [Nodes -> [Nodes -> Seq(Rows)]]
    BY <2>1, <2>3, <2>4, PutMoves
  <2>6. Signed'
    BY <2>1, <2>3, <2>4, SignedPut
  <2>7. /\ DOMAIN reader' = Nodes
        /\ \A i \in Nodes : reader'[i] \in [Nodes \ {i} -> ReaderStates]
    BY <2>1, <2>3, ReaderMoves
  <2>8. TypeOK'
    BY <1>5, <2>5, <2>7 DEF TellGone, TypeOK
  <2> QED  BY <1>5, <2>6, <2>8 DEF TellGone, Together, Blank
<1> QED  BY <1>2, <1>3, <1>4, <1>5

LEMMA PushMoves ==
    ASSUME NEW s \in Seq(Rows), NEW x \in Rows, ChatAssumption
    PROVE  push_message(s, x) \in Seq(Rows)
<1>1. CASE Len(s) >= MaxVisible
  <2>1. s # <<>>
    BY <1>1, EmptySeq DEF ChatAssumption
  <2>2. Tail(s) \in Seq(Rows)
    BY <2>1, HeadTailProperties
  <2> QED  BY <1>1, <2>2, AppendProperties DEF push_message
<1>2. CASE ~ (Len(s) >= MaxVisible)
  BY <1>2, AppendProperties DEF push_message
<1> QED  BY <1>1, <1>2

LEMMA PumpSound ==
    ASSUME ChatAssumption, Sound, NEW n \in Nodes, Pump(n)  PROVE  Sound'
<1> USE DEF Sound
<1>1. events[n] \in Seq(Rows) /\ events[n] # <<>> /\ screen[n] \in Seq(Rows)
  BY DEF TypeOK, Pump
<1>2. Head(events[n]) \in Rows /\ Tail(events[n]) \in Seq(Rows)
  BY <1>1, HeadTailProperties
<1>3. push_message(screen[n], Head(events[n])) \in Seq(Rows)
  BY <1>1, <1>2, PushMoves
<1>4. screen' \in [Nodes -> Seq(Rows)] /\ events' \in [Nodes -> Seq(Rows)]
  BY <1>2, <1>3 DEF Pump, TypeOK
<1>5. TypeOK'
  BY <1>4 DEF Pump, TypeOK
<1>6. n \in Viewers \ left
  BY <1>1 DEF Blank
<1>7. \A i \in Nodes : i # n => screen'[i] = screen[i] /\ events'[i] = events[i]
  BY DEF Pump, TypeOK
<1>8. Blank'
  BY <1>6, <1>7 DEF Pump, Blank
<1> QED  BY <1>5, <1>8 DEF Pump, Signed, Together

LEMMA LinkBreaksSound ==
    ASSUME ChatAssumption, Sound, NEW link \in Fragile, LinkBreaks(link)  PROVE  Sound'
<1>1. TypeOK'
  <2>1. shut \in SUBSET SUBSET Nodes /\ link \in SUBSET Nodes
    BY DEF Sound, TypeOK, ChatAssumption
  <2>2. shut' \in SUBSET SUBSET Nodes
    BY <2>1 DEF LinkBreaks
  <2> QED  BY <2>2 DEF Sound, TypeOK, LinkBreaks
<1> QED  BY <1>1 DEF Sound, LinkBreaks, Signed, Together, Blank

LEMMA LeaveMoves ==
    ASSUME ChatAssumption, TypeOK, NEW n \in Nodes, Leave(n)
    PROVE  /\ wire' \in [Nodes -> [Nodes -> Seq(Rows)]]
           /\ \A m \in Nodes : \/ wire'[n][m] = wire[n][m]
                               \/ wire'[n][m] = Append(wire[n][m], Bye)
           /\ \A i, m \in Nodes : i # n => wire'[i][m] = wire[i][m]
<1> DEFINE w == [m \in Nodes |->
               IF m \in peers[n] /\ {n, m} \notin shut
               THEN Append(wire[n][m], Bye) ELSE wire[n][m]]
<1>1. wire \in [Nodes -> [Nodes -> Seq(Rows)]] /\ \A m \in Nodes : wire[n][m] \in Seq(Rows)
  BY DEF TypeOK
<1>2. wire' = [wire EXCEPT ![n] = w]
  BY DEF Leave
<1>3. \A m \in Nodes : Append(wire[n][m], Bye) \in Seq(Rows)
  BY <1>1, LinesAreRows, AppendProperties
<1>4. w \in [Nodes -> Seq(Rows)]
  BY <1>1, <1>3
<1>5. \A m \in Nodes : w[m] = wire[n][m] \/ w[m] = Append(wire[n][m], Bye)
  OBVIOUS
<1> HIDE DEF w
<1> QED  BY <1>1, <1>2, <1>4, <1>5

LEMMA LeaveSound ==
    ASSUME ChatAssumption, Sound, NEW n \in Nodes, Leave(n)  PROVE  Sound'
<1> USE DEF Sound
<1>1. /\ wire' \in [Nodes -> [Nodes -> Seq(Rows)]]
      /\ \A m \in Nodes : \/ wire'[n][m] = wire[n][m]
                          \/ wire'[n][m] = Append(wire[n][m], Bye)
      /\ \A i, m \in Nodes : i # n => wire'[i][m] = wire[i][m]
  BY LeaveMoves
<1>2. TypeOK'
  <2>1. /\ peers' \in [Nodes -> SUBSET Nodes] /\ left' \in SUBSET Nodes
        /\ events' \in [Nodes -> Seq(Rows)] /\ screen' \in [Nodes -> Seq(Rows)]
    BY DEF Leave, TypeOK
  <2>2. peers[n] \subseteq Nodes
    BY DEF TypeOK
  <2>3. shut' \in SUBSET SUBSET Nodes
    <3>1. shut \in SUBSET SUBSET Nodes /\ shut' = shut \cup {{n, m} : m \in peers[n]}
      BY DEF Leave, TypeOK
    <3> QED  BY <2>2, <3>1
  <2> QED  BY <1>1, <2>1, <2>3 DEF Leave, TypeOK
<1>3. Signed'
  <2>1. \A m \in Nodes : \A i \in DOMAIN wire'[n][m] :
           wire'[n][m][i].type = "chat" => wire'[n][m][i].who = n
    <3> TAKE m \in Nodes
    <3> DEFINE q == wire[n][m]
               v == wire'[n][m]
    <3>1. \A i \in DOMAIN q : q[i].type = "chat" => q[i].who = n
      BY DEF Signed
    <3>2. q \in Seq(Rows) /\ (v = q \/ v = Append(q, Bye))
      BY <1>1 DEF TypeOK
    <3>3. Bye.type # "chat" /\ Bye \in Rows
      BY LinesAreRows DEF Bye, Note
    <3> HIDE DEF q, v
    <3>4. CASE v = Append(q, Bye)
      <4>1. /\ Len(v) = Len(q) + 1 /\ v \in Seq(Rows)
            /\ \A i \in 1..Len(q) : v[i] = q[i]
            /\ v[Len(q) + 1] = Bye
        BY <3>2, <3>3, <3>4, AppendProperties
      <4>2. DOMAIN v = 1..(Len(q) + 1) /\ DOMAIN q = 1..Len(q) /\ Len(q) \in Nat
        BY <3>2, <4>1, LenProperties
      <4>3. \A i \in DOMAIN v : v[i].type = "chat" => v[i].who = n
        BY <3>1, <3>3, <4>1, <4>2
      <4> QED  BY <4>3 DEF v
    <3> QED  BY <3>1, <3>2, <3>4 DEF q, v
  <2>2. \A a, m \in Nodes : a # n => \A i \in DOMAIN wire'[a][m] :
           wire'[a][m][i].type = "chat" => wire'[a][m][i].who = a
    <3> TAKE a, m \in Nodes
    <3> HAVE a # n
    <3>1. wire'[a][m] = wire[a][m]
      BY <1>1
    <3>2. \A i \in DOMAIN wire[a][m] :
             wire[a][m][i].type = "chat" => wire[a][m][i].who = a
      BY DEF Signed
    <3> QED  BY <3>1, <3>2
  <2>3. \A a, m \in Nodes : \A i \in DOMAIN wire'[a][m] :
           wire'[a][m][i].type = "chat" => wire'[a][m][i].who = a
    <3> TAKE a, m \in Nodes
    <3> QED  BY <2>1, <2>2
  <2> QED  BY <2>3 DEF Signed
<1>4. Together'
  <2>1. \A i \in Nodes : i # n => peers'[i] = peers[i]
    BY DEF Leave, TypeOK
  <2>2. shut' = shut \cup {{n, m} : m \in peers[n]}
    BY DEF Leave
  <2>3. ASSUME NEW i \in Nodes, NEW j \in Nodes, i # j, {i, j} \notin shut'
        PROVE  j \in peers'[i]
    <3>1. j \in peers[i] /\ i \in peers[j]
      <4>1. {i, j} = {j, i}
        OBVIOUS
      <4> QED  BY <2>2, <2>3, <4>1 DEF Together
    <3>2. i # n
      BY <2>2, <2>3, <3>1
    <3> QED  BY <2>1, <3>1, <3>2
  <2> QED  BY <2>3 DEF Together
<1>5. Blank'
  BY DEF Leave, Blank, TypeOK
<1> QED  BY <1>2, <1>3, <1>4, <1>5

LEMMA SoundStep ==
    ASSUME ChatAssumption, Sound, [Next]_vars  PROVE  Sound'
<1>1. CASE UNCHANGED vars
  <2>1. TypeOK'
    BY <1>1 DEF vars, Sound, TypeOK
  <2> QED  BY <1>1, <2>1 DEF vars, Sound, Signed, Together, Blank
<1>2. CASE Next
  BY <1>2, OwnSound, ReaderSound, PumpSound, LinkBreaksSound, LeaveSound
     DEF Next, System
<1> QED  BY <1>1, <1>2

-----------------------------------------------------------------------------
(* From an author's pen to a reader's window: what a step leaves alone.    *)

LEMMA KeptSame ==
    ASSUME NEW i, NEW a, NEW r, Kept(i, a, r),
           history'[i] = history[i], i = a => said'[a] = said[a]
    PROVE  Kept(i, a, r)'
BY DEF Kept

LEMMA ComingSame ==
    ASSUME NEW i, NEW a, NEW r, NEW t, Coming(i, a, r, t),
           i # a => /\ wire'[a][i] = wire[a][i] /\ said'[a] = said[a]
                    /\ shut \subseteq shut'
                    /\ Pending(a, i)' <=> Pending(a, i)
                    /\ \/ reader'[i][a] = reader[i][a]
                       \/ reader'[i][a].at # "emit"
    PROVE  Coming(i, a, r, t)'
BY DEF Coming

LEMMA SeenSame ==
    ASSUME NEW i, NEW a, NEW r, NEW s, NEW u, Seen(i, a, r, s, u),
           screen'[i] = screen[i], events'[i] = events[i], left \subseteq left',
           Unshown(i, a)' <=> Unshown(i, a)
    PROVE  Seen(i, a, r, s, u)'
BY DEF Seen

LEMMA PendingSame ==
    ASSUME NEW i, NEW a, ui'[a] = ui[a]
    PROVE  Pending(a, i)' <=> Pending(a, i)
BY DEF Pending

LEMMA UnshownSame ==
    ASSUME NEW i, NEW a, i = a => ui'[i] = ui[i],
           i # a => reader'[i][a] = reader[i][a]
    PROVE  Unshown(i, a)' <=> Unshown(i, a)
BY DEF Unshown

\* What a step does not touch keeps its chain.
LEMMA ChainSame ==
    ASSUME NEW i, NEW a, Chain(i, a),
           said'[a] = said[a], history'[i] = history[i], events'[i] = events[i],
           screen'[i] = screen[i], shut \subseteq shut', left \subseteq left',
           i # a => wire'[a][i] = wire[a][i] /\ reader'[i][a] = reader[i][a],
           Pending(a, i)' <=> Pending(a, i), i = a => ui'[i] = ui[i]
    PROVE  Chain(i, a)'
<1>1. PICK r, t, s, u \in 0..said[a] :
         Kept(i, a, r) /\ Coming(i, a, r, t) /\ Seen(i, a, r, s, u)
  BY DEF Chain
<1>2. Kept(i, a, r)'
  BY <1>1, KeptSame
<1>3. Coming(i, a, r, t)'
  BY <1>1, ComingSame
<1>4. Seen(i, a, r, s, u)'
  BY <1>1, SeenSame, UnshownSame
<1> QED  BY <1>2, <1>3, <1>4 DEF Chain

LEMMA SendChatChains ==
    ASSUME ChatAssumption, Sound, Chained, NEW n \in Nodes, SendChat(n)
    PROVE  Chained'
<1>1. /\ TypeOK /\ said \in [Nodes -> Nat] /\ history \in [Nodes -> Seq(Rows)]
      /\ said[n] \in Nat /\ wire \in [Nodes -> [Nodes -> Seq(Rows)]]
  BY DEF Sound, TypeOK
<1> DEFINE x == Line(n, said[n] + 1)
<1>2. /\ x \in Rows /\ x.k = said[n] + 1 /\ \A a \in Nodes : Mine(x, a) <=> n = a
      /\ record(n, x)
  BY <1>1, LinesAreRows DEF SendChat, Line
<1>3. /\ history'[n] = Append(history[n], x)
      /\ \A i \in Nodes : i # n => history'[i] = history[i]
  BY <1>1, <1>2, RecordMoves
<1>4. /\ ui[n] = Idle /\ UiIs(n, [at |-> "emit"]) /\ [at |-> "emit"] \in UiStates
      /\ UNCHANGED <<events, screen, peers, wire, shut, reader, left, exported>>
  BY DEF SendChat, UiStates
<1>5. ui'[n] = [at |-> "emit"] /\ \A i \in Nodes : i # n => ui'[i] = ui[i]
  BY <1>1, <1>4, UiMoves
<1>6. said'[n] = said[n] + 1 /\ \A i \in Nodes : i # n => said'[i] = said[i]
  BY <1>1 DEF SendChat
<1> HIDE DEF x
<1>7. ASSUME NEW i \in Nodes, NEW a \in Nodes  PROVE  Chain(i, a)'
  <2>1. PICK r, t, s, u \in 0..said[a] :
           Kept(i, a, r) /\ Coming(i, a, r, t) /\ Seen(i, a, r, s, u)
    BY DEF Chained, Chain
  <2>2. history[i] \in Seq(Rows) /\ said[a] \in Nat
    BY <1>1
  <2>3. CASE a # n
    <3>1. Kept(i, a, r)'
      <4>1. i # n => Kept(i, a, r)'
        BY <1>3, <1>6, <2>1, <2>3, KeptSame
      <4>2. i = n => Runs(Append(history[i], x), a, 0, r)
        BY <1>2, <2>1, <2>2, <2>3, RunsOther DEF Kept
      <4> QED  BY <1>3, <2>3, <4>1, <4>2 DEF Kept
    <3>2. Coming(i, a, r, t)'
      BY <1>4, <1>5, <1>6, <2>1, <2>3, ComingSame, PendingSame
    <3>3. Seen(i, a, r, s, u)'
      BY <1>4, <1>5, <2>1, <2>3, SeenSame, UnshownSame
    <3> QED  BY <1>6, <2>1, <2>3, <3>1, <3>2, <3>3 DEF Chain
  <2>4. CASE a = n /\ i # n
    <3>1. Kept(i, a, r)'
      BY <1>3, <2>1, <2>4, KeptSame
    <3>2. ~ Pending(a, i) /\ Pending(a, i)'
      BY <1>4, <1>5, <2>4 DEF Pending, Idle
    <3>3. Coming(i, a, r, t)'
      BY <1>4, <1>6, <2>1, <2>4, <3>2 DEF Coming
    <3>4. Seen(i, a, r, s, u)'
      BY <1>4, <2>1, <2>4, SeenSame, UnshownSame
    <3>5. r \in 0..said'[a] /\ t \in 0..said'[a] /\ s \in 0..said'[a] /\ u \in 0..said'[a]
      BY <1>6, <2>1, <2>2, <2>4
    <3> QED  BY <3>1, <3>3, <3>4, <3>5 DEF Chain
  <2>5. CASE a = n /\ i = n
    <3>1. r = said[n] /\ Runs(history[n], n, 0, r)
      BY <2>1, <2>5 DEF Kept
    <3>2. Runs(Append(history[n], x), n, 0, r + 1)
      BY <1>2, <2>1, <2>2, <2>5, <3>1, RunsNext
    <3>3. Kept(i, a, r + 1)'
      BY <1>3, <1>6, <2>5, <3>1, <3>2 DEF Kept
    <3>4. ~ Unshown(i, a) /\ Unshown(i, a)'
      BY <1>4, <1>5, <2>5 DEF Unshown, Idle
    <3>5. Seen(i, a, r + 1, s, u)'
      BY <1>4, <2>1, <3>4 DEF Seen
    <3>6. Coming(i, a, r + 1, t)'
      BY <2>5 DEF Coming
    <3>7. r + 1 \in 0..said'[a] /\ t \in 0..said'[a] /\ s \in 0..said'[a] /\ u \in 0..said'[a]
      BY <1>6, <2>1, <2>2, <2>5, <3>1
    <3> QED  BY <3>3, <3>5, <3>6, <3>7 DEF Chain
  <2> QED  BY <2>3, <2>4, <2>5
<1> QED  BY <1>7 DEF Chained

-----------------------------------------------------------------------------
(* Lines that are shown and sent.                                          *)

LEMMA SeenLater ==
    ASSUME TypeOK, NEW i \in Nodes, NEW a \in Nodes, NEW x \in Rows, NEW y \in Rows,
           ~ Mine(y, a), emit(i, <<x>>) \/ emit(i, <<x, y>>), UNCHANGED <<screen, left>>,
           NEW r \in Nat, NEW s \in Nat, NEW u \in Nat, Seen(i, a, r, s, u)
    PROVE  /\ ~ Mine(x, a) /\ (Unshown(i, a)' <=> Unshown(i, a)) => Seen(i, a, r, s, u)'
           /\ Mine(x, a) /\ x.k = r /\ Unshown(i, a) /\ ~ Unshown(i, a)' =>
                 Seen(i, a, r, s, r)'
<1> DEFINE w == screen[i] \o events[i]
           w2 == screen[i] \o events'[i]
<1>1. CASE i \notin Viewers \ left
  BY <1>1 DEF Seen
<1>2. CASE i \in Viewers \ left
  <2>1. /\ screen[i] \in Seq(Rows) /\ events[i] \in Seq(Rows) /\ w \in Seq(Rows)
        /\ <<x>> \in Seq(Rows) /\ <<x, y>> \in Seq(Rows)
    BY ConcatProperties DEF TypeOK
  <2>2. w2 = Append(w, x) \/ w2 = Append(Append(w, x), y)
    <3>1. events'[i] = events[i] \o <<x>> \/ events'[i] = events[i] \o <<x, y>>
      BY <1>2, <2>1, EmitMoves
    <3>2. CASE events'[i] = events[i] \o <<x>>
      <4>1. \A p, q \in Seq(Rows) : p \o (q \o <<x>>) = Append(p \o q, x)
        BY ShowOne
      <4> QED  BY <2>1, <3>2, <4>1
    <3>3. CASE events'[i] = events[i] \o <<x, y>>
      <4>1. \A p, q \in Seq(Rows) : p \o (q \o <<x, y>>) = Append(Append(p \o q, x), y)
        BY ShowTwo
      <4> QED  BY <2>1, <3>3, <4>1
    <3> QED  BY <3>1, <3>2, <3>3
  <2>3. s <= u /\ Runs(w, a, s, u) /\ r = (IF Unshown(i, a) THEN u + 1 ELSE u)
    BY <1>2 DEF Seen
  <2>4. screen'[i] \o events'[i] = w2
    OBVIOUS
  <2> HIDE DEF w, w2
  <2>5. Append(w, x) \in Seq(Rows)
    BY <2>1, AppendProperties
  <2>6. ASSUME ~ Mine(x, a), Unshown(i, a)' <=> Unshown(i, a)
        PROVE  Seen(i, a, r, s, u)'
    <3>1. Runs(Append(w, x), a, s, u)
      BY <2>1, <2>3, <2>6, RunsOther
    <3>2. Runs(w2, a, s, u)
      BY <2>2, <2>5, <3>1, RunsOther
    <3> QED  BY <2>3, <2>4, <2>6, <3>2 DEF Seen
  <2>7. ASSUME Mine(x, a), x.k = r, Unshown(i, a), ~ Unshown(i, a)'
        PROVE  Seen(i, a, r, s, r)'
    <3>1. Runs(Append(w, x), a, s, u + 1) /\ r = u + 1
      BY <2>1, <2>3, <2>7, RunsNext
    <3>2. Runs(w2, a, s, r)
      BY <2>2, <2>5, <3>1, RunsOther
    <3> QED  BY <2>3, <2>4, <2>7, <3>1, <3>2 DEF Seen
  <2> QED  BY <2>6, <2>7
<1> QED  BY <1>1, <1>2

LEMMA ShowOwnChains ==
    ASSUME ChatAssumption, Sound, Chained, NEW n \in Nodes, ShowOwn(n)
    PROVE  Chained'
<1>1. /\ TypeOK /\ said \in [Nodes -> Nat] /\ said[n] \in Nat
      /\ peers[n] \in SUBSET Nodes
  BY DEF Sound, TypeOK
<1> DEFINE x == Line(n, said[n])
           y == Note("undelivered", n)
<1>2. /\ x \in Rows /\ y \in Rows /\ x.k = said[n]
      /\ \A a \in Nodes : (Mine(x, a) <=> n = a) /\ ~ Mine(y, a)
  BY <1>1, LinesAreRows DEF Line
<1>3. /\ emit(n, <<x>>) \/ emit(n, <<x, y>>)
      /\ UNCHANGED <<said, history, screen, peers, wire, shut, reader, left, exported>>
      /\ ui[n].at = "emit"
  BY DEF ShowOwn
<1>4. PICK v \in UiStates :
         /\ UiIs(n, v)
         /\ \/ v.at = "send" /\ v.to = peers[n]
            \/ v = Idle /\ peers[n] = {}
  <2>1. CASE UiIs(n, [at |-> "send", to |-> peers[n]])
    <3>1. [at |-> "send", to |-> peers[n]] \in UiStates
      BY <1>1 DEF UiStates
    <3> QED  BY <2>1, <3>1
  <2>2. CASE peers[n] = {} /\ UiIs(n, Idle)
    <3>1. Idle \in UiStates
      BY DEF UiStates
    <3> QED  BY <2>2, <3>1
  <2> QED  BY <2>1, <2>2 DEF ShowOwn
<1>5. ui'[n] = v /\ \A i \in Nodes : i # n => ui'[i] = ui[i]
  BY <1>1, <1>4, UiMoves
<1> HIDE DEF x, y
<1>6. <<x>> \in Seq(Rows) /\ <<x, y>> \in Seq(Rows)
  BY <1>2
<1>7. \A i \in Nodes : i # n => events'[i] = events[i]
  BY <1>1, <1>3, <1>6, EmitMoves
<1>8. ASSUME NEW i \in Nodes, NEW a \in Nodes  PROVE  Chain(i, a)'
  <2>1. PICK r, t, s, u \in 0..said[a] :
           Kept(i, a, r) /\ Coming(i, a, r, t) /\ Seen(i, a, r, s, u)
    BY DEF Chained, Chain
  <2>2. said[a] \in Nat /\ r \in Nat /\ t \in Nat /\ s \in Nat /\ u \in Nat
    BY <1>1
  <2>3. Kept(i, a, r)'
    BY <1>3, <2>1, KeptSame
  <2>4. Coming(i, a, r, t)'
    <3>1. CASE a # n
      BY <1>3, <1>5, <2>1, <3>1, ComingSame, PendingSame
    <3>2. CASE a = n
      <4>1. Pending(a, i)
        BY <1>3, <3>2 DEF Pending
      <4>2. i # a /\ {a, i} \notin shut => i \in peers[n]
        BY <3>2 DEF Sound, Together
      <4>3. i # a /\ {a, i} \notin shut => Pending(a, i)'
        BY <1>4, <1>5, <3>2, <4>2 DEF Pending
      <4> QED  BY <1>3, <2>1, <4>1, <4>3 DEF Coming
    <3> QED  BY <3>1, <3>2
  <2>5. CASE i # n
    <3>1. Seen(i, a, r, s, u)'
      BY <1>3, <1>5, <1>7, <2>1, <2>5, SeenSame, UnshownSame
    <3> QED  BY <1>3, <2>1, <2>3, <2>4, <3>1 DEF Chain
  <2>6. CASE i = n /\ a # n
    <3>1. Unshown(i, a)' <=> Unshown(i, a)
      BY <1>3, <2>6, UnshownSame
    <3>2. ~ Mine(x, a) /\ ~ Mine(y, a)
      BY <1>2, <2>6
    <3>3. (emit(i, <<x>>) \/ emit(i, <<x, y>>)) /\ UNCHANGED <<screen, left>>
      BY <1>3, <2>6
    <3>4. Seen(i, a, r, s, u)'
      BY <1>1, <1>2, <2>1, <2>2, <3>1, <3>2, <3>3, SeenLater
    <3> QED  BY <1>3, <2>1, <2>3, <2>4, <3>4 DEF Chain
  <2>7. CASE i = n /\ a = n
    <3>1. Unshown(i, a) /\ ~ Unshown(i, a)'
      BY <1>3, <1>4, <1>5, <2>7 DEF Unshown, Idle
    <3>2. Mine(x, a) /\ ~ Mine(y, a) /\ x.k = r
      BY <1>2, <2>1, <2>7 DEF Kept
    <3>3. (emit(i, <<x>>) \/ emit(i, <<x, y>>)) /\ UNCHANGED <<screen, left>>
      BY <1>3, <2>7
    <3>4. Seen(i, a, r, s, r)'
      BY <1>1, <1>2, <2>1, <2>2, <3>1, <3>2, <3>3, SeenLater
    <3> QED  BY <1>3, <2>1, <2>3, <2>4, <3>4 DEF Chain
  <2> QED  BY <2>5, <2>6, <2>7
<1> QED  BY <1>8 DEF Chained

LEMMA SendToChains ==
    ASSUME ChatAssumption, Sound, Chained, NEW n \in Nodes, SendTo(n)
    PROVE  Chained'
<1>1. /\ TypeOK /\ said \in [Nodes -> Nat] /\ said[n] \in Nat
      /\ ui[n] \in UiStates
  BY DEF Sound, TypeOK
<1>2. PICK m \in ui[n].to :
         /\ wire' = Put(wire, n, m, Line(n, said[n]))
         /\ UiIs(n, IF ui[n].to = {m} THEN Idle ELSE [ui[n] EXCEPT !.to = @ \ {m}])
  BY DEF SendTo
<1>3. ui[n] \in [at : {"send"}, to : SUBSET Nodes]
  BY <1>1 DEF SendTo, UiStates, Idle
<1> DEFINE v == IF ui[n].to = {m} THEN Idle ELSE [ui[n] EXCEPT !.to = @ \ {m}]
           x == Line(n, said[n])
<1>4. /\ m \in Nodes /\ v \in UiStates /\ v.at # "emit"
      /\ \A i : v.at = "send" /\ i \in v.to => i \in ui[n].to \ {m}
      /\ \A i : i \in ui[n].to \ {m} => v.at = "send" /\ i \in v.to
  BY <1>3 DEF UiStates, Idle
<1>5. x \in Rows /\ x.k = said[n] /\ Mine(x, n)
  BY <1>1, LinesAreRows DEF Line
<1> HIDE DEF v, x
<1>6. UiIs(n, v) /\ wire' = Put(wire, n, m, x)
  BY <1>2 DEF v, x
<1>7. ui'[n] = v /\ \A i \in Nodes : i # n => ui'[i] = ui[i]
  BY <1>1, <1>4, <1>6, UiMoves
<1>8. /\ wire' \in [Nodes -> [Nodes -> Seq(Rows)]]
      /\ {n, m} \in shut => wire' = wire
      /\ {n, m} \notin shut => wire'[n][m] = Append(wire[n][m], x)
      /\ \A i, j \in Nodes : <<i, j>> # <<n, m>> => wire'[i][j] = wire[i][j]
  <2>1. TypeOK /\ m \in Nodes /\ x \in Rows /\ wire' = Put(wire, n, m, x)
    BY <1>1, <1>4, <1>5, <1>6
  <2> QED  BY <2>1, PutMoves, Zenon
<1>9. UNCHANGED <<said, history, events, screen, peers, shut, reader, left, exported>>
  BY DEF SendTo
<1>10. ui[n].at = "send" /\ ui[n].at # "emit"
  BY <1>3
<1>11. ASSUME NEW i \in Nodes, NEW a \in Nodes  PROVE  Chain(i, a)'
  <2>1. PICK r, t, s, u \in 0..said[a] :
           Kept(i, a, r) /\ Coming(i, a, r, t) /\ Seen(i, a, r, s, u)
    BY DEF Chained, Chain
  <2>2. said[a] \in Nat /\ r \in Nat /\ t \in Nat /\ wire[n][m] \in Seq(Rows)
    BY <1>1, <1>4 DEF TypeOK
  <2>3. Kept(i, a, r)'
    BY <1>9, <2>1, KeptSame
  <2>4. Seen(i, a, r, s, u)'
    <3>1. Unshown(i, a)' <=> Unshown(i, a)
      BY <1>4, <1>7, <1>9, <1>10 DEF Unshown
    <3> QED  BY <1>9, <2>1, <3>1, SeenSame
  <2>5. CASE a # n \/ i # m
    <3>1. Pending(a, i)' <=> Pending(a, i)
      <4>1. CASE a # n
        BY <1>7, <4>1, PendingSame
      <4>2. CASE a = n /\ i # m
        BY <1>4, <1>7, <1>10, <4>2 DEF Pending
      <4> QED  BY <2>5, <4>1, <4>2
    <3>2. wire'[a][i] = wire[a][i]
      BY <1>8, <2>5
    <3>3. Coming(i, a, r, t)'
      BY <1>9, <2>1, <3>1, <3>2, ComingSame
    <3> QED  BY <1>9, <2>1, <2>3, <2>4, <3>3 DEF Chain
  <2>6. CASE a = n /\ i = m /\ {n, m} \in shut
    <3>1. Coming(i, a, r, t)'
      BY <1>8, <1>9, <2>1, <2>6 DEF Coming
    <3> QED  BY <1>9, <2>1, <2>3, <2>4, <3>1 DEF Chain
  <2>7. CASE a = n /\ i = m /\ {n, m} \notin shut
    <3>1. CASE i = a
      <4>1. Coming(i, a, r, t)'
        BY <3>1 DEF Coming
      <4> QED  BY <1>9, <2>1, <2>3, <2>4, <4>1 DEF Chain
    <3>2. CASE i # a
      <4>1. Pending(a, i)
        BY <1>10, <2>7 DEF Pending
      <4>2. ~ Pending(a, i)'
        BY <1>4, <1>7, <2>7 DEF Pending
      <4>3. r <= t /\ Runs(wire[n][m], n, r, t) /\ said[n] = t + 1
        BY <2>1, <2>7, <3>2, <4>1 DEF Coming
      <4>4. Runs(wire'[n][m], n, r, t + 1)
        <5>1. Mine(x, n) /\ x.k = t + 1 /\ x \in Rows
          BY <1>5, <4>3
        <5>2. Runs(Append(wire[n][m], x), n, r, t + 1)
          BY <2>2, <4>3, <5>1, RunsNext
        <5> QED  BY <1>8, <2>7, <5>2
      <4>5. Coming(i, a, r, t + 1)'
        <5>1. reader'[i][a].at = "emit" => reader'[i][a].line = Line(a, r)
          BY <1>9, <2>1, <3>2 DEF Coming
        <5>2. r <= t + 1 /\ said'[a] = t + 1
          BY <1>9, <2>2, <2>7, <4>3
        <5> QED  BY <2>7, <4>2, <4>4, <5>1, <5>2 DEF Coming
      <4>6. t + 1 \in 0..said'[a] /\ said'[a] = said[a]
        BY <1>9, <2>2, <2>7, <4>3
      <4> QED  BY <2>1, <2>3, <2>4, <4>5, <4>6 DEF Chain
    <3> QED  BY <3>1, <3>2
  <2> QED  BY <2>5, <2>6, <2>7
<1> QED  BY <1>11 DEF Chained

-----------------------------------------------------------------------------
(* Lines that arrive.                                                      *)

LEMMA ReceiveChains ==
    ASSUME ChatAssumption, Sound, Chained, NEW n \in Nodes, NEW m \in Nodes \ {n},
           Receive(n, m)
    PROVE  Chained'
<1>1. /\ TypeOK /\ Signed /\ Together /\ said \in [Nodes -> Nat]
      /\ history \in [Nodes -> Seq(Rows)] /\ wire[m][n] \in Seq(Rows)
  <2>1. TypeOK /\ Signed /\ Together
    BY DEF Sound
  <2>2. wire \in [Nodes -> [Nodes -> Seq(Rows)]]
    BY <2>1 DEF TypeOK
  <2>3. said \in [Nodes -> Nat] /\ history \in [Nodes -> Seq(Rows)]
    BY <2>1 DEF TypeOK
  <2>4. wire[m][n] \in Seq(Rows)
    BY <2>2
  <2> QED  BY <2>1, <2>3, <2>4
<1> DEFINE msg == Head(wire[m][n])
<1>2. /\ reader[n][m] = Receiving /\ wire[m][n] # <<>>
      /\ wire' = [wire EXCEPT ![m][n] = Tail(@)]
      /\ UNCHANGED <<said, screen, ui, left, exported>>
  BY DEF Receive
<1>3. /\ wire' \in [Nodes -> [Nodes -> Seq(Rows)]]
      /\ wire'[m][n] = Tail(wire[m][n])
      /\ msg \in Rows
      /\ \A i, j \in Nodes : <<i, j>> # <<m, n>> => wire'[i][j] = wire[i][j]
  <2>1. /\ TypeOK /\ wire[m][n] # <<>>
        /\ wire' = [wire EXCEPT ![m][n] = Tail(@)]
    BY <1>1, <1>2
  <2> QED  BY <2>1, TakeMoves, Zenon
<1>4. msg.type = "chat" => msg.who = m
  BY <1>1, <1>2, SignedTake
<1>5. \/ /\ msg.type = "chat" /\ record(n, msg)
         /\ ReaderIs(n, m, [at |-> "emit", line |-> msg])
         /\ UNCHANGED <<events, peers, shut>>
      \/ /\ msg.type = "left" /\ emit(n, <<msg>>)
         /\ UNCHANGED <<history, reader, peers, shut>>
      \/ /\ msg = Bye /\ PeerGone(n, m)
         /\ UNCHANGED <<history, events>>
  BY DEF Receive
<1>6. [at |-> "emit", line |-> msg] \in ReaderStates
  BY <1>3 DEF ReaderStates
<1>7. <<msg>> \in Seq(Rows) /\ Note("left", n) \in Rows
      /\ \A a \in Nodes : ~ Mine(Note("left", n), a)
  BY <1>3, LinesAreRows
<1> DEFINE rest == Tail(wire[m][n])
<1>8. ASSUME NEW r \in Nat, NEW t \in Nat, Runs(wire[m][n], m, r, t)
      PROVE  /\ msg.type = "chat" => msg.k = r + 1 /\ r + 1 <= t /\ Runs(rest, m, r + 1, t)
             /\ msg.type # "chat" => Runs(rest, m, r, t)
  BY <1>1, <1>2, <1>4, <1>8, RunsTail DEF Mine
<1>9. \A a : msg.type = "chat" /\ a # m => ~ Mine(msg, a)
  BY <1>4 DEF Mine
<1>10. \A a : msg.type # "chat" => ~ Mine(msg, a)
  BY DEF Mine
<1> HIDE DEF msg, rest
<1>11. wire'[m][n] = rest
  BY <1>3 DEF rest
<1>12. ASSUME NEW a \in Nodes  PROVE  Chain(n, a)'
  <2>1. PICK r, t, s, u \in 0..said[a] :
           Kept(n, a, r) /\ Coming(n, a, r, t) /\ Seen(n, a, r, s, u)
    BY DEF Chained, Chain
  <2>2. said[a] \in Nat /\ r \in Nat /\ t \in Nat /\ s \in Nat /\ u \in Nat
        /\ history[n] \in Seq(Rows)
    BY <1>1
  <2>3. ASSUME msg.type = "chat", record(n, msg),
               ReaderIs(n, m, [at |-> "emit", line |-> msg]),
               UNCHANGED <<events, peers, shut>>
        PROVE  Chain(n, a)'
    <3>1. history'[n] = Append(history[n], msg)
      BY <1>1, <1>3, <2>3, RecordMoves
    <3>2. /\ reader'[n][m] = [at |-> "emit", line |-> msg]
          /\ \A j \in Nodes \ {n} : j # m => reader'[n][j] = reader[n][j]
      BY <1>1, <1>6, <2>3, ReaderMoves
    <3>3. CASE a # m
      <4>1. Kept(n, a, r)'
        <5>1. Runs(Append(history[n], msg), a, 0, r)
          <6>1. ~ Mine(msg, a) /\ msg \in Rows
            BY <1>3, <1>9, <2>3, <3>3
          <6>2. Runs(history[n], a, 0, r)
            BY <2>1 DEF Kept
          <6> QED  BY <2>2, <6>1, <6>2, RunsOther
        <5> QED  BY <1>2, <2>1, <3>1, <5>1 DEF Kept
      <4>2. n # a => reader'[n][a] = reader[n][a] /\ wire'[a][n] = wire[a][n]
        BY <1>3, <3>2, <3>3
      <4>3. Coming(n, a, r, t)'
        BY <1>2, <2>1, <2>3, <4>2, ComingSame, PendingSame
      <4>4. Seen(n, a, r, s, u)'
        BY <1>2, <2>1, <2>3, <4>2, SeenSame, UnshownSame
      <4> QED  BY <1>2, <2>1, <4>1, <4>3, <4>4 DEF Chain
    <3>4. CASE a = m
      <4>1. /\ r <= t /\ Runs(wire[m][n], m, r, t)
            /\ {m, n} \notin shut => said[m] = IF Pending(m, n) THEN t + 1 ELSE t
        BY <2>1, <3>4 DEF Coming
      <4>2. msg.k = r + 1 /\ r + 1 <= t /\ Runs(rest, m, r + 1, t)
        BY <1>8, <2>2, <2>3, <4>1
      <4>3. Mine(msg, m) /\ msg = Line(m, r + 1)
        BY <1>3, <1>4, <2>3, <4>2 DEF Mine, Line, Rows
      <4>4. Kept(n, a, r + 1)'
        <5>1. Runs(history[n], a, 0, r)
          BY <2>1 DEF Kept
        <5>2. Runs(Append(history[n], msg), a, 0, r + 1)
          <6>1. msg \in Rows /\ Mine(msg, a) /\ msg.k = r + 1
            BY <1>3, <3>4, <4>2, <4>3
          <6> QED  BY <2>2, <5>1, <6>1, RunsNext
        <5> QED  BY <3>1, <3>4, <5>2 DEF Kept
      <4>5. Coming(n, a, r + 1, t)'
        <5>1. Pending(m, n)' <=> Pending(m, n)
          BY <1>2, PendingSame
        <5>2. Runs(wire'[a][n], a, r + 1, t)
          BY <1>11, <3>4, <4>2
        <5>3. reader'[n][a].line = Line(a, r + 1)
          BY <3>2, <3>4, <4>3
        <5>4. {a, n} \notin shut' => said'[a] = IF Pending(a, n)' THEN t + 1 ELSE t
          BY <1>2, <2>3, <3>4, <4>1, <5>1
        <5> QED  BY <4>2, <5>2, <5>3, <5>4 DEF Coming
      <4>6. Seen(n, a, r + 1, s, u)'
        <5>1. ~ Unshown(n, a) /\ Unshown(n, a)'
          BY <1>2, <3>2, <3>4 DEF Unshown, Receiving
        <5> QED  BY <1>2, <2>1, <2>3, <5>1 DEF Seen
      <4>7. r + 1 \in 0..said'[a]
        BY <1>2, <2>1, <2>2, <4>2
      <4> QED  BY <1>2, <2>1, <4>4, <4>5, <4>6, <4>7 DEF Chain
    <3> QED  BY <3>3, <3>4
  <2>4. ASSUME msg.type # "chat", shut \subseteq shut', history'[n] = history[n],
               reader'[n][m].at # "emit",
               \A j \in Nodes \ {n} : j # m => reader'[n][j] = reader[n][j],
               Seen(n, a, r, s, u)'
        PROVE  Chain(n, a)'
    <3>1. Kept(n, a, r)'
      BY <1>2, <2>1, <2>4, KeptSame
    <3>2. CASE a # m
      <4>1. n # a => reader'[n][a] = reader[n][a] /\ wire'[a][n] = wire[a][n]
        BY <1>3, <2>4, <3>2
      <4>2. Coming(n, a, r, t)'
        BY <1>2, <2>1, <2>4, <4>1, ComingSame, PendingSame
      <4> QED  BY <1>2, <2>1, <2>4, <3>1, <4>2 DEF Chain
    <3>3. CASE a = m
      <4>1. /\ r <= t /\ Runs(wire[m][n], m, r, t)
            /\ {m, n} \notin shut => said[m] = IF Pending(m, n) THEN t + 1 ELSE t
        BY <2>1, <3>3 DEF Coming
      <4>2. Runs(rest, m, r, t)
        BY <1>8, <2>2, <2>4, <4>1
      <4>3. Pending(m, n)' <=> Pending(m, n)
        BY <1>2, PendingSame
      <4>4. Coming(n, a, r, t)'
        BY <1>2, <1>11, <2>4, <3>3, <4>1, <4>2, <4>3 DEF Coming
      <4> QED  BY <1>2, <2>1, <2>4, <3>1, <4>4 DEF Chain
    <3> QED  BY <3>2, <3>3
  <2>5. ASSUME msg.type = "left", emit(n, <<msg>>),
               UNCHANGED <<history, reader, peers, shut>>
        PROVE  Chain(n, a)'
    <3>1. Unshown(n, a)' <=> Unshown(n, a)
      BY <1>2, <2>5, UnshownSame
    <3>2. ~ Mine(msg, a) /\ ~ Mine(Note("left", n), a)
      BY <1>7, <1>10, <2>5
    <3>3. Seen(n, a, r, s, u)'
      BY <1>1, <1>2, <1>3, <1>7, <2>1, <2>2, <2>5, <3>1, <3>2, SeenLater
    <3>4. reader'[n][m].at # "emit"
      BY <1>2, <2>5 DEF Receiving
    <3> QED  BY <2>4, <2>5, <3>3, <3>4
  <2>6. ASSUME msg = Bye, PeerGone(n, m), UNCHANGED <<history, events>>
        PROVE  Chain(n, a)'
    <3>1. PICK v \in ReaderStates : v.at = "tell" /\ ReaderIs(n, m, v)
      BY <1>1, <2>6, PeerGoneMoves
    <3>2. shut \subseteq shut'
      BY <1>1, <2>6, PeerGoneMoves
    <3>3. /\ reader'[n][m] = v
          /\ \A j \in Nodes \ {n} : j # m => reader'[n][j] = reader[n][j]
      BY <1>1, <3>1, ReaderMoves
    <3>4. Unshown(n, a)' <=> Unshown(n, a)
      BY <1>2, <3>1, <3>3 DEF Unshown, Receiving
    <3>5. Seen(n, a, r, s, u)'
      BY <1>2, <2>1, <2>6, <3>4, SeenSame
    <3>6. msg.type # "chat"
      BY <2>6 DEF Bye, Note
    <3> QED  BY <2>4, <2>6, <3>1, <3>2, <3>3, <3>5, <3>6
  <2> QED  BY <1>5, <2>3, <2>5, <2>6
<1>13. ASSUME NEW i \in Nodes, i # n, NEW a \in Nodes  PROVE  Chain(i, a)'
  <2>1. Chain(i, a)
    BY DEF Chained
  <2>2. history'[i] = history[i] /\ events'[i] = events[i] /\ shut \subseteq shut'
        /\ \A j \in Nodes \ {i} : reader'[i][j] = reader[i][j]
    <3>1. CASE /\ record(n, msg) /\ ReaderIs(n, m, [at |-> "emit", line |-> msg])
               /\ UNCHANGED <<events, peers, shut>>
      <4>1. \A j \in Nodes \ {i} : reader'[i][j] = reader[i][j]
        <5>1. /\ reader'[n][m] = [at |-> "emit", line |-> msg]
              /\ \A k \in Nodes : \A j \in Nodes \ {k} :
                    <<k, j>> # <<n, m>> => reader'[k][j] = reader[k][j]
          <6>1. TypeOK /\ ReaderIs(n, m, [at |-> "emit", line |-> msg])
            BY <1>1, <3>1
          <6> QED  BY <1>6, <6>1, ReaderMoves
        <5> QED  BY <1>13, <5>1
      <4>2. history'[i] = history[i]
        BY <1>1, <1>3, <1>13, <3>1, RecordMoves
      <4> QED  BY <3>1, <4>1, <4>2
    <3>2. CASE emit(n, <<msg>>) /\ UNCHANGED <<history, reader, peers, shut>>
      BY <1>1, <1>7, <1>13, <3>2, EmitMoves
    <3>3. CASE PeerGone(n, m) /\ UNCHANGED <<history, events>>
      <4>1. PICK v \in ReaderStates : v.at = "tell" /\ ReaderIs(n, m, v)
        BY <1>1, <3>3, PeerGoneMoves
      <4>2. shut \subseteq shut'
        BY <1>1, <3>3, PeerGoneMoves
      <4>3. \A j \in Nodes \ {i} : reader'[i][j] = reader[i][j]
        <5>1. /\ reader'[n][m] = v
              /\ \A k \in Nodes : \A j \in Nodes \ {k} :
                    <<k, j>> # <<n, m>> => reader'[k][j] = reader[k][j]
          <6>1. TypeOK /\ ReaderIs(n, m, v)
            BY <1>1, <4>1
          <6> QED  BY <6>1, ReaderMoves
        <5> QED  BY <1>13, <5>1
      <4> QED  BY <3>3, <4>2, <4>3
    <3> QED  BY <1>5, <3>1, <3>2, <3>3
  <2>3. wire'[a][i] = wire[a][i]
    BY <1>3, <1>13
  <2>4. Pending(a, i)' <=> Pending(a, i)
    BY <1>2, PendingSame
  <2> QED  BY <1>2, <2>1, <2>2, <2>3, <2>4, ChainSame
<1> QED  BY <1>12, <1>13 DEF Chained

LEMMA ShowTheirsChains ==
    ASSUME ChatAssumption, Sound, Chained, NEW n \in Nodes, NEW m \in Nodes \ {n},
           ShowTheirs(n, m)
    PROVE  Chained'
<1>1. TypeOK /\ said \in [Nodes -> Nat]
  BY DEF Sound, TypeOK
<1>2. /\ reader[n][m].at = "emit" /\ emit(n, <<reader[n][m].line>>)
      /\ ReaderIs(n, m, Receiving)
      /\ UNCHANGED <<said, history, screen, ui, peers, wire, shut, left, exported>>
  BY DEF ShowTheirs
<1>3. reader[n][m] \in [at : {"emit"}, line : Rows]
  <2>1. reader[n] \in [Nodes \ {n} -> ReaderStates]
    BY <1>1 DEF TypeOK
  <2> QED  BY <1>2, <2>1 DEF ReaderStates, Receiving
<1> DEFINE x == reader[n][m].line
<1>4. x \in Rows /\ <<x>> \in Seq(Rows) /\ emit(n, <<x>>)
  BY <1>2, <1>3
<1>5. Receiving \in ReaderStates /\ Receiving.at # "emit"
  BY DEF ReaderStates, Receiving
<1>6. /\ reader'[n][m] = Receiving
      /\ \A i \in Nodes : \A j \in Nodes \ {i} :
            <<i, j>> # <<n, m>> => reader'[i][j] = reader[i][j]
  BY <1>1, <1>2, <1>5, ReaderMoves
<1>7. \A i \in Nodes : i # n => events'[i] = events[i]
  BY <1>1, <1>4, EmitMoves
<1>8. /\ Note("left", n) \in Rows /\ \A a \in Nodes : ~ Mine(Note("left", n), a)
      /\ \A k \in Nat, a \in Nodes : Mine(Line(m, k), a) <=> m = a
  BY LinesAreRows
<1>9. ASSUME NEW i \in Nodes, NEW a \in Nodes  PROVE  Chain(i, a)'
  <2>1. PICK r, t, s, u \in 0..said[a] :
           Kept(i, a, r) /\ Coming(i, a, r, t) /\ Seen(i, a, r, s, u)
    BY DEF Chained, Chain
  <2>2. said[a] \in Nat /\ r \in Nat /\ t \in Nat /\ s \in Nat /\ u \in Nat
    BY <1>1
  <2>3. Kept(i, a, r)'
    BY <1>2, <2>1, KeptSame
  <2>4. Coming(i, a, r, t)'
    <3>1. i # a => \/ reader'[i][a] = reader[i][a]
                   \/ reader'[i][a].at # "emit"
      BY <1>5, <1>6
    <3> QED  BY <1>2, <2>1, <3>1, ComingSame, PendingSame
  <2>5. CASE i # n
    <3>1. Unshown(i, a)' <=> Unshown(i, a)
      BY <1>2, <1>6, <2>5, UnshownSame
    <3>2. Seen(i, a, r, s, u)'
      BY <1>2, <1>7, <2>1, <2>5, <3>1, SeenSame
    <3> QED  BY <1>2, <2>1, <2>3, <2>4, <3>2 DEF Chain
  <2>6. CASE i = n /\ a # m
    <3>1. Unshown(i, a)' <=> Unshown(i, a)
      BY <1>2, <1>6, <2>6, UnshownSame
    <3>2. ~ Mine(x, a)
      <4>1. PICK k \in 0..said[m] : \E j \in 0..said[m] : Coming(n, m, k, j)
        BY DEF Chained, Chain
      <4>2. x = Line(m, k)
        BY <1>2, <4>1 DEF Coming
      <4>3. k \in Nat
        BY <1>1, <4>1
      <4> QED  BY <1>8, <2>6, <4>2, <4>3
    <3>3. emit(i, <<x>>) /\ UNCHANGED <<screen, left>>
      BY <1>2, <2>6
    <3> HIDE DEF x
    <3>4. Seen(i, a, r, s, u)'
      BY <1>1, <1>4, <1>8, <2>1, <2>2, <3>1, <3>2, <3>3, SeenLater
    <3> QED  BY <1>2, <2>1, <2>3, <2>4, <3>4 DEF Chain
  <2>7. CASE i = n /\ a = m
    <3>1. Unshown(i, a) /\ ~ Unshown(i, a)'
      BY <1>2, <1>5, <1>6, <2>7 DEF Unshown
    <3>2. x = Line(a, r)
      BY <1>2, <2>1, <2>7 DEF Coming
    <3>3. Mine(x, a) /\ x.k = r
      BY <1>8, <2>2, <2>7, <3>2 DEF Line
    <3>4. emit(i, <<x>>) /\ UNCHANGED <<screen, left>>
      BY <1>2, <2>7
    <3> HIDE DEF x
    <3>5. Seen(i, a, r, s, r)'
      BY <1>1, <1>4, <1>8, <2>1, <2>2, <3>1, <3>3, <3>4, SeenLater
    <3> QED  BY <1>2, <2>1, <2>3, <2>4, <3>5 DEF Chain
  <2> QED  BY <2>5, <2>6, <2>7
<1> QED  BY <1>9 DEF Chained

LEMMA RecvFailsChains ==
    ASSUME ChatAssumption, Sound, Chained, NEW n \in Nodes, NEW m \in Nodes \ {n},
           RecvFails(n, m)
    PROVE  Chained'
<1>1. TypeOK /\ Together /\ PeerGone(n, m) /\ reader[n][m] = Receiving
      /\ UNCHANGED <<said, history, events, screen, ui, wire, left, exported>>
  BY DEF Sound, RecvFails
<1>2. PICK v \in ReaderStates : v.at = "tell" /\ ReaderIs(n, m, v)
  BY <1>1, PeerGoneMoves
<1>3. shut \subseteq shut'
  BY <1>1, PeerGoneMoves
<1>4. /\ reader'[n][m] = v
      /\ \A i \in Nodes : \A j \in Nodes \ {i} :
            <<i, j>> # <<n, m>> => reader'[i][j] = reader[i][j]
  BY <1>1, <1>2, ReaderMoves
<1>5. ASSUME NEW i \in Nodes, NEW a \in Nodes  PROVE  Chain(i, a)'
  <2>1. PICK r, t, s, u \in 0..said[a] :
           Kept(i, a, r) /\ Coming(i, a, r, t) /\ Seen(i, a, r, s, u)
    BY DEF Chained, Chain
  <2>2. Kept(i, a, r)'
    BY <1>1, <2>1, KeptSame
  <2>3. i # a => \/ reader'[i][a] = reader[i][a]
                 \/ reader'[i][a].at # "emit"
    BY <1>2, <1>4
  <2>4. Coming(i, a, r, t)'
    BY <1>1, <1>3, <2>1, <2>3, ComingSame, PendingSame
  <2>5. Unshown(i, a)' <=> Unshown(i, a)
    BY <1>1, <1>2, <1>4 DEF Unshown, Receiving
  <2>6. Seen(i, a, r, s, u)'
    BY <1>1, <2>1, <2>5, SeenSame
  <2> QED  BY <1>1, <2>1, <2>2, <2>4, <2>6 DEF Chain
<1> QED  BY <1>5 DEF Chained

\* What a node adds to its links is not always a line of its own.
LEMMA NoteSent ==
    ASSUME TypeOK, NEW i \in Nodes, NEW a \in Nodes, NEW x \in Rows, ~ Mine(x, a),
           NEW r, NEW t, Coming(i, a, r, t),
           \/ wire'[a][i] = wire[a][i]
           \/ wire'[a][i] = Append(wire[a][i], x),
           said'[a] = said[a], shut \subseteq shut', Pending(a, i)' <=> Pending(a, i),
           i # a => \/ reader'[i][a] = reader[i][a]
                    \/ reader'[i][a].at # "emit"
    PROVE  Coming(i, a, r, t)'
<1>1. wire[a][i] \in Seq(Rows)
  BY DEF TypeOK
<1>2. CASE i = a
  BY <1>2 DEF Coming
<1>3. CASE i # a
  <2>1. Runs(wire[a][i], a, r, t)
    BY <1>3 DEF Coming
  <2>2. Runs(Append(wire[a][i], x), a, r, t)
    BY <1>1, <2>1, RunsOther
  <2>3. Runs(wire'[a][i], a, r, t)
    BY <2>1, <2>2
  <2> QED  BY <1>3, <2>3 DEF Coming
<1> QED  BY <1>2, <1>3

LEMMA TellGoneChains ==
    ASSUME ChatAssumption, Sound, Chained, NEW n \in Nodes, NEW m \in Nodes \ {n},
           TellGone(n, m)
    PROVE  Chained'
<1>1. TypeOK /\ said \in [Nodes -> Nat]
  BY DEF Sound, TypeOK
<1>2. PICK p \in reader[n][m].to :
         /\ wire' = Put(wire, n, p, Note("left", m))
         /\ ReaderIs(n, m, Telling(reader[n][m].to \ {p}))
  BY DEF TellGone
<1>3. /\ reader[n][m].at = "tell"
      /\ UNCHANGED <<said, history, events, screen, ui, peers, shut, left, exported>>
  BY DEF TellGone
<1>4. reader[n][m] \in [at : {"tell"}, to : SUBSET Nodes]
  <2>1. reader[n] \in [Nodes \ {n} -> ReaderStates]
    BY <1>1 DEF TypeOK
  <2> QED  BY <1>3, <2>1 DEF ReaderStates, Receiving
<1> DEFINE v == Telling(reader[n][m].to \ {p})
           x == Note("left", m)
<1>5. p \in Nodes /\ v \in ReaderStates /\ v.at # "emit"
  BY <1>4 DEF ReaderStates, Telling
<1>6. x \in Rows /\ \A a \in Nodes : ~ Mine(x, a)
  BY LinesAreRows
<1> HIDE DEF v, x
<1>7. ReaderIs(n, m, v) /\ wire' = Put(wire, n, p, x)
  BY <1>2 DEF v, x
<1>8. \A i, j \in Nodes : \/ wire'[i][j] = wire[i][j]
                          \/ wire'[i][j] = Append(wire[i][j], x)
  <2>1. TypeOK /\ p \in Nodes /\ x \in Rows /\ wire' = Put(wire, n, p, x)
    BY <1>1, <1>5, <1>6, <1>7
  <2>2. /\ {n, p} \in shut => wire' = wire
        /\ {n, p} \notin shut => wire'[n][p] = Append(wire[n][p], x)
        /\ \A i, j \in Nodes : <<i, j>> # <<n, p>> => wire'[i][j] = wire[i][j]
    BY <2>1, PutMoves
  <2> QED  BY <2>2
<1>9. /\ reader'[n][m] = v
      /\ \A i \in Nodes : \A j \in Nodes \ {i} :
            <<i, j>> # <<n, m>> => reader'[i][j] = reader[i][j]
  BY <1>1, <1>5, <1>7, ReaderMoves
<1>10. ASSUME NEW i \in Nodes, NEW a \in Nodes  PROVE  Chain(i, a)'
  <2>1. PICK r, t, s, u \in 0..said[a] :
           Kept(i, a, r) /\ Coming(i, a, r, t) /\ Seen(i, a, r, s, u)
    BY DEF Chained, Chain
  <2>2. Kept(i, a, r)'
    BY <1>3, <2>1, KeptSame
  <2>3. i # a => \/ reader'[i][a] = reader[i][a]
                 \/ reader'[i][a].at # "emit"
    BY <1>5, <1>9
  <2>4. Pending(a, i)' <=> Pending(a, i)
    BY <1>3, PendingSame
  <2>5. Coming(i, a, r, t)'
    BY <1>1, <1>3, <1>6, <1>8, <2>1, <2>3, <2>4, NoteSent
  <2>6. Unshown(i, a)' <=> Unshown(i, a)
    BY <1>3, <1>5, <1>9 DEF Unshown
  <2>7. Seen(i, a, r, s, u)'
    BY <1>3, <2>1, <2>6, SeenSame
  <2> QED  BY <1>3, <2>1, <2>2, <2>5, <2>7 DEF Chain
<1> QED  BY <1>10 DEF Chained

\* An export starts or ends, or a link breaks.
LEMMA QuietChains ==
    ASSUME ChatAssumption, Sound, Chained,
           \/ \E n \in Nodes : Export(n) \/ WriteFile(n)
           \/ \E link \in Fragile : LinkBreaks(link)
    PROVE  Chained'
<1>1. TypeOK
  BY DEF Sound
<1>2. /\ UNCHANGED <<said, history, events, screen, peers, wire, reader, left>>
      /\ shut \subseteq shut'
  BY DEF Export, WriteFile, LinkBreaks
<1>3. \A a \in Nodes : \/ ui'[a] = ui[a]
                       \/ /\ ui[a].at \notin {"emit", "send"}
                          /\ ui'[a].at \notin {"emit", "send"}
  <2>1. CASE \E link \in Fragile : LinkBreaks(link)
    BY <2>1 DEF LinkBreaks
  <2>2. CASE \E n \in Nodes : Export(n) \/ WriteFile(n)
    <3>1. PICK n \in Nodes : Export(n) \/ WriteFile(n)
      BY <2>2
    <3>2. ui \in [Nodes -> UiStates]
      BY <1>1 DEF TypeOK
    <3>3. \A a \in Nodes : a # n => ui'[a] = ui[a]
      BY <3>1, <3>2 DEF Export, WriteFile, UiIs
    <3>4. ui[n].at \in {"idle", "write"} /\ ui'[n].at \in {"idle", "write"}
      BY <3>1, <3>2 DEF Export, WriteFile, UiIs, Idle
    <3> QED  BY <3>3, <3>4
  <2> QED  BY <2>1, <2>2
<1>4. ASSUME NEW i \in Nodes, NEW a \in Nodes  PROVE  Chain(i, a)'
  <2>1. PICK r, t, s, u \in 0..said[a] :
           Kept(i, a, r) /\ Coming(i, a, r, t) /\ Seen(i, a, r, s, u)
    BY DEF Chained, Chain
  <2>2. Kept(i, a, r)'
    BY <1>2, <2>1, KeptSame
  <2>3. Pending(a, i)' <=> Pending(a, i)
    BY <1>3 DEF Pending
  <2>4. Coming(i, a, r, t)'
    BY <1>2, <2>1, <2>3, ComingSame
  <2>5. Unshown(i, a)' <=> Unshown(i, a)
    BY <1>2, <1>3 DEF Unshown
  <2>6. Seen(i, a, r, s, u)'
    BY <1>2, <2>1, <2>5, SeenSame
  <2> QED  BY <1>2, <2>1, <2>2, <2>4, <2>6 DEF Chain
<1> QED  BY <1>4 DEF Chained

LEMMA PumpChains ==
    ASSUME ChatAssumption, Sound, Chained, NEW n \in Nodes, Pump(n)
    PROVE  Chained'
<1>1. TypeOK /\ Blank /\ said \in [Nodes -> Nat]
  BY DEF Sound, TypeOK
<1> DEFINE p == screen[n]
           q == events[n]
<1>2. /\ p \in Seq(Rows) /\ q \in Seq(Rows) /\ q # <<>> /\ p \o q \in Seq(Rows)
      /\ UNCHANGED <<said, history, ui, peers, wire, shut, reader, left, exported>>
  BY <1>1, ConcatProperties DEF Pump, TypeOK
<1>3. /\ screen'[n] = push_message(p, Head(q)) /\ events'[n] = Tail(q)
      /\ \A i \in Nodes : i # n => screen'[i] = screen[i] /\ events'[i] = events[i]
  BY <1>1 DEF Pump, TypeOK
<1> DEFINE now == screen'[n] \o events'[n]
<1> HIDE DEF p, q
\* Nothing is lost, but for the oldest row when the window is full.
<1>4. now = p \o q \/ (now = Tail(p \o q) /\ p \o q # <<>>)
  <2>1. CASE Len(p) >= MaxVisible
    <3>1. p # <<>>
      BY <1>2, <2>1, EmptySeq DEF ChatAssumption
    <3>2. screen'[n] = Append(Tail(p), Head(q))
      BY <1>3, <2>1 DEF push_message
    <3>3. Append(Tail(p), Head(q)) \o Tail(q) = Tail(p \o q) /\ p \o q # <<>>
      BY <1>2, <3>1, PushedRow
    <3> QED  BY <1>3, <3>2, <3>3
  <2>2. CASE ~ (Len(p) >= MaxVisible)
    <3>1. screen'[n] = Append(p, Head(q))
      BY <1>3, <2>2 DEF push_message
    <3>2. Append(p, Head(q)) \o Tail(q) = p \o q
      BY <1>2, PushedRow
    <3> QED  BY <1>3, <3>1, <3>2
  <2> QED  BY <2>1, <2>2
<1>5. n \in Viewers \ left
  BY <1>1, <1>2 DEF Blank, q
<1> DEFINE w == p \o q
<1>6. screen[n] \o events[n] = w /\ screen'[n] \o events'[n] = now
  BY DEF p, q
<1>7. w \in Seq(Rows) /\ (now = w \/ (now = Tail(w) /\ w # <<>>))
  BY <1>2, <1>4
<1> HIDE DEF w, now
<1>8. ASSUME NEW i \in Nodes, NEW a \in Nodes  PROVE  Chain(i, a)'
  <2>1. PICK r, t, s, u \in 0..said[a] :
           Kept(i, a, r) /\ Coming(i, a, r, t) /\ Seen(i, a, r, s, u)
    BY DEF Chained, Chain
  <2>2. said[a] \in Nat /\ r \in Nat /\ t \in Nat /\ s \in Nat /\ u \in Nat
    BY <1>1
  <2>3. Kept(i, a, r)'
    BY <1>2, <2>1, KeptSame
  <2>4. Coming(i, a, r, t)'
    BY <1>2, <2>1, ComingSame, PendingSame
  <2>5. Unshown(i, a)' <=> Unshown(i, a)
    BY <1>2, UnshownSame
  <2>6. CASE i # n
    <3>1. Seen(i, a, r, s, u)'
      BY <1>2, <1>3, <2>1, <2>5, <2>6, SeenSame
    <3> QED  BY <1>2, <2>1, <2>3, <2>4, <3>1 DEF Chain
  <2>7. CASE i = n
    <3>1. s <= u /\ Runs(w, a, s, u) /\ r = (IF Unshown(i, a) THEN u + 1 ELSE u)
      BY <1>5, <1>6, <2>1, <2>7 DEF Seen
    <3>2. PICK s2 \in {s, s + 1} : s2 <= u /\ Runs(now, a, s2, u)
      <4>1. CASE now = w
        BY <3>1, <4>1
      <4>2. CASE now = Tail(w) /\ w # <<>>
        <5>1. /\ Mine(Head(w), a) => s + 1 <= u /\ Runs(Tail(w), a, s + 1, u)
              /\ ~ Mine(Head(w), a) => Runs(Tail(w), a, s, u)
          BY <1>7, <2>2, <3>1, <4>2, RunsTail
        <5> QED  BY <3>1, <4>2, <5>1
      <4> QED  BY <1>7, <4>1, <4>2
    <3>3. Seen(i, a, r, s2, u)'
      BY <1>6, <2>5, <2>7, <3>1, <3>2 DEF Seen
    <3>4. s2 \in 0..said[a]
      BY <2>1, <2>2, <3>2
    <3> QED  BY <1>2, <2>1, <2>3, <2>4, <3>3, <3>4 DEF Chain
  <2> QED  BY <2>6, <2>7
<1> QED  BY <1>8 DEF Chained

LEMMA LeaveChains ==
    ASSUME ChatAssumption, Sound, Chained, NEW n \in Nodes, Leave(n)
    PROVE  Chained'
<1>1. TypeOK /\ Bye \in Rows /\ \A a \in Nodes : ~ Mine(Bye, a)
  BY LinesAreRows DEF Sound, Mine, Bye, Note
<1>2. /\ \A m \in Nodes : \/ wire'[n][m] = wire[n][m]
                          \/ wire'[n][m] = Append(wire[n][m], Bye)
      /\ \A i, m \in Nodes : i # n => wire'[i][m] = wire[i][m]
  BY <1>1, LeaveMoves
<1>3. /\ UNCHANGED <<said, history, ui, reader, exported>>
      /\ shut \subseteq shut' /\ left' = left \cup {n}
      /\ \A i \in Nodes : i # n => screen'[i] = screen[i] /\ events'[i] = events[i]
  BY <1>1 DEF Leave, TypeOK
<1>4. ASSUME NEW i \in Nodes, NEW a \in Nodes  PROVE  Chain(i, a)'
  <2>1. PICK r, t, s, u \in 0..said[a] :
           Kept(i, a, r) /\ Coming(i, a, r, t) /\ Seen(i, a, r, s, u)
    BY DEF Chained, Chain
  <2>2. Kept(i, a, r)'
    BY <1>3, <2>1, KeptSame
  <2>3. Pending(a, i)' <=> Pending(a, i)
    BY <1>3, PendingSame
  <2>4. wire'[a][i] = wire[a][i] \/ wire'[a][i] = Append(wire[a][i], Bye)
    BY <1>2
  <2>5. Coming(i, a, r, t)'
    BY <1>1, <1>3, <2>1, <2>3, <2>4, NoteSent
  <2>6. Seen(i, a, r, s, u)'
    <3>1. CASE i = n
      BY <1>3, <3>1 DEF Seen
    <3>2. CASE i # n
      BY <1>3, <2>1, <3>2, SeenSame, UnshownSame
    <3> QED  BY <3>1, <3>2
  <2> QED  BY <1>3, <2>1, <2>2, <2>5, <2>6 DEF Chain
<1> QED  BY <1>4 DEF Chained

LEMMA LinesStart ==
    ASSUME ChatAssumption, Init  PROVE  Sound /\ Chained
<1>1. PICK mesh \in Meshes :
         /\ peers = [n \in Nodes |-> {m \in Nodes : {n, m} \in mesh}]
         /\ shut = Links \ mesh
         /\ reader = [n \in Nodes |-> [m \in Nodes \ {n} |->
               IF {n, m} \in mesh THEN Receiving ELSE Over]]
  BY DEF Init
<1>2. TypeOK
  <2>1. <<>> \in Seq(Rows)
    BY EmptySeq
  <2>2. Idle \in UiStates /\ Receiving \in ReaderStates /\ Over \in ReaderStates
    BY DEF UiStates, ReaderStates, Over, Telling
  <2>3. /\ DOMAIN reader = Nodes
        /\ \A n \in Nodes : reader[n] \in [Nodes \ {n} -> ReaderStates]
    BY <1>1, <2>2
  <2>4. shut \in SUBSET SUBSET Nodes
    BY <1>1 DEF Links
  <2>5. peers \in [Nodes -> SUBSET Nodes]
    BY <1>1
  <2>6. /\ said \in [Nodes -> Nat] /\ ui \in [Nodes -> UiStates] /\ left \in SUBSET Nodes
        /\ history \in [Nodes -> Seq(Rows)] /\ events \in [Nodes -> Seq(Rows)]
        /\ screen \in [Nodes -> Seq(Rows)] /\ wire \in [Nodes -> [Nodes -> Seq(Rows)]]
    BY <2>1, <2>2 DEF Init
  <2> QED  BY <2>3, <2>4, <2>5, <2>6 DEF TypeOK
<1>3. \A a, n \in Nodes : /\ wire[a][n] = <<>> /\ history[n] = <<>> /\ screen[n] = <<>>
                          /\ events[n] = <<>> /\ said[a] = 0 /\ ui[a] = Idle
  BY DEF Init
<1>4. Signed
  BY <1>3 DEF Signed
<1>5. Together
  <2>1. ASSUME NEW n \in Nodes, NEW m \in Nodes, n # m, {n, m} \notin shut
        PROVE  m \in peers[n]
    <3>1. {n, m} \in Links
      BY <2>1 DEF Links
    <3> QED  BY <1>1, <2>1, <3>1
  <2> QED  BY <2>1 DEF Together
<1>6. Blank
  BY <1>3 DEF Blank
<1>7. ASSUME NEW n \in Nodes, NEW a \in Nodes  PROVE  Chain(n, a)
  <2>1. Kept(n, a, 0)
    BY <1>3, RunsEmpty DEF Kept
  <2>2. reader[n] \in [Nodes \ {n} -> {Receiving, Over}]
    BY <1>1
  <2>3. n # a => reader[n][a].at # "emit"
    BY <2>2 DEF Receiving, Over, Telling
  <2>4. ~ Pending(a, n) /\ ~ Unshown(n, a)
    BY <1>3, <2>3 DEF Pending, Unshown, Idle
  <2>5. Coming(n, a, 0, 0)
    BY <1>3, <2>3, <2>4, RunsEmpty DEF Coming
  <2>6. <<>> \o <<>> = <<>>
    OBVIOUS
  <2>7. Seen(n, a, 0, 0, 0)
    <3>1. screen[n] \o events[n] = <<>>
      BY <1>3, <2>6
    <3>2. Runs(screen[n] \o events[n], a, 0, 0)
      BY <3>1, RunsEmpty
    <3> QED  BY <2>4, <3>2 DEF Seen
  <2> QED  BY <1>3, <2>1, <2>5, <2>7 DEF Chain
<1> QED  BY <1>2, <1>4, <1>5, <1>6, <1>7 DEF Sound, Chained

LEMMA LinesStep ==
    ASSUME ChatAssumption, Sound, Chained, [Next]_vars  PROVE  Sound' /\ Chained'
<1>1. Sound'
  BY SoundStep
<1>2. CASE UNCHANGED vars
  <2>1. ASSUME NEW i \in Nodes, NEW a \in Nodes  PROVE  Chain(i, a)'
    <3>1. Chain(i, a)
      BY DEF Chained
    <3>2. Pending(a, i)' <=> Pending(a, i)
      BY <1>2, PendingSame DEF vars
    <3> QED  BY <1>2, <3>1, <3>2, ChainSame DEF vars
  <2> QED  BY <1>1, <2>1 DEF Chained
<1>3. CASE Next
  BY <1>1, <1>3, SendChatChains, ShowOwnChains, SendToChains, ReceiveChains,
     ShowTheirsChains, RecvFailsChains, TellGoneChains, QuietChains, PumpChains,
     LeaveChains DEF Next, System
<1> QED  BY <1>2, <1>3

Lines == Sound /\ Chained

LEMMA LinesInvariant == Spec => []Lines
<1> USE ChatAssumption
<1>1. Init => Lines
  BY LinesStart DEF Lines
<1>2. Lines /\ [Next]_vars => Lines'
  BY LinesStep DEF Lines
<1> QED  BY <1>1, <1>2, PTL DEF Spec

-----------------------------------------------------------------------------
\* Every variable of the conversation (send_chat, reader_loop, pump) stays in its
\* type, whatever the lines, links and users.
THEOREM TypeCorrect == Spec => []TypeOK
<1>1. Lines => TypeOK
  BY DEF Lines, Sound
<1> QED  BY <1>1, LinesInvariant, PTL

\* Every transcript has each author's lines in the order they were written,
\* each once and without a gap, and so has every window, which is never ahead
\* of the transcript: whatever fan-outs, readers and pumps are under way,
\* whichever links break and whoever leaves, for any room, any window size and
\* any number of lines: send_chat, reader_loop and push_message.
THEOREM LinesStayInOrder == Spec => []AuthorsAreInOrder
<1>1. ASSUME Lines  PROVE  AuthorsAreInOrder
  <2>1. ASSUME NEW n \in Nodes, NEW a \in Nodes
        PROVE  \E from, upto \in 0..said[a] : \E to \in from..upto :
                  /\ Runs(history[n], a, 0, upto)
                  /\ Runs(screen[n] \o events[n], a, from, to)
    <3>1. PICK r, t, s, u \in 0..said[a] :
             Kept(n, a, r) /\ Coming(n, a, r, t) /\ Seen(n, a, r, s, u)
      BY <1>1 DEF Lines, Chained, Chain
    <3>2. said[a] \in Nat /\ Runs(history[n], a, 0, r)
      BY <1>1, <3>1 DEF Lines, Sound, TypeOK, Kept
    <3>3. CASE n \in Viewers \ left
      <4>1. s <= u /\ Runs(screen[n] \o events[n], a, s, u) /\ u <= r
        BY <3>1, <3>2, <3>3 DEF Seen
      <4>2. u \in s..r
        BY <3>1, <3>2, <4>1
      <4> QED  BY <3>1, <3>2, <4>1, <4>2
    <3>4. CASE n \notin Viewers \ left
      <4>1. screen[n] = <<>> /\ events[n] = <<>>
        BY <1>1, <3>4 DEF Lines, Sound, Blank
      <4>2. <<>> \o <<>> = <<>>
        OBVIOUS
      <4>3. Runs(screen[n] \o events[n], a, 0, 0)
        BY <4>1, <4>2, RunsEmpty
      <4>4. 0 \in 0..said[a] /\ 0 \in 0..r
        BY <3>1, <3>2
      <4> QED  BY <3>1, <3>2, <4>3, <4>4
    <3> QED  BY <3>3, <3>4
  <2> QED  BY <2>1 DEF AuthorsAreInOrder
<1> QED  BY <1>1, LinesInvariant, PTL

-----------------------------------------------------------------------------
(* What is saved.                                                          *)

\* A row on screen has been recorded.
LEMMA ShownIsKept ==
    ASSUME Lines, NEW n \in Nodes  PROVE  Shown(n) \subseteq Range(history[n])
<1>1. /\ screen[n] \in Seq(Rows) /\ events[n] \in Seq(Rows) /\ history[n] \in Seq(Rows)
      /\ said \in [Nodes -> Nat] /\ Blank /\ Chained
  BY DEF Lines, Sound, TypeOK
<1>2. ASSUME NEW row \in Shown(n)  PROVE  row \in Range(history[n])
  <2>1. PICK i \in DOMAIN screen[n] : row = screen[n][i]
    BY DEF Shown, Range
  <2>2. row.type = "chat" /\ row \in Rows /\ row.who \in Nodes /\ i \in 1..Len(screen[n])
    <3>1. DOMAIN screen[n] = 1..Len(screen[n])
      BY <1>1, LenProperties
    <3>2. row.type = "chat" /\ row \in Rows
      BY <1>1, <2>1, <3>1 DEF Shown
    <3> QED  BY <2>1, <3>1, <3>2 DEF Rows
  <2> DEFINE a == row.who
             w == screen[n] \o events[n]
  <2>3. PICK r, t, s, u \in 0..said[a] :
           Kept(n, a, r) /\ Coming(n, a, r, t) /\ Seen(n, a, r, s, u)
    BY <1>1, <2>2 DEF Chained, Chain
  <2>4. n \in Viewers \ left
    BY <1>1, <2>2, EmptySeq DEF Blank
  <2>5. Runs(w, a, s, u) /\ u <= r /\ s \in Nat /\ r \in Nat /\ u \in Nat
    BY <1>1, <2>2, <2>3, <2>4 DEF Seen
  <2>6. w \in Seq(Rows) /\ i \in DOMAIN w /\ w[i] = row
    <3>1. /\ w \in Seq(Rows) /\ Len(w) = Len(screen[n]) + Len(events[n])
          /\ \A j \in 1..Len(screen[n]) + Len(events[n]) :
                w[j] = IF j <= Len(screen[n]) THEN screen[n][j]
                                              ELSE events[n][j - Len(screen[n])]
      BY <1>1, ConcatProperties
    <3>2. Len(screen[n]) \in Nat /\ Len(events[n]) \in Nat /\ DOMAIN w = 1..Len(w)
      BY <1>1, <3>1, LenProperties
    <3> HIDE DEF w
    <3>3. i \in Nat /\ 1 <= i /\ i <= Len(screen[n])
      BY <1>1, <2>2
    <3>4. i \in 1..Len(screen[n]) + Len(events[n])
      <4>1. \A p, q \in Nat : i <= p => i \in 1..(p + q)
        BY <3>3
      <4> QED  BY <3>2, <3>3, <4>1
    <3>5. w[i] = screen[n][i]
      BY <3>1, <3>3, <3>4
    <3> QED  BY <2>1, <3>1, <3>2, <3>4, <3>5
  <2>7. row.k \in (s + 1)..u
    BY <2>2, <2>5, <2>6 DEF Runs, By
  <2>8. row.k \in (0 + 1)..r /\ Runs(history[n], a, 0, r)
    BY <2>3, <2>5, <2>7 DEF Kept
  <2>9. PICK j \in By(a, history[n]) : history[n][j].k = row.k
    BY <2>8 DEF Runs
  <2>10. j \in DOMAIN history[n] /\ history[n][j].type = "chat" /\ history[n][j].who = a
    BY <2>9 DEF By
  <2>11. history[n][j] \in Rows
    BY <1>1, <2>10
  <2>12. history[n][j] = row
    BY <2>2, <2>9, <2>10, <2>11 DEF Rows
  <2> QED  BY <2>10, <2>12 DEF Range
<1> QED  BY <1>2

LEMMA SavedStep ==
    ASSUME ChatAssumption, Lines, SavedIsWhatIsSeen, [Next]_vars
    PROVE  SavedIsWhatIsSeen'
<1>1. TypeOK
  BY DEF Lines, Sound
<1>2. ASSUME NEW n \in Nodes, ui'[n].at = "write",
             ui'[n] = ui[n], screen'[n] = screen[n],
             history'[n] = history[n] \/ \E x \in Rows : history'[n] = Append(history[n], x)
      PROVE  IsPrefix(ui'[n].lines, history'[n]) /\ Shown(n)' \subseteq Range(ui'[n].lines)
  <2>1. /\ IsPrefix(ui[n].lines, history[n]) /\ Shown(n) \subseteq Range(ui[n].lines)
    BY <1>2 DEF SavedIsWhatIsSeen
  <2>2. ui[n].lines \in Seq(Rows) /\ history[n] \in Seq(Rows)
    <3>1. ui[n] \in UiStates /\ ui[n].at = "write" /\ history[n] \in Seq(Rows)
      BY <1>1, <1>2 DEF TypeOK
    <3> QED  BY <3>1 DEF UiStates, Idle
  <2>3. IsPrefix(ui[n].lines, history'[n])
    <3>1. CASE history'[n] = history[n]
      BY <2>1, <3>1
    <3>2. CASE \E x \in Rows : history'[n] = Append(history[n], x)
      <4>1. PICK x \in Rows : history'[n] = Append(history[n], x)
        BY <3>2
      <4>2. IsPrefix(ui[n].lines, Append(history[n], x))
        BY <2>1, <2>2, PrefixGrows
      <4> QED  BY <4>1, <4>2
    <3> QED  BY <1>2, <3>1, <3>2
  <2>4. Shown(n)' = Shown(n)
    BY <1>2 DEF Shown
  <2> QED  BY <1>2, <2>1, <2>3, <2>4
<1>3. ASSUME NEW n \in Nodes, ui'[n].at = "write"
      PROVE  IsPrefix(ui'[n].lines, history'[n]) /\ Shown(n)' \subseteq Range(ui'[n].lines)
  <2>1. CASE Export(n)
    <3>1. ui'[n] = [at |-> "write", lines |-> history[n]] /\ history' = history
          /\ screen' = screen
      BY <1>1, <2>1 DEF Export, UiIs, TypeOK
    <3>2. history[n] \in Seq(Rows)
      BY <1>1 DEF TypeOK
    <3>3. IsPrefix(history[n], history[n])
      BY <3>2 DEF IsPrefix
    <3>4. Shown(n)' = Shown(n)
      BY <3>1 DEF Shown
    <3> QED  BY <3>1, <3>3, <3>4, ShownIsKept
  <2>2. CASE ~ Export(n)
    <3>1. /\ ui'[n] = ui[n] /\ screen'[n] = screen[n]
          /\ \/ history'[n] = history[n]
             \/ \E x \in Rows : history'[n] = Append(history[n], x)
      <4>1. CASE UNCHANGED vars
        BY <4>1 DEF vars
      <4>2. CASE \E i \in Nodes : SendChat(i)
        <5>1. PICK i \in Nodes : SendChat(i)
          BY <4>2
        <5>2. said[i] + 1 \in Nat
          <6>1. said[i] \in Nat
            BY <1>1 DEF TypeOK
          <6> QED  BY <6>1
        <5>3. Line(i, said[i] + 1) \in Rows /\ record(i, Line(i, said[i] + 1))
          BY <5>1, <5>2, LinesAreRows DEF SendChat
        <5>4. i # n
          BY <1>1, <1>3, <5>1 DEF SendChat, UiIs, TypeOK
        <5>5. ui'[n] = ui[n] /\ screen' = screen
          BY <1>1, <5>1, <5>4 DEF SendChat, UiIs, TypeOK
        <5> QED  BY <1>1, <5>3, <5>4, <5>5, RecordMoves
      <4>3. CASE \E i \in Nodes : ShowOwn(i) \/ SendTo(i) \/ WriteFile(i) \/ Export(i)
        <5>1. PICK i \in Nodes : ShowOwn(i) \/ SendTo(i) \/ WriteFile(i) \/ Export(i)
          BY <4>3
        <5>2. i # n
          <6>1. ui \in [Nodes -> UiStates]
            BY <1>1 DEF TypeOK
          <6>2. ShowOwn(i) \/ WriteFile(i) => ui'[i].at # "write"
            BY <6>1 DEF ShowOwn, WriteFile, UiIs, Idle
          <6>3. SendTo(i) => ui'[i].at # "write"
            <7>1. SUFFICES ASSUME SendTo(i)  PROVE ui'[i].at # "write"
              OBVIOUS
            <7>2. ui[i] \in [at : {"send"}, to : SUBSET Nodes]
              BY <6>1, <7>1 DEF SendTo, UiStates, Idle
            <7>3. PICK m \in ui[i].to : UiIs(i, IF ui[i].to = {m} THEN Idle
                                              ELSE [ui[i] EXCEPT !.to = @ \ {m}])
              BY <7>1 DEF SendTo
            <7>4. Idle.at # "write" /\ [ui[i] EXCEPT !.to = @ \ {m}].at # "write"
              BY <7>2 DEF Idle
            <7> QED  BY <6>1, <7>3, <7>4 DEF UiIs
          <6> QED  BY <1>3, <2>2, <5>1, <6>2, <6>3
        <5>3. ui'[n] = ui[n]
          BY <1>1, <5>1, <5>2 DEF ShowOwn, SendTo, WriteFile, Export, UiIs, TypeOK
        <5> QED  BY <5>1, <5>3 DEF ShowOwn, SendTo, WriteFile, Export
      <4>4. CASE \E i \in Nodes : Pump(i) \/ Leave(i)
        <5>1. PICK i \in Nodes : Pump(i) \/ Leave(i)
          BY <4>4
        <5>2. ui' = ui /\ ui[i] = Idle /\ history' = history
          BY <5>1 DEF Pump, Leave
        <5>3. i # n
          BY <1>3, <5>2 DEF Idle
        <5> QED  BY <1>1, <5>1, <5>2, <5>3 DEF Pump, Leave, TypeOK
      <4>5. CASE \E i \in Nodes : \E m \in Nodes \ {i} : Receive(i, m)
        <5>1. PICK i \in Nodes : \E m \in Nodes \ {i} : Receive(i, m)
          BY <4>5
        <5>2. PICK m \in Nodes \ {i} : Receive(i, m)
          BY <5>1
        <5>3. Head(wire[m][i]) \in Rows
          BY <1>1, <5>2, TakeMoves DEF Receive
        <5>4. history' = history \/ record(i, Head(wire[m][i]))
          BY <5>2 DEF Receive
        <5>5. history'[n] = history[n] \/ \E x \in Rows : history'[n] = Append(history[n], x)
          BY <1>1, <5>3, <5>4, RecordMoves
        <5> QED  BY <5>2, <5>5 DEF Receive
      <4>6. CASE \E i \in Nodes : \E m \in Nodes \ {i} :
                    ShowTheirs(i, m) \/ RecvFails(i, m) \/ TellGone(i, m)
        BY <4>6 DEF ShowTheirs, RecvFails, TellGone
      <4>7. CASE \E link \in Fragile : LinkBreaks(link)
        BY <4>7 DEF LinkBreaks
      <4> QED  BY <4>1, <4>2, <4>3, <4>4, <4>5, <4>6, <4>7 DEF Next, System
    <3> QED  BY <1>2, <1>3, <3>1
  <2> QED  BY <2>1, <2>2
<1> QED  BY <1>3 DEF SavedIsWhatIsSeen

\* A saved transcript is a beginning of the transcript and holds every line the
\* user saw while it was being saved, whatever the readers of the other links
\* were recording in the meantime: export_history and history::export.
THEOREM SavedStaysTrue == Spec => []SavedIsWhatIsSeen
<1> USE ChatAssumption
<1>1. Init => SavedIsWhatIsSeen
  BY DEF Init, SavedIsWhatIsSeen, Idle
<1>2. Lines /\ SavedIsWhatIsSeen /\ [Next]_vars => SavedIsWhatIsSeen'
  BY SavedStep
<1> QED  BY <1>1, <1>2, LinesInvariant, PTL DEF Spec
-----------------------------------------------------------------------------
(* What is delivered and what is seen.                                     *)

\* Two members whose link has held have all of each other's lines, but for those
\* still on that link or in the middle of a fan-out: a peer that has gone while
\* the line was sent to one after another keeps nobody else from it (send_chat,
\* link.send, reader_loop), for any room and any number of lines.
THEOREM LinkedAreDelivered == Spec => []LinkedMeansDelivered
<1>1. ASSUME Lines  PROVE  LinkedMeansDelivered
  <2>1. ASSUME NEW n \in Nodes, NEW a \in Nodes, n # a, {n, a} \notin shut,
               AllSent(a), wire[a][n] = <<>>
        PROVE  Runs(history[n], a, 0, said[a])
    <3>1. PICK r, t, s, u \in 0..said[a] :
             Kept(n, a, r) /\ Coming(n, a, r, t) /\ Seen(n, a, r, s, u)
      BY <1>1 DEF Lines, Chained, Chain
    <3>2. said[a] \in Nat /\ {a, n} \notin shut
      <4>1. {a, n} = {n, a}
        OBVIOUS
      <4> QED  BY <1>1, <2>1, <4>1 DEF Lines, Sound, TypeOK
    <3>3. ~ Pending(a, n)
      BY <2>1 DEF AllSent, Pending
    <3>4. r <= t /\ Runs(<<>>, a, r, t) /\ said[a] = t
      BY <2>1, <3>1, <3>2, <3>3 DEF Coming
    <3>5. (r + 1)..t = {}
      BY <3>4 DEF Runs, By
    <3>6. r = t
      <4>1. r \in Nat /\ t \in Nat
        BY <3>1, <3>2
      <4>2. t \notin (r + 1)..t
        BY <3>5
      <4> QED  BY <3>4, <4>1, <4>2
    <3> QED  BY <3>1, <3>4, <3>6 DEF Kept
  <2> QED  BY <2>1 DEF LinkedMeansDelivered
<1> QED  BY <1>1, LinesInvariant, PTL

\* Row x is recorded and is about to be shown.
Underway(n, x) ==
    \/ ui[n].at = "emit" /\ x = Line(n, said[n])
    \/ \E m \in Nodes \ {n} : reader[n][m].at = "emit" /\ reader[n][m].line = x

\* The window has room for MaxVisible rows, only lines are recorded, and what is
\* recorded has not been forgotten on its way to a window that is not full.
Whole(n) ==
    /\ Len(screen[n]) <= MaxVisible
    /\ \A x \in Range(history[n]) :
          /\ x.type = "chat"
          /\ n \in Viewers \ left /\ Len(screen[n]) # MaxVisible =>
                x \in Range(screen[n]) \/ x \in Range(events[n]) \/ Underway(n, x)
AllWhole == \A n \in Nodes : Whole(n)

LEMMA RangeGrows ==
    ASSUME NEW S, NEW s \in Seq(S), NEW x \in S
    PROVE  Range(Append(s, x)) = Range(s) \cup {x}
<1>1. /\ Len(Append(s, x)) = Len(s) + 1 /\ Append(s, x) \in Seq(S)
      /\ \A i \in 1..Len(s) : Append(s, x)[i] = s[i]
      /\ Append(s, x)[Len(s) + 1] = x
  BY AppendProperties
<1>2. DOMAIN Append(s, x) = 1..(Len(s) + 1) /\ DOMAIN s = 1..Len(s) /\ Len(s) \in Nat
  BY <1>1, LenProperties
<1> QED  BY <1>1, <1>2 DEF Range

LEMMA RangeMovesOn ==
    ASSUME NEW S, NEW s \in Seq(S), s # <<>>
    PROVE  Range(s) = {Head(s)} \cup Range(Tail(s))
<1>1. /\ Len(Tail(s)) = Len(s) - 1 /\ Tail(s) \in Seq(S) /\ Head(s) = s[1]
      /\ \A i \in 1..Len(Tail(s)) : Tail(s)[i] = s[i + 1]
  BY HeadTailProperties
<1>2. /\ DOMAIN Tail(s) = 1..Len(Tail(s)) /\ DOMAIN s = 1..Len(s)
      /\ Len(s) \in Nat \ {0} /\ Len(Tail(s)) \in Nat
  BY <1>1, LenProperties, EmptySeq
<1> DEFINE w == Tail(s)
<1>3. \A i \in DOMAIN s : i = 1 \/ (i - 1 \in DOMAIN w /\ w[i - 1] = s[i])
  BY <1>1, <1>2
<1>4. \A i \in DOMAIN w : i + 1 \in DOMAIN s /\ s[i + 1] = w[i]
  BY <1>1, <1>2
<1>5. 1 \in DOMAIN s
  BY <1>2
<1> HIDE DEF w
<1>6. Range(s) = {Head(s)} \cup Range(w)
  BY <1>1, <1>3, <1>4, <1>5 DEF Range
<1> QED  BY <1>6 DEF w

LEMMA RangeJoined ==
    ASSUME NEW S, NEW s \in Seq(S), NEW r \in Seq(S)
    PROVE  Range(s) \subseteq Range(s \o r) /\ Range(r) \subseteq Range(s \o r)
<1> DEFINE w == s \o r
<1>1. /\ w \in Seq(S) /\ Len(w) = Len(s) + Len(r)
      /\ \A j \in 1..(Len(s) + Len(r)) : w[j] = IF j <= Len(s) THEN s[j] ELSE r[j - Len(s)]
  BY ConcatProperties
<1>2. /\ DOMAIN w = 1..(Len(s) + Len(r)) /\ DOMAIN s = 1..Len(s) /\ DOMAIN r = 1..Len(r)
      /\ Len(s) \in Nat /\ Len(r) \in Nat
  BY <1>1, LenProperties
<1> HIDE DEF w
<1>3. \A i \in DOMAIN s : i \in DOMAIN w /\ w[i] = s[i]
  BY <1>1, <1>2
<1>4. \A i \in DOMAIN r : i + Len(s) \in DOMAIN w /\ w[i + Len(s)] = r[i]
  BY <1>1, <1>2
<1>5. Range(s) \subseteq Range(w) /\ Range(r) \subseteq Range(w)
  BY <1>3, <1>4 DEF Range
<1> QED  BY <1>5 DEF w

\* What a step leaves alone, or only adds rows for the window to.
LEMMA WholeSame ==
    ASSUME NEW n \in Nodes, Whole(n), left \subseteq left',
           history'[n] = history[n], screen'[n] = screen[n],
           n \in Viewers \ left => Range(events[n]) \subseteq Range(events'[n]),
           \A x : n \in Viewers \ left /\ Underway(n, x)
                    => Underway(n, x)' \/ x \in Range(events'[n])
    PROVE  Whole(n)'
BY DEF Whole

\* A line is recorded by the thread that will show it.
LEMMA WholeRecord ==
    ASSUME TypeOK, NEW n \in Nodes, Whole(n), NEW x \in Rows, x.type = "chat",
           history'[n] = Append(history[n], x),
           UNCHANGED <<screen, events, left>>,
           Underway(n, x)', \A y : Underway(n, y) => Underway(n, y)'
    PROVE  Whole(n)'
<1>1. history[n] \in Seq(Rows)
  BY DEF TypeOK
<1>2. Range(history'[n]) = Range(history[n]) \cup {x}
  BY <1>1, RangeGrows
<1> QED  BY <1>2 DEF Whole

LEMMA OwnWhole ==
    ASSUME ChatAssumption, Sound, NEW n \in Nodes, Whole(n), NEW i \in Nodes,
           SendChat(i) \/ ShowOwn(i) \/ SendTo(i) \/ Export(i) \/ WriteFile(i)
    PROVE  Whole(n)'
<1>1. /\ TypeOK /\ ui \in [Nodes -> UiStates] /\ said \in [Nodes -> Nat]
      /\ events[n] \in Seq(Rows)
  BY DEF Sound, TypeOK
<1>2. CASE SendChat(i)
  <2>1. /\ Line(i, said[i] + 1) \in Rows /\ Line(i, said[i] + 1).type = "chat"
        /\ record(i, Line(i, said[i] + 1)) /\ UiIs(i, [at |-> "emit"])
        /\ said' = [said EXCEPT ![i] = @ + 1] /\ ui[i] = Idle
        /\ UNCHANGED <<events, screen, reader, left>>
    <3>1. said[i] + 1 \in Nat
      BY <1>1
    <3> QED  BY <1>2, <3>1, LinesAreRows DEF SendChat, Line
  <2>2. ui[i].at # "emit"
    BY <2>1 DEF Idle
  <2>3. CASE i = n
    <3>1. ui'[n].at = "emit" /\ said'[n] = said[n] + 1
      BY <1>1, <2>1, <2>3 DEF UiIs
    <3>2. PICK x \in Rows : x = Line(n, said[n] + 1)
      BY <2>1, <2>3
    <3>3. Underway(n, x)'
      BY <3>1, <3>2 DEF Underway, Line
    <3>4. \A y : Underway(n, y) => Underway(n, y)'
      BY <2>1, <2>2, <2>3 DEF Underway
    <3>5. history'[n] = Append(history[n], x) /\ x.type = "chat"
      BY <1>1, <2>1, <2>3, <3>2, RecordMoves
    <3> QED  BY <1>1, <2>1, <3>3, <3>4, <3>5, WholeRecord
  <2>4. CASE i # n
    <3>1. history'[n] = history[n] /\ ui'[n] = ui[n] /\ said'[n] = said[n]
      BY <1>1, <2>1, <2>4, RecordMoves DEF UiIs
    <3>2. \A y : Underway(n, y) => Underway(n, y)'
      BY <2>1, <3>1 DEF Underway, Line
    <3> QED  BY <2>1, <3>1, <3>2, WholeSame
  <2> QED  BY <2>3, <2>4
<1>3. CASE ShowOwn(i)
  <2>1. /\ UNCHANGED <<said, history, screen, reader, left>>
        /\ Line(i, said[i]) \in Rows /\ Note("undelivered", i) \in Rows
    BY <1>1, <1>3, LinesAreRows DEF ShowOwn
  <2>2. PICK rows \in Seq(Rows) : Line(i, said[i]) \in Range(rows) /\ emit(i, rows)
    <3>1. /\ <<Line(i, said[i])>> \in Seq(Rows)
          /\ <<Line(i, said[i]), Note("undelivered", i)>> \in Seq(Rows)
      BY <2>1
    <3>2. /\ Line(i, said[i]) \in Range(<<Line(i, said[i])>>)
          /\ Line(i, said[i]) \in Range(<<Line(i, said[i]), Note("undelivered", i)>>)
      BY DEF Range
    <3> QED  BY <1>3, <3>1, <3>2 DEF ShowOwn
  <2>3. \A j \in Nodes : j # i => ui'[j] = ui[j]
    BY <1>1, <1>3 DEF ShowOwn, UiIs
  <2>4. CASE i = n /\ n \in Viewers \ left
    <3>1. events'[n] = events[n] \o rows
      BY <1>1, <2>2, <2>4, EmitMoves
    <3>2. Range(events[n]) \subseteq Range(events'[n]) /\ Line(n, said[n]) \in Range(events'[n])
      BY <1>1, <2>2, <2>4, <3>1, RangeJoined
    <3>3. \A x : Underway(n, x) => Underway(n, x)' \/ x \in Range(events'[n])
      BY <2>1, <3>2 DEF Underway
    <3> QED  BY <2>1, <3>2, <3>3, WholeSame
  <2>5. CASE ~ (i = n /\ n \in Viewers \ left)
    <3>1. n \in Viewers \ left => events'[n] = events[n]
      BY <1>1, <2>2, <2>5, EmitMoves
    <3>2. \A x : n \in Viewers \ left /\ Underway(n, x) => Underway(n, x)'
      BY <2>1, <2>3, <2>5 DEF Underway, Line
    <3> QED  BY <2>1, <3>1, <3>2, WholeSame
  <2> QED  BY <2>4, <2>5
<1>4. CASE SendTo(i) \/ Export(i) \/ WriteFile(i)
  <2>1. UNCHANGED <<said, history, events, screen, reader, left>>
    BY <1>4 DEF SendTo, Export, WriteFile
  <2>2. ui[i].at # "emit" /\ \A j \in Nodes : j # i => ui'[j] = ui[j]
    BY <1>1, <1>4 DEF SendTo, Export, WriteFile, UiIs, Idle
  <2>3. \A x : Underway(n, x) => Underway(n, x)'
    BY <2>1, <2>2 DEF Underway, Line
  <2> QED  BY <2>1, <2>3, WholeSame
<1> QED  BY <1>2, <1>3, <1>4

LEMMA ReaderWhole ==
    ASSUME ChatAssumption, Sound, NEW n \in Nodes, Whole(n),
           NEW i \in Nodes, NEW m \in Nodes \ {i},
           Receive(i, m) \/ ShowTheirs(i, m) \/ RecvFails(i, m) \/ TellGone(i, m)
    PROVE  Whole(n)'
<1>1. TypeOK /\ Together /\ events[n] \in Seq(Rows)
  BY DEF Sound, TypeOK
<1>2. UNCHANGED <<said, screen, ui, left>>
  BY DEF Receive, ShowTheirs, RecvFails, TellGone
<1>3. ASSUME reader[i][m].at # "emit",
             \A k \in Nodes : \A j \in Nodes \ {k} :
                <<k, j>> # <<i, m>> => reader'[k][j] = reader[k][j]
      PROVE  \A x : Underway(n, x) => Underway(n, x)'
  BY <1>2, <1>3 DEF Underway, Line
<1>4. CASE RecvFails(i, m) \/ TellGone(i, m)
  <2>1. UNCHANGED <<history, events>> /\ reader[i][m].at # "emit"
    BY <1>4 DEF RecvFails, TellGone, Receiving
  <2>2. \E s \in ReaderStates : ReaderIs(i, m, s)
    <3>1. CASE RecvFails(i, m)
      BY <1>1, <3>1, PeerGoneMoves DEF RecvFails
    <3>2. CASE TellGone(i, m)
      <4>1. reader[i][m] \in [at : {"tell"}, to : SUBSET Nodes]
        <5>1. reader[i] \in [Nodes \ {i} -> ReaderStates]
          BY <1>1 DEF TypeOK
        <5>2. reader[i][m] \in ReaderStates
          BY <5>1
        <5> QED  BY <3>2, <5>2 DEF TellGone, ReaderStates, Receiving
      <4>2. \A p : Telling(reader[i][m].to \ {p}) \in ReaderStates
        BY <4>1 DEF ReaderStates, Telling
      <4> QED  BY <3>2, <4>2 DEF TellGone
    <3> QED  BY <1>4, <3>1, <3>2
  <2>3. \A x : Underway(n, x) => Underway(n, x)'
    BY <1>1, <1>3, <2>1, <2>2, ReaderMoves
  <2> QED  BY <1>2, <2>1, <2>3, WholeSame
<1>5. CASE Receive(i, m)
  <2>0. Head(wire[m][i]) \in Rows
    <3>1. wire[m][i] \in Seq(Rows) /\ wire[m][i] # <<>>
      BY <1>1, <1>5 DEF Receive, TypeOK
    <3> QED  BY <3>1, HeadTailProperties
  <2>1. PICK msg \in Rows : msg = Head(wire[m][i])
    BY <2>0
  <2>6. reader[i][m].at # "emit"
    BY <1>5 DEF Receive, Receiving
  <2>2. CASE /\ msg.type = "chat" /\ record(i, msg)
             /\ ReaderIs(i, m, [at |-> "emit", line |-> msg])
             /\ UNCHANGED <<events, peers, shut>>
    <3>1. [at |-> "emit", line |-> msg] \in ReaderStates
      BY <2>1 DEF ReaderStates
    <3>2. \A x : Underway(n, x) => Underway(n, x)'
      BY <1>1, <1>3, <2>2, <2>6, <3>1, ReaderMoves
    <3>3. CASE i = n
      <4>1. reader'[n][m].at = "emit" /\ reader'[n][m].line = msg
        BY <1>1, <2>2, <3>1, <3>3, ReaderMoves
      <4>2. Underway(n, msg)'
        BY <3>3, <4>1 DEF Underway
      <4>3. history'[n] = Append(history[n], msg)
        BY <1>1, <2>1, <2>2, <3>3, RecordMoves
      <4> QED  BY <1>1, <1>2, <2>1, <2>2, <3>2, <4>2, <4>3, WholeRecord
    <3>4. CASE i # n
      <4>1. history'[n] = history[n]
        BY <1>1, <2>1, <2>2, <3>4, RecordMoves
      <4> QED  BY <1>2, <2>2, <3>2, <4>1, WholeSame
    <3> QED  BY <3>3, <3>4
  <2>3. CASE emit(i, <<msg>>) /\ UNCHANGED <<history, reader, peers, shut>>
    <3>1. <<msg>> \in Seq(Rows)
      BY <2>1
    <3>2. events'[n] = events[n] \/ events'[n] = events[n] \o <<msg>>
      BY <1>1, <2>3, <3>1, EmitMoves
    <3>3. Range(events[n]) \subseteq Range(events'[n])
      BY <1>1, <3>1, <3>2, RangeJoined
    <3>4. \A x : Underway(n, x) => Underway(n, x)'
      BY <1>2, <2>3 DEF Underway, Line
    <3> QED  BY <1>2, <2>3, <3>3, <3>4, WholeSame
  <2>4. CASE PeerGone(i, m) /\ UNCHANGED <<history, events>>
    <3>1. \E s \in ReaderStates : ReaderIs(i, m, s)
      BY <1>1, <2>4, PeerGoneMoves
    <3>2. \A x : Underway(n, x) => Underway(n, x)'
      BY <1>1, <1>3, <2>6, <3>1, ReaderMoves
    <3> QED  BY <1>2, <2>4, <3>2, WholeSame
  <2> QED  BY <1>5, <2>1, <2>2, <2>3, <2>4 DEF Receive
<1>6. CASE ShowTheirs(i, m)
  <2> DEFINE line == reader[i][m].line
  <2>1. reader[i][m] \in [at : {"emit"}, line : Rows]
    <3>1. reader[i] \in [Nodes \ {i} -> ReaderStates]
      BY <1>1 DEF TypeOK
    <3>2. reader[i][m] \in ReaderStates
      BY <3>1
    <3> QED  BY <1>6, <3>2 DEF ShowTheirs, ReaderStates, Receiving
  <2>2. /\ emit(i, <<line>>) /\ line \in Rows /\ <<line>> \in Seq(Rows)
        /\ ReaderIs(i, m, Receiving) /\ Receiving \in ReaderStates
        /\ UNCHANGED <<history, left>>
    BY <1>6, <2>1 DEF ShowTheirs, ReaderStates
  <2>3. \A k \in Nodes : \A j \in Nodes \ {k} :
           <<k, j>> # <<i, m>> => reader'[k][j] = reader[k][j]
    BY <1>1, <2>2, ReaderMoves
  <2> HIDE DEF line
  <2>4. CASE i = n /\ n \in Viewers \ left
    <3>1. events'[n] = events[n] \o <<line>>
      BY <1>1, <2>2, <2>4, EmitMoves
    <3>2. line \in Range(<<line>>)
      BY DEF Range
    <3>3. Range(events[n]) \subseteq Range(events'[n]) /\ line \in Range(events'[n])
      BY <1>1, <2>2, <3>1, <3>2, RangeJoined
    <3>4. \A x : Underway(n, x) => Underway(n, x)' \/ x \in Range(events'[n])
      BY <1>2, <2>3, <2>4, <3>3 DEF Underway, Line, line
    <3> QED  BY <1>2, <2>2, <3>3, <3>4, WholeSame
  <2>5. CASE ~ (i = n /\ n \in Viewers \ left)
    <3>1. n \in Viewers \ left => events'[n] = events[n]
      BY <1>1, <2>2, <2>5, EmitMoves
    <3>2. \A x : n \in Viewers \ left /\ Underway(n, x) => Underway(n, x)'
      BY <1>2, <2>3, <2>5 DEF Underway, Line
    <3> QED  BY <1>2, <2>2, <3>1, <3>2, WholeSame
  <2> QED  BY <2>4, <2>5
<1> QED  BY <1>4, <1>5, <1>6

LEMMA PumpWhole ==
    ASSUME ChatAssumption, Sound, NEW n \in Nodes, Whole(n), NEW i \in Nodes, Pump(i)
    PROVE  Whole(n)'
<1>1. TypeOK /\ UNCHANGED <<said, history, ui, reader, left>>
  BY DEF Sound, Pump
<1>2. \A x : Underway(n, x)' <=> Underway(n, x)
  BY <1>1 DEF Underway, Line
<1>3. CASE i # n
  <2>1. screen'[n] = screen[n] /\ events'[n] = events[n]
    BY <1>1, <1>3 DEF Pump, TypeOK
  <2> QED  BY <1>1, <1>2, <2>1, WholeSame
<1>4. CASE i = n
  <2> DEFINE s == screen[n]
             q == events[n]
  <2>1. s \in Seq(Rows) /\ q \in Seq(Rows) /\ q # <<>> /\ Head(q) \in Rows
    <3>1. s \in Seq(Rows) /\ q \in Seq(Rows) /\ q # <<>>
      BY <1>1, <1>4 DEF TypeOK, Pump
    <3> QED  BY <3>1, HeadTailProperties
  <2>2. screen'[n] = push_message(s, Head(q)) /\ events'[n] = Tail(q)
    BY <1>1, <1>4 DEF Pump, TypeOK
  <2>3. Len(s) \in Nat /\ Len(s) <= MaxVisible /\ MaxVisible \in Nat \ {0}
    BY <2>1, LenProperties DEF Whole, ChatAssumption
  <2> HIDE DEF s, q
  <2>4. CASE Len(s) = MaxVisible
    <3>1. s # <<>>
      BY <2>1, <2>3, <2>4, EmptySeq
    <3>2. Tail(s) \in Seq(Rows) /\ Len(Tail(s)) = Len(s) - 1
      BY <2>1, <3>1, HeadTailProperties
    <3>3. screen'[n] = Append(Tail(s), Head(q))
      BY <2>2, <2>3, <2>4 DEF push_message
    <3>4. Len(screen'[n]) = Len(Tail(s)) + 1
      BY <2>1, <3>2, <3>3, AppendProperties
    <3>5. Len(screen'[n]) = MaxVisible
      BY <2>3, <2>4, <3>2, <3>4
    <3> QED  BY <1>1, <2>3, <3>5 DEF Whole
  <2>5. CASE Len(s) # MaxVisible
    <3>1. ~ (Len(s) >= MaxVisible)
      BY <2>3, <2>5
    <3>2. screen'[n] = Append(s, Head(q))
      BY <2>2, <3>1 DEF push_message
    <3>3. Len(screen'[n]) = Len(s) + 1
      BY <2>1, <3>2, AppendProperties
    <3>4. Len(screen'[n]) <= MaxVisible
      BY <2>3, <3>1, <3>3
    <3>5. Range(screen'[n]) = Range(s) \cup {Head(q)}
      BY <2>1, <3>2, RangeGrows
    <3>6. Range(q) = {Head(q)} \cup Range(events'[n])
      BY <2>1, <2>2, RangeMovesOn
    <3> QED  BY <1>1, <1>2, <2>5, <3>4, <3>5, <3>6 DEF Whole, s, q
  <2> QED  BY <2>4, <2>5
<1> QED  BY <1>3, <1>4

LEMMA LeaveWhole ==
    ASSUME ChatAssumption, Sound, NEW n \in Nodes, Whole(n), NEW i \in Nodes, Leave(i)
    PROVE  Whole(n)'
<1>1. /\ TypeOK /\ UNCHANGED <<said, history, ui, reader>>
      /\ left \subseteq left' /\ i \in left'
  BY DEF Sound, Leave
<1>2. CASE i # n
  <2>1. screen'[n] = screen[n] /\ events'[n] = events[n]
    BY <1>1, <1>2 DEF Leave, TypeOK
  <2>2. \A x : Underway(n, x)' <=> Underway(n, x)
    BY <1>1 DEF Underway, Line
  <2> QED  BY <1>1, <2>1, <2>2, WholeSame
<1>3. CASE i = n
  <2>1. screen'[n] = <<>>
    BY <1>1, <1>3 DEF Leave, TypeOK
  <2>2. Len(screen'[n]) <= MaxVisible
    <3>1. Len(screen'[n]) = 0
      BY <2>1
    <3> QED  BY <3>1 DEF ChatAssumption
  <2> QED  BY <1>1, <1>3, <2>2 DEF Whole
<1> QED  BY <1>2, <1>3

LEMMA WholeStep ==
    ASSUME ChatAssumption, Sound, AllWhole, [Next]_vars  PROVE  AllWhole'
<1>1. ASSUME NEW n \in Nodes  PROVE  Whole(n)'
  <2>1. Whole(n)
    BY DEF AllWhole
  <2>2. CASE UNCHANGED vars \/ \E link \in Fragile : LinkBreaks(link)
    <3>1. UNCHANGED <<said, history, ui, reader, screen, events, left>>
      BY <2>2 DEF vars, LinkBreaks
    <3>2. \A x : Underway(n, x)' <=> Underway(n, x)
      BY <3>1 DEF Underway, Line
    <3> QED  BY <2>1, <3>1, <3>2, WholeSame
  <2>3. CASE \E i \in Nodes : SendChat(i) \/ ShowOwn(i) \/ SendTo(i) \/ Export(i) \/ WriteFile(i)
    BY <2>1, <2>3, OwnWhole
  <2>4. CASE \E i \in Nodes : \E m \in Nodes \ {i} :
                Receive(i, m) \/ ShowTheirs(i, m) \/ RecvFails(i, m) \/ TellGone(i, m)
    BY <2>1, <2>4, ReaderWhole
  <2>5. CASE \E i \in Nodes : Pump(i)
    BY <2>1, <2>5, PumpWhole
  <2>6. CASE \E i \in Nodes : Leave(i)
    BY <2>1, <2>6, LeaveWhole
  <2> QED  BY <2>2, <2>3, <2>4, <2>5, <2>6 DEF Next, System
<1> QED  BY <1>1 DEF AllWhole

\* Once its threads have shown what they have, a window that is not full shows
\* exactly what is on record, for any room, any number of lines and any size of
\* window: no row is dropped between record, emit, pump and push_message.
THEOREM NothingStaysUnseen == Spec => []NothingIsUnseen
<1> USE ChatAssumption
<1>1. Init => AllWhole
  <2>1. ASSUME Init, NEW n \in Nodes  PROVE  Whole(n)
    <3>1. history[n] = <<>> /\ screen[n] = <<>>
      BY <2>1 DEF Init
    <3>2. Range(<<>>) = {} /\ Len(<<>>) = 0
      BY DEF Range
    <3>3. 0 <= MaxVisible
      BY DEF ChatAssumption
    <3> QED  BY <3>1, <3>2, <3>3 DEF Whole
  <2> QED  BY <2>1 DEF AllWhole
<1>2. Lines /\ AllWhole /\ [Next]_vars => AllWhole'
  BY WholeStep DEF Lines
<1>3. ASSUME Lines, AllWhole  PROVE  NothingIsUnseen
  <2>1. ASSUME NEW n \in Viewers \ left, AllShown(n), Len(screen[n]) # MaxVisible
        PROVE  Range(history[n]) = Shown(n)
    <3>1. n \in Nodes /\ Whole(n)
      BY <1>3, <2>1 DEF AllWhole, ChatAssumption
    <3>2. Shown(n) \subseteq Range(history[n])
      BY <1>3, <3>1, ShownIsKept
    <3>3. ASSUME NEW x \in Range(history[n])  PROVE  x \in Shown(n)
      <4>1. /\ x.type = "chat"
            /\ x \in Range(screen[n]) \/ x \in Range(events[n]) \/ Underway(n, x)
        BY <2>1, <3>1 DEF Whole
      <4>2. Range(events[n]) = {} /\ ~ Underway(n, x)
        BY <2>1 DEF AllShown, Underway, Range
      <4> QED  BY <4>1, <4>2 DEF Shown
    <3> QED  BY <3>2, <3>3
  <2> QED  BY <2>1 DEF NothingIsUnseen
<1> QED  BY <1>1, <1>2, <1>3, LinesInvariant, PTL DEF Spec
=============================================================================
