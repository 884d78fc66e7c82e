-------------------------------- MODULE Chat --------------------------------
(***************************************************************************)
(* The conversation in a room whose members are linked: send_chat and the  *)
(* readers of mesh.rs, the transcript each node keeps and its export        *)
(* (history.rs), and the window of ui/src/main.rs that shows the last of    *)
(* what was said.  Recording a line and showing it are separate calls, made *)
(* by the UI thread for its own lines and by one reader per link for those  *)
(* of others.                                                              *)
(***************************************************************************)
EXTENDS Naturals, Sequences, SequencesExt

CONSTANTS
    Nodes,
    Host,
    Meshes,     \* the links there may be, sets of sets of two ends: a dial may have failed
    Writers,    \* nodes whose user writes
    MaxLines,   \* bound: lines written in all
    Exports,    \* Exports[n]: bound: exports n's user makes
    Viewers,    \* nodes whose window is followed
    Leavers,    \* nodes whose user may leave
    Fragile,    \* links that may break, each the set of its two ends
    MaxVisible  \* MAX_VISIBLE_MESSAGES, 2000

Links == {{n, m} : n, m \in Nodes} \ {{n} : n \in Nodes}

ASSUME ChatAssumption ==
    /\ Host \in Nodes /\ Meshes \subseteq SUBSET Links
    /\ Writers \subseteq Nodes /\ MaxLines \in Nat /\ Exports \in [Nodes -> Nat]
    /\ Viewers \subseteq Nodes /\ Leavers \subseteq Nodes /\ Fragile \subseteq SUBSET Nodes
    /\ MaxVisible \in Nat \ {0}

VARIABLES
    said,       \* said[n]: lines n's user has written
    history,    \* history[n]: the lines of the transcript; its notes are left out
    events,     \* events[n]: rows on their way to the window
    screen,     \* screen[n]: the rows the window shows
    ui,         \* ui[n]: what the UI thread is doing, and for whom
    peers,      \* peers[n]: who n is linked to, as n sees it
    wire,       \* wire[n][m]: messages on their way from n to m
    shut,       \* links closed or broken, each the set of its two ends
    reader,     \* reader[n][m]: where n's reader of its link with m stands
    left,       \* nodes that have left the room
    exported    \* exported[n]: exports n's user has made

vars == <<said, history, events, screen, ui, peers, wire, shut, reader, left,
          exported>>

Line(n, k)    == [type |-> "chat", who |-> n, k |-> k]
Note(type, n) == [type |-> type, who |-> n, k |-> 0]
Bye           == Note("bye", Host)

Idle      == [at |-> "idle"]
Receiving == [at |-> "recv"]
Telling(to) == [at |-> "tell", to |-> to]
Over      == Telling({})

Init ==
    /\ said = [n \in Nodes |-> 0]
    /\ history = [n \in Nodes |-> <<>>]
    /\ events = [n \in Nodes |-> <<>>]
    /\ screen = [n \in Nodes |-> <<>>]
    /\ ui = [n \in Nodes |-> Idle]
    /\ \E mesh \in Meshes :
          /\ peers = [n \in Nodes |-> {m \in Nodes : {n, m} \in mesh}]
          /\ shut = Links \ mesh
          /\ reader = [n \in Nodes |-> [m \in Nodes \ {n} |->
                IF {n, m} \in mesh THEN Receiving ELSE Over]]
    /\ wire = [n \in Nodes |-> [m \in Nodes |-> <<>>]]
    /\ left = {}
    /\ exported = [n \in Nodes |-> 0]

\* Mutant: the transcript is capped, and more tightly than the window.
RecordCapped(n, line) ==
    history' = [history EXCEPT ![n] =
        Append(IF Len(@) >= MaxVisible - 1 THEN Tail(@) ELSE @, line)]

record(n, line) == history' = [history EXCEPT ![n] = Append(@, line)]
\* Events of a node that was left go to nobody.
emit(n, rows) == events' = IF n \in left \/ n \notin Viewers THEN events
                           ELSE [events EXCEPT ![n] = @ \o rows]
UiIs(n, s) == ui' = [ui EXCEPT ![n] = s]
ReaderIs(n, m, s) == reader' = [reader EXCEPT ![n][m] = s]
\* Mutant: each message is sent by a thread of its own.
PutUnordered(w, n, m, msg) ==
    IF {n, m} \in shut THEN w ELSE [w EXCEPT ![n][m] = <<msg>> \o @]

\* link.send: nothing is written to a link that is shut.
Put(w, n, m, msg) == IF {n, m} \in shut THEN w ELSE [w EXCEPT ![n][m] = Append(@, msg)]

-----------------------------------------------------------------------------
(* send_chat, on the UI thread.                                            *)

MayWrite == FoldFunction(+, 0, said) < MaxLines

SendChat(n) ==
    /\ ui[n] = Idle /\ n \in Writers \ left
    /\ MayWrite
    /\ said' = [said EXCEPT ![n] = @ + 1]
    /\ record(n, Line(n, said[n] + 1))
    /\ UiIs(n, [at |-> "emit"])
    /\ UNCHANGED <<events, screen, peers, wire, shut, reader, left, exported>>

\* The line is shown, then the peers are looked up; with none, the user is
\* told that nobody got it.
ShowOwn(n) ==
    /\ ui[n].at = "emit"
    /\ \/ /\ peers[n] # {}
          /\ emit(n, <<Line(n, said[n])>>)
          /\ UiIs(n, [at |-> "send", to |-> peers[n]])
       \/ /\ peers[n] = {}
          /\ emit(n, <<Line(n, said[n]), Note("undelivered", n)>>)
          /\ UiIs(n, Idle)
    /\ UNCHANGED <<said, history, screen, peers, wire, shut, reader, left, exported>>

\* Mutant: the first failure ends the fan-out.
SendToOrGiveUp(n) ==
    /\ ui[n].at = "send"
    /\ \E m \in ui[n].to :
          /\ wire' = Put(wire, n, m, Line(n, said[n]))
          /\ UiIs(n, IF ui[n].to = {m} \/ {n, m} \in shut
                     THEN Idle ELSE [ui[n] EXCEPT !.to = @ \ {m}])
    /\ UNCHANGED <<said, history, events, screen, peers, shut, reader, left, exported>>

\* One peer after the other; a failure is reported and the rest still get it.
SendTo(n) ==
    /\ ui[n].at = "send"
    /\ \E m \in ui[n].to :
          /\ wire' = Put(wire, n, m, Line(n, said[n]))
          /\ UiIs(n, IF ui[n].to = {m} THEN Idle ELSE [ui[n] EXCEPT !.to = @ \ {m}])
    /\ UNCHANGED <<said, history, events, screen, peers, shut, reader, left, exported>>

\* Mutant: one row too few is kept.
PushOneTooFew(rows, row) ==
    Append(IF Len(rows) >= MaxVisible - 1 THEN Tail(rows) ELSE rows, row)

\* The oldest row makes room.
push_message(rows, row) ==
    Append(IF Len(rows) >= MaxVisible THEN Tail(rows) ELSE rows, row)

\* pump: the next row is shown.  How many rows one tick gets through, at most
\* MAX_EVENTS_PER_TICK, is left open.
Pump(n) ==
    /\ ui[n] = Idle /\ events[n] # <<>>
    /\ screen' = [screen EXCEPT ![n] = push_message(@, Head(events[n]))]
    /\ events' = [events EXCEPT ![n] = Tail(@)]
    /\ UNCHANGED <<said, history, ui, peers, wire, shut, reader, left, exported>>

-----------------------------------------------------------------------------
(* reader_loop: one thread per link.                                       *)

\* peer_gone: the first to find the peer in the map takes it out and closes
\* the link; a host has others to tell.
PeerGone(n, m) ==
    \/ /\ m \in peers[n]
       /\ peers' = [peers EXCEPT ![n] = @ \ {m}]
       /\ shut' = shut \cup {{n, m}}
       /\ ReaderIs(n, m, Telling(IF n = Host THEN peers[n] \ {m} ELSE {}))
    \/ /\ m \notin peers[n]
       /\ ReaderIs(n, m, Over)
       /\ UNCHANGED <<peers, shut>>

Receive(n, m) ==
    /\ reader[n][m] = Receiving /\ wire[m][n] # <<>>
    /\ wire' = [wire EXCEPT ![m][n] = Tail(@)]
    /\ LET msg == Head(wire[m][n])
       IN \/ /\ msg.type = "chat"
             /\ record(n, msg)
             /\ ReaderIs(n, m, [at |-> "emit", line |-> msg])
             /\ UNCHANGED <<events, peers, shut>>
          \/ /\ msg.type = "left"
             /\ emit(n, <<msg>>)
             /\ UNCHANGED <<history, reader, peers, shut>>
          \/ /\ msg = Bye
             /\ PeerGone(n, m)
             /\ UNCHANGED <<history, events>>
    /\ UNCHANGED <<said, screen, ui, left, exported>>

ShowTheirs(n, m) ==
    /\ reader[n][m].at = "emit"
    /\ emit(n, <<reader[n][m].line>>)
    /\ ReaderIs(n, m, Receiving)
    /\ UNCHANGED <<said, history, screen, ui, peers, wire, shut, left, exported>>

\* What was on its way over a shut link may be lost.
RecvFails(n, m) ==
    /\ reader[n][m] = Receiving /\ {n, m} \in shut
    /\ PeerGone(n, m)
    /\ UNCHANGED <<said, history, events, screen, ui, wire, left, exported>>

\* The host tells the others.  The code looks them up after it let go of the
\* lock: whoever has gone since then is told over a shut link.
TellGone(n, m) ==
    /\ reader[n][m].at = "tell"
    /\ \E p \in reader[n][m].to :
          /\ wire' = Put(wire, n, p, Note("left", m))
          /\ ReaderIs(n, m, Telling(reader[n][m].to \ {p}))
    /\ UNCHANGED <<said, history, events, screen, ui, peers, shut, left, exported>>

\* Bound: one link breaks or one user leaves.
MayLose == left = {} /\ shut \cap Fragile = {}

LinkBreaks(link) ==
    /\ link \in Fragile /\ MayLose
    /\ shut' = shut \cup {link}
    /\ UNCHANGED <<said, history, events, screen, ui, peers, wire, reader, left, exported>>

\* on_leave_room: leave() drains the peers, says Bye and closes each link, and
\* the window forgets the node.
Leave(n) ==
    /\ n \in Leavers /\ MayLose /\ ui[n] = Idle
    /\ left' = left \cup {n}
    /\ wire' = [wire EXCEPT ![n] = [m \in Nodes |->
          IF m \in peers[n] /\ {n, m} \notin shut THEN Append(@[m], Bye) ELSE @[m]]]
    /\ shut' = shut \cup {{n, m} : m \in peers[n]}
    /\ peers' = [peers EXCEPT ![n] = {}]
    /\ events' = [events EXCEPT ![n] = <<>>]
    /\ screen' = [screen EXCEPT ![n] = <<>>]
    /\ UNCHANGED <<said, history, ui, reader, exported>>

-----------------------------------------------------------------------------
(* on_export_history, on the UI thread.                                    *)

Shown(n) == {row \in Range(screen[n]) : row.type = "chat"}

\* export_history copies the transcript under the lock.
Export(n) ==
    /\ ui[n] = Idle /\ n \notin left /\ exported[n] < Exports[n]
    /\ exported' = [exported EXCEPT ![n] = @ + 1]
    /\ UiIs(n, [at |-> "write", lines |-> history[n]])
    /\ UNCHANGED <<said, history, events, screen, peers, wire, shut, reader, left>>

\* history::export writes the copy out.
WriteFile(n) ==
    /\ ui[n].at = "write"
    /\ UiIs(n, Idle)
    /\ UNCHANGED <<said, history, events, screen, peers, wire, shut, reader, left, exported>>

-----------------------------------------------------------------------------
System ==
    \/ \E n \in Nodes : ShowOwn(n) \/ SendTo(n) \/ Pump(n) \/ WriteFile(n)
    \/ \E n \in Nodes : \E m \in Nodes \ {n} :
          Receive(n, m) \/ ShowTheirs(n, m) \/ RecvFails(n, m) \/ TellGone(n, m)

Next ==
    \/ System
    \/ \E n \in Nodes : SendChat(n) \/ Export(n) \/ Leave(n)
    \/ \E link \in Fragile : LinkBreaks(link)

Spec == Init /\ [][Next]_vars

-----------------------------------------------------------------------------
\* a's user is not in the middle of a line; n's threads have no row left to show.
AllSent(a)  == ui[a].at \notin {"emit", "send"}
AllShown(n) ==
    /\ events[n] = <<>> /\ ui[n].at # "emit"
    /\ \A m \in Nodes \ {n} : reader[n][m].at # "emit"

\* The lines of author a in s are those after the first `from`, up to the to-th,
\* each once and in the order they were written.
By(a, s) == {i \in DOMAIN s : s[i].type = "chat" /\ s[i].who = a}
Runs(s, a, from, to) ==
    /\ {s[i].k : i \in By(a, s)} = (from + 1)..to
    /\ \A i, j \in By(a, s) : i < j => s[i].k < s[j].k

\* Whatever threads are adding to the transcript and to the window, what is
\* written to the file holds every line the user sees while it is written, and
\* is a beginning of the transcript.
SavedIsWhatIsSeen ==
    \A n \in Nodes : ui[n].at = "write" =>
        /\ IsPrefix(ui[n].lines, history[n])
        /\ Shown(n) \subseteq Range(ui[n].lines)

\* Every transcript has each author's lines in the order they were written,
\* each once and none left out in between: a node that misses a line, for a
\* link that broke under it, gets none of the later ones either. So has every
\* window, from where its oldest row begins.
AuthorsAreInOrder ==
    \A n, a \in Nodes :
        \E from, upto \in 0..said[a] : \E to \in from..upto :
           /\ Runs(history[n], a, 0, upto)
           /\ Runs(screen[n] \o events[n], a, from, to)

\* Two members whose link has held have all of each other's lines, but for
\* those still on that link or in the middle of a fan-out, whoever else has
\* gone while the author was sending.
LinkedMeansDelivered ==
    \A n, a \in Nodes :
        n # a /\ {n, a} \notin shut /\ AllSent(a) /\ wire[a][n] = <<>> =>
            Runs(history[n], a, 0, said[a])

\* Once its threads have shown what they have, a window that has room for
\* everything shows every line on record, and one that has not is full.
NothingIsUnseen ==
    \A n \in Viewers \ left : AllShown(n) =>
        \/ Range(history[n]) = Shown(n)
        \/ Len(screen[n]) = MaxVisible
=============================================================================
