# Mesh chat: TLA+ models, model checking and proofs

This directory holds the formal specification of mesh-chat: TLA+ modules
translated from `core/src` and `ui/src`, TLC configurations that check them on small
instances, and TLAPS proofs of what holds for every instance. File and line
references are to the repository (`src/` here).

    tlc -workers 2 -config mesh_leave.cfg MCMesh.tla     # one run
    tlapm MeshProofs.tla                                 # one module's proofs

`PROJECT.json` maps each definition to the lines it stands for, and lists the
runs, the hazards, the mutants (a plausible bug for each property, which makes
it fail), the findings and the theorems.

## 1. Inventory

A room is a full mesh of processes. One of them, the host, opens the room and
admits the others; from then on every pair has a direct encrypted link. There
is no server.

| Component | State it keeps | Operations | Correct when |
|---|---|---|---|
| **Mesh** `core/src/mesh.rs` | `running`; under one lock `peers`, `roster`, `pending`; the limiter and listener | `host`, `join`, `approve`, `leave`, `reopen_joining`; threads: accept loop, `handle_incoming`, `await_welcome`, `dial_peer`, `reader_loop` | nobody is connected or authorised before approval; everybody ends up linked to everybody; who leaves or dies is dropped; leaving drops everything; what operators are shown is true |
| **File transfer** `core/src/files.rs` | `waiters`, `out_peers`, `offers`, `active` | `send_file`, `respond_offer`; handlers of the five file messages and of chunks; `cancel_transfers_with` | a saved file is the offered one; each side hears of one outcome, once; every transfer ends |
| **Secure link** `core/src/crypto.rs`, `codec.rs` | cipher with its two counters, `write_gate`, the socket | `handshake_*`, `send` (any thread), `recv` (one thread), `close` | frames decrypt, in order; senders do not block the reader |
| **Rate limiter** `core/src/ratelimit.rs` | stamps per source and for the room | `allow`, `sweep` | budgets hold in any window; a refusal costs nothing |
| **Room codes** `core/src/roomcode.rs` | none | `encode`, `decode`; typed by a person, compared in `on_hello` | a code that was read out names the host's address, and a wrong one nobody's |
| **Protocol** `core/src/protocol.rs` | none | encode and decode messages | decoding undoes encoding |
| **Chat and history** `core/src/mesh.rs`, `core/src/history.rs` | the records of this session | `send_chat`, the readers, `record`, `export_history` | every transcript has each author's lines in order and without gaps; what is saved holds what is shown |
| **Transports** `core/src/transport/` | sockets, a `closed` flag | `listen`, `accept`, `connect`, `close` | closing ends the accept loop, quietly, and serves nobody |
| **User interface** `ui/src/main.rs`, `ui/ui/app.slint` | the current node and its channel, the rows and queue on the screen, `busy` | callbacks, the event pump | shows the current room only, and all that was said in it; one room at a time |

Interactions. Threads of a node share its maps under mutexes that are held for
short sections, so most operations are several sections with a socket write
between them. Nodes share nothing but TCP links. `peer_gone` in mesh.rs calls
`cancel_transfers_with` in files.rs; the reader calls both the mesh's and the
file handlers; both send through `SecureLink::send`. Everything operators see
travels as `Event`s through a channel to the interface, which makes a node for
each attempt to host or join, starts it on a thread, and hears of a failure to
start by a channel of its own.

What is hard here:

* **Interleaving.** `leave` against every thread that is finishing a handshake;
  an approval against another approval; an offer being accepted against its
  timeout; two dials of the same peer.
* **Ordering over several links.** A newcomer learns of its peers over one link
  and dials them over others, while they learn of the newcomer over a third.
* **Failure in the middle.** A send that fails after the roster was updated; a
  process that ends; a link that drops; a disk that fills.
* **Timeouts and retries.** Three dial attempts, the grace for an announcement,
  the offer's timeout.
* **Late news.** A failure or an event of a node that the interface has dropped.
* **Bounded buffers.** A blocking write under a mutex, by threads the far
  end's progress depends on; a window that keeps the last of its rows only.
* **Waking a blocked call.** A listener that can only be closed by connecting to it.

The hazards, each with its line and the properties that watch over it, are in
`PROJECT.json`.

## 2. Modules

| Module | What it is |
|---|---|
| `Mesh` | membership, approval, dialling and departure in mesh.rs: one host, its joiners, every thread of theirs |
| `FileTransfer` | all of files.rs for transfers in one direction over one link |
| `FilePromise` | what a file transfer promises; `FileTransfer` implements it |
| `SecureLink` | `send` and `recv` of one link, its sockets with bounded room |
| `Session` | the handshake of a link and, composed with `SecureLink`, the link it becomes |
| `RateLimiter` | `allow`, and the limiters that opening and reopening make |
| `Inbound` | the listeners, the accept loop, reopening and `leave`, composed with `RateLimiter` |
| `Chat` | `send_chat`, the readers of chat lines, transcript, window and export |
| `RoomCode` | the codec, the person who types a code, and what `join` and `on_hello` do with it |
| `Interface` | the callbacks and the pump of the window, and the starting threads of its nodes |
| `MCMesh`, `MCFileTransfer`, `MCSecureLink`, `MCSession`, `MCInbound`, `MCChat`, `MCRoomCode`, `MCInterface` | instances for TLC |
| `MeshProofs`, `FileProofs`, `SecureLinkProofs`, `SessionProofs`, `InboundProofs`, `InterfaceProofs`, `ChatProofs`, `RoomCodeProofs` | theorems and proofs |

A step of a model is what one thread does between two points at which another
could tell the difference: one section under a lock, or one send or receive.
Work a thread does on its own between such points belongs to the step before.

### Mesh

Each thread has a program counter: `join[j]` (`join`, `await_welcome`),
`dial[j][k]` (`dial_peer`, `try_dial`), `serve[l]` (`handle_incoming`),
`appr[j]` (`approve`), `reader[e]` (`reader_loop`), and `life[n]` for `leave`.
`peers`, `roster` and `pending` are the maps of `State`; `status[n][m]` is the
last `PeerState` shown. A link is a queue per direction (`wire`), which either
end may close (`shut`): closing discards what the far end sent but lets it read
what had already been sent to it, as TCP does, and a send on a link whose far
end is gone may still succeed. That the link is such a queue is what
`SecureLink` establishes about `SecureLink::send` and `recv`.

* One join attempt per node, because the interface makes a new `Node` for every
  room (`ui/src/main.rs`, `start_node`); one host.
* `attach_peer` and `peer_gone` are taken apart where they let go of the lock:
  `reader[e]` is "begin" from the insert into the map to the event that shows the peer
  and the start of the reader, and goes from the removal over the host's `PeerLeft`
  round ("tell...") to the event that shows the departure ("show..."). What operators
  see may therefore lag behind the map, and a late event may cover a newer one.
* The limiter or a failed handshake may end any connection before its first
  message is read (`ServeLost`), and an expired code may refuse any request
  (`HelloChecked`): nondeterministic choices. `RateLimiter` models the limiter
  itself, `Inbound` the loop that calls it.
* Sends to several peers in a row (`peer_gone`'s PeerLeft to each, the network
  shutdown at the end of `leave`) are single steps, except in `approve`, where
  the order of announcements and Welcome matters: there each send is a step.
* The dial backoff and the grace period are fair choices instead of durations. A
  peer that keeps its connection open and never answers is not modelled: the wait for
  its `MeshAck` (mesh.rs:519) has no timeout, and such a dial would never end.
* At most `MaxDepartures` nodes leave or crash in a run; it bounds the state space only.
* Chat is in `Chat`; names, fingerprints and addresses are left out.

### FileTransfer and FilePromise

`out[t]` is the thread `send_file_to`, `answer[t]` the thread of
`respond_offer`, `reader` the two readers; `waiters`, `outPeer`, `offers`,
`active` are the four maps. A file is a sequence of blocks, one block per
chunk, and its SHA-256 is taken to identify its contents. `sentTold` and
`gotTold` collect the `FileFinished` events of each side, so being told twice is
a state and not only a step. Every fault is a constant: the file may be edited
after it was hashed, file operations may fail, the offer may time out, the link
may break, either side may leave. Progress events, names and paths are left out,
and so are the transfers the other way, which share only the link.

`FilePromise` is what the operators are promised: no bytes before consent, at
most one outcome on each side, "saved" only for the offered bytes, and never
"failed" to the sender for what the receiver has saved. `KeepsPromise` is the
refinement; its mapping reads the consent off `answer` and the outcomes off the
last event.

### SecureLink

`pc[w]`, `frame[w]` say where a sender stands in `send`: before the gate, in the
cipher, or with `done` pieces of its frame written. A frame is written in
`Pieces` writes and a direction holds `Room` pieces, so `write_all` blocks. The
reader collects pieces (`read_frame`) and decrypts: a frame decrypts if it is
whole and bears the number the receiving counter expects. The reader of an end
may itself send, because `handle_chunk` answers with a `FileAbort` on the thread
that received the chunk; it then competes for `write_gate`.

### Session

A link from its first byte. `step[e]` counts the handshake messages end `e` has
written or read; the three of them alternate between the dialler and the
listener, and a message takes `Reads` calls of `read()`, each of which waits at
most `Limit`. An end whose last message is done is `Up` and does what `SecureLink`
says from then on, while the other may still be reading: what is `coming`
precedes the frames on the wire. An end may stall for good; a read that waited
too long, or a socket closed by the other end, fails the handshake and closes the
stream. What the messages hold, and that a wrong one is refused, is cryptography
and left out. The actions of `SecureLink` are used as they are, and the
composition is shown to implement `SecureLink!Spec` (`LinksSecurely`).

### RateLimiter

A stamp is known by its place in the log of attempts that were let in, so that
"how many in any window" can be said of the whole past and not only of what the
limiter still remembers. `sweep`, which nothing calls, is left out.

### Inbound

`backlog` is the system's queue in front of `accept`; `loop` and `hand` say where
the accept loop stands and which connection it holds; `serving[s]` counts the
threads that have not asked the limiter yet; `leaver` is `leave`. On Bluetooth
closing the socket makes `accept` fail; on LAN `close` can only set a flag and
connect to its own port, and the connection it makes, `Poke`, is one like any other,
which the queue may have no room for. (That it may fail for another reason,
lan.rs:83, is not modelled; the loop of a node that has left would then wait for the
next caller.) The loop reads `running` in one step and starts the thread, or
reports, in another ("spawn", "report"): `leave` fits in between. `accept` may also
fail of itself, which ends the loop for good. The socket is closed with its last
reference. The actions of `RateLimiter` are used as they are, and the composition is
shown to implement `RateLimiter!Spec` (`AsksTheLimiter`). What `handle_incoming`
does after the limiter is `Session` and `Mesh`.

### Chat

`history[n]` is the transcript's chat lines, `events[n]` what waits for the
window, `screen[n]` the rows it shows, at most `MaxVisible`. `ui[n]` is the UI
thread, which records, shows and sends a line, pumps, and exports, one at a time;
`Pump` shows one row, and how many rows a tick gets through is left open;
`reader[n][m]` is `reader_loop`, which records and shows a line in two sections, and
runs `peer_gone` with the host's announcements that follow. A shut link may lose
what was on its way. Members are linked from the start (how they come to be is
`Mesh`), by one of `Meshes`, since a dial may have failed. The notes of the
transcript are left out, names and times are part of a line's identity, and the
links have room without bound (a full socket is `SecureLink`). `leave` drains, says Bye
and closes in one step, as it does on the UI thread, since the readers it races with
find their peer gone from the map whatever the order (`Mesh` takes it apart).

### RoomCode

A character is a number and a dial address a record of its bytes; otherwise the
codec is the code's, bit by bit. Around it stands its use: the host shows
`encode` of its address, a person reads it out and another types it, in either
case and with or without the dashes, with at most `MaxSlips` slips (a look-alike
of `LookAlikes`, a character missed, a character too many; other misreadings, a 1 for
the tag letter L among them, are left out). `join` decodes what was typed and dials,
`try_dial` finds the host if the address is its, and `on_hello` compares the code it
is sent with its own.

### Interface

`node` and `events` are `App.node` and what waits in `App.rx`; `failures` is what
waits in `ui_rx`. The UI thread runs one callback, or handles one message, at a
time. `worker[n]` says how far the thread that starts node `n` has come, seen
through the events it emits: `Mesh` is what those threads really do. An event of
a node that is no longer the current one goes nowhere, since its receiver was
dropped. `owner` records which node a request or an offer came to, and no action
reads it to decide what to do. The file dialogs block the UI thread and are part
of the callback that opens them; the rows of messages are in `Chat`; those of peers
and transfers, the countdown and every line of text are left out. `TypeOK` states
the types of its variables.

## 3. Runs

| Run | Instance | Shows |
|---|---|---|
| `mesh_leave` | host, 2 joiners, approvals one at a time, 2 attempts; one of the three may crash or leave, and the link of either joiner's first attempt may break | `TypeOK`, `LeftMeansEmpty`, `AnswerComesFirst`, `MeshIsSymmetric`, `NothingDangles`, `StatusIsTrue`, `HostRosterIsTrue`, `AnnouncedBeforeDial`, `EveryPairMeets` |
| `mesh_live` | host, 2 joiners, 2 approvals at once, 2 attempts; one joiner may leave, or the other joiner or the host crash, and the first one's join link may break; fairness | `ConnectedOnlyIfApproved`, `RosterIsApproved`, `DepartureIsNoticed`, `DialEnds` |
| `file_one` | one transfer, files up to 2 blocks, every fault | `TypeOK`, `SavedIsWhatWasOffered`, `NoMoreThanOffered`, `ToldOnce`, `ChunksComeInOrder`, `TruncatedIsReported`, `KeepsPromise`; with fairness, `SendingEnds` |
| `inbound` | 2 sources, 4 connections, a queue of 1, budgets 2 and 3, window 2, clock to 3; either transport; leaving at any point | `WithinBudget`, `RefusedOnlyWhenSpent`, `LeavingIsQuiet`; with fairness, `LeaveEndsTheLoop` |
| `session` | messages of 2 reads, timeout of 1 tick; either end may stall or close; 2 senders at one end, 1 at the other, frames of 2 pieces, room for 1, one reader answers | `NobodyIsLeftHalfway`, `WaitIsBounded`, `NeverGarbled`, `EverythingArrives` |
| `ui_rooms` | 3 attempts to host or join, 2 requests, 2 offers | `RowsAreCurrent`, `PromptIsFirst`, `ScreenIsTrue` |
| `code_read` | 7 addresses of both transports, 2 slips | `CodeSpellsTheAddress`, `LookAlikesNameTheHost`, `ShortCodesNameNobody`, `CopiedCodesAreHeard` |
| `chat` | host and 2 members, linked in full or but for one pair; 2 lines in all by 2 writers, a window of 2 rows, 1 export; one member may leave or one link may break | `SavedIsWhatIsSeen`, `AuthorsAreInOrder`, `LinkedMeansDelivered`, `NothingIsUnseen` |

Some properties say how things settle, without assuming anything about scheduling.
In `SecureLink` and `Session` they speak of states in which no thread can take a
step by itself: `AtRest` and `SessionAtRest` deny the guard of each action, and the
guards are operators that the actions use as well (`CanRead`, `CanTakeGate`, ...).
Elsewhere they name what must be over first, and nothing more: `Meeting` (one of a
pair is about to dial the other), `Handled` (a thread has this end of a link in
hand; a request parked for the operator counts only where the caller waits for it),
`Late` (a thread has changed the map and is yet to show it), `NothingToCome` (no
message, thread or chunk of a transfer is left), `AllSent` and `AllShown`. No
property uses ENABLED.

Why the bounds are enough for what the runs ask. Two joiners suffice for everything
that happens between a pair and the host: a newcomer dials a peer that is dialled,
approved, leaving or gone meanwhile. Two attempts give one retry; a third repeats
the second. One departure meets every step of everybody else; a second one adds none
that the theorems do not cover. The joiners of `mesh_leave` are interchangeable
(`SYMMETRY`; it has no liveness property). A file of two blocks has a first, a last
and a chunk in flight between them, and an edit can lengthen, shorten or alter it.
Two sources with budgets of two and three make either budget the one that runs out,
the clock slides the window over a filling, and a queue of one is both empty and too
full for the poke. In the session, messages of two reads can stop in the middle, and
two frames from one end exceed the room. The addresses have bytes at the ends of
their range, codes that hold the look-alikes 0 and 1 and a tag's letter, and leave
each remainder the codec meets (48 bits of LAN, 56 of Bluetooth). In the chat, two
lines are of one author or of two that cross, and with the note of a departure they
exceed the window. With three attempts at the window, one fails late while another
is shown and a third is begun. The theorems of section 5 hold without these bounds.

Each run enables the faults its question is about. Two properties hold only
under a restriction, which their theorems assume: `EveryPairMeets` needs approvals
that come one at a time (`MaxApprovers = 1`), `EverythingArrives` an end whose reader
does not answer (`MayReply # Ends`). Others name the case in which the code does
not keep them, and nothing more:

* `MeshIsSymmetric`, `NothingDangles` and `StatusIsTrue`: a node that has attached two
  links to one peer (`Doubled`), which takes a retry while the link of the attempt
  before is still being attached. `MeshIsSymmetric` says that the peer then at
  least still reads the one the other holds.
* `NothingDangles`: a request parked after the host's `leave` had drained the others.
* `HostRosterIsTrue`: a newcomer whose Welcome could not be sent ("broken").
* `TruncatedIsReported`: offers that timed out, and a receiver that left.
* `PromptIsFirst`: the step in which a failure to start is handled.

The next section says what happens in each. `EveryPairMeets` ends in a link at one of
the two; that the other has it too is `MeshIsSymmetric`. `FilePromise` does not promise
that "sent" means saved, and `SendingEnds` counts as an end that the thread of a sender
who left returns without a word.

### Disagreements between the code and what it says of itself

Four runs check one statement each and end in a counterexample.

| Run | Statement | What the code does |
|---|---|---|
| `mesh_together` | "every pair can build its own direct link" (mesh.rs:792) | two joiners approved at the same time are never told of each other |
| `link_reply` | "so the reader can always keep draining" (crypto.rs:74) | a reader that answers waits for `write_gate` behind a blocked writer; two such readers wait for ever |
| `ui_two` | "you are already in a room - leave it first" (mesh.rs:294) | Enter in the code field does not heed `busy` (app.slint:306), and `leave` of a node that does not run yet does nothing (mesh.rs:1030): the dropped node opens its room, and nobody can see or leave it |
| `code_typed` | "the ambiguous characters are folded" when a code is typed back in (README.md:77) | the parser folds them (roomcode.rs:42), so the host is found; `on_hello` compares without folding (mesh.rs:657, 1074), so the host rejects the code as another room's |

Others came up while the models were checked. TLC reproduces each in the instance
given; none is kept as a run, because the restriction above or a weaker property
that holds says where the border lies.

| Statement | What the code does | Instance |
|---|---|---|
| a teardown takes "everything under one lock" (mesh.rs:1033) | a request parked after `leave` drained `pending` stays there with its link open | `NothingDangles` without `Parked(l)` |
| every machine holds a link to every other (README.md:48) | a retry can be accepted while the first attempt, which broke, is still being attached: two links stand under one id, and `peer_gone` of the broken one removes the entry of the other. One side then has a link the other has dropped, an operator sees "Disconnected" for a peer that is held, and a node that leaves keeps a connection open that nobody has in hand | `MeshIsSymmetric`, `StatusIsTrue`, `NothingDangles` without `Doubled` |
| approving a vanished request "must fail cleanly" (tests/churn.rs:65) | it stays on the host's roster, announced to all | `HostRosterIsTrue` without `"broken"` |
| the roster is "mirrored on every node" (mesh.rs:158) | a peer that leaves while a newcomer is being welcomed stays on the newcomer's roster | `mesh_leave`, with the rosters of linked joiners within the host's at rest |
| a truncated transfer is "reported as failed" (README.md:119) | an abort after the offer's timeout, between the two sections of `respond_offer`, finds nothing; the transfer stays open | `TruncatedIsReported` without its exception for what timed out |
| the same | a receiver that leaves is told nothing of the file it was receiving | `TruncatedIsReported` without its exception for who left |
| the transcript records a "completed file transfer" (history.rs:22) | the sender records it when it has written the last message, whatever the receiver does | `MayFail = TRUE`, with "sent" only if saved |
| "five per source and thirty overall per minute" (README.md:98) | reopening starts a new count within the same minute | `WithinBudget` over all limiters together |
| the prompt is cleared when no offer is left (main.rs:789) | a failure to start clears the queue and not the prompt, whose buttons then do nothing until the next attempt | `PromptIsFirst` without its disjunct for `failures` |
| the transcript "stays available" after leaving (README.md:268, main.rs:486) | the same callback sets `node` to `None`, and exporting needs it | by reading |
| "The room is accepting joiners again" (mesh.rs:346) | when `accept` has failed once the loop has ended (mesh.rs:556) and reopening starts no other | `inbound`, with "told open means the loop runs" |
| "Handshakes must complete inside this window" (crypto.rs:25) | the window is for each `read()`; a handshake may take as many as it has reads | `session`, with `spent[e] <= Limit` |
| "so a stalled peer cannot pin a thread forever" (transport/mod.rs:88) | the timeout is cleared before the first message is awaited (crypto.rs:151, mesh.rs:588) | by reading |
| "The host binds the fixed RFCOMM channel ... when it is free" (bluetooth_windows.rs:13) | it always lets Windows choose (310) | by reading |
| `connect` takes a timeout (mesh.rs:391) | on Bluetooth it is not used (bluetooth_windows.rs:357) | by reading |
| the buttons are active unless `busy` (app.slint:296) | a refused join emits `RoomClosed` and no failure, which leaves `busy` set for good | by reading |

## 4. Fairness

`FairSpec` in `Mesh` and `FileTransfer` is weak fairness of each thread taken as a
whole: the operating system runs every thread that can run, and the code never makes
one wait on a lock that its holder keeps for good (every section under a lock ends
without a socket operation, and what does block a thread is in the guards). Readers
are woken by data or by the link's end, which is their guard. Timeouts are steps of
the waiting thread, so fairness lets them come: the grace period, the offer's
timeout, the failure of a connect. There is no fairness for operators, crashes or
the network: nobody need ever approve, answer or leave, and no property depends on
it. Fairness is never used for safety. `DepartureIsNoticed` and `DialEnds` are of
the form `<>[]P`: since nobody comes back and nobody dials for ever, the operators'
choices come to an end, and what must be so then is so for good. (It is the same as
asking it of each pair in turn, and one check instead of many.)

`InboundSpec` is fair to the accept loop, to a `leave` that has begun and to the
last reference to the socket, for the same reason, and to the failure of `accept`
on a socket that is closed, which is what wakes it on Bluetooth. There is none for
callers: what ends a LAN loop is the poke, or whoever keeps the poke out.

## 5. Proofs

All of these hold for every value of the constants that satisfies the module's
`ASSUME`, and tlapm checks them from the library's facts about finite sets and
sequences.

**MeshProofs.** `MeshTypeCorrect`; `NobodyUnapprovedIsConnected` and
`NobodyUnapprovedIsAuthorised`, the two halves of "connected to nobody until then";
`NobodyIsLeftBehind`, that a node that has left holds no peer. The first three share
an inductive invariant. That only approved joiners are connected is not inductive: a
mesh link is made because both ends have each other's id, which came from a roster,
which came from a message. So the invariant also bounds the messages in flight
(`WireOk`: a Welcome or PeerJoined names admitted joiners, and a Welcome is on its
way to an admitted one only), the dials and the answers in progress (`Dialling`,
`Served`), and where a request can stand before the operator's decision (`Asked`).
`Met` keeps a newcomer out of its own Welcome: the host attaches it last.

`AnswerStaysFirst`: what a waiting caller finds first on its link is the answer.
`AInv` says why nothing can overtake it: the called node answers before it attaches
(`Held`: whoever holds the link, announces on it or says Bye on it has attached the
caller), and a link is dialled once (`Fresh`). `NobodyDialsUnannounced` follows a
newcomer's name from the host to the peer. `TInv` says that the host welcomes j when it
has told everyone that j is to meet (`Welcomed`), that who has been told has j on
its roster or the message on its way (`Announced`), and that nobody takes j off
again before j is gone, because what is in flight is true (`Reported`, `Telling`):
a PeerLeft names those that have gone and a Bye comes from one that leaves.

`StatusStaysTrue`: events come after the lock is released, so that what is shown follows
from where the reader of a link stands (`SeenOf`): nothing is shown yet while it
is at "begin" or about to tell or show, and what it last showed is what the map holds
otherwise. That speaks of one reader; where a node has attached two links to a peer
the second's "Connected" may come before the first's "Disconnected", and `Seen` leaves
that case (`Doubled`) out, as the property does. A dialling thread shows "Connecting" and
"Failed" without looking at the map, so nobody may have linked k to j in another
way while j dials k: of two joiners only the one that was told of the other dials
(`OneDials`), what two joiners hold came of the dial of either (`Dialled`), and who is
still dialling reads no link to the other (`DialedRead`).
`HostRosterStaysTrue`: what the map holds for a peer is a link to that peer that is
being read (`Own`), so that its `peer_gone` takes name and link off together, and nobody
announces anything to the host (`HostHears`).

`EveryoneMeets` assumes `MaxApprovers = 1`, without which the run `mesh_together` refutes
it. A newcomer's list has everyone the host is connected to by the time it is
attached (`MetAll`), so that of two peers one was told of the other (`PairMet`). `GInv`
follows the list from the Welcome to the dial (`Given`) and to what the dial ended in
(`Ended`).

`BothEndsAgree` and `NothingIsForgotten` share two invariants and assume nothing of the
network or of the number of attempts. `BInv` says on which links something was sent,
which are read, and which Byes are still to be said. `CInv` says that nothing is lost
sight of: each end of a link that was made is shut, in the map, or in the hands of a
thread or of the operator (`Accounted`). `peers` and `peer_gone` know a link by the peer's
id only, so a second link under the same id replaces the first there or goes with it
(`ReadsOwn`: what the map holds is the link that is read, but for such a pair); what is
left of either is its reader, which closes the end when it ends (`Quits`). Hence the
exception of both theorems, and nothing stronger is true: TLC finds both statements
false without it.

**FileProofs.** `FileTypeCorrect`, `SavedIsOffered`, `AtMostOffered`,
`EachToldOnce`, for any number of transfers and files of any length. Being told
once at the receiver needs that a transfer is accepted once, which needs that
its offer is at exactly one place: on the wire (once), with the operator, or
answered. That is `OfferedOnce`, and the rest of `IInv` (`Decided`, `SentOnce`,
`Received`) ties the thread, the four maps and what was told to one another.

`TransferKeepsPromise` is the refinement of `FilePromise`: every step is a step of the
promise or a stutter. Consent before the first byte comes of `WrittenIfAgreed`; that a
sender who was told "sent" has been accepted is `AcceptIsMeant`, and that a receiver
saves only what such a sender finished is `DoneIsMeant`. `ChunksStayInOrder` needs
what the property does not say: where the sender stands. `InOrder` has the chunks of a
transfer on the wire run from what the receiver has written up to what the sender
has sent, as long as the link is not cut; a cut takes the end of the run away and
leaves the rest in order. `TruncatedAreReported`: an accepted transfer that the
receiver has heard nothing of is still being written (`UnreportedIsOpen`). Its end is
then on the wire once the sender has stopped (`EndIsHeard`), unless the link was lost, and
a receiver that lost its peer cancels what it was writing (`CancelComes`). That the sender
went on at all is `AnswerIsHeard`: it reads the answer that was given.

**SecureLinkProofs.** `FramesDecrypt`, and `LinkTypeCorrect`, for any number of
sending threads, pieces and room. The invariant `InStep` says the pieces on the
wire form one chain: the first is the piece the reader awaits, each is followed
by its successor, and the successor of the last is the piece that is due at the
sending end. What is due is unique because of `Exclusive`: whoever is between
the gate and the return holds the gate and the latest number. A cut link stops
extending the chain, and what remains of it still decrypts. `EverythingDoesArrive` is
freedom from deadlock: who waits for the gate waits for a holder that writes (`Waiting`:
a gate is held by a thread of its end that is about to encrypt or writes), which waits
for room, which the far end's reader makes unless it is itself sending an answer. An end
whose reader does not answer therefore drains, and then the other does. When both answer
the circle closes, which is the run `link_reply`; hence the assumption `MayReply # Ends`.

**SessionProofs.** `LinksSecurelyHolds`: whatever the handshake does, the rest is a
behaviour of `SecureLink!Spec` (a failed handshake closes the stream, which is a
step of that specification, and everything else of the handshake is a stutter), so
`FramesDecrypt` carries over (`SessionFramesDecrypt`). `HandshakeWaitIsBounded`
needs an invariant that counts: what an end has waited is paid for by the reads it
has finished (`PaidFor`), at `Limit` each, and the present one has waited no longer
than `Limit`; that only awaiting ends have a read begun is `OnlyWhenAwaiting`.
`NobodyStaysHalfway` argues from the guards: an end in the middle of its handshake
waits for a message, its wait has not reached `Limit` (or it would fail), so that time
can still pass. `SessionEverythingArrives` is `EverythingDoesArrive` for
a link that begins with its handshake.

**InboundProofs.** Of the limiter alone: `BudgetHolds` for windows that end at any
moment, past ones included, `RefusalsCostNothing`, `LimiterTypeCorrect`. The
invariant says that every admission of the last window is still among the stamps
(`Kept`), stamps are of the source's own admissions (`Own`), and the log is not
ahead of the clock (`Stamped`). Of the listener: the composition implements
`RateLimiter!Spec` (`AsksTheLimiterHolds`), so `BudgetHolds` and
`RefusalsCostNothing` carry over (`InboundWithinBudget`, `InboundRefusals`).
`LeavingIsQuietHolds` rests on `FlagFirst`, that `running` is cleared before the
listener's flag is set, so that no decision of the loop is new after it
(`NoNewDecision`), and on `PokedLate`: the poke is made on LAN only and after the
flag, so whoever takes it finds the flag set. What the loop had decided before
`leave` it still does; the property says so.

**InterfaceProofs.** `TypeCorrect`, `RowsStayCurrent`, `PromptStaysFirst`,
`ScreenStaysTrue`, for any number of attempts, requests and offers. `PromptStaysFirst` is of
steps: the prompt is the queue's first while a node is held, and only the failure to start
makes it stop being so (`PromptFollows`). `IInv` adds to
these what waits in the channel: its requests and offers came to the
present node (`EventsAreCurrent`), it tells of a room only when the threads of that
node have got there (`EventsAreTrue`), and that node runs from when it listens
(`NodeRuns`). An answer removes an offer with `retain`, a recursive function; that it
leaves offers of the same node is shown by induction over the queue (`SetInduction`,
`KeepsUpToExists`).

**ChatProofs.** `TypeCorrect`, `LinesStayInOrder`, `SavedStaysTrue`, for any members,
writers, number of lines and size of window. A line is written, recorded, sent, recorded
again and shown by steps of different threads, and `Chain(n, a)` counts how far author
a's lines have come at n: the transcript has those up to the r-th (`Kept`), the wire
those from there to the t-th (`Coming`), the window those up to the u-th (`Seen`). On an
open link the t-th is the last one written, or the last but one while the author's
fan-out has yet to reach n (`Pending`); that a fan-out reaches every open link rests on
`Together`, that the ends of an open link have each other among their peers. Once
a link is shut nothing more comes over it, so what is missing is always an end. What an
export holds follows: the transcript has what the window has (`ShownIsKept`), and the
UI thread, which shows, is the one that writes. `LinkedAreDelivered` is read off
`Chain`: when author and wire have nothing left for n, the r-th line is the last.
`NothingStaysUnseen` needs `AllWhole`: a line on record is shown, waits for the pump or
is about to be put there by the thread that recorded it, unless the window is full.

**RoomCodeProofs.** `DecodeUndoesEncode`: for every sequence of bytes, base32 is undone
by the decoder. The codec's loops are recursive functions that carry a bit buffer;
loop invariants, shown by induction (`SetInduction`), give each loop a closed form
(`Spells`: character i holds bits 5i to 5i+4; `Reads`), and the rest is arithmetic on
bits. `CodeSpellsTheAddressAlways` adds the tag, the lengths of the two transports and the
dashes. `LookAlikesNameTheHostAlways`, `ShortCodesNameNobodyAlways` and
`CopiedCodesAreHeardAlways` speak of whoever types a code, for every address and any
number of slips: what is typed is the host's code up to what was slipped
(`CopiedSoFar`, `AlikeSoFar`, `MissedSoFar`), and what `join` made of it is what those
characters decode to (`Answered`).

Every invariant that a passing run checks is the statement of a theorem, and so are
the action properties and refinements. Model-checked only are the liveness
properties (`DepartureIsNoticed`, `DialEnds`, `SendingEnds`, `LeaveEndsTheLoop`), which are
outside what the installed provers do, and the four statements of section 3 that
fail. What a recursive function computes was proved where its loop has an invariant
on sets of numbers (`RoomCode`, `Interface`).

## 6. Not modelled

* **Identity and cryptography**: keys, fingerprints, the contents of handshake
  messages; the cipher is assumed to reject whatever is not the expected frame.
* **Protocol** (protocol.rs): serialisation by serde; the models use its message
  types.
* **Transports**: socket input and output (their connections are the links here),
  the choice of a local address, the calls of Windows. That `close` frees a Bluetooth
  socket's number while other threads may be about to use it
  (bluetooth_windows.rs:202) needs the socket numbers of a process, which no module
  has.
* **What a disk keeps**: an export truncates the earlier file before it writes
  (history.rs:113), so that one that fails on the way loses both.
* **The rest of the transcript**: its notes and file lines, text and JSON.
* **The rest of the interface**: layout, rows of peers and transfers, the
  countdown, the clipboard; that `send_chat` writes to sockets on the UI thread
  (main.rs:309), so that a peer that does not read freezes the window.
* A second room on the same `Node`, which neither the interface nor a test opens.

## 7. What is left

`LinkPromise`: a FIFO queue per direction that either end may cut, with `SecureLink`
shown to implement it. `Mesh`, `Chat` and `FileTransfer` take their links to be such
queues; what supports that today is `FramesDecrypt` and `EverythingDoesArrive`, that
frames are received in the order they were sent and none is lost on a link that
holds.
