------------------------------ MODULE RoomCode ------------------------------
(***************************************************************************)
(* The room code of core/src/roomcode.rs: how a host's dial address becomes *)
(* the text that is read aloud, and what becomes of the text a joiner types *)
(* on its way back: parsed into an address to dial, and sent to the host,   *)
(* who compares it with its own.                                           *)
(*                                                                         *)
(* A character is a number: 0..31 are the characters of ALPHABET by         *)
(* position, a few more have no position, and a lower-case letter is its    *)
(* capital plus LowerCase.                                                 *)
(***************************************************************************)
EXTENDS Integers, Sequences, Functions

CONSTANTS
    Addresses,  \* the dial addresses the host's listener may have
    Strays,     \* characters that may be typed by mistake
    MaxSlips    \* bound: slips made in typing one code

\* A listener is bound to an IPv4 address and a port, or to a Bluetooth address
\* of twelve hex digits and an RFCOMM channel: host() fails without.
Byte == 0..255
MaxPort == 65535
DialAddress ==
    [kind : {"lan"}, ip : [1..4 -> Byte], port : 1..MaxPort]
        \cup [kind : {"bluetooth"}, addr : [1..12 -> 0..15], channel : 1..30]

ASSUME RoomCodeAssumption ==
    Addresses \subseteq DialAddress /\ Strays \subseteq Nat /\ MaxSlips \in Nat

VARIABLES
    dial,       \* the address of the host's listener
    room,       \* the host's st.room: the code it shows
    style,      \* how the code is typed: its case, and whether its dashes are
    read,       \* how many characters of it have been read
    typed,      \* the text in the joiner's window
    slips,      \* the kinds of slip made, in their order
    phase,      \* where the attempt to join stands
    target,     \* the address the joiner dials
    my_room     \* the joiner's st.room, sent in its Hello

vars == <<dial, room, style, read, typed, slips, phase, target, my_room>>

CharI == 32
CharL == 33
CharO == 34
CharU == 35     \* a letter that is no look-alike and not in ALPHABET
Dash  == 36
LowerCase == 64

TagL == CharL
TagB == 11      \* 'B' is in ALPHABET as well

NoCode    == <<>>
NoBytes   == <<>>
NoAddress == [kind |-> "none"]

Upper(c) == c % LowerCase
ToUpper(s) == [i \in DOMAIN s |-> Upper(s[i])]
IsAlphanumeric(c) == Upper(c) # Dash

\* filter(|c| c.is_ascii_alphanumeric())
Alphanumerics(code) ==
    LET Kept[i \in 0..Len(code)] ==
            IF i = 0 THEN <<>>
            ELSE IF IsAlphanumeric(code[i]) THEN Append(Kept[i - 1], code[i])
            ELSE Kept[i - 1]
    IN  Kept[Len(code)]

\* Mutant: the case is left as it was typed.
NormalizeKeepingCase(code) == Alphanumerics(code)

normalize_code(code) == ToUpper(Alphanumerics(code))

-----------------------------------------------------------------------------
(* Base32. The accumulator's upper bits are shifted out unread, so only the *)
(* bits still to be read are kept.                                         *)

Empty == [out |-> <<>>, acc |-> 0, bits |-> 0]

\* A character, where there are the bits for one.
PushChar(st) ==
    IF st.bits < 5 THEN st
    ELSE LET left == st.bits - 5
         IN [out  |-> Append(st.out, st.acc \div 2^left),
             acc  |-> st.acc % 2^left,
             bits |-> left]

\* A byte brings at most two characters.
TakeByte(st, b) ==
    PushChar(PushChar([out |-> st.out, acc |-> st.acc * 256 + b, bits |-> st.bits + 8]))

Encoded(data) ==
    LET After[i \in 0..Len(data)] ==
            IF i = 0 THEN Empty ELSE TakeByte(After[i - 1], data[i])
    IN  After[Len(data)]

\* Mutant: the bits that are left over are not moved up to make a character.
EncodeUnpadded(data) ==
    LET end == Encoded(data)
    IN IF end.bits > 0 THEN Append(end.out, end.acc) ELSE end.out

b32_encode(data) ==
    LET end == Encoded(data)
    IN IF end.bits > 0 THEN Append(end.out, end.acc * 2^(5 - end.bits))
                       ELSE end.out

\* Mutant: I and L are folded, O is not.
ValueWithoutO(char) ==
    LET c == Upper(char)
    IN IF c \in {CharI, CharL} THEN 1 ELSE IF c \in 0..31 THEN c ELSE -1

\* The value of a character, or -1.
b32_value(char) ==
    LET c == Upper(char)
    IN CASE c \in {CharI, CharL} -> 1
         [] c = CharO            -> 0
         [] c \in 0..31          -> c
         [] OTHER                -> -1

\* A character brings at most one byte.
TakeChar(st, v) ==
    LET acc  == st.acc * 32 + v
        left == st.bits - 3
    IN IF left < 0
       THEN [out |-> st.out, acc |-> acc, bits |-> st.bits + 5]
       ELSE [out  |-> Append(st.out, acc \div 2^left),
             acc  |-> acc % 2^left,
             bits |-> left]

Decoded(values) ==
    LET After[i \in 0..Len(values)] ==
            IF i = 0 THEN Empty ELSE TakeChar(After[i - 1], values[i])
    IN  After[Len(values)].out

Values(s) == [i \in DOMAIN s |-> b32_value(s[i])]

\* Mutant: what is missing is taken for zeroes.
DecodeFilled(s, expected) ==
    LET out == Decoded(Values(s))
    IN IF -1 \in Range(Values(s)) THEN NoBytes
       ELSE [i \in 1..expected |-> IF i <= Len(out) THEN out[i] ELSE 0]

b32_decode(s, expected) ==
    LET out == Decoded(Values(s))
    IN IF -1 \in Range(Values(s)) \/ Len(out) < expected THEN NoBytes
       ELSE SubSeq(out, 1, expected)

-----------------------------------------------------------------------------
(* Codes. A Bluetooth dial address holds its 48 bits as twelve hex digits.  *)

format_addr(bytes) ==
    [i \in 1..2 * Len(bytes) |->
        LET b == bytes[(i + 1) \div 2] IN IF i % 2 = 1 THEN b \div 16 ELSE b % 16]

parse_addr(hex) ==
    IF Len(hex) # 12 THEN NoBytes
    ELSE [i \in 1..6 |-> hex[2 * i - 1] * 16 + hex[2 * i]]

\* Each group of five characters behind a dash, and the tag before them all.
pretty(tag, payload) ==
    LET n == Len(payload)
    IN [i \in 1..1 + n + (n + 4) \div 5 |->
          IF i = 1 THEN tag
          ELSE IF i % 6 = 2 THEN Dash
          ELSE payload[i - 1 - (i + 4) \div 6]]

encode(a) ==
    IF a.kind = "lan"
    THEN pretty(TagL, b32_encode(a.ip \o <<a.port \div 256, a.port % 256>>))
    ELSE IF parse_addr(a.addr) = NoBytes \/ a.channel \notin 1..30 THEN NoCode
    ELSE pretty(TagB, b32_encode(Append(parse_addr(a.addr), a.channel)))

decode(code) ==
    LET cleaned == normalize_code(code)
        lan == b32_decode(Tail(cleaned), 6)
        bt  == b32_decode(Tail(cleaned), 7)
    IN IF cleaned = <<>> THEN NoAddress
       ELSE CASE Head(cleaned) = TagL ->
                    IF lan = NoBytes \/ lan[5] + lan[6] = 0 THEN NoAddress
                    ELSE [kind |-> "lan", ip |-> SubSeq(lan, 1, 4),
                          port |-> lan[5] * 256 + lan[6]]
              [] Head(cleaned) = TagB ->
                    IF bt = NoBytes \/ bt[7] \notin 1..30 THEN NoAddress
                    ELSE [kind |-> "bluetooth",
                          addr |-> format_addr(SubSeq(bt, 1, 6)),
                          channel |-> bt[7]]
              [] OTHER -> NoAddress

-----------------------------------------------------------------------------
Init ==
    /\ dial \in Addresses
    /\ room = encode(dial)
    /\ style \in [lower : BOOLEAN, dashes : BOOLEAN]
    /\ read = 0
    /\ typed = <<>>
    /\ slips = <<>>
    /\ phase = "typing"
    /\ target = NoAddress
    /\ my_room = NoCode

\* What the reader types for character c.
InStyle(c) ==
    IF c = Dash THEN (IF style.dashes THEN <<Dash>> ELSE <<>>)
    ELSE <<IF style.lower /\ c >= 10 THEN c + LowerCase ELSE c>>

LookAlikes(c) == CASE c = 0 -> {CharO}
                   [] c = 1 -> {CharI, CharL}
                   [] OTHER -> {}

Slip(kind) ==
    /\ Len(slips) < MaxSlips
    /\ slips' = Append(slips, kind)

\* One more character is read, or one is typed that is not there.
Type ==
    /\ phase = "typing"
    /\ \/ /\ read < Len(room)
          /\ read' = read + 1
          /\ \/ /\ typed' = typed \o InStyle(room[read + 1])
                /\ UNCHANGED slips
             \/ /\ Slip("look-alike")
                /\ \E c \in LookAlikes(room[read + 1]) : typed' = typed \o InStyle(c)
             \/ /\ room[read + 1] # Dash
                /\ Slip("missed")
                /\ UNCHANGED typed
       \/ /\ Slip("extra")
          /\ \E c \in Strays : typed' = Append(typed, c)
          /\ UNCHANGED read
    /\ UNCHANGED <<dial, room, style, phase, target, my_room>>

\* join: the code is parsed and must be of the mode the window has chosen;
\* trim() only drops what normalize_code drops too.
join(mode) ==
    LET a == decode(typed)
    IN /\ phase = "typing"
       /\ read = Len(room)
       /\ \/ /\ a = NoAddress
             /\ phase' = "bad code"
             /\ UNCHANGED <<target, my_room>>
          \/ /\ a.kind \notin {NoAddress.kind, mode}
             /\ phase' = "other mode"
             /\ UNCHANGED <<target, my_room>>
          \/ /\ a.kind = mode
             /\ phase' = "dialling"
             /\ target' = a
             /\ my_room' = ToUpper(typed)
       /\ UNCHANGED <<dial, room, style, read, typed, slips>>

\* try_dial: the host answers at its own address, nobody at another.
try_dial ==
    /\ phase = "dialling"
    /\ phase' = IF target = dial THEN "hello" ELSE "no answer"
    /\ UNCHANGED <<dial, room, style, read, typed, slips, target, my_room>>

\* on_hello: the host compares the room in the Hello with its own.
on_hello ==
    /\ phase = "hello"
    /\ phase' = IF normalize_code(my_room) = normalize_code(room)
                THEN "heard" ELSE "rejected"
    /\ UNCHANGED <<dial, room, style, read, typed, slips, target, my_room>>

Next == Type \/ (\E mode \in {"lan", "bluetooth"} : join(mode)) \/ try_dial \/ on_hello

Spec == Init /\ [][Next]_vars

-----------------------------------------------------------------------------
Typed == phase # "typing" \/ read = Len(room)

\* A sequence of numbers of width w as its bits.
BitsOf(s, w) ==
    [i \in 1..w * Len(s) |->
        (s[(i + w - 1) \div w] \div 2^(w - 1 - ((i - 1) % w))) % 2]

AddressBytes(a) ==
    IF a.kind = "lan" THEN a.ip \o <<a.port \div 256, a.port % 256>>
    ELSE Append(parse_addr(a.addr), a.channel)

\* The code spells the bits of the address, five to a character, padded with
\* zeroes to a whole one and no further: what b32_encode's shifting must come
\* to, whatever remainder the last byte leaves.
CodeSpellsTheAddress ==
    LET spelt == BitsOf(Tail(normalize_code(room)), 5)
        bits  == BitsOf(AddressBytes(dial), 8)
    IN /\ Len(spelt) - Len(bits) \in 0..4
       /\ \A i \in DOMAIN spelt :
            spelt[i] = IF i <= Len(bits) THEN bits[i] ELSE 0

\* Whatever look-alikes, case and grouping the reader uses, what was typed
\* names the address the host listens at (README: the ambiguous characters are
\* folded, dashes, spaces and case ignored).
LookAlikesNameTheHost ==
    Typed /\ Range(slips) \subseteq {"look-alike"} => decode(typed) = dial

\* A code with characters missed, wherever they are, the tag included, names no
\* address at all: nobody is dialled by mistake.
ShortCodesNameNobody ==
    Typed /\ slips # <<>> /\ Range(slips) = {"missed"} => decode(typed) = NoAddress

\* A code copied character for character, in either case and with or without
\* its dashes, is refused nowhere but for the mode: not by the parser, not at
\* the dialled address and not by the host's comparison.
CopiedCodesAreHeard ==
    slips = <<>> => phase \notin {"bad code", "no answer", "rejected"}

\* README.md:77 has the look-alikes folded when the code is typed back in. The
\* parser folds them, the comparison in on_hello does not.
LookAlikesAreHeard ==
    Range(slips) \subseteq {"look-alike"} => phase # "rejected"
=============================================================================
