----------------------------- MODULE FilePromise -----------------------------
(***************************************************************************)
(* What a file transfer promises its two operators, whatever the link, the *)
(* disk and the clock do: nothing is received without consent, each side   *)
(* reports at most one outcome and never changes it, "saved" means the     *)
(* bytes that were offered, and the sender does not call a transfer failed *)
(* that the receiver has saved.                                            *)
(***************************************************************************)
CONSTANTS Transfers, Contents

VARIABLES
    offered,    \* offered[t]: the contents whose hash and size were offered
    consent,    \* consent[t]: "none" | "yes" | "no", the receiver's answer
    sent,       \* sent[t]: what the sender was told, "none" until then
    received,   \* received[t]: what the receiver was told
    kept        \* kept[t]: the bytes at the path the receiver chose

vars == <<offered, consent, sent, received, kept>>

SentOutcomes == {"none", "sent", "declined", "timedout", "failed"}
ReceivedOutcomes == {"none", "saved", "declined", "failed"}

Init ==
    /\ offered \in [Transfers -> Contents]
    /\ consent = [t \in Transfers |-> "none"]
    /\ sent = [t \in Transfers |-> "none"]
    /\ received = [t \in Transfers |-> "none"]
    /\ kept = [t \in Transfers |-> <<>>]

\* What is offered is what the file holds when it is hashed.
Offer(t) ==
    /\ consent[t] = "none" /\ sent[t] = "none"
    /\ \E c \in Contents : offered' = [offered EXCEPT ![t] = c]
    /\ UNCHANGED <<consent, sent, received, kept>>

Accept(t) ==
    /\ consent[t] = "none"
    /\ consent' = [consent EXCEPT ![t] = "yes"]
    /\ UNCHANGED <<offered, sent, received, kept>>

Decline(t) ==
    /\ consent[t] = "none"
    /\ consent' = [consent EXCEPT ![t] = "no"]
    /\ received' = [received EXCEPT ![t] = "declined"]
    /\ UNCHANGED <<offered, sent, kept>>

\* Bytes are written only after consent and before any report.
Write(t) ==
    /\ consent[t] = "yes" /\ received[t] = "none"
    /\ kept[t]' # kept[t]
    /\ \A u \in Transfers \ {t} : kept[u]' = kept[u]
    /\ UNCHANGED <<offered, consent, sent, received>>

Save(t) ==
    /\ consent[t] = "yes" /\ received[t] = "none"
    /\ kept[t] = offered[t]
    /\ sent[t] \in {"none", "sent"}
    /\ received' = [received EXCEPT ![t] = "saved"]
    /\ UNCHANGED <<offered, consent, sent, kept>>

\* Losing the sender fails every transfer still open, in one step.
Lose(lost) ==
    /\ \A t \in lost : consent[t] = "yes" /\ received[t] = "none"
    /\ received' = [t \in Transfers |-> IF t \in lost THEN "failed" ELSE received[t]]
    /\ UNCHANGED <<offered, consent, sent, kept>>

SenderReports(t, how) ==
    /\ sent[t] = "none"
    /\ how = "sent" => consent[t] = "yes"
    /\ how # "sent" => received[t] # "saved"
    /\ sent' = [sent EXCEPT ![t] = how]
    /\ UNCHANGED <<offered, consent, received, kept>>

Next ==
    \/ \E t \in Transfers : Offer(t) \/ Accept(t) \/ Decline(t) \/ Write(t) \/ Save(t)
    \/ \E lost \in SUBSET Transfers : Lose(lost)
    \/ \E t \in Transfers, how \in SentOutcomes \ {"none"} : SenderReports(t, how)

Spec == Init /\ [][Next]_vars

=============================================================================
