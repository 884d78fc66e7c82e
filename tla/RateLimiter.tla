----------------------------- MODULE RateLimiter -----------------------------
(***************************************************************************)
(* Join-attempt throttling, core/src/ratelimit.rs, as mesh.rs uses it: the *)
(* host's accept loop asks allow() for every connection, and opening or    *)
(* reopening the room makes a new limiter.  An attempt that was let in is  *)
(* known by its place in `log`; a vector of Instants is the set of the     *)
(* attempts it was filled by, and `now` counts whole ticks of the clock.   *)
(***************************************************************************)
EXTENDS Naturals, Sequences, FiniteSets

CONSTANTS
    Sources,     \* remote addresses without their port
    PerSource,   \* attempts per source and window; 5
    Global,      \* attempts per window for the room; 30
    Window,      \* length of the window; 60 s
    MaxTime,     \* bound on the clock
    MaxLog       \* bound on the attempts let in

ASSUME LimiterAssumption ==
    /\ PerSource \in Nat /\ Global \in Nat
    /\ Window \in Nat \ {0}
    /\ MaxTime \in Nat /\ MaxLog \in Nat

VARIABLES
    now,    \* Instant::now()
    log,    \* the attempts let in, in order: their source and time
    made,   \* how many of them the previous limiters let in
    hits,   \* hits[s]: attempts recorded for s
    all     \* attempts recorded for the room

vars == <<now, log, made, hits, all>>

\* What the present limiter let in.
Mine == made + 1 .. Len(log)

TypeOK ==
    /\ now \in Nat
    /\ log \in Seq([source : Sources, at : Nat])
    /\ made \in 0..Len(log)
    /\ hits \in [Sources -> SUBSET Mine]
    /\ all \in SUBSET Mine

Init ==
    /\ now = 0
    /\ log = <<>>
    /\ made = 0
    /\ hits = [s \in Sources |-> {}]
    /\ all = {}

\* Mutant: `<=` for `<`, a stamp is kept for a tick too long.
RetainLonger(stamps) == {i \in stamps : now - log[i].at <= Window}

\* retain(|t| now.duration_since(*t) < window)
Retain(stamps) == {i \in stamps : now - log[i].at < Window}

\* Mutant: each source's own budget is looked at, the room's is not.
RefusesOwn(s) == Cardinality(Retain(hits[s])) >= PerSource

\* allow() would return false for s.
Refuses(s) ==
    \/ Cardinality(Retain(hits[s])) >= PerSource
    \/ Cardinality(Retain(all)) >= Global

\* allow: both vectors are swept whether the attempt is let in or not.
Allow(s) ==
    /\ ~Refuses(s) /\ Len(log) < MaxLog
    /\ log' = Append(log, [source |-> s, at |-> now])
    /\ hits' = [hits EXCEPT ![s] = Retain(@) \cup {Len(log) + 1}]
    /\ all' = Retain(all) \cup {Len(log) + 1}
    /\ UNCHANGED <<now, made>>

Refuse(s) ==
    /\ Refuses(s)
    /\ hits' = [hits EXCEPT ![s] = Retain(@)]
    /\ all' = Retain(all)
    /\ UNCHANGED <<now, log, made>>

\* host(), reopen_joining(): a new limiter takes the place of the old.
Reopen ==
    /\ made' = Len(log)
    /\ hits' = [s \in Sources |-> {}]
    /\ all' = {}
    /\ UNCHANGED <<now, log>>

Tick ==
    /\ now < MaxTime
    /\ now' = now + 1
    /\ UNCHANGED <<log, made, hits, all>>

Next ==
    \/ \E s \in Sources : Allow(s) \/ Refuse(s)
    \/ Reopen \/ Tick

Spec == Init /\ [][Next]_vars

-----------------------------------------------------------------------------
(* Properties.                                                             *)

\* The attempts among ids that were let in during the window ending at time t.
During(ids, t) == {i \in ids : log[i].at <= t /\ t - log[i].at < Window}
From(s, ids) == {i \in ids : log[i].source = s}

\* "A small budget per window": whatever window one looks through, not only
\* the one that ends now, no source was let in more often than its budget
\* and the room no more often than its own, since the limiter was made.
WithinBudget ==
    \A t \in 0..now :
        /\ \A s \in Sources : Cardinality(During(From(s, Mine), t)) <= PerSource
        /\ Cardinality(During(Mine, t)) <= Global

\* Nobody is locked out for having been refused: whoever is refused now has
\* used up a budget with attempts that were let in within the window.
RefusedOnlyWhenSpent ==
    \A s \in Sources :
        Refuses(s) => \/ Cardinality(During(From(s, Mine), now)) >= PerSource
                      \/ Cardinality(During(Mine, now)) >= Global

=============================================================================
