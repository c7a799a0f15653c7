----------------------------- MODULE FreshReads -----------------------------
(***************************************************************************)
(* What the cached crime aggregates promise their readers.  A batch of     *)
(* crimes is stored, then announced.  A read may return old data, but      *)
(* never data older than its own start: every batch announced before the   *)
(* read began is in the answer, and nothing is in the answer that was not  *)
(* stored.  The promise lapses, for good, when the cache is degraded.      *)
(***************************************************************************)
CONSTANTS
    Batches,     \* batches of crimes, each stored once
    Readers      \* processes that read aggregates

VARIABLES
    stored,      \* batches in the database
    announced,   \* batches whose storing was announced
    reading,     \* readers that have begun and not yet answered
    floor,       \* what was announced when each reader began
    answer,      \* what each reader answered, while it has not begun again
    degraded     \* whether the cache has lost its promise

vars == <<stored, announced, reading, floor, answer, degraded>>

Init ==
    /\ stored = {}
    /\ announced = {}
    /\ reading = {}
    /\ floor = [r \in Readers |-> {}]
    /\ answer = [r \in Readers |-> {}]
    /\ degraded = FALSE

Store(b) ==
    /\ stored' = stored \cup {b}
    /\ UNCHANGED <<announced, reading, floor, answer, degraded>>

Announce(b) ==
    /\ b \in stored
    /\ announced' = announced \cup {b}
    /\ UNCHANGED <<stored, reading, floor, answer, degraded>>

Begin(r) ==
    /\ r \notin reading
    /\ reading' = reading \cup {r}
    /\ floor' = [floor EXCEPT ![r] = announced]
    /\ answer' = [answer EXCEPT ![r] = {}]
    /\ UNCHANGED <<stored, announced, degraded>>

Answer(r, value) ==
    /\ r \in reading
    /\ value \subseteq stored
    /\ degraded \/ floor[r] \subseteq value
    /\ reading' = reading \ {r}
    /\ answer' = [answer EXCEPT ![r] = value]
    /\ floor' = [floor EXCEPT ![r] = {}]
    /\ UNCHANGED <<stored, announced, degraded>>

Degrade ==
    /\ degraded' = TRUE
    /\ UNCHANGED <<stored, announced, reading, floor, answer>>

\* An announcement made while the cache is degraded may come with it.
AnnounceDegraded(b) ==
    /\ b \in stored
    /\ announced' = announced \cup {b}
    /\ degraded' = TRUE
    /\ UNCHANGED <<stored, reading, floor, answer>>

Next ==
    \/ \E b \in Batches : Store(b) \/ Announce(b) \/ AnnounceDegraded(b)
    \/ \E r \in Readers : Begin(r) \/ \E value \in SUBSET Batches : Answer(r, value)
    \/ Degrade

Spec == Init /\ [][Next]_vars
=============================================================================
