------------------------------- MODULE Handoff ------------------------------
(***************************************************************************)
(* What the adapter promises the engine and the group, without goroutines, *)
(* channels, queues or gates: one record at a time travels from the log to *)
(* the engine, a change of hands happens only between two records, and a   *)
(* clean release leaves everything given also saved.  Once the adapter     *)
(* stops, what is left of the promise is that no record is taken any more  *)
(* and that no saved offset moves back.                                    *)
(***************************************************************************)
EXTENDS Integers

CONSTANTS
    Partitions,
    NoRecord,    \* nothing in flight
    Unknown      \* nothing saved for a partition yet

VARIABLES
    serving,     \* the adapter has not begun to stop
    mine,        \* partitions this member holds
    flight,      \* the record taken from the log and not yet given
    given,       \* next offset the engine expects, per partition
    saved,       \* the group's committed offset, per partition
    phase,       \* of a change of hands: "none", "waiting", "callback", "returned"
    change,      \* "assign", "revoke" or "lost",
    moving,      \* the partitions that change hands,
    clean        \* and whether all went well

group == <<phase, change, moving, clean>>
vars == <<serving, mine, flight, given, saved, group>>

\* Where the next owner starts when c is saved.
From(c) == IF c = Unknown THEN 0 ELSE c

Init ==
    /\ serving = TRUE /\ mine = {} /\ flight = NoRecord
    /\ given = [p \in Partitions |-> 0]
    /\ saved = [p \in Partitions |-> Unknown]
    /\ phase = "none" /\ change = "assign" /\ moving = {} /\ clean = TRUE

\* Exactly the next record, with nothing else in flight and no change of hands.
Take(p) ==
    /\ phase = "none" /\ flight = NoRecord /\ p \in mine
    /\ flight' = [p |-> p, o |-> given[p]]
    /\ UNCHANGED <<serving, mine, given, saved, group>>

Give ==
    /\ phase \in {"none", "waiting"} /\ flight # NoRecord
    /\ flight.p \in mine /\ flight.o = given[flight.p]
    /\ given' = [given EXCEPT ![flight.p] = flight.o + 1]
    /\ flight' = NoRecord
    /\ UNCHANGED <<serving, mine, saved, group>>

\* Everything given so far, of a partition not lost.
Save(p) ==
    /\ p \in mine /\ From(saved[p]) < given[p]
    /\ ~(change = "lost" /\ p \in moving)
    /\ saved' = [saved EXCEPT ![p] = given[p]]
    /\ UNCHANGED <<serving, mine, flight, given, group>>

\* Another member saves, of a partition that is not this member's.
OtherSaves(p) ==
    /\ p \notin mine \cup moving \/ (change = "lost" /\ p \in moving)
    /\ saved' = [saved EXCEPT ![p] = From(saved[p]) + 1]
    /\ UNCHANGED <<serving, mine, flight, given, group>>

\* The group asks for a change of hands.
Ask(k, ps) ==
    /\ phase = "none"
    /\ ps \subseteq IF k = "assign" THEN Partitions \ mine ELSE mine
    /\ phase' = "waiting" /\ change' = k /\ moving' = ps /\ clean' = TRUE
    /\ UNCHANGED <<serving, mine, flight, given, saved>>

\* It begins between two records.
Begin ==
    /\ phase = "waiting" /\ flight = NoRecord
    /\ phase' = "callback"
    /\ UNCHANGED <<serving, mine, flight, given, saved, change, moving, clean>>

\* A clean release saves exactly what was given; a failed one saves nothing.
Settle ==
    /\ phase = "callback" /\ flight = NoRecord
    /\ phase' = "returned"
    /\ IF change = "revoke" /\ clean'
       THEN /\ \A p \in moving : From(saved'[p]) = given[p]
            /\ \A p \in Partitions \ moving : saved'[p] = saved[p]
       ELSE saved' = saved
    /\ clean' = FALSE => change # "assign"
    /\ UNCHANGED <<serving, mine, flight, given, change, moving>>

\* Partitions acquired continue where they were saved.
Complete ==
    /\ phase = "returned" /\ flight = NoRecord
    /\ phase' = "none" /\ change' = "assign" /\ moving' = {} /\ clean' = TRUE
    /\ IF change = "assign"
       THEN /\ mine' = mine \cup moving
            /\ given' = [p \in Partitions |-> IF p \in moving THEN From(saved[p]) ELSE given[p]]
       ELSE mine' = mine \ moving /\ given' = given
    /\ UNCHANGED <<serving, flight, saved>>

\* The adapter begins to stop and may drop the record in flight.
Stop ==
    /\ serving' = FALSE
    /\ flight' \in {flight, NoRecord}
    /\ UNCHANGED <<mine, given, saved, group>>

Serve ==
    \/ Give \/ Begin \/ Settle \/ Complete \/ Stop
    \/ \E p \in Partitions : Take(p) \/ Save(p) \/ OtherSaves(p)
    \/ \E k \in {"assign", "revoke", "lost"}, ps \in SUBSET Partitions : Ask(k, ps)

\* After the stop.
Stopped ==
    /\ serving' = FALSE
    /\ flight' \in {flight, NoRecord}
    /\ \A p \in Partitions : From(saved[p]) <= From(saved'[p])

Next == (serving /\ Serve) \/ (~serving /\ Stopped)

Spec == Init /\ [][Next]_vars
=============================================================================
