--------------------------- MODULE Announcements ---------------------------
(***************************************************************************)
(* What the outbox promises (outbox.rs): an event is announced if and only *)
(* if the change it describes commits, nobody hears of one that was not,   *)
(* and every announced event reaches the broker.                           *)
(***************************************************************************)
CONSTANT Events

VARIABLES announced, arrived

Init == announced = {} /\ arrived = {}

Announce(e) ==
    /\ e \notin announced
    /\ announced' = announced \cup {e}
    /\ UNCHANGED arrived

Arrive(e) ==
    /\ e \in announced \ arrived
    /\ arrived' = arrived \cup {e}
    /\ UNCHANGED announced

Next == \E e \in Events : Announce(e) \/ Arrive(e)

Spec == /\ Init /\ [][Next]_<<announced, arrived>>
        /\ \A e \in Events : WF_<<announced, arrived>>(Arrive(e))
=============================================================================
