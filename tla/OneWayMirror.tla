---------------------------- MODULE OneWayMirror ----------------------------
(***************************************************************************)
(* What a mirror in Notion promises, however badly the calls go: the        *)
(* database is the source of truth and is written first, and the surface    *)
(* only ever gains what it says.  It may lag behind for good.               *)
(***************************************************************************)
VARIABLES truth, surface

Init ==
    /\ truth = {}
    /\ surface = {}

Write ==
    /\ truth \subseteq truth'
    /\ UNCHANGED surface

Show(item) ==
    /\ item \in truth
    /\ surface' = surface \cup {item}
    /\ UNCHANGED truth

Next == Write \/ \E item \in truth : Show(item)

Spec == Init /\ [][Next]_<<truth, surface>>
=============================================================================
