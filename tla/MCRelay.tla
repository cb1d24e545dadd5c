------------------------------- MODULE MCRelay -------------------------------
(***************************************************************************)
(* Model-checking instances of Relay.  Identifiers are interchangeable.    *)
(***************************************************************************)
EXTENDS Relay, TLC, FiniteSetsExt

UuidSymmetry == Permutations(Uuid)

\* Bounds: the units of all sessions together that were read from clients, and
\* from remotes; two of either, but not of both.
UnitsUp == MapThenSumSet(LAMBDA u : b_read[u], Uuid)
UnitsDown == MapThenSumSet(LAMBDA u : c_read[u], Uuid)
TwoUnitsOneWay ==
    \/ UnitsUp = 0 /\ UnitsDown <= 2
    \/ UnitsUp <= 2 /\ UnitsDown = 0

\* Once B has crashed nothing reaches a client any more.
UntilCrash == b_reader # "crashed"
==============================================================================
