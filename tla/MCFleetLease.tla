---------------------------- MODULE MCFleetLease ----------------------------
(* Small instances of FleetLease for TLC. *)
EXTENDS FleetLease

\* A step within the tolerance, and one longer than a lease and its drain.
SmallAndLong == {0, 1, 9}

\* A failover waits for a lease and its drain, a failback with a marker for a drain.
EitherStart == {<<"primary", 0>>, <<"oci", 3>>}
LateOci == {<<"oci", 3>>}
=============================================================================
