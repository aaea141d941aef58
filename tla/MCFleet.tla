------------------------------ MODULE MCFleet ------------------------------
(* Small fleets: one user, two devices and an HMI, with a crash; two users at   *)
(* once over three devices; and two users at once with a crash, over two       *)
(* devices and over a device and its HMI.                                      *)
EXTENDS Fleet, TLC

CONSTANTS d1, d2, d3, t1, t2

MCSymmetry == Permutations({d1, d2, d3}) \cup Permutations({t1, t2})

MCFacility == <<"a", "b">>

MCShapes ==
    {[users |-> 1, devices |-> 2, hmis |-> 1, pids |-> 3, crashes |-> 1, requests |-> 4,
      unsupported |-> {"b"}],
     [users |-> 2, devices |-> 3, hmis |-> 0, pids |-> 1, crashes |-> 0, requests |-> 3,
      unsupported |-> {}],
     [users |-> 2, devices |-> 2, hmis |-> 0, pids |-> 2, crashes |-> 1, requests |-> 2,
      unsupported |-> {}],
     [users |-> 2, devices |-> 1, hmis |-> 1, pids |-> 2, crashes |-> 1, requests |-> 2,
      unsupported |-> {}]}
=============================================================================
