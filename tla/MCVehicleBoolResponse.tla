------------------------ MODULE MCVehicleBoolResponse ------------------------
(* VehicleBoolResponse for TLC: a property with two areas, one with one, one *)
(* with none, and one the test leaves out.                                 *)
EXTENDS VehicleBoolResponse, TLC

CONSTANTS p1, p2, p3, p4, a1, a2

Configs == p1 :> {a1, a2} @@ p2 :> {a1} @@ p3 :> {} @@ p4 :> {}
=============================================================================
