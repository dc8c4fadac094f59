----------------------------- MODULE MCWifiPower -----------------------------
(* The tasks are interchangeable: the module never tells them apart.       *)
EXTENDS WifiPower, TLC

TaskSymmetry == Permutations(Tasks)
=============================================================================
