----------------------------- MODULE MCDrivers ------------------------------
(* The drivers that share queues in memory with a device, one per          *)
(* behaviour.                                                              *)
EXTENDS Nvme, E1000, Wifi

VARIABLE focus

vars == <<nvmeVars, e1000Vars, wifiVars, focus>>

Init == NvmeInit /\ E1000Init /\ WifiInit /\ focus \in {"nvme", "e1000", "wifi"}

Next ==
  /\ UNCHANGED focus
  /\ \/ focus = "nvme" /\ NvmeNext /\ UNCHANGED <<e1000Vars, wifiVars>>
     \/ focus = "e1000" /\ E1000Next /\ UNCHANGED <<nvmeVars, wifiVars>>
     \/ focus = "wifi" /\ WifiNext /\ UNCHANGED <<nvmeVars, e1000Vars>>

(* The processor keeps running the driver's polling loop.                  *)
Spec == Init /\ [][Next]_vars /\ WF_vars(focus = "nvme" /\ Driver /\ UNCHANGED <<e1000Vars, wifiVars, focus>>)

(* The types of the three.                                                 *)
TypeOK == NvmeTypeOK /\ E1000TypeOK /\ WifiTypeOK
=============================================================================
