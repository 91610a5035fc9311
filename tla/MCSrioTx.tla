------------------------------- MODULE MCSrioTx -------------------------------
(***************************************************************************)
(* The values with which the transmit half of the bridge is checked, in    *)
(* three groups: doorbells of two values with transfers of one packet;     *)
(* transfers of one and of three packets with two places for their data    *)
(* at either end; and an unaligned destination.                            *)
(***************************************************************************)
EXTENDS SrioTx

TwoInfos == [size |-> {0}, dst |-> {0}, src |-> {0}, info |-> {0, 1}]

ManySizes == [size |-> {0, 4}, dst |-> {0, 2}, src |-> {0, 4}, info |-> {0}]

Unaligned == [size |-> {0, 2}, dst |-> {0, 1}, src |-> {0}, info |-> {0}]

MCValues == {TwoInfos, ManySizes, Unaligned}

HeldValues == {[size |-> {0, 2}, dst |-> {0}, src |-> {0}, info |-> {0}]}
=============================================================================
