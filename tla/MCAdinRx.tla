------------------------------- MODULE MCAdinRx -------------------------------
(* A small instance of AdinRx: MaxArrived bounds the frames of each port.   *)
EXTENDS AdinRx

CONSTANT MaxArrived

MCNext == Next /\ \A p \in Ports : arrived'[p] <= MaxArrived

MCFairSpec ==
    Init /\ [][MCNext]_vars /\ WF_vars(RxTask) /\ SF_vars(DrainNext) /\ SF_vars(ReadOk)
=============================================================================
