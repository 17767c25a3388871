------------------------------ MODULE MCKernel ------------------------------
(* An instance of Kernel: requests with params of every kind but the numbers *)
(* that are not integers.                                                   *)
EXTENDS Kernel

MCValues == KnownValues \ {"fraction"}
=============================================================================
