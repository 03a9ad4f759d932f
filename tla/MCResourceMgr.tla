--------------------------- MODULE MCResourceMgr ----------------------------
(***************************************************************************)
(* ResourceMgr and its kernels for TLC, with a hash code of its own for    *)
(* each type.                                                              *)
(***************************************************************************)
EXTENDS ResourceOpKernel

Distinct == [T \in Types |-> T]
=============================================================================
