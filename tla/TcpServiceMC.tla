---------------------------- MODULE TcpServiceMC ----------------------------
(***************************************************************************)
(* TcpService for the runs without temporal properties, where addresses    *)
(* can be exchanged: they are only compared and taken from the free ones.  *)
(***************************************************************************)
EXTENDS TcpService, TLC

PtrSymmetry == Permutations(Ptrs)
=============================================================================
