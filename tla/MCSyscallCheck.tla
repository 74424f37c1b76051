--------------------------- MODULE MCSyscallCheck ---------------------------
(* Instances of SyscallCheck for TLC.                                      *)
EXTENDS SyscallCheck
=============================================================================
