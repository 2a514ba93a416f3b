------------------------------ MODULE MCVmCall ------------------------------
(* VmCall with three nested calls into the VM at most and two frames each.  *)
EXTENDS VmCall
=============================================================================
