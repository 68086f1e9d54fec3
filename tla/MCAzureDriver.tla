--------------------------- MODULE MCAzureDriver ---------------------------
(***************************************************************************)
(* A machine "vm" whose class lists two data disks: one without a LUN      *)
(* (named by its position, 0) and one with a name and an explicit LUN 5,   *)
(* which differs from its position so that the two LUN sources differ.    *)
(* The class DeleteMachine is given is the same, or has lost a disk.      *)
(***************************************************************************)
EXTENDS AzureDriver

MCDataDisks == <<[name |-> "", lun |-> Unset], [name |-> "1", lun |-> 5]>>

(* The class after its second data disk was removed from it. *)
MCDataDisksShrunk == <<[name |-> "", lun |-> Unset]>>

(* The instance meets the hypotheses of CreateOnCleanFailsOnlyOnFaultProved *)
(* in AzureDriverProofs: its data disks get distinct names and LUNs, and   *)
(* the NIC's name ("-nic") is not a disk's ("-os-disk", "-data-disk").      *)
ASSUME InstanceHypotheses == DistinctDataDisks /\ nicName \notin VMDisks
=============================================================================
