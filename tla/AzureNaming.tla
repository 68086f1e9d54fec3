----------------------------- MODULE AzureNaming -----------------------------
(***************************************************************************)
(* Resource naming and the data-disk set builder of the Azure machine      *)
(* driver (pkg/azure/utils.go).  Every dependent resource of a virtual     *)
(* machine (its NIC, its OS disk, its data disks) is named by a pure       *)
(* function of the VM name, so that creation and a later teardown agree    *)
(* on identity without a persisted mapping.                                *)
(*                                                                         *)
(* Names are TLA+ strings and are built the way the code builds them:      *)
(* "+" is \o and fmt.Sprintf("%d", lun) is TLC's decimal ToString, which   *)
(* writes a leading "-" for a negative number exactly as %d does.          *)
(***************************************************************************)
EXTENDS Integers, Sequences, TLC

CONSTANT Unset   \* a data disk whose Lun pointer is nil (no explicit LUN)

nicSuffix      == "-nic"
diskSuffix     == "-os-disk"
dataDiskSuffix == "-data-disk"

dependencyNameFromVMName(vmName, suffix) == vmName \o suffix

dependencyNameFromVMNameAndDependency(dependency, vmName, suffix) ==
    vmName \o "-" \o dependency \o suffix

(* Variant with a plausible bug: the name and the LUN run together. *)
getAzureDataDiskPrefixNoSeparator(name, lun) ==
    IF name # "" THEN name \o ToString(lun) ELSE ToString(lun)

getAzureDataDiskPrefix(name, lun) ==
    IF name # "" THEN name \o "-" \o ToString(lun) ELSE ToString(lun)

(* The LUN getAzureDataDiskNames uses for the i-th disk (1-based here,    *)
(* 0-based in Go): the explicit one, else the position.                   *)
DataDiskNameLun(disks, i) == IF disks[i].lun # Unset THEN disks[i].lun ELSE i - 1

getAzureDataDiskNames(disks, vmName, suffix) ==
    [i \in 1..Len(disks) |->
        dependencyNameFromVMNameAndDependency(
            getAzureDataDiskPrefix(disks[i].name, DataDiskNameLun(disks, i)),
            vmName, suffix)]

(* Variant with a plausible bug: the explicit LUN is ignored. *)
DataDiskLunPositional(disks, i) == i - 1

(* generateDataDisks repeats the LUN choice and the naming on its own      *)
(* (lines 266-274); the descriptor keeps LUN, name and create option,      *)
(* the fields the backend tells apart.                                     *)
DataDiskLun(disks, i) == IF disks[i].lun # Unset THEN disks[i].lun ELSE i - 1

generateDataDisks(vmName, disks) ==
    [i \in 1..Len(disks) |->
        [lun          |-> DataDiskLun(disks, i),
         name         |-> dependencyNameFromVMNameAndDependency(
                              getAzureDataDiskPrefix(disks[i].name, DataDiskLun(disks, i)),
                              vmName, dataDiskSuffix),
         createOption |-> "Empty"]]
=============================================================================
