--------------------------- MODULE MCAzureNaming ---------------------------
(***************************************************************************)
(* Checks the naming functions of AzureNaming over every data-disk list of *)
(* up to three entries drawn from a small alphabet of disk names and LUNs. *)
(* The names include "1" and the LUNs include 1 and 11, so that a name and *)
(* a LUN can spell the same string as another LUN: the case the "-"        *)
(* separator of getAzureDataDiskPrefix exists for.                         *)
(***************************************************************************)
EXTENDS AzureNaming

VARIABLE disks   \* the machine class's data disks under inspection

VMName     == "vm"
DiskNames  == {"", "1"}
DiskLuns   == {Unset, 1, 11}
DiskSpecs  == [name : DiskNames, lun : DiskLuns]
MaxDisks   == 3
DiskLists  == UNION {[1..n -> DiskSpecs] : n \in 0..MaxDisks}

Init == disks \in DiskLists
Next == disks' \in DiskLists
Spec == Init /\ [][Next]_disks

TeardownNames == getAzureDataDiskNames(disks, VMName, dataDiskSuffix)
CreatedDisks  == generateDataDisks(VMName, disks)

(* The disks the VM is created with (generateDataDisks) carry exactly the *)
(* names, in order, that teardown later deletes (getAzureDataDiskNames):  *)
(* the two functions repeat the LUN and naming logic independently, and a *)
(* disagreement would leave a created data disk behind after deletion.    *)
NamesAgree ==
    /\ Len(CreatedDisks) = Len(TeardownNames)
    /\ \A i \in 1..Len(CreatedDisks) : CreatedDisks[i].name = TeardownNames[i]

(* Two data disks with different effective (name, LUN) pairs get          *)
(* different names: the "-" between an explicit name and the LUN keeps    *)
(* name "1" with LUN 1 apart from an unnamed disk with LUN 11.            *)
NamesInjective ==
    \A i, j \in 1..Len(disks) :
        (i # j /\ <<disks[i].name, DataDiskNameLun(disks, i)>>
                  # <<disks[j].name, DataDiskNameLun(disks, j)>>)
            => TeardownNames[i] # TeardownNames[j]

(* The spec's claim (sections 3 and 8): derived data-disk names collide   *)
(* only if the caller repeats an explicit name/LUN pair.  The code fills  *)
(* a missing LUN with the disk's position, which may equal another disk's *)
(* explicit LUN.                                                          *)
NoCollisionWithoutDuplicateInput ==
    \A i, j \in 1..Len(disks) :
        (i # j /\ disks[i] # disks[j]) => TeardownNames[i] # TeardownNames[j]

(* The spec's happy-path scenario (section 8): for instance "vm-1", one    *)
(* data disk with neither name nor LUN is named "0-vm-1-data-disk".  The  *)
(* code (dependencyNameFromVMNameAndDependency) puts the VM name first.   *)
ScenarioDataDiskName ==
    disks = <<[name |-> "", lun |-> Unset]>>
        => getAzureDataDiskNames(disks, "vm-1", dataDiskSuffix)[1] = "0-vm-1-data-disk"
=============================================================================
