-------------------------- MODULE AzureNamingProofs --------------------------
(***************************************************************************)
(* Proofs about the naming functions of AzureNaming: the VM definition and *)
(* the teardown derive the same data-disk names, for every VM name and    *)
(* every list of data disks.                                              *)
(***************************************************************************)
EXTENDS MCAzureNaming, TLAPS

(* generateDataDisks and getAzureDataDiskNames repeat the LUN choice and  *)
(* the naming on their own; for any list of disks they agree position by  *)
(* position.                                                              *)
LEMMA DiskNamesAgree ==
    ASSUME NEW vm, NEW S, NEW ds \in Seq(S)
    PROVE  /\ Len(generateDataDisks(vm, ds))
                = Len(getAzureDataDiskNames(ds, vm, dataDiskSuffix))
           /\ \A i \in 1..Len(generateDataDisks(vm, ds)) :
                 generateDataDisks(vm, ds)[i].name
                    = getAzureDataDiskNames(ds, vm, dataDiskSuffix)[i]
<1>1. Len(generateDataDisks(vm, ds)) = Len(ds)
  BY DEF generateDataDisks
<1>2. Len(getAzureDataDiskNames(ds, vm, dataDiskSuffix)) = Len(ds)
  BY DEF getAzureDataDiskNames
<1>3. \A i \in 1..Len(ds) : DataDiskLun(ds, i) = DataDiskNameLun(ds, i)
  BY DEF DataDiskLun, DataDiskNameLun
<1>4. QED
  BY <1>1, <1>2, <1>3 DEF generateDataDisks, getAzureDataDiskNames

(* Every list the model enumerates is a sequence of data-disk specs. *)
LEMMA DiskListsAreSeqs == DiskLists \subseteq Seq(DiskSpecs)
<1> SUFFICES ASSUME NEW n \in 0..MaxDisks, NEW ds \in [1..n -> DiskSpecs]
             PROVE  ds \in Seq(DiskSpecs)
  BY DEF DiskLists
<1>1. n \in Nat
  BY DEF MaxDisks
<1>2. QED
  BY <1>1

(* Every data-disk list the class can hold (up to three entries from the  *)
(* model's names and LUNs) gives the VM definition's disks exactly the    *)
(* names the teardown deletes: a created data disk is never left behind   *)
(* because generateDataDisks and getAzureDataDiskNames disagree.          *)
THEOREM NamesAgreeHolds == Spec => []NamesAgree
<1>1. Init => disks \in DiskLists
  BY DEF Init
<1>2. disks \in DiskLists /\ [Next]_disks => (disks \in DiskLists)'
  BY DEF Next
<1>3. disks \in DiskLists => NamesAgree
  BY DiskListsAreSeqs, DiskNamesAgree DEF NamesAgree, CreatedDisks, TeardownNames
<1>4. Spec => [](disks \in DiskLists)
  BY <1>1, <1>2, PTL DEF Spec
<1>5. QED
  BY <1>3, <1>4, PTL
=============================================================================
