----------------------------- MODULE AzureDriver -----------------------------
(***************************************************************************)
(* The provisioning and teardown engine of the Azure machine driver        *)
(* (pkg/azure/utils.go): createVMNicDisk creates a machine's NIC and VM    *)
(* (the VM creates its OS disk and data disks) and on any failure calls    *)
(* deleteVMNicDisks to roll back; deleteVMNicDisks detaches and deletes    *)
(* the VM, then deletes the NIC, the OS disk and the data disks in         *)
(* parallel goroutines.                                                    *)
(*                                                                         *)
(* One machine is modelled, driven by the machine controller (the caller), *)
(* which issues CreateMachine and DeleteMachine one at a time and, once    *)
(* the machine is marked for deletion, repeats DeleteMachine until it      *)
(* succeeds.  The Azure backend is the sole system of record: which of     *)
(* the machine's resources exist, which are attached to the VM, and        *)
(* whether the marketplace terms of the image's plan are accepted.  Each   *)
(* backend call can fail (at most MaxFaults times in a behaviour): with no *)
(* effect, after its effect, or, when LateCompletion holds, with its       *)
(* effect still to come (the long-running operation outlives the client's  *)
(* wait, or the response of an accepted request is lost).                  *)
(***************************************************************************)
EXTENDS Integers, Sequences, FiniteSets, AzureNaming

CONSTANTS
    VMName,          \* strings.ToLower(req.Machine.Name), line 433
    DataDisks,       \* providerSpec.Properties.StorageProfile.DataDisks
    DeleteDataDisks, \* the same list in the class DeleteMachine is given
    MaxFaults,       \* bound on the backend calls that fail
    MaxCrashes,      \* bound on the restarts of the driver process
    LateCompletion   \* may a failed call still take effect afterwards?

ASSUME DriverAssumption ==
    /\ VMName \in STRING
    /\ DataDisks \in Seq([name : STRING, lun : Int \cup {Unset}])
    /\ DeleteDataDisks \in Seq([name : STRING, lun : Int \cup {Unset}])
    /\ MaxFaults \in Nat
    /\ MaxCrashes \in Nat
    /\ LateCompletion \in BOOLEAN

VARIABLES
    exists,       \* backend: the machine's resources that exist
    attached,     \* backend: NIC and disks the VM references
    agreement,    \* backend: marketplace terms of the image plan accepted
    inflight,     \* backend: operations that failed at the client but will still land
    pc,           \* driver: the step of the call in progress, or "Idle"
    call,         \* driver: "create" or "delete", the entry point running
    image,        \* driver: how the machine class references its image
    br,           \* driver: state of each parallel deleter of deleteVMNicDisks
    result,       \* driver: what the last call returned
    tdResult,     \* driver: what the teardown of the last call returned
    faults,       \* backend calls that failed so far
    callFaulted,  \* a backend call failed during the current call
    deleting,     \* caller: the machine is marked for deletion
    cleanAtStart, \* none of the machine's resources existed when the call began
    crashes       \* restarts of the driver process so far

backend == <<exists, attached, agreement, inflight>>
driver  == <<pc, call, image, br, result, tdResult>>
vars    == <<exists, attached, agreement, inflight, pc, call, image, br,
             result, tdResult, faults, callFaulted, deleting, cleanAtStart, crashes>>

-----------------------------------------------------------------------------
(* Names of the machine's resources, derived once per call (423-457).      *)

nicName  == dependencyNameFromVMName(VMName, nicSuffix)
diskName == dependencyNameFromVMName(VMName, diskSuffix)

dataDiskNames ==
    IF Len(DataDisks) > 0
    THEN getAzureDataDiskNames(DataDisks, VMName, dataDiskSuffix)
    ELSE <<>>

(* DeleteMachine derives the data-disk names from the machine class of    *)
(* its own request, which need not be the class the machine was created  *)
(* with; a rollback passes the names createVMNicDisk derived (456).       *)
deleteDataDiskNames ==
    IF Len(DeleteDataDisks) > 0
    THEN getAzureDataDiskNames(DeleteDataDisks, VMName, dataDiskSuffix)
    ELSE <<>>

tdDataDiskNames == IF call = "delete" THEN deleteDataDiskNames ELSE dataDiskNames

(* The VM definition (getVMParameters): the plan of a marketplace image    *)
(* is attached, the data disks are attached only if the class lists some. *)
ImageRefs == {"id", "urn", "urnPlan"}   \* by ID; by URN; by URN of an image with a plan

vmDataDisks ==
    IF Len(DataDisks) > 0 THEN generateDataDisks(VMName, DataDisks) ELSE <<>>

VMParameters(img) ==
    [plan      |-> img = "urnPlan",
     osDisk    |-> diskName,
     dataDisks |-> vmDataDisks]

(* The disks a VM definition creates. *)
VMDisks == {diskName} \cup {vmDataDisks[i].name : i \in DOMAIN vmDataDisks}

(* The resources of a created machine: the VM, the NIC it references and *)
(* the disks it creates.                                                  *)
MachineVM == {VMName, nicName} \cup VMDisks

MachineResources ==
    {VMName, nicName} \cup VMDisks \cup {dataDiskNames[i] : i \in DOMAIN dataDiskNames}
        \cup {deleteDataDiskNames[i] : i \in DOMAIN deleteDataDiskNames}

-----------------------------------------------------------------------------
(* Backend operations and how Azure carries them out.                      *)

NicOp          == [kind |-> "nic"]
AgreementOp    == [kind |-> "agreement"]
VMOp(img)      == [kind |-> "vm", plan |-> VMParameters(img).plan]
DetachOp       == [kind |-> "detach"]
VMDeleteOp     == [kind |-> "vmdel"]
DeleteOp(n)    == [kind |-> "del", target |-> n]

Ops == {NicOp, AgreementOp, DetachOp, VMDeleteOp}
         \cup {[kind |-> "vm", plan |-> p] : p \in BOOLEAN}
         \cup {DeleteOp(n) : n \in MachineResources}

(* A VM create or update is refused unless its NIC exists, the terms of    *)
(* its plan are accepted, its data disks have distinct names and LUNs,     *)
(* and every disk it would create with option "Empty" either does not      *)
(* exist yet or is already this VM's.                                      *)
DistinctDataDisks ==
    \A i, j \in DOMAIN vmDataDisks :
        i # j => /\ vmDataDisks[i].name # vmDataDisks[j].name
                 /\ vmDataDisks[i].lun # vmDataDisks[j].lun

VMAccepted(plan) ==
    /\ nicName \in exists
    /\ plan => agreement
    /\ DistinctDataDisks
    /\ \A d \in VMDisks : d \in exists => d \in attached

(* Detaching updates an existing VM; a resource attached to a VM cannot    *)
(* be deleted; everything else is accepted.                                *)
Valid(op) ==
    /\ op.kind = "vm"     => VMAccepted(op.plan)
    /\ op.kind = "detach" => VMName \in exists
    /\ op.kind = "del"    => op.target \notin attached

Created(op) ==
    IF op.kind = "nic" THEN {nicName}
    ELSE IF op.kind = "vm" THEN {VMName} \cup VMDisks
    ELSE {}

Deleted(op) ==
    IF op.kind = "vmdel" THEN {VMName}
    ELSE IF op.kind = "del" THEN {op.target}
    ELSE {}

ExistsAfter(op) == (exists \cup Created(op)) \ Deleted(op)

(* A VM references its NIC and its disks; deleting it releases them all.   *)
AttachedAfter(op) ==
    IF op.kind = "vm" THEN {nicName} \cup VMDisks
    ELSE IF op.kind = "detach" THEN attached \cap {nicName, diskName}
    ELSE IF op.kind = "vmdel" THEN {}
    ELSE attached

Apply(op) ==
    /\ exists'    = IF Valid(op) THEN ExistsAfter(op) ELSE exists
    /\ attached'  = IF Valid(op) THEN AttachedAfter(op) ELSE attached
    /\ agreement' = (agreement \/ op.kind = "agreement")

(* One more backend call fails. *)
Fault == /\ faults < MaxFaults
         /\ faults' = faults + 1
         /\ callFaulted' = TRUE

NoFault == UNCHANGED <<faults, callFaulted>>

(* A mutating call (submit, WaitForCompletionRef, Result) that returns     *)
(* success, and one that returns an error: refused by the backend, or      *)
(* failed with no effect, after its effect, or with its effect to come.    *)
CallSucceeds(op) == Valid(op) /\ Apply(op) /\ NoFault /\ UNCHANGED inflight

CallFails(op) ==
    \/ ~Valid(op) /\ NoFault /\ UNCHANGED backend
    \/ Fault /\ \/ UNCHANGED backend
                \/ Valid(op) /\ Apply(op) /\ UNCHANGED inflight
                \/ /\ LateCompletion
                   /\ inflight' = inflight \cup {op}
                   /\ UNCHANGED <<exists, attached, agreement>>

(* A Get that fails with an error other than NotFound. *)
ReadFails == Fault /\ UNCHANGED backend

-----------------------------------------------------------------------------
(* The parallel deleters of deleteVMNicDisks: the NIC first, the OS disk   *)
(* second, then one per data-disk name the call passes (lines 673-680).    *)

DeleterIndex == {1, 2} \cup {j + 2 : j \in DOMAIN tdDataDiskNames}

DeleterTarget(i) ==
    IF i = 1 THEN nicName ELSE IF i = 2 THEN diskName ELSE tdDataDiskNames[i - 2]

BranchStates == {"idle", "check", "delete", "ok", "failed"}

PCs == {"Idle", "GetSubnet", "CreateNic", "ResolveImage", "CreateVM",
        "TdGetVM", "TdDetach", "TdDeleteVM", "TdDeleters"}

Results == {"none", "created", "createFailed", "deleted", "deleteFailed"}

BackendTypeOK ==
    /\ exists \subseteq MachineResources
    /\ attached \subseteq MachineResources
    /\ agreement \in BOOLEAN
    /\ inflight \subseteq Ops

DriverTypeOK ==
    /\ pc \in PCs
    /\ call \in {"create", "delete"}
    /\ image \in ImageRefs
    /\ br \in [DeleterIndex -> BranchStates]
    /\ result \in Results
    /\ tdResult \in {"none", "ok", "failed"}

CountersTypeOK ==
    /\ faults \in 0..MaxFaults
    /\ callFaulted \in BOOLEAN
    /\ deleting \in BOOLEAN
    /\ cleanAtStart \in BOOLEAN
    /\ crashes \in 0..MaxCrashes

TypeOK == BackendTypeOK /\ DriverTypeOK /\ CountersTypeOK

Init ==
    /\ exists = {}
    /\ attached = {}
    /\ agreement \in BOOLEAN
    /\ inflight = {}
    /\ pc = "Idle"
    /\ call = "create"
    /\ image = "id"
    /\ br = [i \in DeleterIndex |-> "idle"]
    /\ result = "none"
    /\ tdResult = "none"
    /\ faults = 0
    /\ callFaulted = FALSE
    /\ deleting = FALSE
    /\ cleanAtStart = TRUE
    /\ crashes = 0

-----------------------------------------------------------------------------
(* The caller: CreateMachine and DeleteMachine of the driver.             *)

(* CreateMachine runs createVMNicDisk for a machine not being deleted,    *)
(* with the class referencing its image in any of the three ways.         *)
CreateMachine ==
    /\ pc = "Idle"
    /\ ~deleting
    /\ \E img \in ImageRefs : image' = img
    /\ pc' = "GetSubnet"
    /\ call' = "create"
    /\ result' = "none"
    /\ tdResult' = "none"
    /\ callFaulted' = FALSE
    /\ cleanAtStart' = (exists = {})
    /\ br' = [i \in DeleterIndex' |-> "idle"]
    /\ UNCHANGED <<backend, faults, deleting, crashes>>

(* DeleteMachine marks the machine for deletion and runs deleteVMNicDisks *)
(* with the names derived from the class.                                 *)
DeleteMachine ==
    /\ pc = "Idle"
    /\ pc' = "TdGetVM"
    /\ call' = "delete"
    /\ deleting' = TRUE
    /\ result' = "none"
    /\ tdResult' = "none"
    /\ callFaulted' = FALSE
    /\ cleanAtStart' = (exists = {})
    /\ br' = [i \in DeleterIndex' |-> "idle"]
    /\ UNCHANGED <<backend, image, faults, crashes>>

-----------------------------------------------------------------------------
(* createVMNicDisk.                                                       *)

(* A failed step rolls back by calling deleteVMNicDisks. *)
Rollback == pc' = "TdGetVM" /\ UNCHANGED <<call, image, br, result, tdResult, deleting, cleanAtStart>>

(* Subnet.Get: on error, return before anything is created. *)
GetSubnet ==
    /\ pc = "GetSubnet"
    /\ \/ pc' = "CreateNic" /\ NoFault /\ UNCHANGED <<backend, result>>
       \/ pc' = "Idle" /\ ReadFails /\ result' = "createFailed"
    /\ UNCHANGED <<call, image, br, tdResult, deleting, cleanAtStart>>

(* NIC CreateOrUpdate, WaitForCompletionRef and Result. *)
CreateNic ==
    /\ pc = "CreateNic"
    /\ \/ /\ CallSucceeds(NicOp)
          /\ pc' = "ResolveImage"
          /\ UNCHANGED <<call, image, br, result, tdResult, deleting, cleanAtStart>>
       \/ CallFails(NicOp) /\ Rollback

(* Variant with a plausible bug: the marketplace terms are never accepted. *)
ResolveImageNoAgreement ==
    /\ pc = "ResolveImage"
    /\ \/ /\ pc' = "CreateVM"
          /\ NoFault /\ UNCHANGED backend
          /\ UNCHANGED <<call, image, br, result, tdResult, deleting, cleanAtStart>>
       \/ image # "id" /\ ReadFails /\ Rollback

(* An image referenced by URN is fetched; if it carries a plan the         *)
(* marketplace agreement is fetched and, unless accepted, accepted.        *)
ResolveImage ==
    /\ pc = "ResolveImage"
    /\ \/ /\ \/ image = "id"
             \/ image = "urn"
             \/ image = "urnPlan" /\ agreement
          /\ pc' = "CreateVM"
          /\ NoFault /\ UNCHANGED backend
          /\ UNCHANGED <<call, image, br, result, tdResult, deleting, cleanAtStart>>
       \/ image # "id" /\ ReadFails /\ Rollback
       \/ /\ image = "urnPlan" /\ ~agreement
          /\ \/ /\ CallSucceeds(AgreementOp)
                /\ pc' = "CreateVM"
                /\ UNCHANGED <<call, image, br, result, tdResult, deleting, cleanAtStart>>
             \/ CallFails(AgreementOp) /\ Rollback

(* VM CreateOrUpdate, WaitForCompletionRef and Result. *)
CreateVM ==
    /\ pc = "CreateVM"
    /\ \/ /\ CallSucceeds(VMOp(image))
          /\ pc' = "Idle"
          /\ result' = "created"
          /\ UNCHANGED <<call, image, br, tdResult, deleting, cleanAtStart>>
       \/ CallFails(VMOp(image)) /\ Rollback

-----------------------------------------------------------------------------
(* deleteVMNicDisks.                                                      *)

(* The teardown returns: CreateMachine reports the original error         *)
(* whatever the rollback did, DeleteMachine reports the teardown's result *)
(* and the caller stops deleting once it succeeded.                       *)
TdReturn(ok) ==
    /\ pc' = "Idle"
    /\ tdResult' = IF ok THEN "ok" ELSE "failed"
    /\ result' = IF call = "create" THEN "createFailed"
                  ELSE IF ok THEN "deleted" ELSE "deleteFailed"
    /\ deleting' = (deleting /\ ~(call = "delete" /\ ok))
    /\ UNCHANGED <<call, image, br, cleanAtStart>>

(* Variant with a plausible bug: only the data-disk deleters run. *)
StartDeletersDataDisksOnly ==
    /\ pc' = "TdDeleters"
    /\ br' = [i \in 1..Len(tdDataDiskNames) |-> "check"]
    /\ UNCHANGED <<call, image, result, tdResult, deleting, cleanAtStart>>

StartDeleters ==
    /\ pc' = "TdDeleters"
    /\ br' = [i \in DeleterIndex |-> "check"]
    /\ UNCHANGED <<call, image, result, tdResult, deleting, cleanAtStart>>

(* Variant with a plausible bug: a VM that is found is not deleted first. *)
TdGetVMNoDelete ==
    /\ pc = "TdGetVM"
    /\ \/ NoFault /\ UNCHANGED backend /\ StartDeleters
       \/ ReadFails /\ TdReturn(FALSE)

(* VM Get: found, not found, or another error that aborts the teardown. *)
TdGetVM ==
    /\ pc = "TdGetVM"
    /\ \/ /\ VMName \in exists
          /\ pc' = "TdDetach"
          /\ NoFault /\ UNCHANGED backend
          /\ UNCHANGED <<call, image, br, result, tdResult, deleting, cleanAtStart>>
       \/ VMName \notin exists /\ NoFault /\ UNCHANGED backend /\ StartDeleters
       \/ ReadFails /\ TdReturn(FALSE)

(* Variant with a plausible bug: the deleters start once the data disks  *)
(* are detached, before the VM is deleted.                                *)
TdDetachThenDeleters ==
    /\ pc = "TdDetach"
    /\ \/ attached \ {nicName, diskName} = {} /\ NoFault /\ UNCHANGED backend
       \/ /\ attached \ {nicName, diskName} # {}
          /\ CallSucceeds(DetachOp) \/ CallFails(DetachOp)
    /\ StartDeleters

(* WaitForDataDiskDetachment: updates the VM without data disks when it   *)
(* has any; its error is ignored.                                         *)
TdDetach ==
    /\ pc = "TdDetach"
    /\ \/ attached \ {nicName, diskName} = {} /\ NoFault /\ UNCHANGED backend
       \/ /\ attached \ {nicName, diskName} # {}
          /\ CallSucceeds(DetachOp) \/ CallFails(DetachOp)
    /\ pc' = "TdDeleteVM"
    /\ UNCHANGED <<call, image, br, result, tdResult, deleting, cleanAtStart>>

(* DeleteVM: on error the teardown returns it. *)
TdDeleteVM ==
    /\ pc = "TdDeleteVM"
    /\ \/ CallSucceeds(VMDeleteOp) /\ StartDeleters
       \/ CallFails(VMDeleteOp) /\ TdReturn(FALSE)

(* Variant with a plausible bug: NotFound is not tolerated. *)
DeleterCheckNotFoundFails(i) ==
    /\ pc = "TdDeleters"
    /\ br[i] = "check"
    /\ LET n == DeleterTarget(i) IN
         \/ ReadFails /\ br' = [br EXCEPT ![i] = "failed"]
         \/ n \notin exists /\ NoFault /\ UNCHANGED backend /\ br' = [br EXCEPT ![i] = "failed"]
         \/ /\ n \in exists /\ n \in attached
            /\ NoFault /\ UNCHANGED backend /\ br' = [br EXCEPT ![i] = "failed"]
         \/ /\ n \in exists /\ n \notin attached
            /\ NoFault /\ UNCHANGED backend /\ br' = [br EXCEPT ![i] = "delete"]
    /\ UNCHANGED <<pc, call, image, result, tdResult, deleting, cleanAtStart>>

(* A deleter fetches its resource: NotFound is success, a resource        *)
(* attached to a VM is a conflict, otherwise it is deleted next.          *)
DeleterCheck(i) ==
    /\ pc = "TdDeleters"
    /\ br[i] = "check"
    /\ LET n == DeleterTarget(i) IN
         \/ ReadFails /\ br' = [br EXCEPT ![i] = "failed"]
         \/ n \notin exists /\ NoFault /\ UNCHANGED backend /\ br' = [br EXCEPT ![i] = "ok"]
         \/ /\ n \in exists /\ n \in attached
            /\ NoFault /\ UNCHANGED backend /\ br' = [br EXCEPT ![i] = "failed"]
         \/ /\ n \in exists /\ n \notin attached
            /\ NoFault /\ UNCHANGED backend /\ br' = [br EXCEPT ![i] = "delete"]
    /\ UNCHANGED <<pc, call, image, result, tdResult, deleting, cleanAtStart>>

(* DeleteNIC / DeleteDisk: Delete and WaitForCompletionRef. *)
DeleterDelete(i) ==
    /\ pc = "TdDeleters"
    /\ br[i] = "delete"
    /\ \/ CallSucceeds(DeleteOp(DeleterTarget(i))) /\ br' = [br EXCEPT ![i] = "ok"]
       \/ CallFails(DeleteOp(DeleterTarget(i))) /\ br' = [br EXCEPT ![i] = "failed"]
    /\ UNCHANGED <<pc, call, image, result, tdResult, deleting, cleanAtStart>>

(* Variant with a plausible bug: the deleters' errors are dropped. *)
TdJoinIgnoreErrors ==
    /\ pc = "TdDeleters"
    /\ \A i \in DeleterIndex : br[i] \in {"ok", "failed"}
    /\ TdReturn(TRUE)
    /\ NoFault /\ UNCHANGED backend

(* RunInParallel: once every deleter returned, any error fails the        *)
(* teardown; deletions that succeeded stay done.                          *)
TdJoin ==
    /\ pc = "TdDeleters"
    /\ \A i \in DeleterIndex : br[i] \in {"ok", "failed"}
    /\ TdReturn(\A i \in DeleterIndex : br[i] = "ok")
    /\ NoFault /\ UNCHANGED backend

-----------------------------------------------------------------------------
(* The backend carries out an operation whose call already failed. *)
Land ==
    /\ \E op \in inflight :
          /\ inflight' = inflight \ {op}
          /\ Apply(op)
    /\ UNCHANGED <<driver, faults, callFaulted, deleting, cleanAtStart, crashes>>

(* The driver process restarts in the middle of a call: the goroutines   *)
(* of the call are gone, nothing of it was persisted, the caller gets no  *)
(* answer, and the backend keeps whatever the call did so far.            *)
Crash ==
    /\ pc # "Idle"
    /\ crashes < MaxCrashes
    /\ crashes' = crashes + 1
    /\ pc' = "Idle"
    /\ result' = "none"
    /\ tdResult' = "none"
    /\ UNCHANGED <<backend, call, image, br, faults, callFaulted, deleting, cleanAtStart>>

DriverStep ==
    /\ \/ GetSubnet \/ CreateNic \/ ResolveImage \/ CreateVM
       \/ TdGetVM \/ TdDetach \/ TdDeleteVM \/ TdJoin
       \/ \E i \in DeleterIndex : DeleterCheck(i) \/ DeleterDelete(i)
    /\ UNCHANGED crashes

Next == CreateMachine \/ DeleteMachine \/ DriverStep \/ Land \/ Crash

(* Each call runs to its end, every backend call answers, the backend     *)
(* carries out what it accepted, and a machine marked for deletion is     *)
(* deleted again until that succeeds.                                     *)
Fairness ==
    /\ WF_vars(DriverStep)
    /\ WF_vars(Land)
    /\ WF_vars(deleting /\ DeleteMachine)

Spec == Init /\ [][Next]_vars /\ Fairness

-----------------------------------------------------------------------------
(* A teardown that reported success left none of the machine's resources: *)
(* after a rollback the failed CreateMachine leaves no orphan (spec 7),   *)
(* after DeleteMachine the machine is gone.                               *)
TeardownCleans == (pc = "Idle" /\ tdResult = "ok") => exists = {}

(* The inductive strengthening of TeardownCleans when no failed call lands *)
(* late: a create in progress is a create and has not torn down yet; once *)
(* the parallel deleters run the VM is gone, and a deleter that reported  *)
(* success left its resource absent, whatever the other deleters do.      *)
TeardownInv ==
    /\ TypeOK
    /\ inflight = {}
    /\ pc \in {"GetSubnet", "CreateNic", "ResolveImage", "CreateVM"} =>
          call = "create" /\ tdResult = "none"
    /\ pc = "TdDeleters" =>
          /\ VMName \notin exists
          /\ \A i \in DeleterIndex : br[i] = "ok" => DeleterTarget(i) \notin exists
    /\ TeardownCleans

(* A DeleteMachine fails only if some backend call failed during it: the  *)
(* VM is removed before its NIC and disks, so no deleter meets a conflict *)
(* of the driver's own making, and repeating a teardown succeeds (spec 8). *)
DeleteFailsOnlyOnFault ==
    (pc = "Idle" /\ result = "deleteFailed") => callFaulted

(* A CreateMachine on a backend holding none of the machine's resources   *)
(* fails only if some backend call failed during it: the NIC exists       *)
(* before the VM and the plan's terms are accepted before the VM is       *)
(* created.                                                               *)
CreateOnCleanFailsOnlyOnFault ==
    (pc = "Idle" /\ result = "createFailed" /\ cleanAtStart) => callFaulted

(* The inductive strengthening of DeleteFailsOnlyOnFault when no failed   *)
(* call lands late: a VM that does not exist holds nothing attached; once *)
(* the deleters run the VM is gone, so no deleter meets an attached       *)
(* resource, and a deleter that failed did so after a fault of this call. *)
DeleteInv ==
    /\ TypeOK
    /\ inflight = {}
    /\ VMName \notin exists => attached = {}
    /\ pc = "TdDeleters" =>
          /\ VMName \notin exists
          /\ \A i \in DeleterIndex : br[i] = "failed" => callFaulted
    /\ DeleteFailsOnlyOnFault

CreatePhases == {"GetSubnet", "CreateNic", "ResolveImage", "CreateVM"}

(* The inductive strengthening of CreateOnCleanFailsOnlyOnFault when no   *)
(* failed call lands late: a create that began on a clean backend has     *)
(* created at most its NIC before the VM, has the NIC once it was         *)
(* created, has the plan's terms accepted before the VM create, and rolls *)
(* back only after a fault.                                               *)
CreateInv ==
    /\ TypeOK
    /\ inflight = {}
    /\ pc \in CreatePhases => call = "create"
    /\ (call = "create" /\ cleanAtStart) =>
          /\ pc \in CreatePhases => exists \subseteq {nicName}
          /\ pc \in {"ResolveImage", "CreateVM"} => nicName \in exists
          /\ (pc = "CreateVM" /\ image = "urnPlan") => agreement
          /\ pc \in {"TdGetVM", "TdDetach", "TdDeleteVM", "TdDeleters"} => callFaulted
    /\ CreateOnCleanFailsOnlyOnFault

(* The VM goes first (spec 4.5; deleteVMNicDisks runs its deleters only  *)
(* after DeleteVM returned, or after the Get found no VM): no step removes *)
(* a NIC or a disk of the machine while its VM exists, so no deletion      *)
(* meets a resource still in use by the VM.                                *)
VMRemovedFirst ==
    [][(exists \ exists') \ {VMName} # {} => VMName \notin exists]_vars

(* Once the machine is marked for deletion, a DeleteMachine eventually    *)
(* succeeds.                                                              *)
DeletionCompletes == deleting ~> ~deleting

-----------------------------------------------------------------------------
(* The driver seen by its caller: a call is running unless pc is "Idle",   *)
(* the resources are those that exist, the answer is result.              *)
Abstract == INSTANCE MachineAbstract WITH
    Resources <- MachineResources,
    Machine   <- MachineVM,
    busy      <- IF pc = "Idle" THEN "none" ELSE call,
    res       <- exists,
    reply     <- result

(* The driver keeps the promise of MachineAbstract: resources change only *)
(* while CreateMachine or DeleteMachine runs, "created" is answered only  *)
(* with the VM, its NIC and its disks in place, "deleted" only with none  *)
(* of the machine's resources left, and every call ends.                  *)
ImplementsAbstract == Abstract!Spec
=============================================================================
