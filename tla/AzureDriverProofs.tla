-------------------------- MODULE AzureDriverProofs --------------------------
(***************************************************************************)
(* Proofs about the provisioning and teardown engine of AzureDriver, for   *)
(* every VM name, every list of data disks and every fault bound.          *)
(***************************************************************************)
EXTENDS AzureDriver, TLAPS

-----------------------------------------------------------------------------
(* The constants.                                                          *)

LEMMA FaultBoundNat == MaxFaults \in Nat
BY DriverAssumption

LEMMA CrashBoundNat == MaxCrashes \in Nat
BY DriverAssumption

-----------------------------------------------------------------------------
(* The names the driver derives.                                           *)

(* The data-disk names are indexed by numbers (1..n, or nothing when the  *)
(* class lists no data disk), whichever class they come from.             *)
LEMMA DataDiskNamesDomain ==
    /\ DOMAIN dataDiskNames \subseteq Nat \ {0}
    /\ DOMAIN deleteDataDiskNames \subseteq Nat \ {0}
    /\ DOMAIN tdDataDiskNames \subseteq Nat \ {0}
<1>1. Len(DataDisks) \in Nat /\ Len(DeleteDataDisks) \in Nat
  BY DriverAssumption
<1>2. DOMAIN dataDiskNames \subseteq Nat \ {0}
  BY <1>1 DEF dataDiskNames, getAzureDataDiskNames
<1>3. DOMAIN deleteDataDiskNames \subseteq Nat \ {0}
  BY <1>1 DEF deleteDataDiskNames, getAzureDataDiskNames
<1>4. QED
  BY <1>2, <1>3 DEF tdDataDiskNames

(* The deleters of a call depend only on whether it is a create or a      *)
(* delete.                                                                *)
LEMMA DeletersStable ==
    ASSUME call' = call
    PROVE  /\ DeleterIndex' = DeleterIndex
           /\ \A i : DeleterTarget(i)' = DeleterTarget(i)
BY DEF DeleterIndex, DeleterTarget, tdDataDiskNames

(* When DeleteMachine is given the class the machine was created with,    *)
(* every teardown deletes the data disks the VM definition names.         *)
LEMMA SameClassNames ==
    ASSUME DeleteDataDisks = DataDisks
    PROVE  deleteDataDiskNames = dataDiskNames /\ tdDataDiskNames = dataDiskNames
BY DEF deleteDataDiskNames, dataDiskNames, tdDataDiskNames

(* Every deleter targets one of the machine's resources. *)
LEMMA TargetsTyped == \A i \in DeleterIndex : DeleterTarget(i) \in MachineResources
<1> SUFFICES ASSUME NEW i \in DeleterIndex PROVE DeleterTarget(i) \in MachineResources
  OBVIOUS
<1>1. CASE i = 1
  BY <1>1 DEF DeleterTarget, MachineResources
<1>2. CASE i = 2
  BY <1>2 DEF DeleterTarget, MachineResources, VMDisks
<1>3. CASE i \notin {1, 2}
  <2>1. PICK j \in DOMAIN tdDataDiskNames : i = j + 2
    BY <1>3 DEF DeleterIndex
  <2>2. j \in Nat
    BY DataDiskNamesDomain
  <2>3. DeleterTarget(i) = tdDataDiskNames[j]
    BY <1>3, <2>1, <2>2 DEF DeleterTarget
  <2>4. QED
    BY <2>3 DEF MachineResources, tdDataDiskNames
<1>4. QED
  BY <1>1, <1>2, <1>3

(* Every operation the driver issues is one of Ops. *)
LEMMA OpsTyped ==
    /\ NicOp \in Ops
    /\ AgreementOp \in Ops
    /\ DetachOp \in Ops
    /\ VMDeleteOp \in Ops
    /\ \A img \in ImageRefs : VMOp(img) \in Ops
    /\ \A i \in DeleterIndex : DeleteOp(DeleterTarget(i)) \in Ops
<1>1. \A img \in ImageRefs : VMOp(img) \in Ops
  BY DEF VMOp, VMParameters, Ops
<1>2. \A i \in DeleterIndex : DeleteOp(DeleterTarget(i)) \in Ops
  BY TargetsTyped DEF Ops
<1>3. QED
  BY <1>1, <1>2 DEF Ops

-----------------------------------------------------------------------------
(* Backend calls keep the backend and the fault counter typed.             *)

LEMMA ApplyTyped ==
    ASSUME BackendTypeOK, NEW op, Apply(op)
    PROVE  /\ exists' \subseteq MachineResources
           /\ attached' \subseteq MachineResources
           /\ agreement' \in BOOLEAN
BY DEF BackendTypeOK, Apply, ExistsAfter, Created, Deleted, AttachedAfter, MachineResources

LEMMA FaultTyped ==
    ASSUME CountersTypeOK, Fault
    PROVE  faults' \in 0..MaxFaults /\ callFaulted' \in BOOLEAN
BY FaultBoundNat DEF CountersTypeOK, Fault

LEMMA CallTyped ==
    ASSUME TypeOK, NEW op \in Ops, CallSucceeds(op) \/ CallFails(op)
    PROVE  /\ BackendTypeOK'
           /\ faults' \in 0..MaxFaults
           /\ callFaulted' \in BOOLEAN
<1>1. CASE CallSucceeds(op)
  BY <1>1, ApplyTyped DEF CallSucceeds, NoFault, TypeOK, BackendTypeOK, CountersTypeOK
<1>2. CASE CallFails(op)
  <2>1. CASE ~Valid(op) /\ NoFault /\ UNCHANGED backend
    BY <2>1 DEF NoFault, backend, TypeOK, BackendTypeOK, CountersTypeOK
  <2>2. CASE Fault /\ UNCHANGED backend
    BY <2>2, FaultTyped DEF backend, TypeOK, BackendTypeOK
  <2>3. CASE Fault /\ Valid(op) /\ Apply(op) /\ UNCHANGED inflight
    BY <2>3, FaultTyped, ApplyTyped DEF TypeOK, BackendTypeOK
  <2>4. CASE Fault /\ inflight' = inflight \cup {op} /\ UNCHANGED <<exists, attached, agreement>>
    BY <2>4, FaultTyped DEF TypeOK, BackendTypeOK
  <2>5. QED
    BY <1>2, <2>1, <2>2, <2>3, <2>4 DEF CallFails
<1>3. QED
  BY <1>1, <1>2

LEMMA ReadTyped ==
    ASSUME TypeOK, ReadFails
    PROVE  /\ BackendTypeOK'
           /\ faults' \in 0..MaxFaults
           /\ callFaulted' \in BOOLEAN
BY FaultTyped DEF ReadFails, backend, TypeOK, BackendTypeOK

-----------------------------------------------------------------------------
(* Type correctness: every state the driver reaches is typed.              *)

LEMMA InitTyped == Init => TypeOK
<1> SUFFICES ASSUME Init PROVE TypeOK
  OBVIOUS
<1>1. BackendTypeOK
  BY DEF Init, BackendTypeOK
<1>2. DriverTypeOK
  BY DEF Init, DriverTypeOK, PCs, ImageRefs, BranchStates, Results
<1>3. CountersTypeOK
  <2>1. faults \in 0..MaxFaults
    BY FaultBoundNat DEF Init
  <2>2. callFaulted \in BOOLEAN /\ deleting \in BOOLEAN /\ cleanAtStart \in BOOLEAN
    BY DEF Init
  <2>3. crashes \in 0..MaxCrashes
    BY CrashBoundNat DEF Init
  <2>4. QED
    BY <2>1, <2>2, <2>3 DEF CountersTypeOK
<1>4. QED
  BY <1>1, <1>2, <1>3 DEF TypeOK

LEMMA NextTyped == TypeOK /\ [Next]_vars => TypeOK'
<1> SUFFICES ASSUME TypeOK, [Next]_vars PROVE TypeOK'
  OBVIOUS
<1> USE DEF TypeOK, DriverTypeOK, CountersTypeOK, PCs, Results, BranchStates
<1>1. CASE CreateMachine
  BY <1>1 DEF CreateMachine, backend, BackendTypeOK
<1>2. CASE DeleteMachine
  BY <1>2 DEF DeleteMachine, backend, BackendTypeOK
<1>3. CASE DriverStep
  <2>0. crashes' = crashes
    BY <1>3 DEF DriverStep
  <2>1. CASE GetSubnet
    BY <2>0, DeletersStable, <2>1, ReadTyped DEF GetSubnet, NoFault, backend, BackendTypeOK
  <2>2. CASE CreateNic
    BY <2>0, DeletersStable, <2>2, CallTyped, OpsTyped DEF CreateNic, Rollback
  <2>3. CASE ResolveImage
    BY <2>0, DeletersStable, <2>3, CallTyped, ReadTyped, OpsTyped DEF ResolveImage, Rollback, NoFault, backend, BackendTypeOK
  <2>4. CASE CreateVM
    BY <2>0, DeletersStable, <2>4, CallTyped, OpsTyped DEF CreateVM, Rollback
  <2>5. CASE TdGetVM
    BY <2>0, DeletersStable, <2>5, ReadTyped DEF TdGetVM, TdReturn, StartDeleters, NoFault, backend, BackendTypeOK
  <2>6. CASE TdDetach
    BY <2>0, DeletersStable, <2>6, CallTyped, OpsTyped DEF TdDetach, NoFault, backend, BackendTypeOK
  <2>7. CASE TdDeleteVM
    BY <2>0, DeletersStable, <2>7, CallTyped, OpsTyped DEF TdDeleteVM, TdReturn, StartDeleters
  <2>8. CASE TdJoin
    BY <2>0, DeletersStable, <2>8 DEF TdJoin, TdReturn, NoFault, backend, BackendTypeOK
  <2>9. ASSUME NEW i \in DeleterIndex, DeleterCheck(i) PROVE TypeOK'
    BY <2>0, DeletersStable, <2>9, ReadTyped DEF DeleterCheck, NoFault, backend, BackendTypeOK
  <2>10. ASSUME NEW i \in DeleterIndex, DeleterDelete(i) PROVE TypeOK'
    BY <2>0, DeletersStable, <2>10, CallTyped, OpsTyped DEF DeleterDelete
  <2>11. QED
    BY <1>3, <2>1, <2>2, <2>3, <2>4, <2>5, <2>6, <2>7, <2>8, <2>9, <2>10 DEF DriverStep
<1>4. CASE Land
  <2>1. PICK op \in inflight : inflight' = inflight \ {op} /\ Apply(op)
    BY <1>4 DEF Land
  <2>2. BackendTypeOK'
    BY <2>1, ApplyTyped DEF BackendTypeOK
  <2>3. QED
    BY <1>4, <2>2, DeletersStable DEF Land, driver
<1>5. CASE Crash
  BY <1>5, CrashBoundNat, DeletersStable DEF Crash, backend, BackendTypeOK
<1>6. CASE UNCHANGED vars
  BY <1>6, DeletersStable DEF vars, BackendTypeOK
<1>7. QED
  BY <1>1, <1>2, <1>3, <1>4, <1>5, <1>6 DEF Next

(* Every state the driver reaches is typed: the backend holds only the     *)
(* machine's resources, and the counters stay within their bounds.        *)
THEOREM TypeCorrect == Spec => []TypeOK
BY InitTyped, NextTyped, PTL DEF Spec

-----------------------------------------------------------------------------
(* A successful teardown leaves nothing behind when no failed call lands    *)
(* late.                                                                   *)

(* The machine's resources are the VM and the targets of the deleters: the *)
(* disks the VM definition creates carry the names the teardown derives.   *)
LEMMA ResourcesCovered ==
    ASSUME DeleteDataDisks = DataDisks
    PROVE  MachineResources \subseteq {VMName} \cup {DeleterTarget(i) : i \in DeleterIndex}
<1>0. deleteDataDiskNames = dataDiskNames /\ tdDataDiskNames = dataDiskNames
  BY SameClassNames
<1>1. \A j \in DOMAIN dataDiskNames :
         dataDiskNames[j] = DeleterTarget(j + 2) /\ j + 2 \in DeleterIndex
  <2> SUFFICES ASSUME NEW j \in Nat \ {0}, j \in DOMAIN dataDiskNames
               PROVE  dataDiskNames[j] = DeleterTarget(j + 2) /\ j + 2 \in DeleterIndex
    BY DataDiskNamesDomain
  <2>1. j + 2 \notin {1, 2} /\ (j + 2) - 2 = j
    OBVIOUS
  <2>2. QED
    BY <1>0, <2>1 DEF DeleterTarget, DeleterIndex
<1>2. DOMAIN vmDataDisks = DOMAIN dataDiskNames
  BY DEF vmDataDisks, dataDiskNames, generateDataDisks, getAzureDataDiskNames
<1>3. \A j \in DOMAIN vmDataDisks : vmDataDisks[j].name = dataDiskNames[j]
  BY <1>2 DEF vmDataDisks, dataDiskNames, generateDataDisks, getAzureDataDiskNames,
              DataDiskLun, DataDiskNameLun
<1>4. /\ nicName = DeleterTarget(1) /\ 1 \in DeleterIndex
      /\ diskName = DeleterTarget(2) /\ 2 \in DeleterIndex
  BY DEF DeleterTarget, DeleterIndex
<1>5. QED
  BY <1>0, <1>1, <1>2, <1>3, <1>4 DEF MachineResources, VMDisks

(* Without late completion no call leaves an operation in flight. *)
LEMMA CallNotInFlight ==
    ASSUME ~LateCompletion, NEW op, CallSucceeds(op) \/ CallFails(op)
    PROVE  inflight' = inflight
BY DEF CallSucceeds, CallFails, backend

(* A deletion, successful or not, only removes resources, and a successful *)
(* one removes its target.                                                 *)
LEMMA DeleteShrinks ==
    ASSUME ~LateCompletion, NEW n,
           CallSucceeds(DeleteOp(n)) \/ CallFails(DeleteOp(n))
    PROVE  /\ exists' \subseteq exists
           /\ CallSucceeds(DeleteOp(n)) => n \notin exists'
BY DEF CallSucceeds, CallFails, backend, Apply, ExistsAfter, Created, Deleted, DeleteOp

(* Deleting the VM, successfully, removes it. *)
LEMMA VMDeleteRemoves ==
    ASSUME CallSucceeds(VMDeleteOp)
    PROVE  exists' = exists \ {VMName}
BY DEF CallSucceeds, Valid, Apply, ExistsAfter, Created, Deleted, VMDeleteOp

LEMMA TeardownInvInit == Init => TeardownInv
BY InitTyped DEF Init, TeardownInv, TeardownCleans

LEMMA TeardownInvNext ==
    ASSUME ~LateCompletion, DeleteDataDisks = DataDisks
    PROVE  TeardownInv /\ [Next]_vars => TeardownInv'
<1> SUFFICES ASSUME TeardownInv, [Next]_vars PROVE TeardownInv'
  OBVIOUS
<1>0. TypeOK'
  BY NextTyped DEF TeardownInv
<1> USE <1>0 DEF TeardownInv, TeardownCleans
<1>1. CASE CreateMachine
  BY <1>1 DEF CreateMachine, backend
<1>2. CASE DeleteMachine
  BY <1>2 DEF DeleteMachine, backend
<1>3. CASE GetSubnet
  BY <1>3 DEF GetSubnet, ReadFails, NoFault, backend
<1>4. CASE CreateNic
  BY <1>4, CallNotInFlight DEF CreateNic, Rollback
<1>5. CASE ResolveImage
  BY <1>5, CallNotInFlight DEF ResolveImage, Rollback, ReadFails, NoFault, backend
<1>6. CASE CreateVM
  BY <1>6, CallNotInFlight DEF CreateVM, Rollback
<1>7. CASE TdGetVM
  BY <1>7, DeletersStable DEF TdGetVM, TdReturn, StartDeleters, ReadFails, NoFault, backend
<1>8. CASE TdDetach
  BY <1>8, CallNotInFlight DEF TdDetach, NoFault, backend
<1>9. CASE TdDeleteVM
  <2>1. CASE CallSucceeds(VMDeleteOp) /\ StartDeleters
    BY <2>1, VMDeleteRemoves, CallNotInFlight, DeletersStable DEF StartDeleters
  <2>2. CASE CallFails(VMDeleteOp) /\ TdReturn(FALSE)
    BY <2>2, CallNotInFlight DEF TdReturn
  <2>3. QED
    BY <1>9, <2>1, <2>2 DEF TdDeleteVM
<1>10. CASE TdJoin
  <2>1. CASE \A i \in DeleterIndex : br[i] = "ok"
    <3>1. exists = {}
      BY <1>10, <2>1, ResourcesCovered DEF TypeOK, BackendTypeOK, TdJoin
    <3>2. QED
      BY <1>10, <3>1 DEF TdJoin, TdReturn, backend
  <2>2. CASE ~\A i \in DeleterIndex : br[i] = "ok"
    BY <1>10, <2>2 DEF TdJoin, TdReturn, backend
  <2>3. QED
    BY <2>1, <2>2
<1>11. ASSUME NEW i \in DeleterIndex, DeleterCheck(i) PROVE TeardownInv'
  BY <1>11, DeletersStable DEF DeleterCheck, ReadFails, NoFault, backend, TypeOK, DriverTypeOK
<1>12. ASSUME NEW i \in DeleterIndex, DeleterDelete(i) PROVE TeardownInv'
  <2> DEFINE n == DeleterTarget(i)
  <2>1. /\ exists' \subseteq exists
        /\ CallSucceeds(DeleteOp(n)) => n \notin exists'
        /\ inflight' = inflight
    BY <1>12, DeleteShrinks, CallNotInFlight DEF DeleterDelete
  <2>2. QED
    BY <1>12, <2>1, DeletersStable DEF DeleterDelete, TypeOK, DriverTypeOK
<1>13. CASE Land
  BY <1>13, DeletersStable DEF Land, driver
<1>14. CASE UNCHANGED vars
  BY <1>14, DeletersStable DEF vars
<1>15. CASE Crash
  BY <1>15, DeletersStable DEF Crash, backend
<1>16. QED
  BY <1>1, <1>2, <1>3, <1>4, <1>5, <1>6, <1>7, <1>8, <1>9, <1>10, <1>11,
     <1>12, <1>13, <1>14, <1>15 DEF Next, DriverStep

(* When no failed call completes late and DeleteMachine is given the      *)
(* creating class, every reachable state satisfies TeardownInv: a create   *)
(* in progress has not torn down, the parallel deleters run only once the *)
(* VM is gone and a deleter that reported success left its target absent. *)
THEOREM TeardownInvariant ==
    ASSUME ~LateCompletion, DeleteDataDisks = DataDisks
    PROVE  Spec => []TeardownInv
BY TeardownInvInit, TeardownInvNext, PTL DEF Spec

(* When no failed call completes late and DeleteMachine is given the      *)
(* class the machine was created with, a teardown that reports success, a *)
(* rollback of CreateMachine or a DeleteMachine, has left none of the      *)
(* machine's resources in the backend.                                     *)
THEOREM TeardownCleanWithoutLateCompletion ==
    ASSUME ~LateCompletion, DeleteDataDisks = DataDisks
    PROVE  Spec => []TeardownCleans
<1>1. TeardownInv => TeardownCleans
  BY DEF TeardownInv
<1>2. QED
  BY TeardownInvariant, <1>1, PTL

-----------------------------------------------------------------------------
(* The driver implements MachineAbstract (its safety part) when no failed  *)
(* call lands late.                                                        *)

(* A step inside a call is a Work step of the abstract machine. *)
LEMMA WorkStep ==
    ASSUME pc # "Idle", pc' # "Idle", call \in {"create", "delete"},
           call' = call, result' = result,
           exists' \subseteq MachineResources
    PROVE  Abstract!Next
BY DEF Abstract!Next, Abstract!Work

(* A teardown that returns answers the call, and the answer "deleted"     *)
(* comes only with nothing left.                                          *)
LEMMA TdReturnAnswers ==
    ASSUME NEW ok \in BOOLEAN, pc # "Idle", call \in {"create", "delete"},
           TdReturn(ok), exists' \subseteq MachineResources, ok => exists' = {}
    PROVE  Abstract!Next
<1>1. CASE call = "create"
  BY <1>1 DEF TdReturn, Abstract!Next, Abstract!Finish, Abstract!ReturnCreateFailed, Abstract!Answer
<1>2. CASE call = "delete" /\ ok
  BY <1>2 DEF TdReturn, Abstract!Next, Abstract!Finish, Abstract!ReturnDeleted, Abstract!Answer
<1>3. CASE call = "delete" /\ ~ok
  BY <1>3 DEF TdReturn, Abstract!Next, Abstract!Finish, Abstract!ReturnDeleteFailed, Abstract!Answer
<1>4. QED
  BY <1>1, <1>2, <1>3

(* A VM that is created brings the machine's NIC, VM and disks. *)
LEMMA VMCreateCompletes ==
    ASSUME NEW img, CallSucceeds(VMOp(img))
    PROVE  MachineVM \subseteq exists'
BY DEF CallSucceeds, Valid, VMAccepted, Apply, ExistsAfter, Created, Deleted, VMOp, MachineVM

LEMMA RefinementStep ==
    ASSUME ~LateCompletion, DeleteDataDisks = DataDisks
    PROVE  TeardownInv /\ TeardownInv' /\ [Next]_vars => [Abstract!Next]_Abstract!avars
<1> SUFFICES ASSUME TeardownInv, TeardownInv', [Next]_vars
             PROVE  [Abstract!Next]_Abstract!avars
  OBVIOUS
<1>0. /\ call \in {"create", "delete"}
      /\ exists' \subseteq MachineResources
      /\ inflight = {}
      /\ pc \in {"GetSubnet", "CreateNic", "ResolveImage", "CreateVM"} => call = "create"
      /\ (pc' = "Idle" /\ tdResult' = "ok") => exists' = {}
  BY DEF TeardownInv, TeardownCleans, TypeOK, BackendTypeOK, DriverTypeOK
<1>1. CASE CreateMachine
  BY <1>1 DEF CreateMachine, backend, Abstract!Next, Abstract!Begin
<1>2. CASE DeleteMachine
  BY <1>2 DEF DeleteMachine, backend, Abstract!Next, Abstract!Begin
<1>3. CASE DriverStep
  <2>1. CASE GetSubnet
    <3>1. CASE pc' = "CreateNic"
      BY <1>0, <2>1, <3>1, WorkStep DEF GetSubnet
    <3>2. CASE pc' = "Idle"
      BY <1>0, <2>1, <3>2 DEF GetSubnet, ReadFails, backend, Abstract!Next, Abstract!Finish,
                              Abstract!ReturnCreateFailed, Abstract!Answer
    <3>3. QED
      BY <2>1, <3>1, <3>2 DEF GetSubnet
  <2>2. CASE CreateNic
    BY <1>0, <2>2, WorkStep DEF CreateNic, Rollback
  <2>3. CASE ResolveImage
    BY <1>0, <2>3, WorkStep DEF ResolveImage, Rollback
  <2>4. CASE CreateVM
    <3>1. CASE CallSucceeds(VMOp(image)) /\ pc' = "Idle" /\ result' = "created"
                /\ UNCHANGED <<call, image, br, tdResult, deleting, cleanAtStart>>
      <4>1. MachineVM \subseteq exists'
        BY <3>1, VMCreateCompletes
      <4>2. QED
        BY <1>0, <2>4, <3>1, <4>1 DEF CreateVM, Abstract!Next, Abstract!Finish,
                                      Abstract!ReturnCreated, Abstract!Answer
    <3>2. CASE CallFails(VMOp(image)) /\ Rollback
      BY <1>0, <2>4, <3>2, WorkStep DEF CreateVM, Rollback
    <3>3. QED
      BY <2>4, <3>1, <3>2 DEF CreateVM
  <2>5. CASE TdGetVM
    <3>1. CASE ReadFails /\ TdReturn(FALSE)
      BY <1>0, <2>5, <3>1, TdReturnAnswers DEF TdGetVM
    <3>2. CASE ~(ReadFails /\ TdReturn(FALSE))
      BY <1>0, <2>5, <3>2, WorkStep DEF TdGetVM, StartDeleters
    <3>3. QED
      BY <3>1, <3>2
  <2>6. CASE TdDetach
    BY <1>0, <2>6, WorkStep DEF TdDetach
  <2>7. CASE TdDeleteVM
    <3>1. CASE CallFails(VMDeleteOp) /\ TdReturn(FALSE)
      BY <1>0, <2>7, <3>1, TdReturnAnswers DEF TdDeleteVM
    <3>2. CASE CallSucceeds(VMDeleteOp) /\ StartDeleters
      BY <1>0, <2>7, <3>2, WorkStep DEF TdDeleteVM, StartDeleters
    <3>3. QED
      BY <2>7, <3>1, <3>2 DEF TdDeleteVM
  <2>8. CASE TdJoin
    <3> DEFINE ok == \A i \in DeleterIndex : br[i] = "ok"
    <3>1. TdReturn(ok) /\ pc # "Idle"
      BY <2>8 DEF TdJoin
    <3>2. ok => exists' = {}
      BY <1>0, <3>1 DEF TdReturn
    <3>3. QED
      BY <1>0, <3>1, <3>2, TdReturnAnswers
  <2>9. ASSUME NEW i \in DeleterIndex, DeleterCheck(i) PROVE [Abstract!Next]_Abstract!avars
    BY <1>0, <2>9, WorkStep DEF DeleterCheck
  <2>10. ASSUME NEW i \in DeleterIndex, DeleterDelete(i) PROVE [Abstract!Next]_Abstract!avars
    BY <1>0, <2>10, WorkStep DEF DeleterDelete
  <2>11. QED
    BY <1>3, <2>1, <2>2, <2>3, <2>4, <2>5, <2>6, <2>7, <2>8, <2>9, <2>10 DEF DriverStep
<1>4. CASE Land
  BY <1>0, <1>4 DEF Land
<1>5. CASE Crash
  BY <1>0, <1>5 DEF Crash, backend, Abstract!Next, Abstract!Finish, Abstract!Abort
<1>6. CASE UNCHANGED vars
  BY <1>6 DEF vars, Abstract!avars
<1>7. QED
  BY <1>1, <1>2, <1>3, <1>4, <1>5, <1>6 DEF Next

(* When no failed call completes late and DeleteMachine is given the      *)
(* creating class, every behaviour of the driver is a behaviour of        *)
(* MachineAbstract: resources change only during a call,                  *)
(* "created" comes with the whole machine and "deleted" with nothing left. *)
THEOREM RefinesAbstract ==
    ASSUME ~LateCompletion, DeleteDataDisks = DataDisks
    PROVE  Spec => Abstract!SafetySpec
<1>1. Init => Abstract!Init
  BY DEF Init, Abstract!Init
<1>2. Spec => []TeardownInv
  BY TeardownInvariant
<1>3. QED
  BY <1>1, <1>2, RefinementStep, PTL DEF Spec, Abstract!SafetySpec

-----------------------------------------------------------------------------
(* A DeleteMachine fails only after a fault, when no failed call lands    *)
(* late.                                                                   *)

(* A backend operation never leaves anything attached to an absent VM,    *)
(* provided the driver deletes its NIC and disks only once the VM is gone. *)
LEMMA ApplyKeepsDetached ==
    ASSUME VMName \notin exists => attached = {}, NEW op, Apply(op),
           op.kind = "del" => VMName \notin exists
    PROVE  VMName \notin exists' => attached' = {}
BY DEF Apply, Valid, ExistsAfter, AttachedAfter, Created, Deleted

LEMMA CallKeepsDetached ==
    ASSUME ~LateCompletion, VMName \notin exists => attached = {}, NEW op,
           CallSucceeds(op) \/ CallFails(op),
           op.kind = "del" => VMName \notin exists
    PROVE  /\ VMName \notin exists' => attached' = {}
           /\ inflight' = inflight
           /\ callFaulted => callFaulted'
BY ApplyKeepsDetached DEF CallSucceeds, CallFails, backend, Fault, NoFault

(* With nothing attached, a deletion is refused by no one: it fails only  *)
(* by a fault.                                                             *)
LEMMA DeleteFailsByFault ==
    ASSUME attached = {}, NEW n, CallFails(DeleteOp(n))
    PROVE  callFaulted'
BY DEF CallFails, Valid, DeleteOp, Fault

(* Deleting the VM is never refused: it fails only by a fault. *)
LEMMA VMDeleteFailsByFault ==
    ASSUME CallFails(VMDeleteOp)
    PROVE  callFaulted'
BY DEF CallFails, Valid, VMDeleteOp, Fault

LEMMA DeleteInvInit == Init => DeleteInv
BY InitTyped DEF Init, DeleteInv, DeleteFailsOnlyOnFault

LEMMA DeleteInvNext ==
    ASSUME ~LateCompletion
    PROVE  DeleteInv /\ [Next]_vars => DeleteInv'
<1> SUFFICES ASSUME DeleteInv, [Next]_vars PROVE DeleteInv'
  OBVIOUS
<1>0. TypeOK'
  BY NextTyped DEF DeleteInv
<1> USE <1>0 DEF DeleteInv, DeleteFailsOnlyOnFault
<1>1. CASE CreateMachine
  BY <1>1 DEF CreateMachine, backend
<1>2. CASE DeleteMachine
  BY <1>2 DEF DeleteMachine, backend
<1>3. CASE GetSubnet
  BY <1>3 DEF GetSubnet, ReadFails, NoFault, backend
<1>4. CASE CreateNic
  BY <1>4, CallKeepsDetached DEF CreateNic, Rollback, NicOp
<1>5. CASE ResolveImage
  BY <1>5, CallKeepsDetached DEF ResolveImage, Rollback, ReadFails, NoFault, backend, AgreementOp
<1>6. CASE CreateVM
  BY <1>6, CallKeepsDetached DEF CreateVM, Rollback, VMOp
<1>7. CASE TdGetVM
  BY <1>7, DeletersStable DEF TdGetVM, TdReturn, StartDeleters, ReadFails, Fault, NoFault, backend
<1>8. CASE TdDetach
  BY <1>8, CallKeepsDetached DEF TdDetach, NoFault, backend, DetachOp
<1>9. CASE TdDeleteVM
  <2>1. /\ VMName \notin exists' => attached' = {}
        /\ inflight' = inflight
    BY <1>9, CallKeepsDetached DEF TdDeleteVM, VMDeleteOp
  <2>2. CASE CallSucceeds(VMDeleteOp) /\ StartDeleters
    BY <2>1, <2>2, VMDeleteRemoves, DeletersStable DEF StartDeleters
  <2>3. CASE CallFails(VMDeleteOp) /\ TdReturn(FALSE)
    BY <2>1, <2>3, VMDeleteFailsByFault DEF TdReturn
  <2>4. QED
    BY <1>9, <2>2, <2>3 DEF TdDeleteVM
<1>10. CASE TdJoin
  BY <1>10 DEF TdJoin, TdReturn, NoFault, backend
<1>11. ASSUME NEW i \in DeleterIndex, DeleterCheck(i) PROVE DeleteInv'
  <2>1. attached = {}
    BY <1>11 DEF DeleterCheck
  <2>2. callFaulted => callFaulted'
    BY <1>11 DEF DeleterCheck, ReadFails, Fault, NoFault
  <2>3. QED
    BY <1>11, <2>1, <2>2, DeletersStable DEF DeleterCheck, ReadFails, Fault, NoFault, backend,
                                              TypeOK, DriverTypeOK
<1>12. ASSUME NEW i \in DeleterIndex, DeleterDelete(i) PROVE DeleteInv'
  <2> DEFINE n == DeleterTarget(i)
  <2>1. VMName \notin exists /\ attached = {}
    BY <1>12 DEF DeleterDelete
  <2>2. /\ VMName \notin exists' => attached' = {}
        /\ inflight' = inflight
        /\ callFaulted => callFaulted'
        /\ exists' \subseteq exists
    BY <1>12, <2>1, CallKeepsDetached, DeleteShrinks DEF DeleterDelete, DeleteOp
  <2>3. CallFails(DeleteOp(n)) => callFaulted'
    BY <2>1, DeleteFailsByFault
  <2>4. QED
    BY <1>12, <2>1, <2>2, <2>3, DeletersStable DEF DeleterDelete, TypeOK, DriverTypeOK
<1>13. CASE Land
  BY <1>13 DEF Land
<1>14. CASE UNCHANGED vars
  BY <1>14, DeletersStable DEF vars
<1>15. CASE Crash
  BY <1>15 DEF Crash, backend
<1>16. QED
  BY <1>1, <1>2, <1>3, <1>4, <1>5, <1>6, <1>7, <1>8, <1>9, <1>10, <1>11,
     <1>12, <1>13, <1>14, <1>15 DEF Next, DriverStep

(* When no failed call completes late, every reachable state satisfies    *)
(* DeleteInv: nothing is attached to an absent VM, and while the deleters *)
(* run the VM is gone and every failed deleter follows a fault.           *)
THEOREM DeleteInvariant ==
    ASSUME ~LateCompletion
    PROVE  Spec => []DeleteInv
BY DeleteInvInit, DeleteInvNext, PTL DEF Spec

(* When no failed call completes late, a DeleteMachine that returns an    *)
(* error had a backend call fail during it: deleteVMNicDisks removes the   *)
(* VM before its NIC and disks, so no deleter is refused for a resource    *)
(* still attached, and NotFound counts as success.                         *)
THEOREM DeleteFailsOnlyOnFaultProved ==
    ASSUME ~LateCompletion
    PROVE  Spec => []DeleteFailsOnlyOnFault
<1>1. DeleteInv => DeleteFailsOnlyOnFault
  BY DEF DeleteInv
<1>2. QED
  BY DeleteInvariant, <1>1, PTL

-----------------------------------------------------------------------------
(* The VM goes before its NIC and disks.                                   *)

(* A backend call removes at most what its operation deletes. *)
LEMMA CallRemovesOnlyDeleted ==
    ASSUME NEW op, CallSucceeds(op) \/ CallFails(op)
    PROVE  exists \ Deleted(op) \subseteq exists'
BY DEF CallSucceeds, CallFails, backend, Apply, ExistsAfter

(* Every step taken while the VM exists keeps its NIC and disks: only a   *)
(* deleter removes them, and the deleters run once the VM is gone.        *)
LEMMA VMRemovedFirstStep ==
    ASSUME ~LateCompletion
    PROVE  DeleteInv /\ [Next]_vars =>
              (VMName \in exists => exists \ {VMName} \subseteq exists')
<1> SUFFICES ASSUME DeleteInv, [Next]_vars, VMName \in exists
             PROVE  exists \ {VMName} \subseteq exists'
  OBVIOUS
<1> USE DEF DeleteInv
<1>1. CASE CreateMachine
  BY <1>1 DEF CreateMachine, backend
<1>2. CASE DeleteMachine
  BY <1>2 DEF DeleteMachine, backend
<1>3. CASE GetSubnet
  BY <1>3 DEF GetSubnet, ReadFails, NoFault, backend
<1>4. CASE CreateNic
  BY <1>4, CallRemovesOnlyDeleted DEF CreateNic, Rollback, NicOp, Deleted
<1>5. CASE ResolveImage
  BY <1>5, CallRemovesOnlyDeleted DEF ResolveImage, Rollback, ReadFails, backend,
                                      AgreementOp, Deleted
<1>6. CASE CreateVM
  BY <1>6, CallRemovesOnlyDeleted DEF CreateVM, Rollback, VMOp, Deleted
<1>7. CASE TdGetVM
  BY <1>7 DEF TdGetVM, TdReturn, StartDeleters, ReadFails, NoFault, backend
<1>8. CASE TdDetach
  BY <1>8, CallRemovesOnlyDeleted DEF TdDetach, NoFault, backend, DetachOp, Deleted
<1>9. CASE TdDeleteVM
  <2>1. Deleted(VMDeleteOp) = {VMName}
    BY DEF VMDeleteOp, Deleted
  <2>2. CallSucceeds(VMDeleteOp) \/ CallFails(VMDeleteOp)
    BY <1>9, Zenon DEF TdDeleteVM
  <2>3. QED
    BY <2>1, <2>2, CallRemovesOnlyDeleted
<1>10. CASE TdJoin
  BY <1>10 DEF TdJoin, backend
<1>11. ASSUME NEW i \in DeleterIndex, DeleterCheck(i) PROVE exists \ {VMName} \subseteq exists'
  BY <1>11 DEF DeleterCheck, ReadFails, NoFault, backend
<1>12. ASSUME NEW i \in DeleterIndex, DeleterDelete(i) PROVE exists \ {VMName} \subseteq exists'
  BY <1>12 DEF DeleterDelete
<1>13. CASE Land
  BY <1>13 DEF Land
<1>14. CASE UNCHANGED vars
  BY <1>14 DEF vars
<1>15. CASE Crash
  BY <1>15 DEF Crash, backend
<1>16. QED
  BY <1>1, <1>2, <1>3, <1>4, <1>5, <1>6, <1>7, <1>8, <1>9, <1>10, <1>11,
     <1>12, <1>13, <1>14, <1>15 DEF Next, DriverStep

(* When no failed call completes late, no step removes a NIC or a disk of *)
(* the machine while its VM exists: deleteVMNicDisks starts its deleters  *)
(* only after DeleteVM succeeded or the VM Get found none (spec 4.5).     *)
THEOREM VMRemovedFirstProved ==
    ASSUME ~LateCompletion
    PROVE  Spec => VMRemovedFirst
<1>1. DeleteInv /\ [Next]_vars =>
         [(exists \ exists') \ {VMName} # {} => VMName \notin exists]_vars
  BY VMRemovedFirstStep
<1>2. QED
  BY DeleteInvariant, <1>1, PTL DEF Spec, VMRemovedFirst

-----------------------------------------------------------------------------
(* A CreateMachine on a clean backend fails only after a fault, when no   *)
(* failed call lands late and the class's data disks get distinct names  *)
(* and LUNs.                                                               *)

(* A backend call never clears the fault flag of the current call. *)
LEMMA CallKeepsFault ==
    ASSUME NEW op, CallSucceeds(op) \/ CallFails(op)
    PROVE  callFaulted => callFaulted'
BY DEF CallSucceeds, CallFails, Fault, NoFault

(* Creating the NIC or accepting the terms is never refused. *)
LEMMA NicFailsByFault ==
    ASSUME CallFails(NicOp) \/ CallFails(AgreementOp)
    PROVE  callFaulted'
BY DEF CallFails, Valid, NicOp, AgreementOp, Fault

(* A successful NIC create adds the NIC and nothing else. *)
LEMMA NicCreateAdds ==
    ASSUME CallSucceeds(NicOp)
    PROVE  exists' = exists \cup {nicName}
BY DEF CallSucceeds, Valid, Apply, ExistsAfter, Created, Deleted, NicOp

(* A successful acceptance of the terms creates nothing and accepts them. *)
LEMMA AgreementAccepts ==
    ASSUME CallSucceeds(AgreementOp)
    PROVE  exists' = exists /\ agreement'
BY DEF CallSucceeds, Valid, Apply, ExistsAfter, Created, Deleted, AgreementOp

(* A VM create whose NIC exists, whose plan's terms are accepted, whose   *)
(* data disks are distinct and none of whose disks exists yet is never    *)
(* refused: it fails only by a fault.                                      *)
LEMMA VMCreateFailsByFault ==
    ASSUME DistinctDataDisks, nicName \notin VMDisks,
           exists \subseteq {nicName}, nicName \in exists,
           NEW img \in ImageRefs, img = "urnPlan" => agreement,
           CallFails(VMOp(img))
    PROVE  callFaulted'
<1>1. Valid(VMOp(img))
  BY DEF Valid, VMAccepted, VMOp, VMParameters
<1>2. QED
  BY <1>1 DEF CallFails, Fault

LEMMA CreateInvInit == Init => CreateInv
BY InitTyped DEF Init, CreateInv, CreateOnCleanFailsOnlyOnFault, CreatePhases

LEMMA CreateInvNext ==
    ASSUME ~LateCompletion, DistinctDataDisks, nicName \notin VMDisks
    PROVE  CreateInv /\ [Next]_vars => CreateInv'
<1> SUFFICES ASSUME CreateInv, [Next]_vars PROVE CreateInv'
  OBVIOUS
<1>0. TypeOK'
  BY NextTyped DEF CreateInv
<1> USE <1>0 DEF CreateInv, CreateOnCleanFailsOnlyOnFault, CreatePhases
<1>1. CASE CreateMachine
  BY <1>1 DEF CreateMachine, backend
<1>2. CASE DeleteMachine
  BY <1>2 DEF DeleteMachine, backend
<1>3. CASE GetSubnet
  BY <1>3 DEF GetSubnet, ReadFails, Fault, NoFault, backend
<1>4. CASE CreateNic
  <2>1. CASE CallSucceeds(NicOp) /\ pc' = "ResolveImage"
              /\ UNCHANGED <<call, image, br, result, tdResult, deleting, cleanAtStart>>
    BY <1>4, <2>1, NicCreateAdds, CallNotInFlight DEF CreateNic
  <2>2. CASE CallFails(NicOp) /\ Rollback
    BY <1>4, <2>2, NicFailsByFault, CallNotInFlight DEF CreateNic, Rollback
  <2>3. QED
    BY <1>4, <2>1, <2>2 DEF CreateNic
<1>5. CASE ResolveImage
  <2>1. CASE /\ (image = "id" \/ image = "urn" \/ (image = "urnPlan" /\ agreement))
             /\ pc' = "CreateVM"
             /\ NoFault /\ UNCHANGED backend
             /\ UNCHANGED <<call, image, br, result, tdResult, deleting, cleanAtStart>>
    BY <1>5, <2>1 DEF ResolveImage, NoFault, backend
  <2>2. CASE ReadFails /\ Rollback
    BY <1>5, <2>2 DEF ResolveImage, Rollback, ReadFails, Fault, backend
  <2>3. CASE CallSucceeds(AgreementOp) /\ pc' = "CreateVM"
             /\ UNCHANGED <<call, image, br, result, tdResult, deleting, cleanAtStart>>
    BY <1>5, <2>3, AgreementAccepts, CallNotInFlight DEF ResolveImage
  <2>4. CASE CallFails(AgreementOp) /\ Rollback
    BY <1>5, <2>4, NicFailsByFault, CallNotInFlight DEF ResolveImage, Rollback
  <2>5. \/ /\ (image = "id" \/ image = "urn" \/ (image = "urnPlan" /\ agreement))
           /\ pc' = "CreateVM"
           /\ NoFault /\ UNCHANGED backend
           /\ UNCHANGED <<call, image, br, result, tdResult, deleting, cleanAtStart>>
        \/ ReadFails /\ Rollback
        \/ CallSucceeds(AgreementOp) /\ pc' = "CreateVM"
           /\ UNCHANGED <<call, image, br, result, tdResult, deleting, cleanAtStart>>
        \/ CallFails(AgreementOp) /\ Rollback
    BY <1>5 DEF ResolveImage
  <2>6. QED
    BY <2>1, <2>2, <2>3, <2>4, <2>5
<1>6. CASE CreateVM
  <2>1. CASE CallFails(VMOp(image)) /\ Rollback
    <3>1. cleanAtStart => callFaulted'
      BY <1>6, <2>1, VMCreateFailsByFault DEF CreateVM, TypeOK, DriverTypeOK
    <3>2. QED
      BY <1>6, <2>1, <3>1, CallNotInFlight DEF CreateVM, Rollback
  <2>2. CASE ~(CallFails(VMOp(image)) /\ Rollback)
    BY <1>6, <2>2, CallNotInFlight DEF CreateVM
  <2>3. QED
    BY <2>1, <2>2
<1>7. CASE TdGetVM
  BY <1>7 DEF TdGetVM, TdReturn, StartDeleters, ReadFails, Fault, NoFault, backend
<1>8. CASE TdDetach
  BY <1>8, CallKeepsFault, CallNotInFlight DEF TdDetach, NoFault, backend
<1>9. CASE TdDeleteVM
  BY <1>9, CallKeepsFault, CallNotInFlight DEF TdDeleteVM, TdReturn, StartDeleters
<1>10. CASE TdJoin
  BY <1>10 DEF TdJoin, TdReturn, NoFault, backend
<1>11. ASSUME NEW i \in DeleterIndex, DeleterCheck(i) PROVE CreateInv'
  BY <1>11 DEF DeleterCheck, ReadFails, Fault, NoFault, backend
<1>12. ASSUME NEW i \in DeleterIndex, DeleterDelete(i) PROVE CreateInv'
  BY <1>12, CallKeepsFault, CallNotInFlight DEF DeleterDelete
<1>13. CASE Land
  BY <1>13 DEF Land
<1>14. CASE UNCHANGED vars
  BY <1>14 DEF vars
<1>15. CASE Crash
  BY <1>15 DEF Crash, backend
<1>16. QED
  BY <1>1, <1>2, <1>3, <1>4, <1>5, <1>6, <1>7, <1>8, <1>9, <1>10, <1>11,
     <1>12, <1>13, <1>14, <1>15 DEF Next, DriverStep

(* When no failed call completes late, the class's data disks get         *)
(* distinct names and LUNs and the NIC's name is not a disk's, every      *)
(* reachable state satisfies CreateInv:                                    *)
(* a create begun on a clean backend holds at most its NIC before the VM, *)
(* holds the NIC once created, has the terms accepted before the VM       *)
(* create, and reaches its rollback only after a fault.                   *)
THEOREM CreateInvariant ==
    ASSUME ~LateCompletion, DistinctDataDisks, nicName \notin VMDisks
    PROVE  Spec => []CreateInv
BY CreateInvInit, CreateInvNext, PTL DEF Spec

(* When no failed call completes late, the class's data disks get         *)
(* distinct names and LUNs, and the NIC's name is not a disk's, a          *)
(* CreateMachine that began with none of the machine's resources fails   *)
(* only if a backend call failed during it: createVMNicDisk creates the   *)
(* NIC before the VM and accepts the plan's terms before the VM create.   *)
THEOREM CreateOnCleanFailsOnlyOnFaultProved ==
    ASSUME ~LateCompletion, DistinctDataDisks, nicName \notin VMDisks
    PROVE  Spec => []CreateOnCleanFailsOnlyOnFault
<1>1. CreateInv => CreateOnCleanFailsOnlyOnFault
  BY DEF CreateInv
<1>2. QED
  BY CreateInvariant, <1>1, PTL
=============================================================================
