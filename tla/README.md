# TLA+ models of the Azure machine driver

This directory holds TLA+ models of the provisioning and teardown engine of
`machine-controller-manager-provider-azure`, with TLC configurations and
TLAPS proofs. All the code lives in one source file,
`src/pkg/azure/fake/mockclient.go`. Line numbers below refer to that file.

## 1. The system

| Part | Code | What it does |
|---|---|---|
| Resource Naming | `dependencyNameFromVMName`, `dependencyNameFromVMNameAndDependency`, `getAzureDataDiskPrefix`, `getAzureDataDiskNames` (183-224) | Derives the names of the NIC, OS disk and data disks from the VM name, so that create and delete agree without a stored mapping. |
| Disk Set Builder | `generateDataDisks` (262-298) | Builds the VM's data-disk descriptors: LUN (explicit, else the position), name, create option "Empty". |
| Definition builders | `getNICParameters`, `getVMParameters`, `getImageReference` (226-421) | Build the NIC and VM definitions: OS disk, data disks, and the plan of a marketplace image. |
| Provisioning Orchestrator | `createVMNicDisk` (423-636) | Runs subnet Get → NIC create/wait/result → image Get → agreement Get/accept → VM create/wait/result. Every failure after the subnet calls `deleteVMNicDisks` to roll back, then returns the original error. |
| Teardown Orchestrator | `deleteVMNicDisks` (639-683) | Runs VM Get, then detach and DeleteVM if the VM was found (any error other than NotFound aborts). Then it deletes the NIC, the OS disk and each data disk in parallel goroutines. NotFound counts as success, a NIC attached to a VM is a conflict, and `RunInParallel` fails if any deleter fails. |
| Azure backend / clients | `spi` and SDK clients (not under `src/`) | The system of record: which resources exist, what is attached, and whether the terms are accepted. |
| Machine class conversion | `fillUpMachineClass` (684-726) | Re-decodes an AzureMachineClass's Properties and SubnetInfo through JSON and encodes the provider spec into a MachineClass. |
| Fake SPI, credentials, decoding, metrics | 44-152, 57-111, 114-131 | A test double, I/O, JSON decoding and metrics. None of them is modelled (section 6). |

How the parts interact:
- The caller (the machine controller) issues CreateMachine and DeleteMachine one at a time for a machine.
- Once a machine is marked for deletion, the caller repeats DeleteMachine until it succeeds.
- Create and delete derive the NIC and OS-disk names from the VM name. The data-disk names come from the machine class: a rollback uses the class of the create, a DeleteMachine the class of its own request.
- The driver process may restart in the middle of a call. It keeps no state across calls, so the caller gets no answer and the backend keeps what the call did.
- Rollback and delete share the same teardown.
- The backend may:
  - refuse a request (a VM whose NIC is missing, a plan whose terms are not accepted, deleting an attached resource);
  - fail a call with or without its effect;
  - complete a call after the client has already seen it fail.

## 2. Modules

| Module | Models | State | Actions |
|---|---|---|---|
| `AzureNaming` | Naming and the disk set builder | none (operators only) | `getAzureDataDiskNames`, `generateDataDisks`, with `%d` as TLC's `ToString` |
| `AzureDriver` | `createVMNicDisk`, `deleteVMNicDisks`, the caller and the backend | backend: `exists`, `attached`, `agreement`, `inflight`; driver: `pc`, `call`, `image`, `br` (one state per parallel deleter), `result`, `tdResult`; counters: `faults`, `callFaulted`, `deleting`, `cleanAtStart`, `crashes` | `CreateMachine`, `DeleteMachine`, `GetSubnet`, `CreateNic`, `ResolveImage`, `CreateVM`, `TdGetVM`, `TdDetach`, `TdDeleteVM`, `DeleterCheck(i)`, `DeleterDelete(i)`, `TdJoin`, `Land`, `Crash` |
| `MachineAbstract` | What a call promises its caller | `busy`, `res`, `reply` | `Begin`, `Work`, `ReturnCreated`, `ReturnCreateFailed`, `ReturnDeleted`, `ReturnDeleteFailed`, `Abort` |
| `MachineClassConversion` | `fillUpMachineClass` | none (operators only) | `fillUpMachineClass` over codec outcomes |
| `MCMachineClassConversion` | Enumerates every combination of decode and encode outcomes | `codec` | — |
| `MCAzureNaming` | Enumerates every data-disk list of up to 3 entries | `disks` | — |
| `MCAzureDriver` | An instance with two data disks, and a class for DeleteMachine that is the same or has lost one | — | — |
| `AzureDriverProofs` | TLAPS proofs about `AzureDriver` | — | — |
| `AzureNamingProofs` | TLAPS proof that the two name derivations agree | — | — |

### How AzureDriver follows the code

Control flow:
- Each `if err != nil` of `createVMNicDisk` is a disjunct that moves `pc` to `"TdGetVM"` (`Rollback`). A create then reports `createFailed` whatever the rollback returned (486-491).
- A NIC or VM create is one atomic step covering CreateOrUpdate, WaitForCompletionRef and Result. The three error returns differ only in the error text.
- `ResolveImage` distinguishes three cases:
  - an image by ID skips the Gets;
  - a URN image without a plan needs only the image Get;
  - a plan whose terms are not accepted is accepted first (566-588).

Backend calls:
- Every mutating call ends in `CallSucceeds` or in one of four kinds of `CallFails`:
  - refused;
  - faulted with no effect;
  - faulted after its effect;
  - faulted with its effect still to come (`inflight`, only when `LateCompletion` holds). `Land` applies it later.
- A read that fails with an error other than NotFound is `ReadFails`. NotFound is the absence of the name in `exists`.

Teardown:
- `deleteVMNicDisks` starts its deleters only after the VM is gone. They run as independent steps `DeleterCheck(i)` and `DeleterDelete(i)` over `DeleterIndex`: the NIC is 1, the OS disk 2, and the data disks follow in order. These steps interleave with each other and with `Land`.
- `TdJoin` is `RunInParallel`'s join.

Names:
- The names come from `AzureNaming`, applied to the constant `DataDisks` (the creating class) and `DeleteDataDisks` (the class DeleteMachine is given).
- The VM definition's disks come from `generateDataDisks`. Teardown's names come from `getAzureDataDiskNames`, as in the code: `tdDataDiskNames` is `dataDiskNames` for a rollback and `deleteDataDiskNames` for a DeleteMachine. The deleters of a call, `DeleterIndex`, follow from it, and a new call starts with its deleters idle.

Restarts:
- `Crash` (at most `MaxCrashes` times) moves any `pc` but `"Idle"` back to `"Idle"` with no answer, leaving the backend and the marketplace agreement as the call left them.

The abstract specification:
- `MachineAbstract` says what a caller may rely on: the machine's resources change only while a call runs; `"created"` comes with the VM, its NIC and its disks in place; `"deleted"` comes with none of the machine's resources left; a failed call may leave anything; a restart gives no answer; every call ends (`WF(Finish)`).
- `AzureDriver` maps onto it through `Abstract == INSTANCE MachineAbstract WITH busy <- (IF pc = "Idle" THEN "none" ELSE call), res <- exists, reply <- result`. `ImplementsAbstract` is `Abstract!Spec`.

## 3. Runs

| Run | Config | Bounds | Result | What it shows |
|---|---|---|---|---|
| naming | `MCAzureNaming.cfg` | lists of 0-3 disks; names {"", "1"}; LUNs {nil, 1, 11} | pass (259 states) | `NamesAgree`: the VM definition and the teardown derive the same names. `NamesInjective`: distinct effective (name, LUN) pairs give distinct names. Name "1" and LUN 11 make the `-` separator matter. |
| naming_collision | `MCAzureNaming_collision.cfg` | same | violation | Two different entries collide when a positional LUN equals an explicit LUN. |
| naming_scenario | `MCAzureNaming_scenario.cfg` | same | violation | The code names the spec's happy-path disk `vm-1-0-data-disk`, not `0-vm-1-data-disk`. |
| driver | `MCAzureDriver.cfg` | 2 data disks (one unnamed with position LUN, one named with LUN 5); same class on delete; 2 faults; 1 crash; no late completion | pass (54841 states, ~5 s) | `TeardownCleans`, `TeardownInv`, `DeleteFailsOnlyOnFault`, `CreateOnCleanFailsOnlyOnFault`, their inductive strengthenings `DeleteInv` and `CreateInv`, `TypeOK`, the action property `VMRemovedFirst` (no step removes a NIC or disk while the VM exists, spec section 5), and `ImplementsAbstract`: the driver, restarts included, implements `MachineAbstract`, its liveness included. |
| driver_late | `MCAzureDriver_late.cfg` | as above, with late completion | pass (715441 states, ~50 s) | `DeletionCompletes`: a machine marked for deletion is eventually deleted, even after a restart in the middle of a teardown. |
| driver_lateorder | `MCAzureDriver_lateorder.cfg` | as `driver_late`, no crash | violation | `VMRemovedFirst` fails with late completion. A VM create whose wait failed (line 610) lands while its rollback's deleters run. An earlier detach that failed at the client then lands and frees a data disk, and that disk's deleter deletes it from the live VM. The rollback's VM Get (line 642) confirmed the VM absent, but the confirmation is stale by then. |
| driver_orphan | `MCAzureDriver_orphan.cfg` | 1 fault, no crash, late completion | violation | A NIC create that fails at the client but lands later survives a rollback that reported success. |
| driver_classchange | `MCAzureDriver_classchange.cfg` | no fault, no crash; DeleteMachine's class has lost its second data disk | violation | DeleteMachine reports success and leaves `vm-1-5-data-disk` behind (line 675). |
| class_conversion | `MCMachineClassConversion.cfg` | every outcome of the two decodes and the encode | violation | `fillUpMachineClass` returns nil with a partly decoded SubnetInfo: err of line 700 is overwritten by the encode at line 711. |

Why the bounds are enough:
- Two faults are enough for a fault during a create followed by a fault during its rollback or a later delete.
- Two data disks give three parallel deleters.
- One crash is enough to cut a call at any step; a second only repeats the situation from a later state.
- The explicit LUN 5 differs from the disk's position. A mutant that ignores explicit LUNs therefore leaves a disk behind.

Every property of a passing run has a mutant in `PROJECT.json`: an operator beside the code's definition that makes a plausible mistake and that TLC catches. For example, `TdGetVMNoDelete` skips DeleteVM, and `DeleterCheckNotFoundFails` does not tolerate NotFound.

### Fairness

`Fairness` assumes three things:
- **WF on `DriverStep`:** each call runs to its end. Every backend call returns, because the SDK futures either complete or fail.
- **WF on `Land`:** Azure eventually carries out an operation it accepted.
- **WF on `deleting /\ DeleteMachine`:** the machine controller retries the deletion of a machine marked for deletion.

`CreateMachine` is not fair: the caller may never create. `Crash` is not fair: restarts are bounded and never needed for progress.

`MachineAbstract` is fair on `Finish`. The driver's fairness on `DriverStep` implies it, since every call reaches a return or is cut by a restart; `driver` checks this.

## 4. Proofs (`AzureDriverProofs`, `AzureNamingProofs`, TLAPS)

The proofs rest on assumption `DriverAssumption`:
- `VMName` is a string;
- `DataDisks` is a sequence of name/LUN records;
- `DeleteDataDisks` is a sequence of name/LUN records;
- `MaxFaults` and `MaxCrashes` are in `Nat`;
- `LateCompletion` is Boolean.

Nine theorems are proved in `AzureDriverProofs`:
- **`TypeCorrect`**: `Spec => []TypeOK`. It uses lemmas `InitTyped` and `NextTyped`, with one step per action. These rest on:
  - `OpsTyped`, `TargetsTyped` and `DataDiskNamesDomain`: every operation the driver issues and every deleter target is one of the machine's resources, whichever class the names come from;
  - `DeletersStable`: the deleters of a call stay the same while `call` does;
  - `ApplyTyped`, `CallTyped` and `ReadTyped`: backend steps keep the backend typed.
- **`TeardownInvariant`** and **`TeardownCleanWithoutLateCompletion`**: if `~LateCompletion` and `DeleteDataDisks = DataDisks`, then `Spec => []TeardownInv` and `Spec => []TeardownCleans`. `TeardownCleans` alone is not inductive. The strengthening `TeardownInv` (in `AzureDriver`, and checked by the `driver` run) adds four facts:
  - `TypeOK`;
  - nothing is in flight;
  - a create still in progress has `tdResult = "none"`;
  - while the deleters run, the VM is absent, and every deleter that reported `ok` left its target absent. A deleter only ever removes resources, so this stays true whatever the other deleters do.

  The join's success case then needs `ResourcesCovered`. It says every machine resource is the VM or a deleter's target. This holds because `generateDataDisks` and `getAzureDataDiskNames` produce the same names position by position.

  The `driver_orphan` run shows that the `~LateCompletion` hypothesis is needed, and `driver_classchange` that the same-class hypothesis is.
- **`RefinesAbstract`**: under the same two hypotheses, `Spec => Abstract!SafetySpec`. The argument follows the refinement mapping step by step (`RefinementStep`), with `TeardownInv` in both states:
  - `CreateMachine` and `DeleteMachine` are `Begin`;
  - a step that stays inside a call keeps `call` and `result`, and is `Work` (`WorkStep`);
  - a subnet failure is `ReturnCreateFailed`, since `TeardownInv` says the call is a create;
  - a successful VM create is `ReturnCreated`, because an accepted VM create brings the VM, its NIC and its disks (`VMCreateCompletes`);
  - a teardown's return is one of the three other returns (`TdReturnAnswers`); a successful one leaves nothing, by `TeardownCleans` in the next state;
  - `Crash` is `Abort`, and `Land` cannot happen because nothing is in flight.
- **`DeleteInvariant`** and **`DeleteFailsOnlyOnFaultProved`**: if `~LateCompletion`, then `Spec => []DeleteInv` and `Spec => []DeleteFailsOnlyOnFault`. It needs no hypothesis on the class. The strengthening `DeleteInv` (checked by TLC as an invariant of the `driver` instance before it was proved) adds:
  - nothing is attached while the VM does not exist (`ApplyKeepsDetached`, `CallKeepsDetached`): creating the VM attaches its NIC and disks, deleting it releases them, and a deleter runs only once the VM is gone;
  - while the deleters run, the VM is gone and a deleter that failed did so after a fault of this call. With nothing attached, a delete is never refused (`DeleteFailsByFault`), and deleting the VM is never refused either (`VMDeleteFailsByFault`).

- **`CreateInvariant`** and **`CreateOnCleanFailsOnlyOnFaultProved`**: if `~LateCompletion`, `DistinctDataDisks` and `nicName \notin VMDisks`, then `Spec => []CreateInv` and `Spec => []CreateOnCleanFailsOnlyOnFault`. The strengthening `CreateInv` (checked by the `driver` run) says what a create that began on a clean backend has done so far:
  - before the VM call, at most its NIC exists;
  - from `ResolveImage` on, its NIC exists (`NicCreateAdds`);
  - a VM call for a plan image comes after the terms were accepted (`AgreementAccepts`);
  - it has rolled back only after a faulted call (`CallKeepsFault`). Each create step fails only by fault: the NIC and the agreement calls always (`NicFailsByFault`), and the VM call because its NIC exists, no disk of it exists yet, and its data disks are distinct (`VMCreateFailsByFault`).

  Both extra hypotheses are real conditions on the class, not conveniences. `DistinctDataDisks` fails for a class with a positional LUN equal to an explicit one, as `naming_collision` shows; the VM call is then refused without a fault. `nicName \notin VMDisks` holds because the NIC name ends in `-nic` and every disk name in `-disk`. TLAPS treats string literals as opaque values, so this cannot be derived there and is stated as a hypothesis. `MCAzureDriver` states both as `ASSUME InstanceHypotheses`, so TLC checks that the instance meets them.

- **`VMRemovedFirstProved`**: if `~LateCompletion`, then `Spec => VMRemovedFirst`. This is an action property. It follows from `[]DeleteInv` by `VMRemovedFirstStep`: every step taken while the VM exists keeps the VM's NIC and disks. A backend call removes at most what its operation deletes (`CallRemovesOnlyDeleted`). Only a deleter deletes a NIC or a disk, and `DeleteInv` says the VM is gone whenever the deleters run.

The `~LateCompletion` hypothesis of `VMRemovedFirstProved` is needed. The `driver_lateorder` run shows the property failing with late completion: the same class of race as `driver_orphan`.

`AzureNamingProofs` proves **`NamesAgreeHolds`**: `Spec => []NamesAgree` for the enumeration of `MCAzureNaming`. It rests on lemma `DiskNamesAgree`, which holds for every data-disk list of any length: `generateDataDisks` and `getAzureDataDiskNames` give lists of the same length, and they agree position by position because both take the LUN by the same rule (`DataDiskLun = DataDiskNameLun`). The name is then the same expression in both. The proof needs no fact about `ToString`.

Some results are checked by TLC only:
- `DeletionCompletes` and the fairness part of `ImplementsAbstract`. Liveness and `ENABLED` are beyond TLAPS.
- The driver with late completion. `driver_late` checks `DeletionCompletes` there, and `TypeCorrect` holds with late completion too. The safety theorems assume `~LateCompletion` because their invariants fail with it, as the runs above show.
- `NamesInjective`. It needs `ToString` to be injective on LUNs and the `-` separators to keep names apart. Both are facts about strings that TLAPS cannot reason about.
- The violation runs, which are counterexamples rather than invariants.

## 5. Plan for later work

1. A class change that adds data disks, and a VM definition updated in place by a second CreateMachine.

## 6. Not modelled

- The fake SPI (44-152) is a stateless test double.
- `Setup`/`NewClients` are credential I/O.
- `decodeProviderSpecAndSecret` is JSON decoding and validation. Its early return acts like the subnet failure: nothing has been created.
- Metrics are fire-and-forget.
- Tags, sizes, caching, zone, availability set, identity and user data do not change control flow.
