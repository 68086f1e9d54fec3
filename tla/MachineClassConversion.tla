------------------------ MODULE MachineClassConversion ------------------------
(***************************************************************************)
(* fillUpMachineClass (pkg/azure/utils.go) converts an AzureMachineClass   *)
(* into a generic MachineClass: its Properties and SubnetInfo objects are  *)
(* re-decoded through JSON into the provider spec's types, the provider    *)
(* spec is encoded as the MachineClass's raw ProviderSpec, and the class's *)
(* references and metadata are copied over.                                *)
(*                                                                         *)
(* The JSON values are abstracted to whether each codec call succeeds:     *)
(* a decode that fails leaves its target partly filled, an encode that     *)
(* fails produces nothing.  The single variable err of the code is kept,   *)
(* assignment by assignment.                                               *)
(***************************************************************************)
Outcomes == {"ok", "error"}

(* The target of a json.Unmarshal: fully decoded, or partly on error. *)
Decoded(outcome) == IF outcome = "ok" THEN "decoded" ELSE "partial"

(* The result: an Internal error when the encode fails, with the          *)
(* MachineClass left untouched; otherwise the MachineClass is filled with *)
(* what the decodes produced, and err (its last value) is returned.       *)
fillUpMachineClass(propsDecode, subnetDecode, specEncode) ==
    \* err is assigned by the Properties decode (695), then by the SubnetInfo
    \* decode (700), then by the provider-spec encode (710): the last wins.
    LET err == specEncode IN
    IF err = "error"
    THEN [ret |-> "internal", filled |-> FALSE,
          properties |-> "none", subnetInfo |-> "none"]
    ELSE [ret |-> err, filled |-> TRUE,
          properties |-> Decoded(propsDecode),
          subnetInfo |-> Decoded(subnetDecode)]
=============================================================================
