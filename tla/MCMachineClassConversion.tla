---------------------- MODULE MCMachineClassConversion ----------------------
(***************************************************************************)
(* Checks fillUpMachineClass over every combination of codec outcomes.    *)
(***************************************************************************)
EXTENDS MachineClassConversion

VARIABLE codec   \* the outcomes of the two decodes and the encode

Init == codec \in [props : Outcomes, subnet : Outcomes, spec : Outcomes]
Next == codec' \in [props : Outcomes, subnet : Outcomes, spec : Outcomes]
Spec == Init /\ [][Next]_codec

Converted == fillUpMachineClass(codec.props, codec.subnet, codec.spec)

(* A MachineClass the conversion reports as filled carries a fully        *)
(* decoded Properties and SubnetInfo: a decode error of                  *)
(* fillUpMachineClass (lines 695 and 700) is returned, not overwritten by *)
(* the next assignment of err.                                            *)
ConversionReportsDecodeErrors ==
    (Converted.filled /\ Converted.ret = "ok")
        => Converted.properties = "decoded" /\ Converted.subnetInfo = "decoded"
=============================================================================
