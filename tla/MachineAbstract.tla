--------------------------- MODULE MachineAbstract ---------------------------
(***************************************************************************)
(* What the driver promises its caller about one machine, whatever the    *)
(* steps, goroutines and backend calls it takes to keep the promise:      *)
(*                                                                         *)
(*  - the machine's resources change only while a call is running;        *)
(*  - a call that answers "created" leaves every resource of the machine  *)
(*    in place;                                                            *)
(*  - a call that answers "deleted" leaves none of them;                   *)
(*  - a failed call may leave any of them, and a call cut short by a       *)
(*    restart of the driver gives no answer;                               *)
(*  - every call ends.                                                     *)
(***************************************************************************)
CONSTANTS
    Resources,   \* every resource of the machine
    Machine      \* the resources a created machine consists of

VARIABLES
    busy,        \* "none", or the call running: "create" or "delete"
    res,         \* the resources that exist
    reply        \* the answer of the last call, "none" if it gave none

avars == <<busy, res, reply>>

Init ==
    /\ busy = "none"
    /\ res = {}
    /\ reply = "none"

(* The caller starts a call. *)
Begin ==
    /\ busy = "none"
    /\ \E c \in {"create", "delete"} : busy' = c
    /\ reply' = "none"
    /\ UNCHANGED res

(* A call in progress creates and deletes resources. *)
Work ==
    /\ busy # "none"
    /\ res' \in SUBSET Resources
    /\ UNCHANGED <<busy, reply>>

(* A call answers; the step that answers may still change resources. *)
Answer(c, r) ==
    /\ busy = c
    /\ busy' = "none"
    /\ reply' = r
    /\ res' \in SUBSET Resources

ReturnCreated == Answer("create", "created") /\ Machine \subseteq res'

ReturnCreateFailed == Answer("create", "createFailed")

ReturnDeleted == Answer("delete", "deleted") /\ res' = {}

ReturnDeleteFailed == Answer("delete", "deleteFailed")

(* The process running the call restarts: no answer, nothing undone. *)
Abort ==
    /\ busy # "none"
    /\ busy' = "none"
    /\ reply' = "none"
    /\ UNCHANGED res

Finish ==
    \/ ReturnCreated \/ ReturnCreateFailed
    \/ ReturnDeleted \/ ReturnDeleteFailed
    \/ Abort

Next == Begin \/ Work \/ Finish

SafetySpec == Init /\ [][Next]_avars

Spec == SafetySpec /\ WF_avars(Finish)

=============================================================================
