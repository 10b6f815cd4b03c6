------------------------------- MODULE BlockIo -------------------------------
(***************************************************************************)
(* What EFI_BLOCK_IO_PROTOCOL promises the caller of a synchronous         *)
(* request: the device carries the request out at most once and only       *)
(* between the call and the return, and a call that returns EFI_SUCCESS    *)
(* was carried out.                                                        *)
(***************************************************************************)
VARIABLES
    call,      \* "closed", "open", "pending", "executed"
    result     \* what the last call returned

vars == <<call, result>>

Init == call = "closed" /\ result = "none"

Open == call = "closed" /\ call' = "open" /\ result' = "none"

Close == call = "open" /\ call' = "closed" /\ result' = "none"

Submit == call = "open" /\ call' = "pending" /\ result' = "none"

Execute == call = "pending" /\ call' = "executed" /\ UNCHANGED result

Return(status) ==
    /\ call \in {"pending", "executed"}
    /\ status = "EFI_SUCCESS" => call = "executed"
    /\ call' = "open"
    /\ result' = status

Next ==
    \/ Open \/ Close \/ Submit \/ Execute
    \/ \E status \in {"EFI_SUCCESS", "EFI_DEVICE_ERROR"} : Return(status)

Spec == Init /\ [][Next]_vars
=============================================================================
