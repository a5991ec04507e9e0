----------------------------- MODULE FitContract -----------------------------
(***************************************************************************)
(* What the FIT generator promises the firmware, with no trace of how it   *)
(* gets there: the task either fails and leaves no image, or it leaves an  *)
(* image whose configurations are exactly the usable FIT_DTB_COMPATIBLE    *)
(* entries whose base blob was built, each naming the blobs declared for   *)
(* it.  Neither the order of KERNEL_DEVICETREE nor that of the flags has   *)
(* any influence.                                                          *)
(***************************************************************************)
EXTENDS Sequences

CONSTANTS Names, Compats, Encode

VARIABLES
    files,   \* KERNEL_DEVICETREE
    flags,   \* FIT_DTB_COMPATIBLE
    result   \* what the task left in the deploy directory

vars == <<files, flags, result>>

Built == {<<Encode[f[1]], f[2]>> : f \in files}
Stems == {b[1] : b \in Built}

\* The blobs a flag's value declares: a base tree and overlays on top of it.
Declared(parts) ==
    [i \in DOMAIN parts |-> <<Encode[parts[i]], IF i = 1 THEN "dtb" ELSE "dtbo">>]

Selected(parts) ==
    /\ parts # <<>>
    /\ \A i \in DOMAIN parts : parts[i] \in Stems
    /\ Declared(parts)[1] \in Built

Promise == {[compat |-> c, fdt |-> Declared(flags[c])] :
               c \in {d \in Compats : Selected(flags[d])}}

Pending == [status |-> "pending", configs |-> {}]
Failed  == [status |-> "failed", configs |-> {}]

Init == result = Pending

Finish ==
    /\ result = Pending
    /\ result' \in {Failed, [status |-> "deployed", configs |-> Promise]}
    /\ UNCHANGED <<files, flags>>

Spec == Init /\ [][Finish]_vars
=============================================================================
