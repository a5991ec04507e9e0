------------------------------ MODULE MCBoard -------------------------------
(***************************************************************************)
(* Three things that happen on the board: the TEE partition is prepared,   *)
(* ModemManager stores messages, weston-start.sh picks the display cards.  *)
(* They share no state, so that interleaving their steps shows nothing: a  *)
(* behaviour is one of the part named by "part", while the others rest in  *)
(* an initial state.                                                       *)
(***************************************************************************)
EXTENDS TeePartition, MCSmsStore, WestonStart

CONSTANTS d1, d2, d3, d4
VARIABLE part

FourAddr == d1 :> 3 @@ d2 :> 1 @@ d3 :> 4 @@ d4 :> 2

BoardInit ==
    /\ part \in {"tee", "modem", "display"}
    /\ TeeInit /\ Init /\ WestonInit
    /\ part # "tee" => type = "none"

\* Weston runs and all cards are there: nothing happens any more.
DisplayUp == pc = "weston" /\ kms = Cards /\ UNCHANGED westonVars

BoardNext ==
    /\ part' = part
    /\ \/ part = "tee" /\ TeeNext /\ UNCHANGED <<vars, westonVars>>
       \/ part = "modem" /\ Next /\ UNCHANGED <<teeVars, westonVars>>
       \/ part = "display" /\ (WestonNext \/ DisplayUp) /\ UNCHANGED <<teeVars, vars>>

BoardSpec == BoardInit /\ [][BoardNext]_<<part, teeVars, vars, westonVars>> /\ TeeFairness

\* The types of the partition and of the message storage.
BoardTypesOK == TeeTypeOK /\ TypeOK
=============================================================================
