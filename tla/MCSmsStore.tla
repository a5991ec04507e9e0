----------------------------- MODULE MCSmsStore -----------------------------
(* A message of one part and one of two, or short messages only.           *)
EXTENDS SmsStore

CONSTANTS short, long

MCSms == {short, long}
MCParts == [m \in MCSms |-> IF m = long THEN 2 ELSE 1]
OneSms == {short}
OneParts == [m \in OneSms |-> 1]
=============================================================================
