---------------------------- MODULE MCEmailExport ----------------------------
(* Instances of EmailExport for TLC: five emails, of which 2 and 3 are the *)
(* same message with the same blob, 1 and 4 have the same Message-ID but   *)
(* not the same content, and 5 is unlike the others.                       *)
EXTENDS EmailExport

CONSTANTS b1, b2, b3, b4, k1, k2, k3

MCBlob == <<b1, b2, b2, b3, b4>>
MCKey == <<k1, k2, k2, k1, k3>>

(* One forgets blobs; the other refuses duplicates, finds 1 too large and  *)
(* has no mailbox for 5.                                                   *)
Lax == [dedups |-> FALSE, forgetful |-> TRUE, homeless |-> {}, big |-> {}]
Strict == [dedups |-> TRUE, forgetful |-> FALSE, homeless |-> {5}, big |-> {1}]

MCTargets == {Lax, Strict}
=============================================================================
