---- MODULE MCDeliveryReceipts ----
(***************************************************************************)
(* Instances of DeliveryReceipts for TLC.                                  *)
(***************************************************************************)
EXTENDS DeliveryReceipts, TLC

\* Messages are interchangeable, and so are message_ids (safety runs only).
Symmetry == Permutations(Msgs) \cup Permutations(MsgIDs)
====
