---------------------------- MODULE MCAutoBoot ----------------------------
(***************************************************************************)
(* AutoBoot with one limit below, one in the middle of and one above the   *)
(* sizes partitions have, as 48 KiB, 32 KiB and 4 MiB are.                 *)
(***************************************************************************)
EXTENDS AutoBoot

MCMaxLbas == [s \in Stage |-> IF s = "zsl" THEN 2 ELSE IF s = "dtb" THEN 1 ELSE 3]
=============================================================================
