---------------------------- MODULE MCBootMedia ----------------------------
(***************************************************************************)
(* BootMedia with a medium of distinct bytes, an idle byte and a token     *)
(* among them, and core frequencies on both sides of each check.           *)
(***************************************************************************)
EXTENDS BootMedia

MCMedium    == [a \in 0 .. Size - 1 |-> 255 - a]
MCCoreFreqs == {0, 3, 10 * Million, 24 * Million, 100 * Million}
=============================================================================
