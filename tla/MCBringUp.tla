------------------------------ MODULE MCBringUp ------------------------------
(* Three application processors, LAPIC ids 1..3, started by the bootstrap   *)
(* core with LAPIC id 0.                                                    *)
EXTENDS BringUp

MCApIds == <<1, 2, 3>>

=============================================================================
