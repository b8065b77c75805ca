-------------------------------- MODULE MCPIT --------------------------------
EXTENDS PIT

(* Frequencies at and above the lowest one the 16-bit divisor can hold     *)
(* (19 Hz), and one above the input clock, which set_frequency rejects.    *)
MCRequestsValid == {19, 100, 1193183}

(* The highest frequency whose divisor does not fit in 16 bits.            *)
MCRequestsLow == {18, 100}

=============================================================================
