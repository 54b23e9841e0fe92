------------------------------- MODULE Pointers -------------------------------
(* The null pointer of the C code.  It is equal to nothing it is compared   *)
(* with; each module says of which sets it is no member.                    *)
CONSTANT NULL
===============================================================================
