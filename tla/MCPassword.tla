------------------------------ MODULE MCPassword ------------------------------
(***************************************************************************)
(* Small instances of Password.                                            *)
(***************************************************************************)
EXTENDS Password

CONSTANTS a4, b4, x20, x72

\* a4 and b4 are ASCII passwords for any PON mode; x20 is an ASCII password
\* for XG-PON and a hexadecimal one for G-PON; x72 is hexadecimal for XG-PON.
MCLength == [p \in Passwords |-> IF p = x72 THEN 72 ELSE IF p = x20 THEN 20 ELSE 4]
MCXdigits == Passwords \cap {x20, x72}
=============================================================================
