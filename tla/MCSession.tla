------------------------------ MODULE MCSession ------------------------------
EXTENDS Session, TLC
CONSTANTS d1, d2

\* A layer of one byte and one of two.
MCSize == (d1 :> 1) @@ (d2 :> 2)
=============================================================================
