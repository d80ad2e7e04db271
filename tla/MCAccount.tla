------------------------------ MODULE MCAccount ------------------------------
(***************************************************************************)
(* Both users type address 1, from which the file is sent; the second one  *)
(* also has address 2.                                                     *)
(***************************************************************************)
EXTENDS Account, Naturals

TypesUpTo == [t \in Tab |-> {e \in Email : e <= t}]

FirstOwner == [f \in File |-> 1]

=============================================================================
