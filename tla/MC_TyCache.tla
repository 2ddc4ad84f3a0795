----------------------------- MODULE MC_TyCache -----------------------------
(***************************************************************************)
(* A and B contain each other (struct A { b: B }, struct B { a: *A,       *)
(* d: D }), C holds a D, E holds a C, F holds E, A and D.  The pass run    *)
(* makes E's layout fail; the violation run makes A's layout fail after B  *)
(* was built.                                                              *)
(***************************************************************************)
EXTENDS TyCache

CONSTANTS A, B, C, D, E, F, f1, f2, f3

MCFields ==
    (A :> <<B>>) @@ (B :> <<A, D>>) @@ (C :> <<D>>) @@ (D :> <<>>) @@ (E :> <<C>>) @@ (F :> <<E, A, D>>)
(* f1 needs F, f2 needs B then C, f3 needs C then E.  F is f1's return    *)
(* type and B f2's argument; f2's ABI is rejected after its signature.     *)
MCFnTypes == (f1 :> <<F>>) @@ (f2 :> <<B, C>>) @@ (f3 :> <<C, E>>)
MCSigLen == (f1 :> 1) @@ (f2 :> 1) @@ (f3 :> 0)
=============================================================================
