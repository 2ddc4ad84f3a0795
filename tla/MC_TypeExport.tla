---------------------------- MODULE MC_TypeExport ----------------------------
(***************************************************************************)
(* The ADTs of MC_TyCache with their by-value fields: A holds B, B holds D *)
(* (and only points to A), C holds D, E holds C, F holds E, A and D.  The  *)
(* names carry the characters escape_type_name rewrites.                   *)
(***************************************************************************)
EXTENDS TypeExport, MC_TyCache

MCByValue ==
    (A :> {B}) @@ (B :> {D}) @@ (C :> {D}) @@ (D :> {}) @@ (E :> {C}) @@ (F :> {E, A, D})

MCName ==
    (A :> <<"m", ".", "A">>) @@ (B :> <<"m", ".", "B", "<", "A", ">">>)
 @@ (C :> <<"C", "$", "u">>) @@ (D :> <<"D">>) @@ (E :> <<"(", "E", ",", ")">>)
 @@ (F :> <<"F", "{", "}">>)
=============================================================================
