------------------------------ MODULE MC_CEmit ------------------------------
(***************************************************************************)
(* A local load and a constant as leaves, the prefixes and a conversion,  *)
(* the arithmetic, shift and comparison operators with and without the     *)
(* parentheses node_string puts around operands, and a call whose argument *)
(* has a non-void type.                                                    *)
(***************************************************************************)
EXTENDS CEmit

MCLeaves == {N("ldloc", <<>>, "L0"), N("ldc", <<>>, "1")}

MCUnary == {"neg", "not", "convu8", "mref"}

MCBinary == {"add", "sub", "mul", "rem", "shl", "shr", "shrun", "lt", "eq"}

MCSites == {[name |-> "f", ins |-> <<"i32">>]}
(* Narrowed sets that show one defect of node_string each (the cfgs       *)
(* CEmitCast, CEmitNest, CEmitNot and CEmitCall): a conversion over a sum, *)
(* a remainder over a sum, a bitwise not, and a call with one argument.    *)
NoKinds == {}

CastUnary == {"convu8"}

AddOnly == {"add"}

NestBinary == {"add", "rem"}

NegOnly == {"neg"}

NotOnly == {"not"}

NoSites == {}
=============================================================================
