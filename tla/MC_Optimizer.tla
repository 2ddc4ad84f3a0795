---------------------------- MODULE MC_Optimizer ----------------------------
(***************************************************************************)
(* A method with a struct local l0 : S, an i32 local l1, a pointer local   *)
(* l2 : *S, a struct argument a0 : S and an isize argument a1.  S has a   *)
(* field f : T, T a field g : i32.  Trees nest field loads, field          *)
(* addresses, MRefToRawPtr, indirect loads, a conversion and InspectValue.  *)
(***************************************************************************)
EXTENDS Optimizer, TLC

MCLocals == ("l0" :> T("S")) @@ ("l1" :> T("I32")) @@ ("l2" :> Ptr(T("S")))
MCArgs   == ("a0" :> T("S")) @@ ("a1" :> T("ISize"))
MCFieldDefs ==
    ("f" :> [owner |-> "S", tpe |-> T("T")]) @@ ("g" :> [owner |-> "T", tpe |-> T("I32")])

(* s1 takes a raw pointer to T and returns i32, s2 takes an i32 and      *)
(* returns isize: the shapes of a by-pointer and a by-value call.        *)
MCSigs ==
    ("s1" :> [ins |-> <<Ptr(T("T"))>>, out |-> T("I32")])
 @@ ("s2" :> [ins |-> <<T("I32")>>, out |-> T("ISize")])

MCTypeNames == "pS" :> Ptr(T("S"))

MCLeaves ==
    { N("ldloca", <<>>, "l0"), N("ldloca", <<>>, "l1"), N("ldloc", <<>>, "l2"),
      N("ldarga", <<>>, "a0"), N("ldarg", <<>>, "a1"), N("ldc", <<>>, "I32") }

(* The unary nodes the pass run uses: no 64-bit/float indirect load.      *)
MCUnary ==
    { [k |-> "mref", x |-> ""], [k |-> "ldfield", x |-> "f"], [k |-> "ldfield", x |-> "g"],
      [k |-> "ldfa", x |-> "f"], [k |-> "ldfa", x |-> "g"], [k |-> "ldind", x |-> "I32"],
      [k |-> "conv", x |-> "ISize"], [k |-> "inspect", x |-> ""],
      [k |-> "call", x |-> "s1"], [k |-> "transmute", x |-> "pS"] }

MCBinary ==
    { [k |-> "add", x |-> ""], [k |-> "eq", x |-> ""], [k |-> "shr", x |-> ""],
      [k |-> "calli", x |-> "s2"] }

(* With LDIndF64, which the float transmute of rvalue.rs builds over the   *)
(* address of its temporary.                                               *)
MCUnaryF64 == MCUnary \cup { [k |-> "ldind", x |-> "F64"] }
=============================================================================
