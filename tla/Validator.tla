------------------------------ MODULE Validator ------------------------------
(***************************************************************************)
(* CILNode::validate (src/src/cil_tree/cil_node.rs): the type of a node    *)
(* given the method's locals and arguments, or an error.  `?` returns the  *)
(* first operand's error; a node kind the match does not list reaches the  *)
(* final `todo!` and panics.                                               *)
(*                                                                         *)
(* Types are records [k, to]: a primitive or class name with to = None,    *)
(* or "ptr" / "mref" with the pointee in to.  Nodes are records            *)
(* [k, kids, x] where x names the local, argument, field or width.         *)
(***************************************************************************)
EXTENDS Naturals, Sequences

CONSTANTS
    Locals,      \* method.locals(): local name -> type
    Args,        \* method.sig().inputs(): argument name -> type
    FieldDefs,   \* field descriptor name -> [owner, tpe]
    Sigs,        \* call site / signature name -> [ins: argument types, out]
    TypeNames,   \* the target types TransmutePtr nodes name
    None

T(k)       == [k |-> k, to |-> None]
Ptr(t)     == [k |-> "ptr", to |-> t]
MRef(t)    == [k |-> "mref", to |-> t]

N(k, kids, x) == [k |-> k, kids |-> kids, x |-> x]

(* Result<Type, String>, and the panic of the todo! arm.                  *)
Ok(t)  == [r |-> "ok", t |-> t]
Err    == [r |-> "err", t |-> None]
Panic  == [r |-> "panic", t |-> None]

(* Type::is_primitive_numeric                                              *)
PrimitiveNumeric ==
    {"I8", "U8", "I16", "U16", "I32", "U32", "I64", "U64", "ISize", "USize", "F32", "F64"}
IsNumeric(t) == t.k \in PrimitiveNumeric

(* The LDInd* kinds validate checks; LDIndI64/U64/F32/F64 are not listed.  *)
CheckedLoads == {"I8", "U8", "I16", "U16", "I32", "U32", "ISize", "USize", "Bool"}

(* tpe.as_dotnet() == Some(field.owner())                                 *)
OwnerMatches(pointee, f) == pointee.k = FieldDefs[f].owner

LoadField(a, f) ==
    IF a.k \in {"mref", "ptr"} /\ OwnerMatches(a.to, f) THEN Ok(FieldDefs[f].tpe) ELSE Err

LoadFieldAddress(a, f) ==
    CASE a.k = "mref" /\ OwnerMatches(a.to, f) -> Ok(MRef(FieldDefs[f].tpe))
      [] a.k = "ptr"  /\ OwnerMatches(a.to, f) -> Ok(Ptr(FieldDefs[f].tpe))
      [] OTHER                                 -> Err

LoadInd(p, w) ==
    IF p \in {Ptr(T(w)), MRef(T(w))} THEN Ok(T(w)) ELSE Err

(* Add/Sub/Mul/...: equal numeric operands, or pointer +- isize/usize.    *)
Arith(a, b) ==
    IF a # b
    THEN IF a.k = "ptr" /\ b.k \in {"ISize", "USize"} THEN Ok(a) ELSE Err
    ELSE IF IsNumeric(a) THEN Ok(a) ELSE Err

(* Eq/Lt/Gt/...                                                            *)
Compare(a, b) == IF a = b /\ IsNumeric(a) THEN Ok(T("Bool")) ELSE Err

(* Shr/ShrUn/Shl: both operands numeric; the shifted value's type.         *)
Shift(a, b) == IF IsNumeric(a) /\ IsNumeric(b) THEN Ok(a) ELSE Err

(* TransmutePtr accepts a usize, an isize, a pointer or a managed ref.     *)
TransmutePtr(a, x) ==
    IF a.k \in {"USize", "ISize", "ptr", "mref"} THEN Ok(TypeNames[x]) ELSE Err

MRefToRawPtr(a) == IF a.k = "mref" THEN Ok(Ptr(a.to)) ELSE Err

RECURSIVE Validate(_), CheckArgs(_, _, _)

(* The argument loop of Call/CallI: each argument is validated (its error  *)
(* returned) and then compared with the signature's input, in order.       *)
CheckArgs(args, ins, out) ==
    IF args = <<>> THEN Ok(out)
    ELSE LET a == Validate(Head(args)) IN
         CASE a.r # "ok"       -> a
           [] a.t # Head(ins)  -> Err
           [] OTHER            -> CheckArgs(Tail(args), Tail(ins), out)

(* Call: the argument count first, then the arguments.                     *)
Call(args, sig) ==
    IF Len(args) # Len(sig.ins) THEN Err ELSE CheckArgs(args, sig.ins, sig.out)

Validate(n) ==
    LET Kid(i) == Validate(n.kids[i]) IN
    CASE n.k = "ldloc"  -> IF n.x \in DOMAIN Locals THEN Ok(Locals[n.x]) ELSE Err
      [] n.k = "ldloca" -> IF n.x \in DOMAIN Locals THEN Ok(MRef(Locals[n.x])) ELSE Err
      [] n.k = "ldarg"  -> IF n.x \in DOMAIN Args THEN Ok(Args[n.x]) ELSE Err
      [] n.k = "ldarga" -> IF n.x \in DOMAIN Args THEN Ok(MRef(Args[n.x])) ELSE Err
      [] n.k = "ldc"    -> Ok(T(n.x))
      [] n.k = "inspect" -> Kid(1)
      [] n.k = "ldind" /\ n.x \notin CheckedLoads -> Panic
      [] n.k = "call"   -> Call(n.kids, Sigs[n.x])
      [] n.k = "calli"  -> LET p == Kid(1) IN
                           IF p.r # "ok" THEN p ELSE Call(Tail(n.kids), Sigs[n.x])
      [] n.k \in {"ldfield", "ldfa", "ldind", "mref", "conv", "neg", "transmute"} ->
            LET a == Kid(1) IN
            IF a.r # "ok" THEN a
            ELSE (CASE n.k = "ldfield" -> LoadField(a.t, n.x)
                    [] n.k = "ldfa"    -> LoadFieldAddress(a.t, n.x)
                    [] n.k = "ldind"   -> LoadInd(a.t, n.x)
                    [] n.k = "mref"    -> MRefToRawPtr(a.t)
                    [] n.k = "conv"    -> Ok(T(n.x))
                    [] n.k = "neg"     -> IF IsNumeric(a.t) THEN a ELSE Err
                    [] n.k = "transmute" -> TransmutePtr(a.t, n.x))
      [] n.k \in {"add", "eq", "shr"} ->
            LET l == Kid(1) r == Kid(2) IN
            (CASE l.r # "ok" -> l
               [] r.r # "ok" -> r
               [] n.k = "add" -> Arith(l.t, r.t)
               [] n.k = "eq"  -> Compare(l.t, r.t)
               [] n.k = "shr" -> Shift(l.t, r.t))
      [] OTHER -> Panic
=============================================================================
