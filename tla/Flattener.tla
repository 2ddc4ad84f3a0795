------------------------------ MODULE Flattener ------------------------------
(***************************************************************************)
(* CILNode::flatten (src/src/cil_tree/cil_node.rs): a node tree becomes a  *)
(* sequence of stack-machine ops that must leave exactly one value on the  *)
(* CIL evaluation stack and never pop from an empty one.  The ops are      *)
(* abstracted to how many values they pop and push; node kinds with the    *)
(* same shape (all constants and loads, all conversions, all binary        *)
(* operators) are one kind each.  A run flattens one tree of a bounded set *)
(* and executes the ops one by one against the stack depth.                *)
(***************************************************************************)
EXTENDS Naturals, Sequences

CONSTANTS
    MaxTreeDepth,    \* nesting depth of the enumerated trees
    WithLocAlloc     \* whether LocAllocAligned nodes are among them

VARIABLES
    node,       \* the tree being lowered
    code,       \* ops still to execute (<<>> before flatten ran)
    pc,         \* "flatten" before CILNode::flatten ran, then "run"
    depth,      \* evaluation stack depth
    underflow   \* an op popped more values than the stack held

vars == <<node, code, pc, depth, underflow>>

(* A CILOp, by its name and stack effect.                                  *)
Op(name, pop, push) == [name |-> name, pop |-> pop, push |-> push]

(* Nodes and roots share one record shape: kind, child nodes, child roots. *)
N(k, kids, roots) == [k |-> k, kids |-> kids, roots |-> roots]
Leaf(k) == N(k, <<>>, <<>>)

(* The operands' ops, one after the other (args.iter().flat_map(flatten)). *)
RECURSIVE FlattenNode(_), FlattenAll(_), RootOps(_), RootsOps(_)
FlattenAll(s) == IF s = <<>> THEN <<>> ELSE FlattenNode(Head(s)) \o FlattenAll(Tail(s))
RootsOps(s)   == IF s = <<>> THEN <<>> ELSE RootOps(Head(s)) \o RootsOps(Tail(s))

(* LocAllocAligned: the ops emitted for an aligned stackalloc.             *)
LocAllocOps ==
    << Op("SizeOf", 0, 1), Op("LdcU64", 0, 1), Op("ConvISize", 1, 1), Op("Add", 2, 1),
       Op("LocAlloc", 1, 1), Op("LdcU64", 0, 1), Op("Add", 2, 1),
       Op("LdcU64", 0, 1), Op("Rem", 2, 1), Op("Sub", 2, 1),
       Op("LdcU64", 0, 1), Op("Add", 2, 1) >>

(* SubTrees: the hoisted statements, then the main value.                  *)
SubTreesOps(roots, main) == RootsOps(roots) \o FlattenNode(main)

(* Variant of InspectValue that forgets to duplicate the value.           *)
InspectNoDup(val, inspect) == FlattenNode(val) \o RootsOps(inspect)

(* InspectValue: the value, a Dup, then the inspecting statements.         *)
InspectOps(val, inspect) == FlattenNode(val) \o << Op("Dup", 1, 2) >> \o RootsOps(inspect)

FlattenNode(n) ==
    CASE n.k = "const"       -> << Op("Ldc", 0, 1) >>
      [] n.k = "stacktop"    -> << >>
      [] n.k = "localloc"    -> LocAllocOps
      [] n.k = "unary"       -> FlattenNode(n.kids[1]) \o << Op("Conv", 1, 1) >>
      [] n.k = "binary"      -> FlattenAll(n.kids) \o << Op("BinOp", 2, 1) >>
      [] n.k = "call"        -> FlattenAll(n.kids) \o << Op("Call", Len(n.kids), 1) >>
      [] n.k = "calli"       -> FlattenAll(n.kids) \o << Op("CallI", Len(n.kids), 1) >>
      [] n.k = "subtrees"    -> SubTreesOps(n.roots, n.kids[1])
      [] n.k = "inspect"     -> InspectOps(n.kids[1], n.roots)

(* CILRoot::into_ops for the statements the producers put in SubTrees and  *)
(* InspectValue: STLoc/Pop/a void Call consume their operands; debug is    *)
(* LdStr + Console.WriteLine.                                              *)
RootOps(r) ==
    CASE r.k = "stloc"    -> FlattenNode(r.kids[1]) \o << Op("STLoc", 1, 0) >>
      [] r.k = "pop"      -> FlattenNode(r.kids[1]) \o << Op("Pop", 1, 0) >>
      [] r.k = "callvoid" -> FlattenAll(r.kids) \o << Op("Call", Len(r.kids), 0) >>
      [] r.k = "debug"    -> << Op("LdStr", 0, 1), Op("Call", 1, 0) >>

(* print_debug_val: the inspect statements around a GetStackTop, as built  *)
(* for integers (Console.Write(GetStackTop)), small integers (Console.Write *)
(* of a conversion of it) and any other type (Pop(GetStackTop)).           *)
Debug == Leaf("debug")
InspectShapes ==
    { << Debug, N("callvoid", << Leaf("stacktop") >>, <<>>), Debug >>,
      << Debug, N("callvoid", << N("unary", << Leaf("stacktop") >>, <<>>) >>, <<>>), Debug >>,
      << Debug, N("pop", << Leaf("stacktop") >>, <<>>), Debug >> }

(* The trees the producers build, up to nesting depth d.                   *)
RECURSIVE Trees(_)
Trees(d) ==
    IF d = 0
    THEN {Leaf("const")} \cup (IF WithLocAlloc THEN {Leaf("localloc")} ELSE {})
    ELSE LET T == Trees(d - 1) IN
         T \cup {N("unary", <<x>>, <<>>) : x \in T}
           \cup {N("binary", <<x, y>>, <<>>) : x, y \in T}
           \cup {N("call", <<>>, <<>>)} \cup {N("call", <<x>>, <<>>) : x \in T}
           \cup {N("calli", <<x, y>>, <<>>) : x, y \in T}
           \cup {N("subtrees", <<y>>, <<N("stloc", <<x>>, <<>>)>>) : x, y \in T}
           \cup {N("inspect", <<x>>, s) : x \in T, s \in InspectShapes}

-----------------------------------------------------------------------------
Init ==
    /\ node \in Trees(MaxTreeDepth)
    /\ code = <<>>
    /\ pc = "flatten"
    /\ depth = 0
    /\ underflow = FALSE

(* CILNode::flatten                                                        *)
Flatten ==
    /\ pc = "flatten"
    /\ code' = FlattenNode(node)
    /\ pc' = "run"
    /\ UNCHANGED <<node, depth, underflow>>

(* The CLR executes the next op: it pops its operands, pushes its result; *)
(* an op that finds too few values makes the method invalid IL.            *)
Exec ==
    LET op == Head(code) IN
    /\ pc = "run"
    /\ code # <<>>
    /\ ~underflow
    /\ underflow' = (op.pop > depth)
    /\ depth' = IF op.pop > depth THEN depth ELSE depth - op.pop + op.push
    /\ code' = Tail(code)
    /\ UNCHANGED <<node, pc>>

Next == Flatten \/ Exec

Spec == Init /\ [][Next]_vars

-----------------------------------------------------------------------------
(* The ops flatten emits for a node never pop an empty evaluation stack,   *)
(* and once they have all run they leave exactly the node's one value:     *)
(* SubTrees' statements and InspectValue's Dup + inspect statements        *)
(* (whose GetStackTop consumes the duplicate) are net zero.                *)
StackBalanced ==
    /\ ~underflow
    /\ pc = "run" /\ code = <<>> => depth = 1
=============================================================================
