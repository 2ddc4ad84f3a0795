------------------------------ MODULE Optimizer ------------------------------
(***************************************************************************)
(* The peephole optimizer CILNode::opt / opt_children (src/src/cil_tree/   *)
(* cil_node.rs), run on a tree that add_fn has validated (TYPECHECK_CIL).  *)
(* opt first optimises the children, then collapses a raw-pointer round    *)
(* trip under a field access:                                              *)
(*   LDField(MRefToRawPtr(a))      -> LDField(a)                           *)
(*   LDFieldAdress(MRefToRawPtr(a)) -> MRefToRawPtr(LDFieldAdress(a))      *)
(* when a is an LDLocA or an LDFieldAdress.  A validation panic (the       *)
(* todo! arm) unwinds out of add_fn, so that method is never added and     *)
(* never optimised; an error is only logged.                               *)
(***************************************************************************)
EXTENDS Validator

CONSTANTS
    Leaves,     \* the loads and constants trees are built from
    Unary,      \* [k, x] of the one-operand nodes (a one-argument Call among them)
    Binary,     \* [k, x] of the two-operand nodes (CallI: pointer and one argument)
    MaxDepth,   \* nesting depth of the enumerated trees
    MaxRuns     \* how many times opt is applied to the same tree

VARIABLES
    tree,       \* the tree as the optimizer left it
    orig,       \* the tree as the producer built it
    verdict,    \* None before validate, then "ok", "err" or "panic"
    runs        \* opt calls so far

vars == <<tree, orig, verdict, runs>>

(* Trees up to depth d: leaves, one-operand nodes over smaller trees, and  *)
(* two-operand nodes over leaves.                                          *)
RECURSIVE Trees(_)
Trees(d) ==
    IF d = 0 THEN Leaves
    ELSE LET S == Trees(d - 1) IN
         S \cup {N(u.k, <<c>>, u.x) : u \in Unary, c \in S}
           \cup (IF d = 1 THEN {N(b.k, <<l, r>>, b.x) : b \in Binary, l, r \in Leaves}
                          ELSE {})

(* The collapse applies when the raw pointer comes from LDLocA or          *)
(* LDFieldAdress.                                                          *)
Collapsible(m) ==
    /\ m.kids # <<>>
    /\ m.kids[1].k = "mref"
    /\ m.kids[1].kids[1].k \in {"ldloca", "ldfa"}

Inner(m) == m.kids[1].kids[1]

(* LDField: *fld_addr = addr.clone()                                       *)
FieldCollapse(m) == [m EXCEPT !.kids = <<Inner(m)>>]

(* Variant that re-roots without wrapping the result as a raw pointer.     *)
FieldAddrCollapseNoRewrap(m) == [m EXCEPT !.kids = <<Inner(m)>>]

(* LDFieldAdress: *self = MRefToRawPtr(LDFieldAdress{addr, field})         *)
FieldAddrCollapse(m) == N("mref", <<[m EXCEPT !.kids = <<Inner(m)>>]>>, "")

RECURSIVE Opt(_), OptChildren(_)

(* opt_children: every operand is optimised, except that InspectValue     *)
(* only optimises its value's children (val.opt_children()).               *)
OptChildren(n) ==
    IF n.k = "inspect"
    THEN [n EXCEPT !.kids = <<OptChildren(n.kids[1])>>]
    ELSE [n EXCEPT !.kids = [i \in DOMAIN n.kids |-> Opt(n.kids[i])]]

(* Variant that rewrites a node before its children.                      *)
OptTopDown(n) ==
    LET m == CASE n.k = "ldfield" /\ Collapsible(n) -> FieldCollapse(n)
               [] n.k = "ldfa" /\ Collapsible(n)    -> FieldAddrCollapse(n)
               [] OTHER                             -> n
    IN OptChildren(m)

(* opt                                                                     *)
Opt(n) ==
    LET m == OptChildren(n) IN
    CASE m.k = "ldfield" /\ Collapsible(m) -> FieldCollapse(m)
      [] m.k = "ldfa" /\ Collapsible(m)    -> FieldAddrCollapse(m)
      [] OTHER                             -> m

-----------------------------------------------------------------------------
Init ==
    /\ orig \in Trees(MaxDepth)
    /\ tree = orig
    /\ verdict = None
    /\ runs = 0

(* add_fn: method.validate() under TYPECHECK_CIL                           *)
Check ==
    /\ verdict = None
    /\ verdict' = Validate(tree).r
    /\ UNCHANGED <<tree, orig, runs>>

(* CILTree::opt on a method that was added                                 *)
Optimize ==
    /\ verdict \in {"ok", "err"}
    /\ runs < MaxRuns
    /\ tree' = Opt(tree)
    /\ runs' = runs + 1
    /\ UNCHANGED <<orig, verdict>>

Next == Check \/ Optimize

Spec == Init /\ [][Next]_vars

-----------------------------------------------------------------------------
(* opt never changes the type validate gives a well-typed tree: the        *)
(* collapsed and re-wrapped field access has the type of the original.     *)
OptPreservesType ==
    Validate(orig).r = "ok" => Validate(tree) = Validate(orig)

(* Running opt again on an optimised tree changes nothing (spec: the       *)
(* optimizer is idempotent and safe to run any number of times).           *)
OptIdempotent == [][runs > 0 => tree' = tree]_vars

(* validate returns a type or an error for every tree the producers build, *)
(* and never panics.                                                       *)
ValidateNeverPanics == verdict # "panic"
=============================================================================
