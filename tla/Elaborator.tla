----------------------------- MODULE Elaborator -----------------------------
(***************************************************************************)
(* The temporary-local elaborator of src/src/cil_tree: CILNode::           *)
(* allocate_tmps turns every TemporaryLocal into a SubTrees node over a    *)
(* freshly appended local and resolves LoadTMPLocal / LoadAddresOfTMPLocal *)
(* to that local; sheed_trees then hoists the carried statements in front  *)
(* of the statement that held them.  add_fn allocates the temporaries of a *)
(* method, and add_method does it once more.                              *)
(*                                                                         *)
(* Nodes and statements share one record shape [k, slot, kids, roots].    *)
(* Kinds: const (every constant and argument load), ldloc / ldloca (slot;  *)
(* tmp marks one that came from a temporary-local load), unary, binary,    *)
(* tmp (TemporaryLocal), loadtmp, loadtmpaddr, subtrees; statements stloc  *)
(* (slot) and settmp (SetTMPLocal).                                        *)
(***************************************************************************)
EXTENDS Naturals, Sequences, Functions

CONSTANTS
    BaseLocals,    \* locals the method declares before elaboration
    MaxTreeDepth,  \* nesting depth of the producers' expressions
    None

VARIABLES
    stmts,     \* the block's statements (CILTree roots)
    locals,    \* locals.len()
    phase      \* built, method (add_fn), added (add_method), shed, reshed

vars == <<stmts, locals, phase>>

Node(k, slot, kids, roots) ==
    [k |-> k, slot |-> slot, kids |-> kids, roots |-> roots, tmp |-> FALSE]
Leaf(k) == Node(k, None, <<>>, <<>>)
LdLoc(k, slot, tmp) == [Node(k, slot, <<>>, <<>>) EXCEPT !.tmp = tmp]
STLoc(slot, v) == Node("stloc", slot, <<v>>, <<>>)
SetTmp(v) == Node("settmp", None, <<v>>, <<>>)
SubTrees(roots, main) == Node("subtrees", None, <<main>>, roots)

-----------------------------------------------------------------------------
(* allocate_tmps.  Each operator returns the rewritten tree and the new    *)
(* locals.len(); the children are visited in the code's order.            *)

RECURSIVE Alloc(_, _, _), AllocSeq(_, _, _), AllocRoots(_, _, _), AllocTmp(_, _, _),
          AllocSubTrees(_, _, _)

AllocSeq(s, curr, nl) ==
    IF s = <<>> THEN [s |-> <<>>, nl |-> nl]
    ELSE LET h == Alloc(Head(s), curr, nl)
             t == AllocSeq(Tail(s), curr, h.nl)
         IN  [s |-> <<h.n>> \o t.s, nl |-> t.nl]

(* CILRoot::allocate_tmps: SetTMPLocal becomes STLoc(curr); other          *)
(* statements visit their operand.                                         *)
AllocRoots(s, curr, nl) ==
    IF s = <<>> THEN [s |-> <<>>, nl |-> nl]
    ELSE LET r == Head(s)
             v == Alloc(r.kids[1], curr, nl)
             r2 == IF r.k = "settmp" THEN STLoc(curr, v.n) ELSE [r EXCEPT !.kids = <<v.n>>]
             t == AllocRoots(Tail(s), curr, v.nl)
         IN  [s |-> <<r2>> \o t.s, nl |-> t.nl]

(* Variant that forgets locals.push: the slot is locals.len() unchanged.   *)
AllocTmpNoPush(n, curr, nl) ==
    LET rr == AllocRoots(n.roots, nl, nl)
        rm == Alloc(n.kids[1], nl, rr.nl)
    IN  [n |-> SubTrees(rr.s, rm.n), nl |-> rm.nl]

(* Variant that resolves the continuation against the enclosing temporary. *)
AllocTmpOuterMain(n, curr, nl) ==
    LET rr == AllocRoots(n.roots, nl, nl + 1)
        rm == Alloc(n.kids[1], curr, rr.nl)
    IN  [n |-> SubTrees(rr.s, rm.n), nl |-> rm.nl]

(* TemporaryLocal: end_loc = locals.len(); push; roots and main with       *)
(* curr = end_loc; become SubTrees(roots, main).                           *)
AllocTmp(n, curr, nl) ==
    LET rr == AllocRoots(n.roots, nl, nl + 1)
        rm == Alloc(n.kids[1], nl, rr.nl)
    IN  [n |-> SubTrees(rr.s, rm.n), nl |-> rm.nl]

(* Variant that treats an already built SubTrees like a TemporaryLocal.    *)
AllocSubTreesFresh(n, curr, nl) ==
    LET rr == AllocRoots(n.roots, nl, nl + 1)
        rm == Alloc(n.kids[1], curr, rr.nl)
    IN  [n |-> SubTrees(rr.s, rm.n), nl |-> rm.nl]

(* SubTrees: its trees and main with the current temporary.                *)
AllocSubTrees(n, curr, nl) ==
    LET rr == AllocRoots(n.roots, curr, nl)
        rm == Alloc(n.kids[1], curr, rr.nl)
    IN  [n |-> SubTrees(rr.s, rm.n), nl |-> rm.nl]

Alloc(n, curr, nl) ==
    CASE n.k \in {"const", "ldloc", "ldloca"} -> [n |-> n, nl |-> nl]
      [] n.k = "loadtmp"     -> [n |-> LdLoc("ldloc", curr, TRUE), nl |-> nl]
      [] n.k = "loadtmpaddr" -> [n |-> LdLoc("ldloca", curr, TRUE), nl |-> nl]
      [] n.k \in {"unary", "binary"} ->
             LET r == AllocSeq(n.kids, curr, nl) IN [n |-> [n EXCEPT !.kids = r.s], nl |-> r.nl]
      [] n.k = "tmp"         -> AllocTmp(n, curr, nl)
      [] n.k = "subtrees"    -> AllocSubTrees(n, curr, nl)

(* Method::allocate_temporaries over the block: CILTree::allocate_tmps     *)
(* starts every statement with no current temporary.                       *)
AllocateTemporaries(s, nl) == AllocRoots(s, None, nl)

-----------------------------------------------------------------------------
(* sheed_trees: the statements to hoist, and the node that stays.          *)

RECURSIVE Shed(_), ShedSeq(_), ShedRoots(_)

ShedSeq(s) ==
    IF s = <<>> THEN [t |-> <<>>, s |-> <<>>]
    ELSE LET h == Shed(Head(s)) r == ShedSeq(Tail(s))
         IN  [t |-> h.t \o r.t, s |-> <<h.n>> \o r.s]

(* Variant that replaces the node by main but hoists nothing.              *)
ShedSubTreesDrop(n) == [t |-> <<>>, n |-> n.kids[1]]

(* SubTrees: return the trees, replace the node by main (main itself is    *)
(* not shed).                                                              *)
ShedSubTrees(n) == [t |-> n.roots, n |-> n.kids[1]]

Shed(n) ==
    CASE n.k \in {"const", "ldloc", "ldloca"} -> [t |-> <<>>, n |-> n]
      [] n.k \in {"unary", "binary"} ->
             LET r == ShedSeq(n.kids) IN [t |-> r.t, n |-> [n EXCEPT !.kids = r.s]]
      [] n.k = "subtrees" -> ShedSubTrees(n)

(* CILTree::shed_trees -> CILRoot::shed_trees: a statement is replaced by  *)
(* the (themselves shed) statements its operand carried, then itself.      *)
ShedRoots(s) ==
    IF s = <<>> THEN <<>>
    ELSE LET r == Head(s)
             x == Shed(r.kids[1])
         IN  ShedRoots(x.t) \o <<[r EXCEPT !.kids = <<x.n>>]>> \o ShedRoots(Tail(s))

-----------------------------------------------------------------------------
(* What the rvalue producers build: a cast through a scratch local is      *)
(* TemporaryLocal(ty, [SetTMPLocal(operand)], continuation) whose          *)
(* continuation reads the local or its address (rvalue.rs); expressions    *)
(* nest them as operands.  An operand never reads a temporary.             *)
RECURSIVE Exprs(_, _)
Exprs(d, inTmp) ==
    LET base == {Leaf("const")} \cup
                (IF inTmp THEN {Leaf("loadtmp"), Leaf("loadtmpaddr")} ELSE {})
    IN IF d = 0 THEN base
       ELSE base
         \cup {Node("unary", None, <<x>>, <<>>) : x \in Exprs(d - 1, inTmp)}
         \cup {Node("binary", None, <<x, y>>, <<>>) : x, y \in Exprs(d - 1, inTmp)}
         \cup {Node("tmp", None, <<m>>, <<SetTmp(v)>>) :
                  v \in Exprs(d - 1, FALSE), m \in Exprs(d - 1, TRUE)}

Init ==
    /\ stmts \in {<<STLoc(0, e)>> : e \in Exprs(MaxTreeDepth, FALSE)}
    /\ locals = BaseLocals
    /\ phase = "built"

(* add_fn: method.allocate_temporaries()                                   *)
AllocateInAddFn ==
    LET r == AllocateTemporaries(stmts, locals) IN
    /\ phase = "built"
    /\ stmts' = r.s /\ locals' = r.nl
    /\ phase' = "method"

(* add_method: method.allocate_temporaries() again                         *)
AllocateInAddMethod ==
    LET r == AllocateTemporaries(stmts, locals) IN
    /\ phase = "method"
    /\ stmts' = r.s /\ locals' = r.nl
    /\ phase' = "added"

(* CILTree::shed_trees over the block, then once more.                     *)
ShedBlock ==
    /\ phase \in {"added", "shed"}
    /\ stmts' = ShedRoots(stmts)
    /\ phase' = IF phase = "added" THEN "shed" ELSE "reshed"
    /\ UNCHANGED locals

Next == AllocateInAddFn \/ AllocateInAddMethod \/ ShedBlock

Spec == Init /\ [][Next]_vars

-----------------------------------------------------------------------------
(* Properties.                                                             *)

RECURSIVE Subterms(_)
Subterms(n) == {n} \cup UNION {Subterms(c) : c \in Range(n.kids) \cup Range(n.roots)}
AllNodes == UNION {Subterms(stmts[i]) : i \in DOMAIN stmts}

Kinds == {"const", "ldloc", "ldloca", "unary", "binary", "tmp", "loadtmp",
          "loadtmpaddr", "subtrees", "stloc", "settmp"}

(* Every node is of a known kind, and every local an elaborated tree       *)
(* names is one the method declares (index < locals.len()).                *)
TypeOK ==
    /\ locals \in Nat
    /\ phase \in {"built", "method", "added", "shed", "reshed"}
    /\ \A n \in AllNodes :
         /\ n.k \in Kinds
         /\ n.k \in {"ldloc", "ldloca", "stloc"} => n.slot \in 0 .. locals - 1

(* After elaboration every temporary-local load reads the local that the   *)
(* SetTMPLocal of its own (innermost) TemporaryLocal stores into, and no   *)
(* two TemporaryLocals share a local: allocate_tmps passes end_loc as the  *)
(* current temporary to the initializer and to the continuation.           *)
RECURSIVE LoadsBoundTo(_, _)
LoadsBoundTo(n, own) ==
    IF n.k = "subtrees"
    THEN LET k == n.roots[1].slot IN
         \A c \in Range(n.kids) \cup Range(n.roots) : LoadsBoundTo(c, k)
    ELSE /\ n.k \in {"ldloc", "ldloca"} /\ n.tmp => n.slot = own
         /\ \A c \in Range(n.kids) \cup Range(n.roots) : LoadsBoundTo(c, own)

TmpLoadsReadOwnSlot ==
    phase \in {"method", "added"} =>
      /\ \A i \in DOMAIN stmts : LoadsBoundTo(stmts[i], None)
      /\ \A m, n \in AllNodes :
           m.k = "subtrees" /\ n.k = "subtrees" /\ m # n => m.roots[1].slot # n.roots[1].slot

(* Running the block in evaluation order (a SubTrees runs its statements,  *)
(* then its main), every temporary local is written before it is read,    *)
(* both before and after shedding hoisted the statements.                  *)
RECURSIVE Events(_), EventsSeq(_)
EventsSeq(s) == IF s = <<>> THEN <<>> ELSE Events(Head(s)) \o EventsSeq(Tail(s))
Events(n) ==
    CASE n.k = "subtrees" -> EventsSeq(n.roots) \o Events(n.kids[1])
      [] n.k = "stloc"    -> Events(n.kids[1]) \o <<[w |-> TRUE, slot |-> n.slot]>>
      [] n.k \in {"ldloc", "ldloca"} /\ n.tmp -> <<[w |-> FALSE, slot |-> n.slot]>>
      [] OTHER            -> EventsSeq(n.kids)

TmpWrittenBeforeRead ==
    phase # "built" =>
      LET ev == EventsSeq(stmts) IN
      \A i \in DOMAIN ev :
        ~ev[i].w => \E j \in 1 .. i - 1 : ev[j].w /\ ev[j].slot = ev[i].slot

(* add_method's second allocate_temporaries changes nothing: no local is  *)
(* appended and no tree is rewritten once the temporaries are allocated.  *)
AllocIdempotent ==
    [][phase = "method" /\ phase' = "added" => stmts' = stmts /\ locals' = locals]_vars

(* Spec 8: after elaborate-then-shed no sub-tree remains in the block, so  *)
(* shedding again is a no-op.                                              *)
ShedComplete ==
    phase \in {"shed", "reshed"} => \A n \in AllNodes : n.k # "subtrees"
=============================================================================
