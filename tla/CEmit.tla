------------------------------- MODULE CEmit -------------------------------
(***************************************************************************)
(* node_string of CExporter (src/src/assembly_exporter/c_exporter.rs):    *)
(* the C text written for a CILNode, as a sequence of C tokens.  The text  *)
(* is read back with the C grammar (precedence climbing over the binary    *)
(* operators, unary prefixes and calls), and the tree gcc sees is compared *)
(* with the C expression that has the CIL node's meaning (ECMA-335 III).   *)
(*                                                                         *)
(* The signedness of /, %, >> and the comparisons comes from the C types   *)
(* c_tpe gives the operands, so DivUn, RemUn, LtUn and GtUn mean the same  *)
(* C operator as their signed forms; only the operator and the shape of    *)
(* the tree are compared.                                                  *)
(***************************************************************************)
EXTENDS Integers, Sequences, SequencesExt

CONSTANTS
    Leaves,     \* loads and constants: [k, kids |-> <<>>, x |-> their C text]
    Unary,      \* kinds of the one-operand nodes
    Binary,     \* kinds of the two-operand nodes
    Sites,      \* call sites: [name, ins], ins the argument types ("void" or not)
    MaxDepth    \* nesting depth of the enumerated trees

VARIABLES
    tree,       \* the node handed to node_string
    text        \* the C tokens node_string wrote, <<>> before

vars == <<tree, text>>

N(k, kids, x) == [k |-> k, kids |-> kids, x |-> x]

(* Trees up to depth d; a call takes one operand per argument of its site. *)
RECURSIVE Trees(_)
Trees(d) ==
    IF d = 0 THEN Leaves
    ELSE LET S == Trees(d - 1) IN
         S \cup {N(u, <<c>>, "") : u \in Unary, c \in S}
           \cup {N(b, <<l, r>>, "") : b \in Binary, l, r \in S}
           \cup {N("call", [i \in DOMAIN s.ins |-> a], s) : s \in Sites, a \in S}

-----------------------------------------------------------------------------
(* The C operator node_string writes for a two-operand node.               *)
BinToken ==
    [add |-> "+", sub |-> "-", mul |-> "*", div |-> "/", divun |-> "/",
     rem |-> "%", remun |-> "%", and |-> "&", or |-> "|", xor |-> "^",
     shl |-> "<<", shr |-> ">>", shrun |-> "<<",
     eq |-> "==", lt |-> "<", ltun |-> "<", gt |-> ">", gtun |-> ">"]

(* The arms that write "({a}) op ({b})"; Eq adds an outer pair.            *)
ParenBinary == {"add", "sub", "mul", "div", "divun", "and", "or", "xor", "eq"}

(* The cast written by a conversion, one token: "((uint8_t){inner})".     *)
CastToken == [convu8 |-> "(uint8_t)", convi8 |-> "(int8_t)",
              convu32 |-> "(uint32_t)", convi32 |-> "(int32_t)"]

(* The one-operand prefixes: "-({a})" and "!({a})".                        *)
PrefixToken == [neg |-> "-", not |-> "!"]

Paren(s) == <<"(">> \o s \o <<")">>

(* The arguments a Call writes: those whose signature type is void, each  *)
(* after the first preceded by ",".                                        *)
RECURSIVE CallArgs(_)
CallArgs(args) ==
    IF args = <<>> THEN <<>>
    ELSE LET rest == CallArgs(Tail(args)) IN
         Head(args) \o (IF rest = <<>> THEN <<>> ELSE <<",">> \o rest)

RECURSIVE NodeString(_)
NodeString(n) ==
    LET a == NodeString(n.kids[1])
        b == NodeString(n.kids[2])
    IN
    CASE n.k = "call" ->
           LET keep == SelectSeq([i \in DOMAIN n.kids |-> i], LAMBDA i : n.x.ins[i] = "void")
           IN <<n.x.name>> \o Paren(CallArgs([j \in DOMAIN keep |-> NodeString(n.kids[keep[j]])]))
      [] n.kids = <<>>             -> <<n.x>>
      [] n.k \in {"mref", "inspect"} -> a
      [] n.k \in DOMAIN CastToken  -> Paren(<<CastToken[n.k]>> \o a)
      [] n.k \in DOMAIN PrefixToken -> <<PrefixToken[n.k]>> \o Paren(a)
      [] n.k = "eq"                -> Paren(Paren(a) \o <<"==">> \o Paren(b))
      [] n.k \in ParenBinary       -> Paren(a) \o <<BinToken[n.k]>> \o Paren(b)
      [] n.k \in DOMAIN BinToken   -> a \o <<BinToken[n.k]>> \o b

(* node_string is called on the tree of a statement.                       *)
Emit ==
    /\ text = <<>>
    /\ text' = NodeString(tree)
    /\ UNCHANGED tree

Init == tree \in Trees(MaxDepth) /\ text = <<>>

Next == Emit

Spec == Init /\ [][Next]_vars

-----------------------------------------------------------------------------
(* How gcc reads the text.  A C tree is an operator and its operands; a   *)
(* call's operator is its name followed by "()".                           *)
C(op, kids) == [op |-> op, kids |-> kids]

(* Binding strength of the C binary operators (C11 6.5.5 to 6.5.12).     *)
Prec == [t \in {"*", "/", "%"} |-> 10] @@ [t \in {"+", "-"} |-> 9]
     @@ [t \in {"<<", ">>"} |-> 8] @@ [t \in {"<", ">"} |-> 7] @@ ("==" :> 6)
     @@ ("&" :> 5) @@ ("^" :> 4) @@ ("|" :> 3)

Tok(ts, i) == IF i \in DOMAIN ts THEN ts[i] ELSE "eof"

(* Each parser returns the tree read and the index of the next token.     *)
RECURSIVE ParseExpr(_, _, _), Climb(_, _, _), ParseUnary(_, _), ParseArgs(_, _, _)

(* Precedence climbing: operators binding at least min, left-associative. *)
ParseExpr(ts, i, min) == Climb(ts, ParseUnary(ts, i), min)

Climb(ts, lhs, min) ==
    LET op == Tok(ts, lhs.i) IN
    IF op \in DOMAIN Prec /\ Prec[op] >= min
    THEN LET rhs == ParseExpr(ts, lhs.i + 1, Prec[op] + 1)
         IN  Climb(ts, [t |-> C(op, <<lhs.t, rhs.t>>), i |-> rhs.i], min)
    ELSE lhs

(* A prefix operator or cast, a parenthesised expression, a call or a     *)
(* name or constant.                                                       *)
ParseUnary(ts, i) ==
    LET tok == Tok(ts, i) IN
    CASE tok \in {"-", "!", "~"} \cup Range(CastToken) ->
           LET r == ParseUnary(ts, i + 1) IN [t |-> C(tok, <<r.t>>), i |-> r.i]
      [] tok = "(" ->
           LET r == ParseExpr(ts, i + 1, 0) IN [t |-> r.t, i |-> r.i + 1]
      [] Tok(ts, i + 1) = "(" ->
           LET r == ParseArgs(ts, i + 2, <<>>) IN [t |-> C(tok \o "()", r.t), i |-> r.i]
      [] OTHER -> [t |-> C(tok, <<>>), i |-> i + 1]

ParseArgs(ts, i, args) ==
    IF Tok(ts, i) = ")" THEN [t |-> args, i |-> i + 1]
    ELSE LET r == ParseExpr(ts, i, 0) IN
         IF Tok(ts, r.i) = ","
         THEN ParseArgs(ts, r.i + 1, Append(args, r.t))
         ELSE [t |-> Append(args, r.t), i |-> r.i + 1]

(* The C tree of the whole text, or "unparsed" if tokens are left over.   *)
ReadC(ts) ==
    LET r == ParseExpr(ts, 1, 0) IN
    IF r.i = Len(ts) + 1 THEN r.t ELSE C("unparsed", <<>>)

(* The C expression with the node's CIL meaning: shr.un a logical shift  *)
(* right, not the bitwise complement, and a call passing the arguments     *)
(* the callee's C prototype declares, those of non-void type               *)
(* (add_method_inner).                                                     *)
RECURSIVE Meaning(_)
Meaning(n) ==
    CASE n.k = "call" ->
           LET keep == SelectSeq([i \in DOMAIN n.kids |-> i], LAMBDA i : n.x.ins[i] # "void")
           IN C(n.x.name \o "()", [j \in DOMAIN keep |-> Meaning(n.kids[keep[j]])])
      [] n.kids = <<>>                -> C(n.x, <<>>)
      [] n.k \in {"mref", "inspect"}  -> Meaning(n.kids[1])
      [] n.k \in DOMAIN CastToken     -> C(CastToken[n.k], <<Meaning(n.kids[1])>>)
      [] n.k = "neg"                  -> C("-", <<Meaning(n.kids[1])>>)
      [] n.k = "not"                  -> C("~", <<Meaning(n.kids[1])>>)
      [] OTHER -> C(IF n.k = "shrun" THEN ">>" ELSE BinToken[n.k],
                    <<Meaning(n.kids[1]), Meaning(n.kids[2])>>)

=============================================================================
