----------------------------- MODULE MC_Linker -----------------------------
(***************************************************************************)
(* Two compilation units and one link.  Unit u1 holds the entrypoint, a    *)
(* call chain fmain -> fa -> (u2's) fb, a dead function whose allocation   *)
(* a3 reaches a1 and a2 on two paths (a3 -> a1 -> a2, a3 -> a2), a static  *)
(* item a4 and a function whose lowering panics half way.  Unit u2 uses    *)
(* the same alloc id a1 for different bytes, shares a2 with u1, calls a    *)
(* libc function and a function no unit defines.                           *)
(***************************************************************************)
EXTENDS Linker

CONSTANTS u1, u2, fmain, fa, fb, fdead, fpanic, fext, fgone,
          a1, a2, a3, a4, a5, a6, c1, b1, b2

NoRefs == [f \in Fns |-> <<>>]
NoCalls == [f \in Fns |-> {}]
Alloc(bytes, ptrs) == [bytes |-> bytes, ptrs |-> ptrs]

MCItems ==
    u1 :> {[k |-> "entry", x |-> fmain], [k |-> "fn", x |-> fmain],
           [k |-> "fn", x |-> fa], [k |-> "fn", x |-> fdead],
           [k |-> "fn", x |-> fpanic], [k |-> "static", x |-> a4]}
 @@ u2 :> {[k |-> "fn", x |-> fb]}

MCFnCalls ==
    u1 :> ((fmain :> {fa}) @@ (fa :> {fb}) @@ (fdead :> {fext}) @@ NoCalls)
 @@ u2 :> ((fb :> {fext, fgone}) @@ NoCalls)

MCFnRefs ==
    u1 :> ((fmain :> <<AllocRef(a1)>>) @@ (fa :> <<[k |-> "const", id |-> c1]>>)
           @@ (fdead :> <<AllocRef(a3)>>) @@ (fpanic :> <<AllocRef(a2), AllocRef(a1)>>)
           @@ NoRefs)
 @@ u2 :> ((fb :> <<AllocRef(a1), AllocRef(a2), [k |-> "const", id |-> c1]>>) @@ NoRefs)

MCAllocTable ==
    u1 :> (a1 :> Alloc(b1, <<a2>>) @@ a2 :> Alloc(b2, <<>>)
           @@ a3 :> Alloc(b1, <<a1, a2>>) @@ a4 :> Alloc(b2, <<a2>>)
           @@ a5 :> Alloc(b2, <<a2>>) @@ a6 :> Alloc(b1, <<>>))
 @@ u2 :> (a1 :> Alloc(b2, <<>>) @@ a2 :> Alloc(b2, <<>>)
           @@ a3 :> Alloc(b1, <<>>) @@ a4 :> Alloc(b1, <<>>)
           @@ a5 :> Alloc(b1, <<>>) @@ a6 :> Alloc(b2, <<a2>>))

(* The static item a4 of u1 (a static S) gets the fresh id a5 in add_item; *)
(* a4 is S's GlobalAlloc::Static id in u1's session, a6 in u2's.           *)
MCItemAllocs == [u \in Units |-> [a \in Allocs |-> IF a = a4 THEN a5 ELSE a]]
MCStatics == "S" :> {a4, a5, a6}

(* fa of u1 and fb of u2 both read the static S.                           *)
MCStaticUseFnRefs ==
    [MCFnRefs EXCEPT ![u1][fa] = Append(@, AllocRef(a4)),
                     ![u2][fb] = Append(@, AllocRef(a6))]

(* Unit u1's a1 points to itself, as `static S: Node = Node { next: &S }`. *)
MCCyclicAllocTable ==
    [MCAllocTable EXCEPT ![u1][a1] = Alloc(b1, <<a1>>)]
(* Unit u2's a1 has u1's bytes but no relocation: the field name          *)
(* alloc_{a1}_{hash(b1)} is the same in both units, the contents differ.   *)
MCCollisionAllocTable ==
    [MCAllocTable EXCEPT ![u2][a1] = Alloc(b1, <<>>)]
=============================================================================
