---------------------------- MODULE ContentStore ----------------------------
(***************************************************************************)
(* What content-addressed static placement promises, stated without the    *)
(* cctor, the init methods or the recursion: each compilation unit binds   *)
(* field names to contents, a name is bound once and its content never     *)
(* changes, and linking merges the units' bindings only where they agree,  *)
(* so one name stands for one content in the whole program.  Dead-code     *)
(* elimination may forget bindings of the linked program.                  *)
(*                                                                         *)
(* Linker refines this module: its store of a unit is the map from each   *)
(* placed static field to the content its initializer method builds.      *)
(***************************************************************************)
EXTENDS TLC

CONSTANTS
    Units,     \* compilation units
    Keys,      \* field names
    Values     \* contents a field can be initialised with

VARIABLES
    store,     \* store[u]: the bindings unit u has placed
    linked     \* the bindings of the linked program

vars == <<store, linked>>

(* Two binding maps give every name they share the same content.           *)
Agree(s, t) == \A k \in DOMAIN s \cap DOMAIN t : s[k] = t[k]

Init ==
    /\ store = [u \in Units |-> <<>>]
    /\ linked = <<>>

(* Unit u places name k with content v; placing it again with the same     *)
(* content is no change, with another content is not allowed.              *)
Put(u, k, v) ==
    /\ Agree(store[u], k :> v)
    /\ store' = [store EXCEPT ![u] = (k :> v) @@ @]
    /\ UNCHANGED linked

(* The linker merges unit u's bindings into the program's.                 *)
Link(u) ==
    /\ Agree(linked, store[u])
    /\ linked' = store[u] @@ linked
    /\ UNCHANGED store

(* Dead-code elimination drops some bindings of the linked program.        *)
Drop ==
    /\ \E keep \in SUBSET DOMAIN linked : linked' = [k \in keep |-> linked[k]]
    /\ UNCHANGED store

Next ==
    \/ \E u \in Units : \E k \in Keys, v \in Values : Put(u, k, v)
    \/ \E u \in Units : Link(u)
    \/ Drop

Spec == Init /\ [][Next]_vars
=============================================================================
