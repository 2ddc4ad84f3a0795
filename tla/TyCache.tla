------------------------------- MODULE TyCache -------------------------------
(***************************************************************************)
(* TyCache::adt (src/src/type/tycache.rs): the type definition of an ADT   *)
(* is built once and cached by name.  While it is built its name is on     *)
(* cycle_prevention, so that a field of a type that (indirectly) contains  *)
(* it returns a reference by name instead of recursing forever.  Building  *)
(* the fields recurses through type_from_cache -> adt.  Any panic while a  *)
(* function is compiled is caught (checked_add_fn, statement_to_ops,       *)
(* terminator_to_ops), and the cache is then repaired by                   *)
(* recover_from_panic.                                                     *)
(***************************************************************************)
EXTENDS Naturals, Sequences, SequencesExt

CONSTANTS
    Types,      \* ADT names
    Fields,     \* Fields[t]: the ADT-typed fields of t, in declaration order
    PanicTypes, \* building these panics (a field type or layout_of fails)
    Fns,        \* functions of the unit
    FnTypes,    \* FnTypes[f]: the ADTs add_fn asks for on f, in order
    SigLen,     \* SigLen[f]: how many of them sig_from_instance_ asks for (ret, then args)
    AbiPanics,  \* functions whose calling convention or ABI sig_from_instance_ rejects
    MaxStack,   \* frames of adt the thread's stack holds (its overflow aborts rustc)
    None

VARIABLES
    cache,      \* names in type_def_cache
    guard,      \* cycle_prevention
    frames,     \* the adt calls in progress: [t, next field index]
    todo,       \* functions not compiled yet
    cur         \* [f, i]: the function being compiled and its next request

vars == <<cache, guard, frames, todo, cur>>

Frame(t) == [t |-> t, i |-> 1]

(* The first checks of adt(): a cached type, or one being built, is        *)
(* returned as a reference by name.                                        *)
Known(t) == t \in cache \/ t \in Range(guard)

Init ==
    /\ cache = {}
    /\ guard = <<>>
    /\ frames = <<>>
    /\ todo = Fns
    /\ cur = None

(* add_fn starts on f.                                                     *)
StartFn(f) ==
    /\ cur = None
    /\ f \in todo
    /\ todo' = todo \ {f}
    /\ cur' = [f |-> f, i |-> 1]
    /\ UNCHANGED <<cache, guard, frames>>

(* The next statement of f asks type_from_cache for an ADT: adt() returns  *)
(* a known one as a reference, and builds any other one.  The first       *)
(* SigLen[f] requests are sig_from_instance_'s; a rejected ABI panics      *)
(* right after them.                                                       *)
Request ==
    LET t == FnTypes[cur.f][cur.i] IN
    /\ cur # None
    /\ frames = <<>>
    /\ cur.i <= Len(FnTypes[cur.f])
    /\ cur.f \in AbiPanics => cur.i <= SigLen[cur.f]
    /\ cur' = [cur EXCEPT !.i = @ + 1]
    /\ \/ /\ Known(t)
          /\ UNCHANGED <<guard, frames>>
       \/ /\ ~Known(t)
          /\ guard' = Append(guard, t)
          /\ frames' = <<Frame(t)>>
    /\ UNCHANGED <<cache, todo>>

(* add_fn is done with f.                                                  *)
EndFn ==
    /\ cur # None
    /\ frames = <<>>
    /\ cur.i > Len(FnTypes[cur.f])
    /\ cur.f \notin AbiPanics
    /\ cur' = None
    /\ UNCHANGED <<cache, guard, frames, todo>>

(* struct_/enum_/union_: the next field goes through type_from_cache; a    *)
(* field already known is a reference, any other one is built first.       *)
Field ==
    LET top == Last(frames)
        f   == Fields[top.t][top.i]
        up  == Front(frames) \o <<[top EXCEPT !.i = @ + 1]>>
    IN
    /\ frames # <<>>
    /\ top.i <= Len(Fields[top.t])
    /\ ~Known(f) => Len(frames) < MaxStack
    /\ \/ /\ Known(f)
          /\ frames' = up
          /\ UNCHANGED guard
       \/ /\ ~Known(f)
          /\ guard' = Append(guard, f)
          /\ frames' = up \o <<Frame(f)>>
    /\ UNCHANGED <<cache, todo, cur>>

(* All fields done: insert the definition, pop cycle_prevention.           *)
Built ==
    LET top == Last(frames) IN
    /\ frames # <<>>
    /\ top.i > Len(Fields[top.t])
    /\ top.t \notin PanicTypes
    /\ cache' = cache \cup {top.t}
    /\ guard' = Front(guard)
    /\ frames' = Front(frames)
    /\ UNCHANGED <<todo, cur>>

(* Variant of recover_from_panic that leaves cycle_prevention as it is.    *)
RecoverKeep(g) == g

(* recover_from_panic: cycle_prevention.clear()                            *)
RecoverFromPanic(g) == <<>>

(* The build of a type panics, before or after some of its fields.  In a  *)
(* statement, the lowering unwinds to statement_to_ops' catch_unwind,      *)
(* add_fn calls recover_from_panic, emits a throw and goes on with the     *)
(* next statement; in the signature, it unwinds out of add_fn to           *)
(* checked_add_fn, which calls recover_from_panic and drops the function.  *)
Panic ==
    /\ frames # <<>>
    /\ Last(frames).t \in PanicTypes
    /\ frames' = <<>>
    /\ guard' = RecoverFromPanic(guard)
    /\ cur' = IF cur.i - 1 <= SigLen[cur.f] THEN None ELSE cur
    /\ UNCHANGED <<cache, todo>>

(* sig_from_instance_ has asked for the ret and arg types, then meets a    *)
(* calling convention or ABI it does not support and panics; the panic     *)
(* unwinds out of add_fn to checked_add_fn, which calls recover_from_panic *)
(* and drops the function.  The types it asked for stay cached.           *)
AbiPanic ==
    /\ cur # None
    /\ frames = <<>>
    /\ cur.f \in AbiPanics
    /\ cur.i = SigLen[cur.f] + 1
    /\ cur' = None
    /\ guard' = RecoverFromPanic(guard)
    /\ UNCHANGED <<cache, frames, todo>>

Next == (\E f \in Fns : StartFn(f)) \/ Request \/ EndFn \/ AbiPanic \/ Field \/ Built \/ Panic

Spec == Init /\ [][Next]_vars

-----------------------------------------------------------------------------
(* Between two adt() calls, i.e. after a function compiled or panicked,    *)
(* cycle_prevention is empty: a name left there would make every later     *)
(* request of that type return a reference to a definition never built.    *)
NoStaleCycleGuard == frames = <<>> => guard = <<>>

(* Between two adt() calls every field type of a cached definition is      *)
(* cached too: the definitions exported with the assembly refer only to    *)
(* types that exist (a per-function failure leaves no dangling reference). *)
CacheClosed ==
    frames = <<>> => \A t \in cache : Range(Fields[t]) \subseteq cache
=============================================================================
