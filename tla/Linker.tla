------------------------------- MODULE Linker -------------------------------
(***************************************************************************)
(* The module/assembly linker of rustc_codegen_clr (src/src/assembly.rs   *)
(* and the driver of src/src/bin/linker/main.rs).                          *)
(*                                                                         *)
(* Each compilation unit builds its own Assembly: functions are added      *)
(* (add_fn), their global-allocation placeholders are resolved into        *)
(* content-addressed static fields (add_allocation, recursively through    *)
(* pointer relocations, and add_const_value), each placed field gets an    *)
(* initializer method and a SetStaticField statement in the unit's         *)
(* static initializer (.cctor).  The linker then joins the units, patches  *)
(* missing call targets (autopatch), adds its mandatory statics and        *)
(* removes dead code.                                                      *)
(*                                                                         *)
(* Data is abstracted to what the properties tell apart: a method is the   *)
(* set of call sites and static fields it references, the constant         *)
(* contents it was compiled against, and (for the .cctor) its statement    *)
(* list.  The recursion of add_allocation is kept as an explicit stack of  *)
(* frames, because its termination and its order are what can go wrong.   *)
(***************************************************************************)
EXTENDS Naturals, Sequences, SequencesExt, FiniteSets, Functions, TLC

CONSTANTS
    Units,       \* compilation units (one rustc invocation each)
    Fns,         \* source functions, as call sites without an owning class
    LibcFns,     \* functions resolved by native passthrough/libc (autopatch)
    Allocs,      \* rustc allocation ids; NOT unique across units
    Consts,      \* scalar constants placed by add_const_value
    Bytes,       \* abstract byte contents of an allocation
    None,        \* the absent value (Option::None)
    Items,       \* Items[u]: the mono items unit u lowers
    FnCalls,     \* FnCalls[u][f]: functions f calls, in unit u
    FnRefs,      \* FnRefs[u][f]: global-allocation placeholders in f, in tree order
    AllocTable,  \* AllocTable[u][a]: [bytes, ptrs] of allocation a in unit u
    PanicFns,    \* functions whose add_fn panics (caught by checked_add_fn)
    ItemAllocs,  \* ItemAllocs[u][a]: the fresh id reserve_and_set_memory_alloc gives
                 \* static item a's initializer in unit u
    Statics,     \* Statics[s]: the alloc ids that stand for static s in some unit
    IsLib        \* the linker's output is a .dll/.so/.o: no dead-code elimination

VARIABLES
    asm,      \* asm[u]: the Assembly unit u is building
    todo,     \* todo[u]: mono items unit u has not lowered yet
    stack,    \* stack[u]: frames of unit u's add_fn / add_allocation recursion
    linked,   \* the linker's final assembly
    loaded,   \* units the linker has joined into `linked`
    lpc       \* where the linker's main() is

vars == <<asm, todo, stack, linked, loaded, lpc>>

-----------------------------------------------------------------------------
(* Call sites and static field descriptors, compared by value.             *)

Site(k, f, fld) == [k |-> k, f |-> f, fld |-> fld]
FnSite(f)    == Site("fn", f, None)
CctorSite    == Site("cctor", None, None)
EntrySite    == Site("entry", None, None)
MallocSite   == Site("malloc", None, None)
AllocFnSite  == Site("rust_alloc", None, None)
InitSite(fld) == Site("init", None, fld)

(* alloc_{alloc_id:x}_{byte_hash:x}: the id and a hash of the bytes only.  *)
AllocField(u, a) == [k |-> "alloc", id |-> a, h |-> AllocTable[u][a].bytes]

(* a_{bytes:x} *)
ConstField(c) == [k |-> "const", id |-> c, h |-> c]
(* the three statics add_mandatory_statics declares, folded into one *)
MandatoryField == [k |-> "mandatory", id |-> None, h |-> None]

FieldOf(u, r) == IF r.k = "alloc" THEN AllocField(u, r.id) ELSE ConstField(r.id)

(* The content the initializer of r's field builds in unit u.            *)
ContentOf(u, r) ==
    IF r.k = "alloc"
    THEN [bytes |-> AllocTable[u][r.id].bytes,
          ptrs  |-> [i \in DOMAIN AllocTable[u][r.id].ptrs |->
                        AllocField(u, AllocTable[u][r.id].ptrs[i])]]
    ELSE [bytes |-> r.id, ptrs |-> <<>>]

Ret          == [op |-> "ret", fld |-> None, site |-> None]
Nop          == [op |-> "nop", fld |-> None, site |-> None]
SetStatic(fld) == [op |-> "set", fld |-> fld, site |-> InitSite(fld)]

(* Variant of the contains_key check that never finds the field.          *)
PlacedNever(a, fld) == FALSE

(* static_fields.contains_key(&alloc_fld)                                  *)
Placed(a, fld) == fld \in a.statics

Method(calls, sflds, content, body) ==
    [calls |-> calls, sflds |-> sflds, content |-> content, body |-> body]

(* Method::calls and Method::sflds: what a body references.                *)
Calls(m) == m.calls \cup {st.site : st \in {s \in Range(m.body) : s.op = "set"}}
Sflds(m) == m.sflds \cup {st.fld : st \in {s \in Range(m.body) : s.op = "set"}}

-----------------------------------------------------------------------------
(* Assembly operations.                                                    *)

(* Assembly::empty: two extern refs (not modelled) and add_cctor.          *)
EmptyAssembly ==
    [fns     |-> [s \in {CctorSite} |-> Method({}, {}, None, <<Ret>>)],
     statics |-> {},
     entry   |-> None,
     externs |-> {}]

(* functions.insert(site, method)                                          *)
WithFn(a, s, m) == [a EXCEPT !.fns = (s :> m) @@ @]

(* Assembly::add_method; allocate_temporaries leaves these sites alone.    *)
AddMethod(a, s, m) == WithFn(a, s, m)

(* Variant that puts the initializer in front of the existing statements. *)
CctorWithInitFirst(body, fld) == <<SetStatic(fld)>> \o body

(* The cctor edit of add_allocation / add_const_value: pop the return,     *)
(* append the SetStaticField, push the return again.                       *)
CctorWithInit(body, fld) == Front(body) \o <<SetStatic(fld), Last(body)>>

(* The common tail of add_allocation and add_const_value once the          *)
(* initializer method is built: edit the cctor, add_method, add_static.    *)
PlaceField(a, fld, init) ==
    LET cctor == a.fns[CctorSite]
        a1 == WithFn(a, CctorSite,
                     [cctor EXCEPT !.body = CctorWithInit(cctor.body, fld)])
        a2 == AddMethod(a1, InitSite(fld), init)
    IN  [a2 EXCEPT !.statics = @ \cup {fld}]

(* Assembly::add_const_value: a 16-byte malloc'ed buffer, no relocations.  *)
AddConstValue(a, c) ==
    IF Placed(a, ConstField(c)) THEN a
    ELSE PlaceField(a, ConstField(c),
            Method({MallocSite}, {}, ContentOf(None, [k |-> "const", id |-> c]), <<Ret>>))

(* The method allocation_initializer_method builds for allocation a of u:  *)
(* it calls the allocator and reads the static fields of its relocations.  *)
AllocInit(u, a) ==
    LET r == [k |-> "alloc", id |-> a]
        kids == {[k |-> "alloc", id |-> p] : p \in Range(AllocTable[u][a].ptrs)}
    IN  Method({AllocFnSite}, {FieldOf(u, q) : q \in kids}, ContentOf(u, r), <<Ret>>)

(* Variant that keeps A's return in the middle of the merged block.        *)
LinkStaticInitializersKeepRet(ma, mb) == [ma EXCEPT !.body = ma.body \o mb.body]

(* link_static_initializers: A's statements minus its return, then B's.    *)
LinkStaticInitializers(ma, mb) == [ma EXCEPT !.body = Front(ma.body) \o mb.body]

(* Assembly::join                                                          *)
Join(a, b) ==
    [fns     |-> [s \in {CctorSite} |->
                     LinkStaticInitializers(a.fns[CctorSite], b.fns[CctorSite])]
                 @@ b.fns @@ a.fns,
     statics |-> a.statics \cup b.statics,
     entry   |-> IF a.entry # None THEN a.entry ELSE b.entry,
     externs |-> a.externs \cup b.externs]

(* Variant that stops after the first round of the worklist.              *)
DeadFnOneRound(fns, alive, resurecting, toResurect) ==
    alive \cup resurecting \cup toResurect

(* Assembly::eliminate_dead_fn, its worklist loop translated as it is.     *)
RECURSIVE DeadFnLoop(_, _, _, _)
DeadFnLoop(fns, alive, resurecting, toResurect) ==
    IF toResurect = {} THEN alive \cup resurecting
    ELSE LET alive2 == alive \cup resurecting
             calls  == UNION {Calls(fns[s]) : s \in toResurect}
         IN  DeadFnLoop(fns, alive2, toResurect,
                        {c \in calls \cap DOMAIN fns : c \notin alive2 \cup toResurect})

(* get_exported_fn: the entrypoint and the cctor.                          *)
Exported(a) == ({a.entry} \cup {CctorSite}) \cap DOMAIN a.fns

EliminateDeadFn(a) ==
    [a EXCEPT !.fns = Restrict(@, DeadFnLoop(@, {}, {}, Exported(a)))]

(* Assembly::remove_dead_statics                                           *)
RemoveDeadStatics(a) ==
    LET alive == UNION {Sflds(a.fns[s]) : s \in DOMAIN a.fns \ {CctorSite}}
        cctor == a.fns[CctorSite]
        body2 == [i \in DOMAIN cctor.body |->
                    IF cctor.body[i].op = "set" /\ cctor.body[i].fld \notin alive
                    THEN Nop ELSE cctor.body[i]]
    IN  [a EXCEPT !.statics = {f \in @ : f \in alive},
                  !.fns = [@ EXCEPT ![CctorSite] = [cctor EXCEPT !.body = body2]]]

(* Variant without the second eliminate_dead_fn.                          *)
EliminateDeadCodeOnce(a) == RemoveDeadStatics(EliminateDeadFn(a))

(* Assembly::eliminate_dead_code (DEAD_CODE_ELIMINATION set)              *)
EliminateDeadCode(a) == EliminateDeadFn(RemoveDeadStatics(EliminateDeadFn(a)))

(* patch_missing_method: a method whose only statement throws.           *)
MissingMethodStub == Method({}, {}, None, <<>>)

(* override_malloc / override_free / override_realloc: a method returning  *)
(* the result of a Marshal call, a class-qualified site nothing tracks.    *)
Override == Method({}, {}, None, <<Ret>>)

(* autopatch in bin/linker/main.rs: every static, class-less call site    *)
(* without a definition becomes, in this order of tests, an override (by  *)
(* name), an extern, or a stub that throws.                                *)
Autopatch(a) ==
    LET missing == UNION {Calls(a.fns[s]) : s \in DOMAIN a.fns} \ DOMAIN a.fns
        over    == {s \in missing : s = MallocSite}
        ext     == {s \in missing \ over : s = AllocFnSite \/ (s.k = "fn" /\ s.f \in LibcFns)}
        stubs   == missing \ (over \cup ext)
    IN  [a EXCEPT !.externs = @ \cup ext,
                  !.fns = [s \in over |-> Override] @@ [s \in stubs |-> MissingMethodStub] @@ @]

(* add_mandatory_statics                                                   *)
AddMandatoryStatics(a) == [a EXCEPT !.statics = @ \cup {MandatoryField}]

-----------------------------------------------------------------------------
(* The per-unit compilation: Assembly::add_item and set_entrypoint.        *)

AllocRef(a) == [k |-> "alloc", id |-> a]

(* A frame of the recursion: the item being lowered and the placeholders *)
(* (alloc ids / constants) it still has to resolve, in tree order.        *)
Frame(kind, x, refs) == [kind |-> kind, x |-> x, refs |-> refs]
FnFrame(u, f)    == Frame("fn", f, FnRefs[u][f])
AllocFrame(u, a) == Frame("alloc", a, [i \in DOMAIN AllocTable[u][a].ptrs |->
                                          AllocRef(AllocTable[u][a].ptrs[i])])

(* The method add_fn builds for f: its calls, and the static fields its    *)
(* LoadGlobalAllocPtr / PointerToConstValue nodes were resolved to.        *)
FnMethod(u, f) ==
    LET refs == Range(FnRefs[u][f])
    IN  Method({FnSite(g) : g \in FnCalls[u][f]}, {FieldOf(u, r) : r \in refs}, None, <<Ret>>)

(* entrypoint::wrapper: a method at the wrapper site that calls f.         *)
EntryWrapper(f) == Method({FnSite(f)}, {}, None, <<Ret>>)

Idle(u) == stack[u] = <<>>

(* add_item(MonoItem::Fn) -> checked_add_fn -> add_fn: lowering starts;    *)
(* the placeholders are resolved by Resolve, the method added by Finish.   *)
StartFn(u, f) ==
    /\ Idle(u)
    /\ [k |-> "fn", x |-> f] \in todo[u]
    /\ todo' = [todo EXCEPT ![u] = @ \ {[k |-> "fn", x |-> f]}]
    /\ stack' = [stack EXCEPT ![u] = <<FnFrame(u, f)>>]
    /\ UNCHANGED <<asm, linked, loaded, lpc>>

(* add_item(MonoItem::Static): eval_static_initializer, then              *)
(* reserve_and_set_memory_alloc gives the allocation a fresh id, and       *)
(* add_allocation places it under that id.                                 *)
StartStatic(u, a) ==
    LET id == ItemAllocs[u][a] IN
    /\ Idle(u)
    /\ [k |-> "static", x |-> a] \in todo[u]
    /\ todo' = [todo EXCEPT ![u] = @ \ {[k |-> "static", x |-> a]}]
    /\ stack' = [stack EXCEPT ![u] = IF Placed(asm[u], AllocField(u, id)) THEN <<>>
                                      ELSE <<AllocFrame(u, id)>>]
    /\ UNCHANGED <<asm, linked, loaded, lpc>>

(* Assembly::set_entrypoint: asserts no entrypoint yet, adds the wrapper.  *)
SetEntrypoint(u, f) ==
    /\ Idle(u)
    /\ [k |-> "entry", x |-> f] \in todo[u]
    /\ asm[u].entry = None
    /\ todo' = [todo EXCEPT ![u] = @ \ {[k |-> "entry", x |-> f]}]
    /\ asm' = [asm EXCEPT ![u] = AddMethod([@ EXCEPT !.entry = EntrySite],
                                           EntrySite, EntryWrapper(f))]
    /\ UNCHANGED <<stack, linked, loaded, lpc>>

(* One placeholder of the top frame: add_const_value, or add_allocation,   *)
(* which returns at once when the field exists and otherwise recurses      *)
(* (allocation_initializer_method -> add_allocation) BEFORE inserting it.  *)
Resolve(u) ==
    LET top == Last(stack[u])
        r   == Head(top.refs)
        rest == Front(stack[u]) \o <<[top EXCEPT !.refs = Tail(@)]>>
    IN
    /\ stack[u] # <<>>
    /\ top.refs # <<>>
    /\ \/ /\ r.k = "const"
          /\ asm' = [asm EXCEPT ![u] = AddConstValue(@, r.id)]
          /\ stack' = [stack EXCEPT ![u] = rest]
       \/ /\ r.k = "alloc"
          /\ Placed(asm[u], AllocField(u, r.id))
          /\ stack' = [stack EXCEPT ![u] = rest]
          /\ UNCHANGED asm
       \/ /\ r.k = "alloc"
          /\ ~Placed(asm[u], AllocField(u, r.id))
          /\ stack' = [stack EXCEPT ![u] = rest \o <<AllocFrame(u, r.id)>>]
          /\ UNCHANGED asm
    /\ UNCHANGED <<todo, linked, loaded, lpc>>

(* The top frame has no placeholder left: add_fn ends with add_method;     *)
(* add_allocation edits the cctor, adds the init method and the static.    *)
Finish(u) ==
    LET top == Last(stack[u]) IN
    /\ stack[u] # <<>>
    /\ top.refs = <<>>
    /\ asm' = [asm EXCEPT ![u] =
                 IF top.kind = "fn" THEN AddMethod(@, FnSite(top.x), FnMethod(u, top.x))
                 ELSE PlaceField(@, AllocField(u, top.x), AllocInit(u, top.x))]
    /\ stack' = [stack EXCEPT ![u] = Front(@)]
    /\ UNCHANGED <<todo, linked, loaded, lpc>>

(* add_fn panics; checked_add_fn catches it, calls recover_from_panic and  *)
(* returns Ok(()) without a method.  Placements already finished stay.     *)
PanicFn(u) ==
    /\ stack[u] # <<>>
    /\ stack[u][1].kind = "fn"
    /\ stack[u][1].x \in PanicFns
    /\ stack' = [stack EXCEPT ![u] = <<>>]
    /\ UNCHANGED <<asm, todo, linked, loaded, lpc>>

-----------------------------------------------------------------------------
(* The linker's main(): load (join), autopatch, mandatory statics, DCE.    *)

Compiled(u) == todo[u] = {} /\ Idle(u)

Load(u) ==
    /\ lpc = "load"
    /\ u \notin loaded
    /\ Compiled(u)
    /\ linked' = IF loaded = {} THEN asm[u] ELSE Join(linked, asm[u])
    /\ loaded' = loaded \cup {u}
    /\ UNCHANGED <<asm, todo, stack, lpc>>

AutopatchStep ==
    /\ lpc = "load"
    /\ loaded = Units
    /\ linked' = Autopatch(linked)
    /\ lpc' = "mandatory"
    /\ UNCHANGED <<asm, todo, stack, loaded>>

MandatoryStep ==
    /\ lpc = "mandatory"
    /\ linked' = AddMandatoryStatics(linked)
    /\ lpc' = "dce"
    /\ UNCHANGED <<asm, todo, stack, loaded>>

DceStep ==
    /\ lpc = "dce"
    /\ linked' = IF IsLib THEN linked ELSE EliminateDeadCode(linked)
    /\ lpc' = "done"
    /\ UNCHANGED <<asm, todo, stack, loaded>>

Init ==
    /\ asm = [u \in Units |-> EmptyAssembly]
    /\ todo = Items
    /\ stack = [u \in Units |-> <<>>]
    /\ linked = EmptyAssembly
    /\ loaded = {}
    /\ lpc = "load"

Next ==
    \/ \E u \in Units :
          \/ \E f \in Fns : StartFn(u, f) \/ SetEntrypoint(u, f)
          \/ \E a \in Allocs : StartStatic(u, a)
          \/ Resolve(u) \/ Finish(u) \/ PanicFn(u) \/ Load(u)
    \/ AutopatchStep \/ MandatoryStep \/ DceStep

Spec == Init /\ [][Next]_vars /\ WF_vars(Next)

-----------------------------------------------------------------------------
(* Properties.                                                             *)

Assemblies == {asm[u] : u \in Units} \cup {linked}

(* Every SetStaticField of a static initializer calls an init method that  *)
(* reads only fields an earlier statement of the same cctor has set: the   *)
(* order add_allocation's recursion (children first), the pop/push of the  *)
(* return, link_static_initializers and remove_dead_statics produce.       *)
InitBeforeUse ==
    \A a \in Assemblies :
      LET body == a.fns[CctorSite].body IN
      \A i \in DOMAIN body :
        body[i].op = "set" /\ body[i].site \in DOMAIN a.fns =>
          \A g \in a.fns[body[i].site].sflds :
            \E j \in 1 .. i - 1 : body[j].op = "set" /\ body[j].fld = g

(* A static initializer has a single return, and it is its last statement: *)
(* add_allocation re-pushes the popped return, link_static_initializers    *)
(* drops A's return so that B's statements still run.                      *)
CctorReturnsLast ==
    \A a \in Assemblies :
      LET body == a.fns[CctorSite].body IN
      /\ body # <<>>
      /\ \A i \in DOMAIN body : body[i].op = "ret" <=> i = Len(body)

(* Within one unit, add_allocation's contains_key check makes placement    *)
(* idempotent: no field gets two initializing statements in the cctor.     *)
PlacementIdempotent ==
    \A u \in Units :
      LET body == asm[u].fns[CctorSite].body IN
      \A i, j \in DOMAIN body :
        body[i].op = "set" /\ body[j].op = "set" /\ body[i].fld = body[j].fld => i = j

(* After autopatch (and after dead-code elimination) every class-less call *)
(* site of every method is defined or an extern: DCE keeps what is called. *)
NoDanglingCalls ==
    lpc # "load" =>
      \A s \in DOMAIN linked.fns :
        Calls(linked.fns[s]) \subseteq DOMAIN linked.fns \cup linked.externs

(* The functions dead-code elimination keeps are reachable from the        *)
(* exported ones (entrypoint, cctor): the initializers of statics that     *)
(* remove_dead_statics dropped are gone too.                               *)
RECURSIVE CallClosure(_, _)
CallClosure(fns, S) ==
    LET N == S \cup UNION {Calls(fns[s]) \cap DOMAIN fns : s \in S}
    IN  IF N = S THEN S ELSE CallClosure(fns, N)
DeadCodeRemoved ==
    lpc = "done" /\ ~IsLib =>
      DOMAIN linked.fns \subseteq CallClosure(linked.fns, Exported(linked))

(* add_allocation never re-enters itself for a field it is still placing:  *)
(* the contains_key check runs before allocation_initializer_method        *)
(* recurses into the relocations, and the field is inserted only after, so *)
(* a static that points to itself (or a cycle of them) recurses until the  *)
(* stack overflows.                                                        *)
NoReentrantPlacement ==
    \A u \in Units : \A i, j \in DOMAIN stack[u] :
      /\ stack[u][i].kind = "alloc" /\ stack[u][j].kind = "alloc"
      /\ stack[u][i].x = stack[u][j].x
      => i = j

(* The fields of static s that some method other than the cctor reads.    *)
ReadStorage(a, s) ==
    {f \in a.statics : /\ f.k = "alloc" /\ f.id \in Statics[s]
                       /\ \E site \in DOMAIN a.fns \ {CctorSite} :
                             /\ site # InitSite(f)
                             /\ f \in Sflds(a.fns[site])}

(* A static is one storage location: every method of the linked program    *)
(* that reads static s reads the same field, so a write through one        *)
(* reader is seen by the others.  Readers reach s through                  *)
(* GlobalAlloc::Static, whose alloc id belongs to the unit's session.      *)
StaticStorageShared ==
    \A s \in DOMAIN Statics : Cardinality(ReadStorage(linked, s)) <= 1

-----------------------------------------------------------------------------
(* Refinement of ContentStore.  A unit's (and the linked program's) store  *)
(* is its set of placed static fields, each mapped to the content its      *)
(* initializer method builds; the mandatory statics have no initializer.   *)
PlacedContent(a) ==
    [f \in {x \in a.statics : x.k # "mandatory"} |-> a.fns[InitSite(f)].content]

AllRefs == {AllocRef(a) : a \in Allocs} \cup {[k |-> "const", id |-> c] : c \in Consts}

Store == INSTANCE ContentStore WITH
    store  <- [u \in Units |-> PlacedContent(asm[u])],
    linked <- PlacedContent(linked),
    Keys   <- {FieldOf(u, r) : u \in Units, r \in AllRefs},
    Values <- {ContentOf(u, r) : u \in Units, r \in AllRefs}

(* Per-unit placement and join implement a content-addressed store: every *)
(* step of add_allocation / add_const_value binds at most one new field    *)
(* name and never rebinds one, join (functions.extend) only merges units   *)
(* that agree on every shared name, and DCE only forgets bindings.         *)
PlacementRefinesStore == Store!Spec
=============================================================================
