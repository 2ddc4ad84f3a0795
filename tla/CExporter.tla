------------------------------ MODULE CExporter ------------------------------
(***************************************************************************)
(* The type definitions of CExporter (src/src/assembly_exporter/          *)
(* c_exporter.rs).  as_source writes every typedef name first, then the   *)
(* struct bodies in the order add_type wrote them, so a field that points  *)
(* to a type needs only its name, while a field held by value needs the    *)
(* struct body written before.  add_type therefore delays a type with a    *)
(* by-value field of a type not defined yet (delayed_typedefs), and every *)
(* time it defines one it retries all delayed types, recursively, in the  *)
(* HashMap's order.                                                        *)
(*                                                                         *)
(* A component module: its actions are conjoined by a module that gives   *)
(* the exporter its input (TypeExport).  The recursion of add_type is a   *)
(* stack of retry loops, each holding the clone of delayed_typedefs it     *)
(* still has to go through.                                                *)
(***************************************************************************)
EXTENDS Sequences, SequencesExt

CONSTANTS
    Types,      \* type definitions
    ByValue,    \* ByValue[t]: the types of t's fields that as_dotnet() gives with no asm
    Name        \* Name[t]: t.name(), a sequence of characters

VARIABLES
    pending,    \* types the export loop has not handed to add_type yet
    defined,    \* self.defined: escaped names
    delayed,    \* self.delayed_typedefs: the types waiting for a dependency
    retries,    \* the retry loops in progress, innermost last
    typeDefs    \* the types whose body type_defs holds, in the order written

exVars == <<pending, defined, delayed, retries, typeDefs>>

(* escape_type_name.  No replacement writes a character a later replace   *)
(* looks for, so the chain of replaces is one map over the characters.     *)
EscapeChar(c) ==
    CASE c \in {".", " "} -> <<"_">>
      [] c = "<" -> <<"l", "t">>
      [] c = ">" -> <<"g", "t">>
      [] c = "$" -> <<"d", "s">>
      [] c = "," -> <<"c", "m">>
      [] c = "{" -> <<"b", "s">>
      [] c = "}" -> <<"b", "e">>
      [] c = "+" -> <<"p", "s">>
      [] OTHER   -> <<c>>

Escape(s) == FlattenSeq([i \in DOMAIN s |-> EscapeChar(s[i])])

CName(t) == Escape(Name[t])

(* Variant that does not retry the delayed types after defining one.      *)
AddTypeNoRetry(t, rs) ==
    CASE CName(t) \in defined ->
           /\ retries' = rs
           /\ UNCHANGED <<defined, delayed, typeDefs>>
      [] \E d \in ByValue[t] : CName(d) \notin defined ->
           /\ delayed' = {x \in delayed : CName(x) # CName(t)} \cup {t}
           /\ retries' = rs
           /\ UNCHANGED <<defined, typeDefs>>
      [] OTHER ->
           /\ typeDefs' = Append(typeDefs, t)
           /\ defined' = defined \cup {CName(t)}
           /\ retries' = rs
           /\ UNCHANGED delayed

(* add_type(t), up to its recursive retries, with rs the retry loops it   *)
(* returns to.  A type whose escaped name is defined is skipped; one with *)
(* a by-value field whose type is not defined is put in delayed_typedefs  *)
(* under its name; any other is written out and defined, and the delayed  *)
(* types are moved to a new retry loop (clone, then clear).               *)
AddType(t, rs) ==
    CASE CName(t) \in defined ->
           /\ retries' = rs
           /\ UNCHANGED <<defined, delayed, typeDefs>>
      [] \E d \in ByValue[t] : CName(d) \notin defined ->
           /\ delayed' = {x \in delayed : CName(x) # CName(t)} \cup {t}
           /\ retries' = rs
           /\ UNCHANGED <<defined, typeDefs>>
      [] OTHER ->
           /\ typeDefs' = Append(typeDefs, t)
           /\ defined' = defined \cup {CName(t)}
           /\ retries' = Append(rs, delayed)
           /\ delayed' = {}

(* The export loop hands a type of the assembly to add_type, once no      *)
(* add_type is running.                                                    *)
ExportType(t) ==
    /\ retries = <<>>
    /\ t \in pending
    /\ pending' = pending \ {t}
    /\ AddType(t, <<>>)

(* The innermost retry loop calls add_type on its next delayed type.      *)
Retry(t) ==
    /\ retries # <<>>
    /\ t \in Last(retries)
    /\ AddType(t, [retries EXCEPT ![Len(retries)] = @ \ {t}])
    /\ UNCHANGED pending

(* The innermost retry loop is through its clone: its add_type returns.   *)
Return ==
    /\ retries # <<>>
    /\ Last(retries) = {}
    /\ retries' = Front(retries)
    /\ UNCHANGED <<pending, defined, delayed, typeDefs>>

ExportNext ==
    \/ \E t \in pending : ExportType(t)
    \/ \E t \in Types : Retry(t)
    \/ Return

(* Every type was handed to add_type and every add_type has returned.     *)
Exported == pending = {} /\ retries = <<>>
=============================================================================
