------------------------------ MODULE TypeExport ------------------------------
(***************************************************************************)
(* The type cache feeding the C exporter.  While the functions of a unit   *)
(* are compiled, TyCache builds and caches ADT definitions (TyCache); once *)
(* the unit is done, the definitions TyCache::defs yields become the       *)
(* assembly's types, and in C mode the exporter writes them out with       *)
(* add_type (CExporter).  A function whose lowering panicked leaves the    *)
(* cache as recover_from_panic left it, and the exporter gets what it      *)
(* holds.                                                                  *)
(***************************************************************************)
EXTENDS TyCache

CONSTANTS
    ByValue,    \* ByValue[t]: the ADT fields of t held by value (not behind a pointer)
    Name        \* Name[t]: the ADT's name, a sequence of characters

VARIABLES
    pending, defined, delayed, retries, typeDefs,   \* CExporter's state
    exporting   \* the unit is compiled and its types are being exported

X == INSTANCE CExporter

exVars == <<pending, defined, delayed, retries, typeDefs>>

allVars == <<vars, exVars, exporting>>

SysInit ==
    /\ Init
    /\ pending = {} /\ defined = {} /\ delayed = {} /\ retries = <<>> /\ typeDefs = <<>>
    /\ exporting = FALSE

(* TyCache::defs: every cached definition is added to the assembly, and    *)
(* the assembly is handed to the exporter.                                 *)
StartExport ==
    /\ ~exporting
    /\ todo = {} /\ cur = None
    /\ exporting' = TRUE
    /\ pending' = cache
    /\ UNCHANGED <<vars, defined, delayed, retries, typeDefs>>

(* Compilation and export follow each other on the one thread of the      *)
(* codegen: the cache's steps while the unit compiles, the exporter's      *)
(* steps after.                                                            *)
SysNext ==
    \/ Next /\ UNCHANGED <<exVars, exporting>>
    \/ StartExport
    \/ exporting /\ X!ExportNext /\ UNCHANGED <<vars, exporting>>

(* The codegen is one thread that goes on while it has something to do.   *)
SysSpec == SysInit /\ [][SysNext]_allVars /\ WF_allVars(SysNext)

-----------------------------------------------------------------------------
(* Every definition the cache holds when the unit is done eventually gets *)
(* its own body in the C source: a type delayed for a field is retried     *)
(* after the field's type is written, whatever order the types and the    *)
(* retries come in.                                                        *)
EveryCachedTypeExported ==
    <>(exporting /\ X!Exported /\ Range(typeDefs) = cache)
=============================================================================
