------------------------------- MODULE Models -------------------------------
(***************************************************************************)
(* The names a request may ask for: resolve_model of engine.py, and the    *)
(* catalog GET /v1/models makes of the same names in models.py.            *)
(***************************************************************************)
EXTENDS Integers

CONSTANTS
    JevModels,     \* JEV_MODELS
    LayaModels,    \* LAYA_MODELS, the names of the checkpoints
    ModelNames,    \* what clients may write for `model`
    None           \* None: Laya's router chooses

ASSUME NamesDiffer    == JevModels \cap LayaModels = {} /\ None \notin LayaModels
ASSUME NamesAreWritten == JevModels \cup LayaModels \subseteq ModelNames

Accepted == JevModels \cup LayaModels

\* resolve_model of an accepted name.
ResolveModel(name) == IF name \in JevModels THEN None ELSE name

\* A slip: the aliases alone.
DescribeAliases == [name \in JevModels |-> None]
\* _DESCRIPTIONS: what is said to answer a request for each name.
Descriptions ==
    [name \in JevModels \cup LayaModels |-> IF name \in LayaModels THEN name ELSE None]

\* list_models, without the release date, which is the same for all.
ListModels ==
    {[name |-> name, description |-> Descriptions[name]] : name \in DOMAIN Descriptions}

=============================================================================
