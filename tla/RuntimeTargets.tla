--------------------------- MODULE RuntimeTargets ---------------------------
(***************************************************************************)
(* The registry of runtime targets: one YAML file that every change reads, *)
(* edits in memory and writes back whole, without a lock between handlers. *)
(* A change gives some ids a URL, or takes them out (None).                *)
(***************************************************************************)
CONSTANTS
    TargetIds,
    Urls,          \* where a target may point, as far as the properties tell
    None

VARIABLES
    targets,       \* the file
    staleWrite     \* history: some change was written over a newer file

registryVars == <<targets, staleWrite>>

Registry == [TargetIds -> Urls \union {None}]

Registered(file) == {t \in TargetIds : file[t] # None}

(* Mutant: a deletion forgets the ids it was asked for. *)
ChangedKeepingAll(file, ids, url) ==
    IF url = None THEN file
    ELSE [t \in TargetIds |-> IF t \in ids THEN url ELSE file[t]]

Changed(file, ids, url) == [t \in TargetIds |-> IF t \in ids THEN url ELSE file[t]]

(* save always writes; delete and delete_many only when they took something out. *)
WriteBack(copy, ids, url) ==
    IF url = None /\ ids \intersect Registered(copy) = {}
    THEN UNCHANGED registryVars
    ELSE /\ targets' = Changed(copy, ids, url)
         /\ staleWrite' = (staleWrite \/ copy # targets)
=============================================================================
