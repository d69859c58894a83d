----------------------------- MODULE Catalogue ------------------------------
(***************************************************************************)
(* The models an administrator keeps (service/modeladmin:                  *)
(* model_service.go, import_service.go; repository/model_repository.go;    *)
(* handler/model_handler.go, import_handler.go) and the one setting that   *)
(* names one of them, the vision fallback.                                 *)
(*                                                                         *)
(* Every request reads a row in one statement and writes it in another:    *)
(* a PATCH, a deletion and an import within a transaction, which under     *)
(* READ COMMITTED keeps nobody else out, the status switch and the setting *)
(* without one.  Of the columns a model declares, only its input           *)
(* modalities are kept: the others are filled and patched alike.           *)
(***************************************************************************)
EXTENDS Naturals, FiniteSets

CONSTANTS
    ModelNames,     \* public names of models
    ModelIds,       \* bound: models ever created, 1..n
    Editors         \* console requests in flight

ASSUME CatalogueAssumption == ModelIds \subseteq Nat \ {0}

Inputs == {"undeclared", "text", "image"}

VARIABLES
    table,      \* the models table
    fallback,   \* the vision fallback's model, "" when it is off
    saves       \* the requests; stale: history, the row changed since it was read

catalogue == <<table, fallback, saves>>

Unborn == [state |-> "unborn"]
Deleted == [state |-> "gone"]
NoSave == [step |-> "none"]

CatalogueInit ==
    /\ table = [id \in ModelIds |-> Unborn]
    /\ fallback = ""
    /\ saves = [e \in Editors |-> NoSave]

FindModelByID(id) == table[id].state = "kept"

FindModelByName(name) == {id \in ModelIds : FindModelByID(id) /\ table[id].name = name}

\* Ids are handed out in order, and never again.
NextIds(n) ==
    LET unborn == {id \in ModelIds : table[id] = Unborn} IN
    {id \in unborn : Cardinality({i \in unborn : i < id}) < n}

Row(name, inputs) == [state |-> "kept", name |-> name, on |-> TRUE, inputs |-> inputs]

\* A request has read a row, by its id or by its name.
Reading(e, step, id, name) ==
    /\ saves[e] = NoSave
    /\ saves' = [saves EXCEPT ![e] =
            [step |-> step, id |-> id, name |-> name, stale |-> FALSE,
             row |-> IF id = 0 THEN Unborn ELSE table[id]]]
    /\ UNCHANGED <<table, fallback>>

\* The request e ends; what others, of these kinds, read of its row is no longer so.
Overtaking(e, id, steps) ==
    saves' = [f \in Editors |->
        IF f = e THEN NoSave
        ELSE IF saves[f] # NoSave /\ saves[f].step \in steps
                /\ (saves[f].id = id \/ (FindModelByID(id) /\ table[id].name = saves[f].name))
             THEN [saves[f] EXCEPT !.stale = TRUE]
             ELSE saves[f]]

Finishing(e, id) == Overtaking(e, id, {"patch", "flip", "delete", "choose", "import"})

Leaving(e) ==
    /\ saves' = [saves EXCEPT ![e] = NoSave]
    /\ UNCHANGED <<table, fallback>>

(* Creating.                                                               *)

\* A name in use is refused, by the look-up or by the table's unique index.
CreateModel(name) ==
    /\ FindModelByName(name) = {}
    /\ \E id \in NextIds(1) : table' = [table EXCEPT ![id] = Row(name, "undeclared")]
    /\ UNCHANGED <<fallback, saves>>

\* One transaction: names in use are skipped; one claimed meanwhile undoes them all.
CreateModelsBatch(names) ==
    LET new == {name \in names : FindModelByName(name) = {}} IN
    /\ Cardinality(new) > 1
    /\ \E ids \in [new -> NextIds(Cardinality(new))] :
        /\ \A a, b \in new : ids[a] = ids[b] => a = b
        /\ table' = [id \in ModelIds |->
                        IF \E name \in new : ids[name] = id
                        THEN Row(CHOOSE name \in new : ids[name] = id, "undeclared")
                        ELSE table[id]]
    /\ UNCHANGED <<fallback, saves>>

(* Editing.                                                                *)

\* Name and status are always written, a declaration when it was submitted.
UpdateModelRow(id, name, on, inputs) ==
    IF ~FindModelByID(id) THEN table
    ELSE [table EXCEPT ![id] =
            [state |-> "kept", name |-> name, on |-> on,
             inputs |-> IF inputs = "keep" THEN @.inputs ELSE inputs]]

NameTaken(id, name) == FindModelByName(name) \ {id} # {}

RenameVisionFallbackModel(old, new) == IF fallback # "" /\ fallback = old THEN new ELSE fallback

PatchModel(e, id) == FindModelByID(id) /\ Reading(e, "patch", id, "")

\* The row's own status goes back in, and a rename follows into the setting.
UpdateModel(e, name, inputs) ==
    LET save == saves[e] IN
    /\ save.step = "patch"
    /\ IF FindModelByID(save.id) /\ NameTaken(save.id, name) THEN Leaving(e)
       ELSE /\ table' = UpdateModelRow(save.id, name, save.row.on, inputs)
            /\ fallback' = RenameVisionFallbackModel(save.row.name, name)
            /\ Finishing(e, save.id)

PatchModelStatus(e, id) == FindModelByID(id) /\ Reading(e, "flip", id, "")

\* It writes the name it read.
SetModelStatus(e, on) ==
    LET save == saves[e] IN
    /\ save.step = "flip"
    /\ IF FindModelByID(save.id) /\ NameTaken(save.id, save.row.name) THEN Leaving(e)
       ELSE /\ table' = UpdateModelRow(save.id, save.row.name, on, "keep")
            /\ Finishing(e, save.id)
            /\ UNCHANGED fallback

(* Deleting.                                                               *)

ClearVisionFallbackModel(name) == IF fallback = name THEN "" ELSE fallback

DeleteModelById(e, id) == FindModelByID(id) /\ Reading(e, "delete", id, "")

\* The row, and the setting where it names what was read.
DeleteModelCascade(e) ==
    LET save == saves[e] IN
    /\ save.step = "delete"
    /\ table' = [table EXCEPT ![save.id] = Deleted]
    /\ fallback' = ClearVisionFallbackModel(save.row.name)
    /\ IF FindModelByID(save.id) THEN Finishing(e, save.id)
       ELSE saves' = [saves EXCEPT ![e] = NoSave]

(* The setting.                                                            *)

ChooseFallback(e, name) == FindModelByName(name) # {} /\ Reading(e, "choose", 0, name)

\* Refused when its version has moved on.  A rename and a deletion that reached the
\* setting moved it; the model may have gone without.
SaveFallback(e) ==
    /\ saves[e].step = "choose"
    /\ \/ Leaving(e)
       \/ /\ fallback' = saves[e].name
          /\ saves' = [saves EXCEPT ![e] = NoSave]
          /\ UNCHANGED table

(* Importing.                                                              *)

PostProviderModelsImport(e, name) ==
    \E id \in IF FindModelByName(name) = {} THEN {0} ELSE FindModelByName(name) :
        Reading(e, "import", id, name)

\* A declaration contradicts what the model was read to declare.
adjudicateCapabilities(row, declared) ==
    declared # "undeclared" /\ row.inputs \notin {"undeclared", declared}

\* Mutant: the import writes the row it read, as the PATCH does.
FillWholeRow(id, row, declared) == UpdateModelRow(id, row.name, row.on, declared)

\* The columns the import adjudicated, and no others.
UpdateModelCapabilityFill(id, row, declared) ==
    IF ~FindModelByID(id) THEN table ELSE [table EXCEPT ![id].inputs = declared]

\* A name claimed since the batch looked it up undoes the batch, which is run again.
ImportProviderModels(e) ==
    LET again == FindModelByName(saves[e].name) IN
    /\ saves[e].step = "import" /\ saves[e].id = 0 /\ again # {}
    /\ \/ Leaving(e)
       \/ \E id \in again :
            /\ saves' = [saves EXCEPT ![e] = [@ EXCEPT !.id = id, !.row = table[id], !.stale = FALSE]]
            /\ UNCHANGED <<table, fallback>>

ImportCreates(e, declared) ==
    LET save == saves[e] IN
    /\ save.step = "import" /\ save.id = 0 /\ FindModelByName(save.name) = {}
    /\ \E id \in NextIds(1) : table' = [table EXCEPT ![id] = Row(save.name, declared)]
    /\ saves' = [saves EXCEPT ![e] = NoSave]
    /\ UNCHANGED fallback

\* What the model had not declared when it was read, it declares now.
ImportFills(e, declared) ==
    LET save == saves[e] IN
    /\ save.step = "import" /\ save.id # 0
    /\ IF declared = "undeclared" \/ adjudicateCapabilities(save.row, declared)
          \/ save.row.inputs = declared
          \/ ~FindModelByID(save.id)
       THEN Leaving(e)
       ELSE /\ table' = UpdateModelCapabilityFill(save.id, save.row, declared)
            /\ Overtaking(e, save.id, {"import"})
            /\ UNCHANGED fallback

CatalogueNext ==
    \/ \E name \in ModelNames : CreateModel(name)
    \/ \E names \in SUBSET ModelNames : CreateModelsBatch(names)
    \/ \E e \in Editors :
        \/ \E id \in ModelIds :
            PatchModel(e, id) \/ PatchModelStatus(e, id) \/ DeleteModelById(e, id)
        \/ \E name \in ModelNames :
            \/ ChooseFallback(e, name)
            \/ PostProviderModelsImport(e, name)
            \/ \E inputs \in Inputs \cup {"keep"} : UpdateModel(e, name, inputs)
        \/ \E on \in BOOLEAN : SetModelStatus(e, on)
        \/ DeleteModelCascade(e)
        \/ SaveFallback(e)
        \/ ImportProviderModels(e)
        \/ \E declared \in Inputs : ImportCreates(e, declared) \/ ImportFills(e, declared)

CatalogueSpec == CatalogueInit /\ [][CatalogueNext]_catalogue

(* Properties.                                                             *)

Ends(e, step) == saves[e] # NoSave /\ saves[e].step = step /\ saves'[e] = NoSave

Late(e, step) == Ends(e, step) /\ saves[e].stale

\* Unless it read the row before another edit of it: a column changes at the request
\* of an edit of that column, an import declares only what was not declared, and the
\* vision fallback goes on naming a model (UpdateModel, UpdateModelCapabilityFill,
\* RenameVisionFallbackModel, ClearVisionFallbackModel, SaveFallback).
EditsChangeWhatTheyAsk ==
    [][/\ \A id \in ModelIds : FindModelByID(id) /\ FindModelByID(id)' =>
            /\ table'[id].name # table[id].name =>
                \E e \in Editors : Ends(e, "patch") \/ Late(e, "flip")
            /\ table'[id].on # table[id].on =>
                \E e \in Editors : Ends(e, "flip") \/ Late(e, "patch")
            /\ table'[id].inputs # table[id].inputs =>
                \E e \in Editors :
                    \/ Ends(e, "patch") \/ Late(e, "import")
                    \/ Ends(e, "import") /\ table[id].inputs = "undeclared"
       /\ fallback # "" /\ FindModelByName(fallback) # {} =>
            \/ fallback' = ""
            \/ \E id \in ModelIds : FindModelByID(id)' /\ table'[id].name = fallback'
            \/ \E e \in Editors :
                Late(e, "patch") \/ Late(e, "flip") \/ Late(e, "delete") \/ Late(e, "choose")
      ]_catalogue

\* The status switch renames nothing: "a concurrent status flip or rename cannot slip
\* between read and write" (model_service.go, UpdateModel).
FlipsRenameNothing ==
    [][\A e \in Editors, id \in ModelIds :
        Ends(e, "flip") /\ FindModelByID(id) /\ FindModelByID(id)'
            => table'[id].name = table[id].name]_catalogue
=============================================================================
