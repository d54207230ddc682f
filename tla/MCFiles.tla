------------------------------ MODULE MCFiles ------------------------------
(***************************************************************************)
(* The parts that keep files beside the Library: its relocation, the Model *)
(* Store, local media, exports, archives and the media cache, the catalogs *)
(* of the Sources and the clean-up of the application's data.  `which'     *)
(* says which part moves: each is checked for itself, and the modules are  *)
(* extended, so that the run checks the properties themselves.             *)
(***************************************************************************)
EXTENDS Relocation, ModelStore, ArchiveImport, ProjectExports, SourceCatalog,
        LocalMedia, DataCleanup

VARIABLE which

ASSUME RelocationAssumption
ASSUME StoreAssumption
ASSUME MediaAssumption
ASSUME ExportAssumption
ASSUME ImportAssumption
ASSUME CatalogAssumption
ASSUME CleanupAssumption

mcVars == <<which, relocationVars, storeVars, mediaVars, exportVars, importVars, catalogVars, cleanupVars>>

MCInit ==
    /\ which \in {"relocation", "store", "media", "export", "import", "catalog", "cleanup"}
    /\ RelocationInit /\ StoreInit /\ MediaInit /\ ExportInit
    /\ ImportInit /\ CatalogInit /\ CleanupInit
    /\ unknown => which = "store"
    /\ known => which = "import"

Relocates ==
    /\ which = "relocation" /\ RelocationNext
    /\ UNCHANGED <<storeVars, mediaVars, exportVars, importVars, catalogVars, cleanupVars>>
Stores ==
    /\ which = "store" /\ StoreNext
    /\ UNCHANGED <<relocationVars, mediaVars, exportVars, importVars, catalogVars, cleanupVars>>
Plays ==
    /\ which = "media" /\ MediaNext
    /\ UNCHANGED <<relocationVars, storeVars, exportVars, importVars, catalogVars, cleanupVars>>
ExportsFiles ==
    /\ which = "export" /\ ExportsNext
    /\ UNCHANGED <<relocationVars, storeVars, mediaVars, importVars, catalogVars, cleanupVars>>
Imports ==
    /\ which = "import" /\ ImportNext
    /\ UNCHANGED <<relocationVars, storeVars, mediaVars, exportVars, catalogVars, cleanupVars>>
Catalogs ==
    /\ which = "catalog" /\ CatalogNext
    /\ UNCHANGED <<relocationVars, storeVars, mediaVars, exportVars, importVars, cleanupVars>>
CleansUp ==
    /\ which = "cleanup" /\ CleanupNext
    /\ UNCHANGED <<relocationVars, storeVars, mediaVars, exportVars, importVars, catalogVars>>

MCNext ==
    /\ UNCHANGED which
    /\ Relocates \/ Stores \/ Plays \/ ExportsFiles \/ Imports \/ Catalogs \/ CleansUp

MCSpec == MCInit /\ [][MCNext]_mcVars

-----------------------------------------------------------------------------
MCTypeOK ==
    /\ which = "relocation" => RelocationTypeOK
    /\ which = "store" => StoreTypeOK
    /\ which = "media" => MediaTypeOK
    /\ which = "export" => ExportsTypeOK
    /\ which = "import" => ImportTypeOK
    /\ which = "catalog" => CatalogTypeOK
    /\ which = "cleanup" => CleanupTypeOK
=============================================================================
