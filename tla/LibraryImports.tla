--------------------------- MODULE LibraryImports ---------------------------
(***************************************************************************)
(* The two ways a file enters the library, at once: chunked uploads and    *)
(* the import of a provider's file, in different processes, sharing        *)
(* nothing but the folder they write to.                                   *)
(***************************************************************************)
EXTENDS ChunkedUpload

CONSTANTS name, Url, ETag, Strong, Blocks, Tries

ASSUME NameAssumption == name \in Name
ASSUME StrongAssumption == Strong \subseteq ETag
ASSUME SizeAssumption == Blocks \in Nat \ {0} /\ Tries \in Nat \ {0}

VARIABLES
    target, meta,                 \* of ProviderImport, by their names
    step, url, etag, offset, tries, response, sized,
    torn, mixed

importVars ==
    <<target, meta, step, url, etag, offset, tries, response, sized, torn, mixed>>
uploadVars == <<started, store, disk, pc, locals, overlap, damaged>>
allVars == <<lib, orphaned, importVars, uploadVars>>

Import == INSTANCE ProviderImport WITH pc <- step

ASSUME NoneAssumption == Import!NoUrl \notin Url /\ Import!NoETag \notin ETag

AllInit == Init /\ Import!InitImport

AllNext ==
    \/ NextUpload /\ UNCHANGED importVars
    \/ Import!NextImport /\ UNCHANGED uploadVars

AllSpec == AllInit /\ [][AllNext]_allVars

-----------------------------------------------------------------------------
(* No more is written to the staging file than was expected, and the rest  *)
(* of the state has its type.                                              *)
AllTypeOK == Import!TypeOK /\ TypeOK

(* See PublishedIsOneVersion in ProviderImport: no upload changes it.      *)
ImportIsOneVersion == Import!PublishedIsOneVersion

(* The attempt or the upload that may still fill name n.                   *)
AnyHolder(n) == IF step = "replace" /\ n = name THEN Import!Provider ELSE Holder(n)

Library == INSTANCE ExclusivePublish
           WITH Publisher <- Upload \cup {Import!Provider}, file <- lib,
                holder <- [n \in Name |-> AnyHolder(n)]

(* "Existing filenames are never overwritten" (docs/ROM_PROVIDERS.md:80):  *)
(* uploads and imports that race for a name, fail and die between the      *)
(* exclusive open and the rename never write over or remove a file that is *)
(* not their own placeholder.                                              *)
LibraryIsExclusive == Library!Spec

(* An empty file in the library has an owner about to fill it, or one that *)
(* died between the exclusive open and the rename (downloads.py:372-374,   *)
(* upload.py:499-501).                                                     *)
NoStrayPlaceholder ==
    \A n \in Name : lib[n] = "empty" => AnyHolder(n) # Nobody \/ n \in orphaned

=============================================================================
