----------------------------- MODULE RomUploads -----------------------------
(***************************************************************************)
(* Chunked uploads into the folder of a game.  Its record may still be a   *)
(* single file, which _resolve_destination first turns into a folder:      *)
(* promote_single_file_to_folder of handler/rom_conversion.py, as other    *)
(* endpoints do too (convert-to-folder, soundtracks, manuals, ...).        *)
(*                                                                         *)
(* Every promotion is in a worker process of its own: _promotion_lock is   *)
(* one of each process, so it keeps none of them waiting.  The game's file *)
(* has an extension, and no upload asks for a path the file itself has.    *)
(***************************************************************************)
EXTENDS ChunkedUpload

CONSTANT Target  \* uploads into the game's folder

ASSUME TargetAssumption == Target \subseteq Upload

VARIABLES
    record,    \* what the database says the game is, "file" or "folder"
    folder,    \* its folder exists
    at,        \* its file: "beside" the folder, "inside" it, or "gone"
    task,      \* task[r]: the step of request r's promotion
    stranded,  \* history: a promotion stopped with the file moved and its
               \* record not changed
    late       \* history: promotions about to remove the folder, into which
               \* another one has moved the file since they looked

game == <<record, folder, at, stranded, late>>
uploads == <<lib, started, store, disk, locals, hist>>
romVars == <<game, task, vars>>

RomInit ==
    /\ Init
    /\ record = "file" /\ folder = FALSE /\ at = "beside"
    /\ task = [r \in Request |-> "none"]
    /\ stranded = FALSE /\ late = {}

Become(r, t) == task' = [task EXCEPT ![r] = t]

(* A complete for the game, past its claim of the session.                 *)
InRom(r) == pc[r] = "resolve" /\ up[r] \in Target

(* The promotion, or what comes before it, raises: a complete cleans up.   *)
Fails(r) ==
    /\ Become(r, "none")
    /\ IF InRom(r) THEN Goto(r, "clean") ELSE UNCHANGED pc

Promoted(r) == Become(r, IF InRom(r) THEN "ready" ELSE "none") /\ UNCHANGED pc

Proceed(r, t) == Become(r, t) /\ UNCHANGED pc

-----------------------------------------------------------------------------
(* _get_upload_rom and _free_rom_destination: the game may be gone or not  *)
(* the caller's to see, the name taken.                                    *)
_free_rom_destination(r) ==
    /\ InRom(r) /\ task[r] = "none" /\ UNCHANGED <<uploads, game>>
    /\ \/ Fails(r)
       \/ /\ lib[filename[up[r]]] = "absent"
          /\ IF record = "file" THEN Proceed(r, "promote") ELSE Promoted(r)

(* The other endpoints; the promotion reads the record again.              *)
convert_rom_to_folder(r) ==
    /\ pc[r] = "idle" /\ task[r] = "none" /\ Proceed(r, "promote")
    /\ UNCHANGED <<uploads, game>>

(* make_directory(target_dir), outside the try.                            *)
MakeDirectory(r) ==
    /\ InRom(r) /\ task[r] = "ready" /\ Become(r, "none")
    /\ UNCHANGED <<record, at, stranded, late>>
    /\ \/ ResolveDestination(r) /\ folder' = TRUE
       \/ Returns(r) /\ UNCHANGED <<lib, started, store, disk, hist, folder>>

-----------------------------------------------------------------------------
(* _promote: the record and the path of the folder, with no await between. *)
LookForFolder(r) ==
    /\ task[r] = "promote" /\ UNCHANGED <<uploads, game>>
    /\ \/ record = "folder" /\ Promoted(r)
       \/ record = "file" /\ folder /\ Fails(r)
       \/ record = "file" /\ ~folder /\ Proceed(r, "mkdir")

(* Whatever raises from here on goes through _restore.                     *)
MakeFolder(r) ==
    /\ task[r] = "mkdir" /\ UNCHANGED <<uploads, record, at, stranded, late>>
    /\ \/ folder' = TRUE /\ Proceed(r, "move")
       \/ UNCHANGED folder /\ Proceed(r, "look")

(* Variant: _restore does not ask whether this call moved the file.        *)
MoveInUnnoted(r) ==
    /\ task[r] = "move" /\ UNCHANGED <<uploads, record, stranded>>
    /\ \/ /\ at = "beside" /\ at' = "inside" /\ folder' = TRUE
          /\ late' = late \cup {q \in Request : task[q] = "remove"}
          /\ Proceed(r, "convert")
       \/ at # "beside" /\ Proceed(r, "restore") /\ UNCHANGED <<folder, at, late>>

(* move_file_or_folder makes the folder once it has seen the file.         *)
MoveIn(r) ==
    /\ task[r] = "move" /\ UNCHANGED <<uploads, record, stranded>>
    /\ \/ /\ at = "beside" /\ folder' = TRUE
          /\ \/ /\ at' = "inside" /\ Proceed(r, "convert")
                /\ late' = late \cup {q \in Request : task[q] = "remove"}
             \/ Proceed(r, "look") /\ UNCHANGED <<at, late>>
       \/ at # "beside" /\ Proceed(r, "look") /\ UNCHANGED <<folder, at, late>>

(* The record; it is read once more, after the last rollback.              *)
Convert(r) ==
    /\ task[r] = "convert" /\ UNCHANGED <<uploads, folder, at, stranded, late>>
    /\ \/ record' = "folder" /\ (Promoted(r) \/ Fails(r))
       \/ UNCHANGED record /\ Proceed(r, "restore")

(* _restore of a promotion that moved the file.                            *)
Restore(r) ==
    /\ task[r] = "restore" /\ UNCHANGED <<uploads, record, folder, late>>
    /\ \/ at = "inside" /\ at' = "beside" /\ Proceed(r, "look") /\ UNCHANGED stranded
       \/ at = "inside" /\ stranded' = TRUE /\ Fails(r) /\ UNCHANGED at
       \/ at # "inside" /\ Proceed(r, "look") /\ UNCHANGED <<at, stranded>>

(* Also a file being assembled in the folder is there.                     *)
FolderIsEmpty ==
    /\ at # "inside" /\ \A u \in Target : lib[filename[u]] = "absent"
    /\ \A r \in Request :
         pc[r] \in {"assemble", "place", "replace"} => up[r] \notin Target

(* Variant: the folder is removed whatever is in it.                       *)
LookAway(r) ==
    /\ task[r] = "look" /\ UNCHANGED <<uploads, game>>
    /\ IF folder THEN Proceed(r, "remove") ELSE Fails(r)

(* _drop_dir                                                               *)
LookIntoFolder(r) ==
    /\ task[r] = "look" /\ UNCHANGED <<uploads, game>>
    /\ IF folder /\ FolderIsEmpty THEN Proceed(r, "remove") ELSE Fails(r)

(* remove_directory is recursive.                                          *)
RemoveFolder(r) ==
    /\ task[r] = "remove" /\ Fails(r)
    /\ folder' = FALSE /\ at' = IF at = "inside" THEN "gone" ELSE at
    /\ lib' = [n \in Name |-> IF \E u \in Target : filename[u] = n THEN "absent"
                                                                  ELSE lib[n]]
    /\ late' = late \ {r}
    /\ UNCHANGED <<started, store, disk, locals, hist, record, stranded>>

-----------------------------------------------------------------------------
PromoterDies(r) ==
    /\ task[r] # "none" \/ InRom(r)
    /\ Become(r, "none") /\ IF InRom(r) THEN RequestDies(r) ELSE UNCHANGED vars
    /\ stranded' = (stranded \/ (at = "inside" /\ task[r] \in {"convert", "restore"}))
    /\ late' = late \ {r} /\ UNCHANGED <<record, folder, at>>

(* The folder was removed under an upload that is assembled in it.         *)
FolderGone(r) ==
    pc[r] \in {"assemble", "place", "replace"} /\ up[r] \in Target /\ ~folder

FolderMissing(r) ==
    /\ FolderGone(r) /\ pc[r] # "replace" /\ Goto(r, "clean")
    /\ UNCHANGED <<uploads, game, task>>

(* All else a chunked upload does, while its folder is there.              *)
OtherStep ==
    /\ NextUpload /\ UNCHANGED <<game, task>>
    /\ \A r \in Request : InRom(r) \/ task[r] # "none" => pc'[r] = pc[r]
    /\ \A r \in Request : FolderGone(r) /\ pc'[r] # pc[r] => UNCHANGED lib

RomNext ==
    \/ OtherStep
    \/ \E r \in Request :
         \/ _free_rom_destination(r) \/ MakeDirectory(r) \/ FolderMissing(r)
         \/ convert_rom_to_folder(r) \/ LookForFolder(r)
         \/ MakeFolder(r) \/ MoveIn(r) \/ Convert(r)
         \/ Restore(r) \/ LookIntoFolder(r) \/ RemoveFolder(r) \/ PromoterDies(r)

RomSpec == RomInit /\ [][RomNext]_romVars /\ Fairness

-----------------------------------------------------------------------------
(* The game is where its record says: a promotion that loses to another    *)
(* one undoes "only what this call did" (rom_conversion.py:45-47), and one *)
(* that fails leaves the file beside or says so, unless it died with the   *)
(* file moved or could not move it back.                                   *)
RecordIsRight ==
    /\ record = "folder" => at # "beside"
    /\ record = "file" /\ at = "inside" =>
         stranded \/ \E r \in Request : task[r] \in {"convert", "restore"}

(* "A folder with anything left in it holds someone else's ROM"            *)
(* (rom_conversion.py:46-47): no promotion that fails removes the game's   *)
(* file with the folder, unless another one moved the file in between the  *)
(* look into the folder and its removal (52-53).                           *)
FileIsKept ==
    [][at # "gone" /\ at' = "gone" =>
         \E r \in late : task[r] = "remove" /\ task'[r] = "none"]_romVars

=============================================================================
