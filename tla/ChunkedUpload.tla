--------------------------- MODULE ChunkedUpload ----------------------------
(***************************************************************************)
(* Chunked uploads: endpoints/roms/upload.py and the hourly                *)
(* tasks/scheduled/cleanup_upload_tmp.py.  What an upload into a game does *)
(* to the game before it is assembled is in RomUploads.                    *)
(*                                                                         *)
(* A request is a coroutine: a step is what runs between two awaits, one   *)
(* Redis round trip or one file operation.  A chunk's body arrives in two  *)
(* parts, each written at the request's own offset, so that two PUTs of    *)
(* one chunk meet in the file as they do on disk.                          *)
(***************************************************************************)
EXTENDS Naturals, FiniteSets

CONSTANTS
    Upload,     \* upload ids
    Index,      \* chunk indexes a client may send
    Chunk,      \* those of an upload, total_chunks of them
    Request,    \* concurrent requests
    Name,       \* names in the folders uploads go to
    filename    \* filename[u]: the name upload u asks for

ASSUME ChunkAssumption == Chunk # {} /\ Chunk \subseteq Index /\ IsFiniteSet(Chunk)
ASSUME FilenameAssumption == filename \in [Upload -> Name]

Nobody == "nobody"
ASSUME UploadAssumption ==
    Upload # {} /\ Nobody \notin Upload /\ {"absent", "empty"} \cap Upload = {}

VARIABLES
    lib,       \* lib[n]: "absent", "empty", or whose bytes are there
    started,   \* uploads that were started
    session,   \* uploads with a session key
    received,  \* received[u]: the chunks key
    tmpDir,    \* uploads with a temp directory
    old,       \* temp directories not written to for the TTL
    chunk,     \* chunk[u][i]: the chunk's file
    pc, up, idx,  \* per request: its step, its upload, the chunk it sends
    todo,      \* todo[r]: chunks still to assemble
    size,      \* size[r]: the chunks assembled had the bytes they should have
    intact,    \* history, intact[r]: and the bytes that were sent
    orphaned,  \* history: names whose placeholder lost its owner to a crash
    overlap,   \* history: uploads with a chunk sent twice at once, or sent
               \* while it was being assembled
    damaged    \* history: uploads published with bytes nobody sent

store == <<session, received>>
disk == <<tmpDir, old, chunk>>
locals == <<up, idx, todo, size, intact>>
hist == <<orphaned, overlap, damaged>>
vars == <<lib, started, store, disk, pc, locals, hist>>

(* A chunk's file: its first part written, both, or only the second after  *)
(* a gap that reads as zeros.                                              *)
ChunkFile == {"absent", "empty", "half", "full", "gap"}

Step == {"idle", "open", "first", "second", "add", "count", "claim", "resolve",
         "assemble", "place", "replace", "drop", "clean", "forget"}

(* The files, keys and requests of the uploads have their types.           *)
TypeOK ==
    /\ lib \in [Name -> {"absent", "empty"} \cup Upload \cup {"provider"}]
    /\ started \subseteq Upload /\ session \subseteq started
    /\ received \in [Upload -> SUBSET Chunk]
    /\ tmpDir \subseteq started /\ old \subseteq Upload
    /\ chunk \in [Upload -> [Chunk -> ChunkFile]]
    /\ pc \in [Request -> Step] /\ up \in [Request -> Upload]
    /\ idx \in [Request -> Chunk] /\ todo \in [Request -> SUBSET Chunk]
    /\ size \in [Request -> BOOLEAN] /\ intact \in [Request -> BOOLEAN]
    /\ orphaned \subseteq Name /\ overlap \subseteq Upload /\ damaged \subseteq Upload

AnyOf(S) == CHOOSE x \in S : TRUE

(* The locals of a request that is not running.                            *)
InitLocals ==
    /\ up = [r \in Request |-> AnyOf(Upload)] /\ idx = [r \in Request |-> AnyOf(Chunk)]
    /\ todo = [r \in Request |-> {}] /\ size = [r \in Request |-> TRUE]
    /\ intact = [r \in Request |-> TRUE]

InitUpload ==
    /\ started = {} /\ session = {} /\ received = [u \in Upload |-> {}]
    /\ tmpDir = {} /\ old = {}
    /\ chunk = [u \in Upload |-> [i \in Chunk |-> "absent"]]
    /\ pc = [r \in Request |-> "idle"] /\ InitLocals
    /\ overlap = {} /\ damaged = {}

Init == lib = [n \in Name |-> "absent"] /\ orphaned = {} /\ InitUpload

Goto(r, step) == pc' = [pc EXCEPT ![r] = step]

Returns(r) ==
    /\ Goto(r, "idle")
    /\ up' = [up EXCEPT ![r] = AnyOf(Upload)] /\ idx' = [idx EXCEPT ![r] = AnyOf(Chunk)]
    /\ todo' = [todo EXCEPT ![r] = {}]
    /\ size' = [size EXCEPT ![r] = TRUE] /\ intact' = [intact EXCEPT ![r] = TRUE]

SetChunk(u, i, content) == chunk' = [chunk EXCEPT ![u][i] = content]

(* _cleanup_tmp                                                            *)
RemoveTmp(u) ==
    /\ tmpDir' = tmpDir \ {u} /\ old' = old \ {u}
    /\ chunk' = [chunk EXCEPT ![u] = [i \in Chunk |-> "absent"]]

-----------------------------------------------------------------------------
(* Nobody knows the id before the response, so this is one step.           *)
start_chunked_upload(u) ==
    /\ u \notin started /\ lib[filename[u]] = "absent"
    /\ started' = started \cup {u} /\ tmpDir' = tmpDir \cup {u}
    /\ session' = session \cup {u}
    /\ UNCHANGED <<lib, received, old, chunk, pc, locals, hist>>

(* upload_chunk: _get_session and the check of the index.                  *)
upload_chunk(r, u, i) ==
    /\ pc[r] = "idle" /\ u \in session /\ i \in Chunk
    /\ up' = [up EXCEPT ![r] = u] /\ idx' = [idx EXCEPT ![r] = i]
    /\ Goto(r, "open")
    /\ UNCHANGED <<lib, started, store, disk, todo, size, intact, hist>>

Sending(u, i) == \E q \in Request : /\ pc[q] \in {"first", "second"}
                                    /\ up[q] = u /\ idx[q] = i

(* The client did two things at once with chunk i of upload u.             *)
NoteOverlap(u, i) == overlap' = IF Sending(u, i) THEN overlap \cup {u} ELSE overlap

(* open_file(chunk_path, "wb"): a new file is an entry of the directory.   *)
OpenChunk(r) ==
    /\ pc[r] = "open" /\ NoteOverlap(up[r], idx[r])
    /\ UNCHANGED <<lib, started, store, orphaned, damaged>>
    /\ \/ /\ up[r] \in tmpDir
          /\ SetChunk(up[r], idx[r], "empty")
          /\ old' = IF chunk[up[r]][idx[r]] = "absent" THEN old \ {up[r]} ELSE old
          /\ Goto(r, "first") /\ UNCHANGED <<tmpDir, locals>>
       \/ up[r] \notin tmpDir /\ Returns(r) /\ UNCHANGED disk

(* A file that was unlinked or removed stays so.                           *)
WriteFirst(f) == CASE f = "empty" -> "half" [] f = "gap" -> "full" [] OTHER -> f
WriteSecond(f) == CASE f = "empty" -> "gap" [] f = "half" -> "full" [] OTHER -> f

WriteChunk(r) ==
    /\ UNCHANGED <<lib, started, store, tmpDir, old, locals, hist>>
    /\ \/ /\ pc[r] = "first" /\ Goto(r, "second")
          /\ SetChunk(up[r], idx[r], WriteFirst(chunk[up[r]][idx[r]]))
       \/ /\ pc[r] = "second" /\ Goto(r, "add")
          /\ SetChunk(up[r], idx[r], WriteSecond(chunk[up[r]][idx[r]]))

(* The client went away, or the disk is full.                              *)
ChunkFails(r) ==
    /\ pc[r] \in {"first", "second"}
    /\ SetChunk(up[r], idx[r], "absent") /\ Returns(r)
    /\ UNCHANGED <<lib, started, store, tmpDir, old, hist>>

AddChunk(r) ==
    /\ pc[r] = "add"
    /\ received' = [received EXCEPT ![up[r]] = @ \cup {idx[r]}]
    /\ Returns(r)
    /\ UNCHANGED <<lib, started, session, disk, hist>>

-----------------------------------------------------------------------------
complete_chunked_upload(r, u) ==
    /\ pc[r] = "idle" /\ u \in session
    /\ up' = [up EXCEPT ![r] = u] /\ Goto(r, "count")
    /\ UNCHANGED <<lib, started, store, disk, idx, todo, size, intact, hist>>

CountChunks(r) ==
    /\ pc[r] = "count" /\ UNCHANGED <<lib, started, store, disk, hist>>
    /\ \/ /\ Cardinality(received[up[r]]) = Cardinality(Chunk)
          /\ Goto(r, "claim") /\ UNCHANGED locals
       \/ Cardinality(received[up[r]]) # Cardinality(Chunk) /\ Returns(r)

(* Variant: the count of deleted keys is not looked at.                    *)
ClaimAnyway(r) ==
    /\ pc[r] = "claim" /\ session' = session \ {up[r]} /\ Goto(r, "resolve")
    /\ UNCHANGED <<lib, started, received, disk, locals, hist>>

(* The session key is deleted; only the request that deleted it goes on.   *)
ClaimSession(r) ==
    /\ pc[r] = "claim" /\ UNCHANGED <<lib, started, received, disk, hist>>
    /\ \/ /\ up[r] \in session /\ session' = session \ {up[r]}
          /\ Goto(r, "resolve") /\ UNCHANGED locals
       \/ up[r] \notin session /\ Returns(r) /\ UNCHANGED session

(* _resolve_destination and make_directory, for a platform's folder; for   *)
(* a game's it is the last of the steps of RomUploads.                     *)
ResolveDestination(r) ==
    /\ pc[r] = "resolve" /\ Goto(r, "assemble")
    /\ todo' = [todo EXCEPT ![r] = Chunk]
    /\ UNCHANGED <<lib, started, store, disk, up, idx, size, intact, hist>>

(* The first cleans up when it fails; make_directory is outside the try,   *)
(* so its failure leaves the chunks to the hourly task.  Not for a game's. *)
ResolveFails(r) ==
    /\ pc[r] = "resolve"
    /\ \/ Goto(r, "clean") /\ UNCHANGED locals
       \/ Returns(r)
    /\ UNCHANGED <<lib, started, store, disk, hist>>

(* One chunk is appended to the file being assembled.                      *)
AssembleChunk(r) ==
    /\ pc[r] = "assemble" /\ todo[r] # {}
    /\ LET i == AnyOf(todo[r])
           f == chunk[up[r]][i]
       IN  \/ f = "absent" /\ Goto(r, "clean") /\ UNCHANGED <<todo, size, intact, overlap>>
           \/ /\ f # "absent" /\ UNCHANGED pc
              /\ todo' = [todo EXCEPT ![r] = @ \ {i}]
              /\ size' = [size EXCEPT ![r] = @ /\ f \in {"full", "gap"}]
              /\ intact' = [intact EXCEPT ![r] = @ /\ f = "full"]
              /\ NoteOverlap(up[r], i)
    /\ UNCHANGED <<lib, started, store, disk, up, idx, orphaned, damaged>>

(* Variant: the size of the assembled file is not compared.                *)
CheckNothing(r) ==
    /\ pc[r] = "assemble" /\ todo[r] = {} /\ Goto(r, "place")
    /\ UNCHANGED <<lib, started, store, disk, locals, hist>>

CheckSize(r) ==
    /\ pc[r] = "assemble" /\ todo[r] = {}
    /\ Goto(r, IF size[r] THEN "place" ELSE "clean")
    /\ UNCHANGED <<lib, started, store, disk, locals, hist>>

_claim_destination(r) ==
    LET n == filename[up[r]]
    IN  /\ pc[r] = "place"
        /\ \/ /\ lib[n] = "absent"
              /\ lib' = [lib EXCEPT ![n] = "empty"] /\ Goto(r, "replace")
           \/ lib[n] # "absent" /\ Goto(r, "clean") /\ UNCHANGED lib
        /\ UNCHANGED <<started, store, disk, locals, hist>>

(* The rename over the placeholder.                                        *)
ReplaceFile(r) ==
    /\ pc[r] = "replace" /\ Goto(r, "clean")
    /\ lib' = [lib EXCEPT ![filename[up[r]]] = up[r]]
    /\ damaged' = IF intact[r] THEN damaged ELSE damaged \cup {up[r]}
    /\ UNCHANGED <<started, store, disk, locals, orphaned, overlap>>

(* Variant: the placeholder is left where it is.                           *)
ReplaceFailsDirty(r) ==
    /\ pc[r] = "replace" /\ Goto(r, "clean")
    /\ UNCHANGED <<lib, started, store, disk, locals, hist>>

(* The rename fails: the placeholder is removed.                           *)
ReplaceFails(r) ==
    /\ pc[r] = "replace" /\ Goto(r, "clean")
    /\ lib' = [lib EXCEPT ![filename[up[r]]] = "absent"]
    /\ UNCHANGED <<started, store, disk, locals, hist>>

-----------------------------------------------------------------------------
(* cancel_chunked_upload: the session is read, then deleted whoever else   *)
(* deleted it meanwhile.                                                   *)
cancel_chunked_upload(r, u) ==
    /\ pc[r] = "idle" /\ u \in session
    /\ up' = [up EXCEPT ![r] = u] /\ Goto(r, "drop")
    /\ UNCHANGED <<lib, started, store, disk, idx, todo, size, intact, hist>>

DropSession(r) ==
    /\ pc[r] = "drop" /\ session' = session \ {up[r]} /\ Goto(r, "clean")
    /\ UNCHANGED <<lib, started, received, disk, locals, hist>>

(* _cleanup_upload_state, at the end of a cancel and of a complete that    *)
(* got past the claim, whatever became of it.                              *)
_cleanup_upload_state(r) ==
    /\ UNCHANGED <<lib, started, session, hist>>
    /\ \/ /\ pc[r] = "clean" /\ RemoveTmp(up[r]) /\ Goto(r, "forget")
          /\ UNCHANGED <<received, locals>>
       \/ /\ pc[r] = "forget" /\ received' = [received EXCEPT ![up[r]] = {}]
          /\ Returns(r) /\ UNCHANGED disk

-----------------------------------------------------------------------------
(* The worker process dies under a request.                                *)
RequestDies(r) ==
    /\ pc[r] # "idle" /\ Returns(r)
    /\ orphaned' = IF pc[r] = "replace" THEN orphaned \cup {filename[up[r]]}
                   ELSE orphaned
    /\ UNCHANGED <<lib, started, store, disk, overlap, damaged>>

(* The session's TTL counts from the start; that of the chunks key from    *)
(* the last chunk, so it outlives the session.                             *)
ChunksExpire(u) ==
    /\ u \notin session /\ received[u] # {}
    /\ received' = [received EXCEPT ![u] = {}]
    /\ UNCHANGED <<lib, started, session, disk, pc, locals, hist>>

SessionExpires(u) ==
    /\ u \in session /\ session' = session \ {u}
    /\ UNCHANGED <<lib, started, received, disk, pc, locals, hist>>

(* The directory is made right before the session is saved with the same   *)
(* TTL, so but for that instant it is not older than the TTL while there   *)
(* is a session.                                                           *)
DirectoryAges(u) ==
    /\ u \in tmpDir \ session /\ old' = old \cup {u}
    /\ UNCHANGED <<lib, started, store, tmpDir, chunk, pc, locals, hist>>

(* Variant: the task spares directories of uploads with chunks on record.  *)
CleanupUnrecorded(u) ==
    /\ u \in tmpDir \cap old /\ received[u] = {} /\ RemoveTmp(u)
    /\ UNCHANGED <<lib, started, store, pc, locals, hist>>

(* Variant: the task removes directories of any age.                       *)
CleanupAnyAge(u) ==
    /\ u \in tmpDir /\ RemoveTmp(u)
    /\ UNCHANGED <<lib, started, store, pc, locals, hist>>

(* CleanupUploadTmpTask.run, for one directory.                            *)
CleanupUploadTmp(u) ==
    /\ u \in tmpDir \cap old /\ RemoveTmp(u)
    /\ UNCHANGED <<lib, started, store, pc, locals, hist>>

-----------------------------------------------------------------------------
Proceeds(r) ==
    \/ OpenChunk(r) \/ WriteChunk(r) \/ AddChunk(r)
    \/ CountChunks(r) \/ ClaimSession(r) \/ ResolveDestination(r)
    \/ AssembleChunk(r) \/ CheckSize(r)
    \/ _claim_destination(r) \/ ReplaceFile(r) \/ DropSession(r)
    \/ _cleanup_upload_state(r)

Arrives(r, u) ==
    \/ \E i \in Index : upload_chunk(r, u, i)
    \/ complete_chunked_upload(r, u) \/ cancel_chunked_upload(r, u)

NextUpload ==
    \/ \E u \in Upload : \/ start_chunked_upload(u) \/ SessionExpires(u) \/ ChunksExpire(u)
                         \/ DirectoryAges(u) \/ CleanupUploadTmp(u)
                         \/ \E r \in Request : Arrives(r, u)
    \/ \E r \in Request : \/ Proceeds(r) \/ ChunkFails(r) \/ ResolveFails(r)
                          \/ ReplaceFails(r) \/ RequestDies(r)

Spec == Init /\ [][NextUpload]_vars

(* Redis expires what has a TTL, the clock does not stop and the task runs *)
(* every hour; nothing is assumed of clients or of the requests.           *)
Fairness ==
    \A u \in Upload : /\ WF_vars(SessionExpires(u)) /\ WF_vars(DirectoryAges(u))
                      /\ WF_vars(CleanupUploadTmp(u))

FairSpec == Spec /\ Fairness

-----------------------------------------------------------------------------
Assembling(r) == pc[r] \in {"resolve", "assemble", "place", "replace"}

(* "Atomically claim this upload session so only one /complete can         *)
(* proceed" (upload.py:453): one request at a time is past the claim.      *)
OneAssembler ==
    \A q, r \in Request :
      Assembling(q) /\ Assembling(r) /\ up[q] = up[r] => q = r

(* An upload that can still be sent chunks has the directory they go to:   *)
(* neither the hourly task nor another request of it takes it away first.  *)
SessionHasDirectory == session \subseteq tmpDir

(* A file whose bytes are not the ones that were sent reaches the library  *)
(* only when the client sent a chunk twice at once or completed the upload *)
(* while it sent a chunk: neither a lost connection, a retried chunk, a    *)
(* cancel, the hourly cleanup nor a crash of the server does it.           *)
DamagedOnlyByOverlap == damaged \subseteq overlap

(* Who may still fill the placeholder of name n: the upload whose request  *)
(* is between _claim_destination and the rename.                           *)
Holder(n) ==
    IF \E r \in Request : pc[r] = "replace" /\ filename[up[r]] = n
    THEN up[CHOOSE r \in Request : pc[r] = "replace" /\ filename[up[r]] = n]
    ELSE Nobody

(* The temp directory of every upload goes away, whoever dies when: by the *)
(* request that ends the upload or by the hourly task.                     *)
TmpIsReclaimed == \A u \in Upload : (u \in tmpDir) ~> (u \notin tmpDir)

=============================================================================
