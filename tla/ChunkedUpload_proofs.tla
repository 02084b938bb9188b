------------------------ MODULE ChunkedUpload_proofs ------------------------
(***************************************************************************)
(* Chunked uploads, for every set of uploads, chunks and requests: one     *)
(* request assembles, an upload with a session has its directory, and      *)
(* wrong bytes are published only after overlapping requests.  And for     *)
(* uploads into a game: promotions that race leave its file where its      *)
(* record says.                                                            *)
(***************************************************************************)
EXTENDS RomUploads, TLAPS

-----------------------------------------------------------------------------
(* The inductive invariant.  A request is about an upload that was         *)
(* started; one past the claim, or past the deletion of a cancel, has      *)
(* ended its session, which no start brings back.                          *)
Claimed ==
    \A r \in Request :
      /\ pc[r] # "idle" => up[r] \in started
      /\ Assembling(r) \/ pc[r] \in {"clean", "forget"} => up[r] \notin session

(* A directory grows old only without its session.                         *)
OldIsEnded == old \subseteq started /\ old \cap session = {}

SendsChunk(r, u, i) == pc[r] \in {"first", "second"} /\ up[r] = u /\ idx[r] = i

(* In an upload without overlap a chunk has one sender, which finds the    *)
(* file as it left it or removed, so that no file has a gap.               *)
Sent(u, i) ==
    /\ \A q, r \in Request : SendsChunk(q, u, i) /\ SendsChunk(r, u, i) => q = r
    /\ \A r \in Request : SendsChunk(r, u, i) =>
         chunk[u][i] \in {"absent", IF pc[r] = "first" THEN "empty" ELSE "half"}
    /\ chunk[u][i] # "gap"

OneSender == \A u \in Upload \ overlap, i \in Chunk : Sent(u, i)

(* Then what was assembled with the right size has the right bytes, and    *)
(* what is about to be published has the right size.                       *)
SizeTells ==
    \A r \in Request :
      /\ pc[r] = "idle" => intact[r]
      /\ up[r] \notin overlap => (size[r] => intact[r])
      /\ pc[r] \in {"place", "replace"} => size[r]

IInv == /\ TypeOK /\ Claimed /\ OneAssembler /\ OldIsEnded /\ SessionHasDirectory
        /\ OneSender /\ SizeTells /\ DamagedOnlyByOverlap

(* The values the locals of a request have while it is idle.               *)
LEMMA AnyOfs ==
    /\ AnyOf(Upload) \in Upload /\ AnyOf(Chunk) \in Chunk
    /\ \A S : S # {} => AnyOf(S) \in S
BY UploadAssumption, ChunkAssumption DEF AnyOf

-----------------------------------------------------------------------------
(* What a step does to the library and the received chunks matters only    *)
(* for their types.                                                        *)
Typed ==
    /\ lib' \in [Name -> {"absent", "empty"} \cup Upload \cup {"provider"}]
    /\ received' \in [Upload -> SUBSET Chunk] /\ orphaned' \subseteq Name

(* Chunk i of upload u stays as it is, or is removed, while its senders    *)
(* stay or leave.                                                          *)
LEMMA SentFrame ==
    ASSUME NEW u \in Upload, NEW i \in Chunk, Sent(u, i),
           chunk'[u][i] \in {chunk[u][i], "absent"},
           \A q \in Request :
             SendsChunk(q, u, i)' => SendsChunk(q, u, i) /\ pc'[q] = pc[q]
    PROVE  Sent(u, i)'
BY DEF Sent

(* A request that returns, whatever it did, ends what it was about.        *)
LEMMA ReturnsKeeps ==
    ASSUME IInv, NEW r \in Request, Returns(r), Typed,
           UNCHANGED <<started, session, disk, damaged>>,
           overlap' \subseteq Upload, overlap \subseteq overlap'
    PROVE  IInv'
<1> USE AnyOfs DEF IInv, Returns, Goto, disk
<1>1. TypeOK'
  BY DEF TypeOK, Typed, Step
<1>2. Claimed' /\ OneAssembler'
  BY DEF TypeOK, Claimed, OneAssembler, Assembling
<1>3. OldIsEnded' /\ SessionHasDirectory' /\ DamagedOnlyByOverlap'
  BY DEF OldIsEnded, SessionHasDirectory, DamagedOnlyByOverlap
<1>4. OneSender'
  BY SentFrame DEF TypeOK, OneSender, SendsChunk
<1>5. SizeTells'
  BY DEF TypeOK, SizeTells
<1> QED
  BY <1>1, <1>2, <1>3, <1>4, <1>5

(* So does one that goes on to a step that is not the sending of a chunk.  *)
LEMMA GoesKeeps ==
    ASSUME IInv, NEW r \in Request, NEW s \in Step \ {"idle", "first", "second"},
           Goto(r, s), UNCHANGED locals, Typed,
           UNCHANGED <<started, session, disk, damaged, overlap>>,
           pc[r] # "idle", pc[r] \notin {"first", "second"},
           s \in {"resolve", "assemble", "place", "replace"} => Assembling(r),
           s \in {"clean", "forget"} => up[r] \notin session,
           s \in {"place", "replace"} => size[r]
    PROVE  IInv'
<1> USE DEF IInv, Goto, locals, disk
<1>1. TypeOK'
  BY DEF TypeOK, Typed
<1>2. Claimed' /\ OneAssembler'
  BY DEF TypeOK, Claimed, OneAssembler, Assembling
<1>3. OldIsEnded' /\ SessionHasDirectory' /\ DamagedOnlyByOverlap'
  BY DEF OldIsEnded, SessionHasDirectory, DamagedOnlyByOverlap
<1>4. OneSender'
  BY SentFrame DEF TypeOK, OneSender, SendsChunk
<1>5. SizeTells'
  BY DEF TypeOK, SizeTells
<1> QED
  BY <1>1, <1>2, <1>3, <1>4, <1>5

(* A request arrives, about an upload that was started.                    *)
LEMMA ArrivesKeeps ==
    ASSUME IInv, NEW r \in Request, NEW u \in started, NEW i \in Chunk,
           NEW s \in {"open", "count", "drop"}, pc[r] = "idle", Goto(r, s),
           up' = [up EXCEPT ![r] = u], idx' = [idx EXCEPT ![r] = i],
           UNCHANGED <<lib, started, store, disk, todo, size, intact, hist>>
    PROVE  IInv'
<1> USE DEF IInv, Goto, store, disk, hist
<1>1. TypeOK'
  BY DEF TypeOK, Step
<1>2. Claimed' /\ OneAssembler'
  BY DEF TypeOK, Claimed, OneAssembler, Assembling
<1>3. OldIsEnded' /\ SessionHasDirectory' /\ DamagedOnlyByOverlap'
  BY DEF OldIsEnded, SessionHasDirectory, DamagedOnlyByOverlap
<1>4. OneSender'
  BY SentFrame DEF TypeOK, OneSender, SendsChunk
<1>5. SizeTells'
  BY DEF TypeOK, SizeTells
<1> QED
  BY <1>1, <1>2, <1>3, <1>4, <1>5

(* The keys and directories of an upload change under idle requests.       *)
LEMMA UploadKeeps ==
    ASSUME IInv, UNCHANGED <<pc, locals, hist>>, Typed,
           started \subseteq started', started' \subseteq Upload,
           session' \subseteq session \cup (started' \ started),
           session' \subseteq tmpDir',
           tmpDir' \subseteq started', old' \subseteq started' \ session',
           chunk' \in [Upload -> [Chunk -> ChunkFile]],
           \A u \in Upload, i \in Chunk : chunk'[u][i] \in {chunk[u][i], "absent"}
    PROVE  IInv'
<1> USE DEF IInv, locals, hist
<1>1. TypeOK'
  BY DEF TypeOK, Typed
<1>2. Claimed' /\ OneAssembler'
  BY DEF TypeOK, Claimed, OneAssembler, Assembling
<1>3. OldIsEnded' /\ SessionHasDirectory' /\ DamagedOnlyByOverlap'
  BY DEF OldIsEnded, SessionHasDirectory, DamagedOnlyByOverlap
<1>4. OneSender'
  BY SentFrame DEF TypeOK, OneSender, SendsChunk
<1>5. SizeTells'
  BY DEF TypeOK, SizeTells
<1> QED
  BY <1>1, <1>2, <1>3, <1>4, <1>5

(* The removal of a temp directory, as it is on disk.                      *)
LEMMA RemoveTmpIs ==
    ASSUME TypeOK, NEW u \in Upload, RemoveTmp(u)
    PROVE  /\ tmpDir' = tmpDir \ {u} /\ old' = old \ {u}
           /\ chunk' \in [Upload -> [Chunk -> ChunkFile]]
           /\ \A v \in Upload, i \in Chunk : chunk'[v][i] \in {chunk[v][i], "absent"}
BY DEF TypeOK, RemoveTmp, ChunkFile

(* Writing one chunk's file.                                               *)
LEMMA SetChunkIs ==
    ASSUME TypeOK, NEW u \in Upload, NEW i \in Chunk, NEW f \in ChunkFile,
           SetChunk(u, i, f)
    PROVE  /\ chunk' \in [Upload -> [Chunk -> ChunkFile]]
           /\ chunk'[u][i] = f
           /\ \A v \in Upload, j \in Chunk :
                v # u \/ j # i => chunk'[v][j] = chunk[v][j]
BY DEF TypeOK, SetChunk

-----------------------------------------------------------------------------
(* Starting an upload, its timeouts and the hourly cleanup.                *)
LEMMA UploadStep ==
    ASSUME IInv, NEW u \in Upload,
           \/ start_chunked_upload(u) \/ SessionExpires(u) \/ ChunksExpire(u)
           \/ DirectoryAges(u) \/ CleanupUploadTmp(u)
    PROVE  IInv'
<1> USE DEF IInv, TypeOK, Typed, OldIsEnded, SessionHasDirectory, store, disk, hist
<1>1. CASE start_chunked_upload(u)
  BY <1>1, UploadKeeps DEF start_chunked_upload
<1>2. CASE SessionExpires(u)
  BY <1>2, UploadKeeps DEF SessionExpires
<1>3. CASE ChunksExpire(u)
  BY <1>3, UploadKeeps DEF ChunksExpire
<1>4. CASE DirectoryAges(u)
  BY <1>4, UploadKeeps DEF DirectoryAges
<1>5. CASE CleanupUploadTmp(u)
  BY <1>5, RemoveTmpIs, UploadKeeps DEF CleanupUploadTmp
<1> QED
  BY <1>1, <1>2, <1>3, <1>4, <1>5

(* Requests as they arrive.                                                *)
LEMMA ArrivesStep ==
    ASSUME IInv, NEW r \in Request, NEW u \in Upload, Arrives(r, u) PROVE IInv'
<1>0. session \subseteq started /\ idx \in [Request -> Chunk]
  BY DEF IInv, TypeOK
<1>1. ASSUME NEW i \in Index, upload_chunk(r, u, i) PROVE IInv'
  BY <1>0, <1>1, ArrivesKeeps DEF upload_chunk
<1>2. CASE complete_chunked_upload(r, u)
  <2>1. idx' = [idx EXCEPT ![r] = idx[r]] /\ idx[r] \in Chunk
    BY <1>0, <1>2 DEF complete_chunked_upload
  <2> QED
    BY <1>0, <1>2, <2>1, ArrivesKeeps DEF complete_chunked_upload
<1>3. CASE cancel_chunked_upload(r, u)
  <2>1. idx' = [idx EXCEPT ![r] = idx[r]] /\ idx[r] \in Chunk
    BY <1>0, <1>3 DEF cancel_chunked_upload
  <2> QED
    BY <1>0, <1>3, <2>1, ArrivesKeeps DEF cancel_chunked_upload
<1> QED
  BY <1>1, <1>2, <1>3 DEF Arrives

(* The steps after which a request goes on or returns and that change      *)
(* nothing the invariant speaks of.                                        *)
LEMMA SmallStep ==
    ASSUME IInv, NEW r \in Request,
           \/ AddChunk(r) \/ CountChunks(r) \/ ResolveFails(r) \/ CheckSize(r)
           \/ _claim_destination(r) \/ ReplaceFails(r) \/ RequestDies(r)
           \/ ClaimSession(r) /\ up[r] \notin session
           \/ OpenChunk(r) /\ up[r] \notin tmpDir
           \/ AssembleChunk(r) /\ chunk[up[r]][AnyOf(todo[r])] = "absent"
           \/ _cleanup_upload_state(r) /\ pc[r] = "forget"
    PROVE  IInv'
<1> USE DEF store, disk, hist, Typed
<1>0. TypeOK /\ Claimed /\ up[r] \in Upload /\ idx[r] \in Chunk
  BY DEF IInv, TypeOK
<1>0a. filename[up[r]] \in Name
  BY <1>0, FilenameAssumption
<1>1. CASE AddChunk(r)
  BY <1>0, <1>1, ReturnsKeeps DEF TypeOK, AddChunk
<1>2. CASE CountChunks(r)
  BY <1>0, <1>2, ReturnsKeeps, GoesKeeps DEF TypeOK, CountChunks, Step
<1>3. CASE ResolveFails(r)
  BY <1>0, <1>3, ReturnsKeeps, GoesKeeps
     DEF TypeOK, ResolveFails, Step, Claimed, Assembling
<1>4. CASE CheckSize(r)
  BY <1>0, <1>4, GoesKeeps DEF TypeOK, CheckSize, Step, Claimed, Assembling
<1>5. CASE _claim_destination(r)
  <2>1. /\ pc[r] = "place" /\ UNCHANGED locals
        /\ UNCHANGED <<started, session, disk, damaged, overlap>>
    BY <1>5 DEF _claim_destination
  <2>2. PICK s \in {"replace", "clean"} : Goto(r, s)
    BY <1>5 DEF _claim_destination
  <2>3. Typed
    BY <1>0, <1>0a, <1>5 DEF TypeOK, _claim_destination
  <2>4. size[r] /\ Assembling(r) /\ up[r] \notin session
    BY <1>0, <2>1 DEF IInv, Claimed, Assembling, SizeTells
  <2>5. s \in Step \ {"idle", "first", "second"}
    BY <2>2 DEF Step
  <2> HIDE DEF store, disk, hist, Typed
  <2> QED
    BY <2>1, <2>2, <2>3, <2>4, <2>5, GoesKeeps
<1>6. CASE ReplaceFails(r)
  BY <1>0, <1>0a, <1>6, GoesKeeps
     DEF TypeOK, ReplaceFails, Step, Claimed, Assembling
<1>7. CASE RequestDies(r)
  BY <1>0, <1>0a, <1>7, ReturnsKeeps DEF TypeOK, RequestDies
<1>8. CASE ClaimSession(r) /\ up[r] \notin session
  BY <1>0, <1>8, ReturnsKeeps DEF TypeOK, ClaimSession
<1>9. CASE OpenChunk(r) /\ up[r] \notin tmpDir
  BY <1>0, <1>9, ReturnsKeeps DEF TypeOK, OpenChunk, NoteOverlap
<1>10. CASE AssembleChunk(r) /\ chunk[up[r]][AnyOf(todo[r])] = "absent"
  BY <1>0, <1>10, GoesKeeps
     DEF TypeOK, AssembleChunk, Step, Claimed, Assembling, locals
<1>11. CASE _cleanup_upload_state(r) /\ pc[r] = "forget"
  BY <1>0, <1>11, ReturnsKeeps DEF TypeOK, _cleanup_upload_state
<1> QED
  BY <1>1, <1>2, <1>3, <1>4, <1>5, <1>6, <1>7, <1>8, <1>9, <1>10, <1>11

(* A chunk's file is opened, noting who else sends that chunk.             *)
LEMMA OpenStep ==
    ASSUME IInv, NEW r \in Request, OpenChunk(r), up[r] \in tmpDir PROVE IInv'
<1> USE AnyOfs DEF store, disk, locals, hist, Goto, OpenChunk, NoteOverlap, Sending
<1>0. /\ TypeOK /\ Claimed /\ OneAssembler /\ OldIsEnded /\ SessionHasDirectory
      /\ OneSender /\ SizeTells /\ DamagedOnlyByOverlap
      /\ up[r] \in Upload /\ idx[r] \in Chunk
  BY DEF IInv, TypeOK
<1>a. /\ chunk' \in [Upload -> [Chunk -> ChunkFile]] /\ chunk'[up[r]][idx[r]] = "empty"
      /\ \A v \in Upload, j \in Chunk :
           v # up[r] \/ j # idx[r] => chunk'[v][j] = chunk[v][j]
  BY <1>0, SetChunkIs DEF ChunkFile
<1>1. TypeOK'
  <2>1. overlap' \subseteq Upload /\ old' \subseteq Upload
    BY <1>0 DEF TypeOK
  <2>2. pc' = [pc EXCEPT ![r] = "first"] /\ UNCHANGED <<lib, started, session, received, tmpDir,
                                                      locals, orphaned, damaged>>
    OBVIOUS
  <2>3. pc' \in [Request -> Step]
    BY <1>0, <2>2 DEF TypeOK, Step
  <2> QED
    BY <1>0, <1>a, <2>1, <2>2, <2>3 DEF TypeOK
<1>2. Claimed' /\ OneAssembler'
  BY <1>0 DEF TypeOK, Claimed, OneAssembler, Assembling
<1>3. OldIsEnded' /\ SessionHasDirectory'
  BY <1>0 DEF TypeOK, Claimed, OldIsEnded, SessionHasDirectory
<1>4. DamagedOnlyByOverlap'
  BY <1>0 DEF TypeOK, SizeTells, DamagedOnlyByOverlap
<1>5. OneSender'
  <2> SUFFICES ASSUME NEW u \in Upload \ overlap', NEW i \in Chunk PROVE Sent(u, i)'
    BY DEF OneSender
  <2>1. Sent(u, i)
    BY <1>0 DEF OneSender
  <2>2. CASE u # up[r] \/ i # idx[r]
    <3>1. chunk'[u][i] = chunk[u][i]
      BY <1>a, <2>2
    <3>2. \A q \in Request :
            SendsChunk(q, u, i)' => SendsChunk(q, u, i) /\ pc'[q] = pc[q]
      BY <1>0, <2>2 DEF TypeOK, SendsChunk
    <3> QED
      BY <2>1, <3>1, <3>2, SentFrame
  <2>3. CASE u = up[r] /\ i = idx[r]
    BY <1>0, <1>a, <2>1, <2>3 DEF TypeOK, Sent, SendsChunk
  <2> QED
    BY <2>2, <2>3
<1>6. SizeTells'
  BY <1>0 DEF TypeOK, SizeTells, OneSender, Sent
<1> QED
  BY <1>1, <1>2, <1>3, <1>4, <1>5, <1>6 DEF IInv

(* The first part of a chunk is written.                                   *)
LEMMA WriteFirstStep ==
    ASSUME IInv, NEW r \in Request, WriteChunk(r), pc[r] = "first" PROVE IInv'
<1> USE AnyOfs DEF store, disk, locals, hist, Goto, WriteChunk, WriteFirst
<1>0. /\ TypeOK /\ Claimed /\ OneAssembler /\ OldIsEnded /\ SessionHasDirectory
      /\ OneSender /\ SizeTells /\ DamagedOnlyByOverlap
      /\ up[r] \in Upload /\ idx[r] \in Chunk
  BY DEF IInv, TypeOK
<1>f. /\ chunk[up[r]][idx[r]] \in ChunkFile
      /\ WriteFirst(chunk[up[r]][idx[r]]) \in ChunkFile
  BY <1>0 DEF TypeOK, ChunkFile
<1>a. /\ chunk' \in [Upload -> [Chunk -> ChunkFile]]
      /\ chunk'[up[r]][idx[r]] = WriteFirst(chunk[up[r]][idx[r]])
      /\ \A v \in Upload, j \in Chunk :
           v # up[r] \/ j # idx[r] => chunk'[v][j] = chunk[v][j]
  BY <1>0, SetChunkIs, <1>f
<1>1. TypeOK'
  BY <1>0, <1>a DEF TypeOK, Step, ChunkFile
<1>2. Claimed' /\ OneAssembler'
  BY <1>0 DEF TypeOK, Claimed, OneAssembler, Assembling
<1>3. OldIsEnded' /\ SessionHasDirectory'
  BY <1>0 DEF TypeOK, Claimed, OldIsEnded, SessionHasDirectory
<1>4. DamagedOnlyByOverlap'
  BY <1>0 DEF TypeOK, SizeTells, DamagedOnlyByOverlap
<1>5. OneSender'
  <2> SUFFICES ASSUME NEW u \in Upload \ overlap', NEW i \in Chunk PROVE Sent(u, i)'
    BY DEF OneSender
  <2>1. Sent(u, i)
    BY <1>0 DEF OneSender
  <2>2. CASE u # up[r] \/ i # idx[r]
    <3>1. chunk'[u][i] = chunk[u][i]
      BY <1>a, <2>2
    <3>2. \A q \in Request :
            SendsChunk(q, u, i)' => SendsChunk(q, u, i) /\ pc'[q] = pc[q]
      BY <1>0, <2>2 DEF TypeOK, SendsChunk
    <3> QED
      BY <2>1, <3>1, <3>2, SentFrame
  <2>3. CASE u = up[r] /\ i = idx[r]
    BY <1>0, <1>a, <2>1, <2>3 DEF TypeOK, Sent, SendsChunk
  <2> QED
    BY <2>2, <2>3
<1>6. SizeTells'
  BY <1>0 DEF TypeOK, SizeTells, OneSender, Sent
<1> QED
  BY <1>1, <1>2, <1>3, <1>4, <1>5, <1>6 DEF IInv

(* The second part completes it, in an upload without overlap.             *)
LEMMA WriteSecondStep ==
    ASSUME IInv, NEW r \in Request, WriteChunk(r), pc[r] = "second" PROVE IInv'
<1> USE AnyOfs DEF store, disk, locals, hist, Goto, WriteChunk, WriteSecond
<1>0. /\ TypeOK /\ Claimed /\ OneAssembler /\ OldIsEnded /\ SessionHasDirectory
      /\ OneSender /\ SizeTells /\ DamagedOnlyByOverlap
      /\ up[r] \in Upload /\ idx[r] \in Chunk
  BY DEF IInv, TypeOK
<1>f. /\ chunk[up[r]][idx[r]] \in ChunkFile
      /\ WriteSecond(chunk[up[r]][idx[r]]) \in ChunkFile
  BY <1>0 DEF TypeOK, ChunkFile
<1>a. /\ chunk' \in [Upload -> [Chunk -> ChunkFile]]
      /\ chunk'[up[r]][idx[r]] = WriteSecond(chunk[up[r]][idx[r]])
      /\ \A v \in Upload, j \in Chunk :
           v # up[r] \/ j # idx[r] => chunk'[v][j] = chunk[v][j]
  BY <1>0, SetChunkIs, <1>f
<1>1. TypeOK'
  BY <1>0, <1>a DEF TypeOK, Step, ChunkFile
<1>2. Claimed' /\ OneAssembler'
  BY <1>0 DEF TypeOK, Claimed, OneAssembler, Assembling
<1>3. OldIsEnded' /\ SessionHasDirectory'
  BY <1>0 DEF TypeOK, Claimed, OldIsEnded, SessionHasDirectory
<1>4. DamagedOnlyByOverlap'
  BY <1>0 DEF TypeOK, SizeTells, DamagedOnlyByOverlap
<1>5. OneSender'
  <2> SUFFICES ASSUME NEW u \in Upload \ overlap', NEW i \in Chunk PROVE Sent(u, i)'
    BY DEF OneSender
  <2>1. Sent(u, i)
    BY <1>0 DEF OneSender
  <2>2. CASE u # up[r] \/ i # idx[r]
    <3>1. chunk'[u][i] = chunk[u][i]
      BY <1>a, <2>2
    <3>2. \A q \in Request :
            SendsChunk(q, u, i)' => SendsChunk(q, u, i) /\ pc'[q] = pc[q]
      BY <1>0, <2>2 DEF TypeOK, SendsChunk
    <3> QED
      BY <2>1, <3>1, <3>2, SentFrame
  <2>3. CASE u = up[r] /\ i = idx[r]
    <3>1. pc[r] = "second" /\ SendsChunk(r, u, i) /\ UNCHANGED <<up, idx>>
      BY <2>3 DEF SendsChunk
    <3>2. chunk[u][i] \in {"absent", "half"}
      BY <2>1, <3>1 DEF Sent
    <3>3. chunk'[u][i] \in {"absent", "full"}
      BY <1>a, <2>3, <3>2
    <3>4. \A q \in Request : ~SendsChunk(q, u, i)'
      <4> SUFFICES ASSUME NEW q \in Request, SendsChunk(q, u, i)' PROVE FALSE
        OBVIOUS
      <4>1. q # r /\ pc'[q] = pc[q]
        BY <1>0 DEF TypeOK, SendsChunk
      <4> QED
        BY <2>1, <3>1, <4>1 DEF Sent, SendsChunk
    <3> QED
      BY <3>3, <3>4 DEF Sent
  <2> QED
    BY <2>2, <2>3
<1>6. SizeTells'
  BY <1>0 DEF TypeOK, SizeTells, OneSender, Sent
<1> QED
  BY <1>1, <1>2, <1>3, <1>4, <1>5, <1>6 DEF IInv

(* A chunk that fails is unlinked.                                         *)
LEMMA ChunkFailsStep ==
    ASSUME IInv, NEW r \in Request, ChunkFails(r) PROVE IInv'
<1> USE AnyOfs DEF store, disk, locals, hist, Goto, ChunkFails, Returns
<1>0. /\ TypeOK /\ Claimed /\ OneAssembler /\ OldIsEnded /\ SessionHasDirectory
      /\ OneSender /\ SizeTells /\ DamagedOnlyByOverlap
      /\ up[r] \in Upload /\ idx[r] \in Chunk
  BY DEF IInv, TypeOK
<1>a. /\ chunk' \in [Upload -> [Chunk -> ChunkFile]] /\ chunk'[up[r]][idx[r]] = "absent"
      /\ \A v \in Upload, j \in Chunk :
           v # up[r] \/ j # idx[r] => chunk'[v][j] = chunk[v][j]
  BY <1>0, SetChunkIs DEF ChunkFile
<1>1. TypeOK'
  BY <1>0, <1>a DEF TypeOK, Step, ChunkFile
<1>2. Claimed' /\ OneAssembler'
  BY <1>0 DEF TypeOK, Claimed, OneAssembler, Assembling
<1>3. OldIsEnded' /\ SessionHasDirectory'
  BY <1>0 DEF TypeOK, Claimed, OldIsEnded, SessionHasDirectory
<1>4. DamagedOnlyByOverlap'
  BY <1>0 DEF TypeOK, SizeTells, DamagedOnlyByOverlap
<1>5. OneSender'
  <2> SUFFICES ASSUME NEW u \in Upload \ overlap', NEW i \in Chunk PROVE Sent(u, i)'
    BY DEF OneSender
  <2>1. Sent(u, i)
    BY <1>0 DEF OneSender
  <2>2. CASE u # up[r] \/ i # idx[r]
    <3>1. chunk'[u][i] = chunk[u][i]
      BY <1>a, <2>2
    <3>2. \A q \in Request :
            SendsChunk(q, u, i)' => SendsChunk(q, u, i) /\ pc'[q] = pc[q]
      BY <1>0, <2>2 DEF TypeOK, SendsChunk
    <3> QED
      BY <2>1, <3>1, <3>2, SentFrame
  <2>3. CASE u = up[r] /\ i = idx[r]
    BY <1>0, <1>a, <2>1, <2>3 DEF TypeOK, Sent, SendsChunk
  <2> QED
    BY <2>2, <2>3
<1>6. SizeTells'
  BY <1>0 DEF TypeOK, SizeTells, OneSender, Sent
<1> QED
  BY <1>1, <1>2, <1>3, <1>4, <1>5, <1>6 DEF IInv

(* The one request that deletes the session key goes on.                   *)
LEMMA ClaimStep ==
    ASSUME IInv, NEW r \in Request, ClaimSession(r), up[r] \in session PROVE IInv'
<1> USE AnyOfs DEF store, disk, locals, hist, Goto, ClaimSession
<1>0. /\ TypeOK /\ Claimed /\ OneAssembler /\ OldIsEnded /\ SessionHasDirectory
      /\ OneSender /\ SizeTells /\ DamagedOnlyByOverlap
      /\ up[r] \in Upload /\ idx[r] \in Chunk
  BY DEF IInv, TypeOK
<1>1. TypeOK'
  <2>0. pc' = [pc EXCEPT ![r] = "resolve"] /\ pc \in [Request -> Step]
    BY <1>0 DEF TypeOK
  <2>1. pc' \in [Request -> Step]
    <3> HIDE DEF ClaimSession
    <3> QED
      BY <2>0 DEF Step
  <2>2. UNCHANGED <<lib, started, received, disk, up, idx, todo, size, intact, hist>>
    OBVIOUS
  <2>3. session' \subseteq session
    OBVIOUS
  <2> HIDE DEF ClaimSession
  <2> QED
    BY <1>0, <2>1, <2>2, <2>3 DEF TypeOK
<1>2. Claimed'
  BY <1>0 DEF TypeOK, Claimed, Assembling
<1>2a. OneAssembler'
  <2>1. \A q \in Request \ {r} : pc'[q] = pc[q] /\ (Assembling(q)' <=> Assembling(q))
    BY <1>0 DEF TypeOK, Assembling
  <2>2. UNCHANGED up /\ up[r] \in session
    OBVIOUS
  <2>3. \A q \in Request \ {r} : Assembling(q)' => up[q] # up[r]
    BY <1>0, <2>1, <2>2 DEF Claimed
  <2> HIDE DEF ClaimSession
  <2> QED
    BY <1>0, <2>1, <2>2, <2>3 DEF OneAssembler
<1>3. OldIsEnded' /\ SessionHasDirectory'
  BY <1>0 DEF TypeOK, Claimed, OldIsEnded, SessionHasDirectory
<1>4. DamagedOnlyByOverlap'
  BY <1>0 DEF TypeOK, SizeTells, DamagedOnlyByOverlap
<1>5. OneSender'
  <2> SUFFICES ASSUME NEW u \in Upload \ overlap', NEW i \in Chunk PROVE Sent(u, i)'
    BY DEF OneSender
  <2>1. Sent(u, i)
    BY <1>0 DEF OneSender
  <2>2. \A q \in Request : SendsChunk(q, u, i)' => SendsChunk(q, u, i) /\ pc'[q] = pc[q]
    BY <1>0 DEF TypeOK, SendsChunk
  <2> QED
    BY <1>0, <2>1, <2>2, SentFrame
<1>6. SizeTells'
  BY <1>0 DEF TypeOK, SizeTells, OneSender, Sent
<1> QED
  BY <1>1, <1>2, <1>2a, <1>3, <1>4, <1>5, <1>6 DEF IInv

(* The destination is resolved.                                            *)
LEMMA ResolveStep ==
    ASSUME IInv, NEW r \in Request, ResolveDestination(r) PROVE IInv'
<1> USE AnyOfs DEF store, disk, locals, hist, Goto, ResolveDestination
<1>0. /\ TypeOK /\ Claimed /\ OneAssembler /\ OldIsEnded /\ SessionHasDirectory
      /\ OneSender /\ SizeTells /\ DamagedOnlyByOverlap
      /\ up[r] \in Upload /\ idx[r] \in Chunk
  BY DEF IInv, TypeOK
<1>1. TypeOK'
  BY <1>0 DEF TypeOK, Step, ChunkFile
<1>2. Claimed' /\ OneAssembler'
  BY <1>0 DEF TypeOK, Claimed, OneAssembler, Assembling
<1>3. OldIsEnded' /\ SessionHasDirectory'
  BY <1>0 DEF TypeOK, Claimed, OldIsEnded, SessionHasDirectory
<1>4. DamagedOnlyByOverlap'
  BY <1>0 DEF TypeOK, SizeTells, DamagedOnlyByOverlap
<1>5. OneSender'
  <2> SUFFICES ASSUME NEW u \in Upload \ overlap', NEW i \in Chunk PROVE Sent(u, i)'
    BY DEF OneSender
  <2>1. Sent(u, i)
    BY <1>0 DEF OneSender
  <2>2. \A q \in Request : SendsChunk(q, u, i)' => SendsChunk(q, u, i) /\ pc'[q] = pc[q]
    BY <1>0 DEF TypeOK, SendsChunk
  <2> QED
    BY <1>0, <2>1, <2>2, SentFrame
<1>6. SizeTells'
  BY <1>0 DEF TypeOK, SizeTells, OneSender, Sent
<1> QED
  BY <1>1, <1>2, <1>3, <1>4, <1>5, <1>6 DEF IInv

(* A chunk is appended.                                                    *)
LEMMA AssembleStep ==
    ASSUME IInv, NEW r \in Request, AssembleChunk(r),
           chunk[up[r]][AnyOf(todo[r])] # "absent"
    PROVE  IInv'
<1> USE AnyOfs DEF store, disk, locals, hist, Goto, AssembleChunk, NoteOverlap, Sending
<1>0. /\ TypeOK /\ Claimed /\ OneAssembler /\ OldIsEnded /\ SessionHasDirectory
      /\ OneSender /\ SizeTells /\ DamagedOnlyByOverlap
      /\ up[r] \in Upload /\ idx[r] \in Chunk
  BY DEF IInv, TypeOK
<1> DEFINE i == AnyOf(todo[r])
           f == chunk[up[r]][i]
<1>a. i \in Chunk /\ f \in ChunkFile
  BY <1>0 DEF TypeOK
<1>b. /\ size' = [size EXCEPT ![r] = @ /\ f \in {"full", "gap"}]
      /\ intact' = [intact EXCEPT ![r] = @ /\ f = "full"]
  OBVIOUS
<1>c. /\ size' \in [Request -> BOOLEAN] /\ intact' \in [Request -> BOOLEAN]
      /\ size'[r] <=> size[r] /\ f \in {"full", "gap"}
      /\ intact'[r] <=> intact[r] /\ f = "full"
      /\ \A q \in Request \ {r} : size'[q] = size[q] /\ intact'[q] = intact[q]
  <2> HIDE DEF AssembleChunk, NoteOverlap, f
  <2>1. size \in [Request -> BOOLEAN] /\ intact \in [Request -> BOOLEAN]
    BY <1>0 DEF TypeOK
  <2> QED
    BY <1>b, <2>1, Zenon
<1>1. TypeOK'
  <2>1. overlap' \subseteq Upload
    BY <1>0 DEF TypeOK
  <2>2. UNCHANGED <<lib, started, store, disk, pc, up, idx, orphaned, damaged>>
    OBVIOUS
  <2>3. todo' = [todo EXCEPT ![r] = todo[r] \ {i}]
    OBVIOUS
  <2> HIDE DEF AssembleChunk, NoteOverlap, i
  <2>4. todo' \in [Request -> SUBSET Chunk]
    BY <1>0, <2>3 DEF TypeOK
  <2> QED
    BY <1>0, <1>c, <2>1, <2>2, <2>4 DEF TypeOK
<1>2. Claimed' /\ OneAssembler'
  BY <1>0 DEF TypeOK, Claimed, OneAssembler, Assembling
<1>3. OldIsEnded' /\ SessionHasDirectory'
  BY <1>0 DEF TypeOK, Claimed, OldIsEnded, SessionHasDirectory
<1>4. DamagedOnlyByOverlap'
  BY <1>0 DEF TypeOK, SizeTells, DamagedOnlyByOverlap
<1>5. OneSender'
  <2> SUFFICES ASSUME NEW u \in Upload \ overlap', NEW j \in Chunk PROVE Sent(u, j)'
    BY DEF OneSender
  <2>1. Sent(u, j)
    BY <1>0 DEF OneSender
  <2>2. \A q \in Request : SendsChunk(q, u, j)' => SendsChunk(q, u, j) /\ pc'[q] = pc[q]
    BY <1>0 DEF TypeOK, SendsChunk
  <2> QED
    BY <1>0, <2>1, <2>2, SentFrame
<1>6. SizeTells'
  BY <1>0, <1>a, <1>c DEF TypeOK, SizeTells, OneSender, Sent
<1> QED
  BY <1>1, <1>2, <1>3, <1>4, <1>5, <1>6 DEF IInv

(* The rename publishes what was assembled.                                *)
LEMMA ReplaceStep ==
    ASSUME IInv, NEW r \in Request, ReplaceFile(r) PROVE IInv'
<1> USE AnyOfs DEF store, disk, locals, hist, Goto, ReplaceFile
<1>0. /\ TypeOK /\ Claimed /\ OneAssembler /\ OldIsEnded /\ SessionHasDirectory
      /\ OneSender /\ SizeTells /\ DamagedOnlyByOverlap
      /\ up[r] \in Upload /\ idx[r] \in Chunk
  BY DEF IInv, TypeOK
<1>1. TypeOK'
  BY <1>0, FilenameAssumption DEF TypeOK, Step, ChunkFile
<1>2. Claimed' /\ OneAssembler'
  BY <1>0 DEF TypeOK, Claimed, OneAssembler, Assembling
<1>3. OldIsEnded' /\ SessionHasDirectory'
  BY <1>0 DEF TypeOK, Claimed, OldIsEnded, SessionHasDirectory
<1>4. DamagedOnlyByOverlap'
  BY <1>0 DEF TypeOK, SizeTells, DamagedOnlyByOverlap
<1>5. OneSender'
  <2> SUFFICES ASSUME NEW u \in Upload \ overlap', NEW i \in Chunk PROVE Sent(u, i)'
    BY DEF OneSender
  <2>1. Sent(u, i)
    BY <1>0 DEF OneSender
  <2>2. \A q \in Request : SendsChunk(q, u, i)' => SendsChunk(q, u, i) /\ pc'[q] = pc[q]
    BY <1>0 DEF TypeOK, SendsChunk
  <2> QED
    BY <1>0, <2>1, <2>2, SentFrame
<1>6. SizeTells'
  BY <1>0 DEF TypeOK, SizeTells, OneSender, Sent
<1> QED
  BY <1>1, <1>2, <1>3, <1>4, <1>5, <1>6 DEF IInv

(* A cancel ends the session,                                              *)
LEMMA DropStep ==
    ASSUME IInv, NEW r \in Request, DropSession(r) PROVE IInv'
<1> USE AnyOfs DEF store, disk, locals, hist, Goto, DropSession
<1>0. /\ TypeOK /\ Claimed /\ OneAssembler /\ OldIsEnded /\ SessionHasDirectory
      /\ OneSender /\ SizeTells /\ DamagedOnlyByOverlap
      /\ up[r] \in Upload /\ idx[r] \in Chunk
  BY DEF IInv, TypeOK
<1>1. TypeOK'
  BY <1>0 DEF TypeOK, Step, ChunkFile
<1>2. Claimed' /\ OneAssembler'
  BY <1>0 DEF TypeOK, Claimed, OneAssembler, Assembling
<1>3. OldIsEnded' /\ SessionHasDirectory'
  BY <1>0 DEF TypeOK, Claimed, OldIsEnded, SessionHasDirectory
<1>4. DamagedOnlyByOverlap'
  BY <1>0 DEF TypeOK, SizeTells, DamagedOnlyByOverlap
<1>5. OneSender'
  <2> SUFFICES ASSUME NEW u \in Upload \ overlap', NEW i \in Chunk PROVE Sent(u, i)'
    BY DEF OneSender
  <2>1. Sent(u, i)
    BY <1>0 DEF OneSender
  <2>2. \A q \in Request : SendsChunk(q, u, i)' => SendsChunk(q, u, i) /\ pc'[q] = pc[q]
    BY <1>0 DEF TypeOK, SendsChunk
  <2> QED
    BY <1>0, <2>1, <2>2, SentFrame
<1>6. SizeTells'
  BY <1>0 DEF TypeOK, SizeTells, OneSender, Sent
<1> QED
  BY <1>1, <1>2, <1>3, <1>4, <1>5, <1>6 DEF IInv

(* and the directory goes with the session already gone.                   *)
LEMMA CleanStep ==
    ASSUME IInv, NEW r \in Request, _cleanup_upload_state(r), pc[r] = "clean"
    PROVE  IInv'
<1> USE AnyOfs DEF store, disk, locals, hist, Goto, _cleanup_upload_state
<1>0. /\ TypeOK /\ Claimed /\ OneAssembler /\ OldIsEnded /\ SessionHasDirectory
      /\ OneSender /\ SizeTells /\ DamagedOnlyByOverlap
      /\ up[r] \in Upload /\ idx[r] \in Chunk
  BY DEF IInv, TypeOK
<1>a. /\ tmpDir' = tmpDir \ {up[r]} /\ old' = old \ {up[r]}
      /\ chunk' \in [Upload -> [Chunk -> ChunkFile]]
      /\ \A v \in Upload, i \in Chunk : chunk'[v][i] \in {chunk[v][i], "absent"}
  BY <1>0, RemoveTmpIs
<1>1. TypeOK'
  <2>0. pc' = [pc EXCEPT ![r] = "forget"] /\ pc \in [Request -> Step]
    BY <1>0 DEF TypeOK
  <2>1. pc' \in [Request -> Step]
    <3> HIDE DEF _cleanup_upload_state
    <3> QED
      BY <2>0 DEF Step
  <2>2. UNCHANGED <<lib, started, session, received, locals, hist>>
    OBVIOUS
  <2> HIDE DEF _cleanup_upload_state
  <2> QED
    BY <1>0, <1>a, <2>1, <2>2 DEF TypeOK
<1>2. Claimed' /\ OneAssembler'
  BY <1>0 DEF TypeOK, Claimed, OneAssembler, Assembling
<1>3. OldIsEnded' /\ SessionHasDirectory'
  BY <1>0, <1>a DEF TypeOK, Claimed, OldIsEnded, SessionHasDirectory
<1>4. DamagedOnlyByOverlap'
  BY <1>0 DEF TypeOK, SizeTells, DamagedOnlyByOverlap
<1>5. OneSender'
  <2> SUFFICES ASSUME NEW u \in Upload \ overlap', NEW i \in Chunk PROVE Sent(u, i)'
    BY DEF OneSender
  <2>1. Sent(u, i)
    BY <1>0 DEF OneSender
  <2>2. \A q \in Request : SendsChunk(q, u, i)' => SendsChunk(q, u, i) /\ pc'[q] = pc[q]
    BY <1>0 DEF TypeOK, SendsChunk
  <2> QED
    BY <1>0, <1>a, <2>1, <2>2, SentFrame
<1>6. SizeTells'
  BY <1>0 DEF TypeOK, SizeTells, OneSender, Sent
<1> QED
  BY <1>1, <1>2, <1>3, <1>4, <1>5, <1>6 DEF IInv

-----------------------------------------------------------------------------
(* No upload was started.                                                  *)
LEMMA InitHolds == Init => IInv
<1> SUFFICES ASSUME Init PROVE IInv
  OBVIOUS
<1> USE AnyOfs DEF Init, InitUpload, InitLocals
<1>1. TypeOK
  BY DEF TypeOK, Step, ChunkFile
<1>2. Claimed /\ OneAssembler /\ OldIsEnded /\ SessionHasDirectory /\ DamagedOnlyByOverlap
  BY DEF Claimed, OneAssembler, Assembling, OldIsEnded, SessionHasDirectory,
         DamagedOnlyByOverlap
<1>3. OneSender /\ SizeTells
  BY DEF OneSender, Sent, SendsChunk, SizeTells
<1> QED
  BY <1>1, <1>2, <1>3 DEF IInv

(* Every step of the uploads keeps the invariant.                          *)
LEMMA NextHolds == IInv /\ [NextUpload]_vars => IInv'
<1> SUFFICES ASSUME IInv, [NextUpload]_vars PROVE IInv'
  OBVIOUS
<1>1. ASSUME NEW u \in Upload, \/ start_chunked_upload(u) \/ SessionExpires(u)
                                \/ ChunksExpire(u) \/ DirectoryAges(u) \/ CleanupUploadTmp(u)
                                \/ \E r \in Request : Arrives(r, u)
      PROVE  IInv'
  BY <1>1, UploadStep, ArrivesStep
<1>2. ASSUME NEW r \in Request, Proceeds(r) PROVE IInv'
  <2>1. CASE OpenChunk(r) \/ WriteChunk(r) \/ AddChunk(r)
    BY <2>1, OpenStep, WriteFirstStep, WriteSecondStep, SmallStep DEF WriteChunk
  <2>2. CASE CountChunks(r) \/ ClaimSession(r) \/ ResolveDestination(r)
    BY <2>2, SmallStep, ClaimStep, ResolveStep
  <2>3. CASE AssembleChunk(r) \/ CheckSize(r)
    BY <2>3, SmallStep, AssembleStep
  <2>4. CASE _claim_destination(r) \/ ReplaceFile(r) \/ DropSession(r)
    BY <2>4, SmallStep, ReplaceStep, DropStep
  <2>5. CASE _cleanup_upload_state(r)
    BY <2>5, SmallStep, CleanStep DEF _cleanup_upload_state
  <2> QED
    BY <1>2, <2>1, <2>2, <2>3, <2>4, <2>5 DEF Proceeds
<1>3. ASSUME NEW r \in Request,
             ChunkFails(r) \/ ResolveFails(r) \/ ReplaceFails(r) \/ RequestDies(r)
      PROVE  IInv'
  BY <1>3, ChunkFailsStep, SmallStep
<1>4. CASE UNCHANGED vars
  <2>1. TypeOK' /\ Claimed' /\ OneAssembler' /\ OldIsEnded' /\ SessionHasDirectory'
    BY <1>4
       DEF vars, store, disk, locals, hist, IInv, TypeOK, Claimed, OneAssembler,
                Assembling, OldIsEnded, SessionHasDirectory
  <2>2. OneSender' /\ SizeTells' /\ DamagedOnlyByOverlap'
    BY <1>4
       DEF vars, store, disk, locals, hist, IInv, OneSender, Sent, SendsChunk,
                SizeTells, DamagedOnlyByOverlap
  <2> QED
    BY <2>1, <2>2 DEF IInv
<1> QED
  BY <1>1, <1>2, <1>3, <1>4 DEF NextUpload

(* Sessions, chunks and requests have their types.                         *)
THEOREM UploadTyped == Spec => []TypeOK
<1>1. IInv => TypeOK
  BY DEF IInv
<1> QED
  BY <1>1, InitHolds, NextHolds, PTL DEF Spec

(* The deletion of the session key lets one /complete through              *)
(* (complete_chunked_upload, upload.py:453).                               *)
THEOREM UploadOneAssembler == Spec => []OneAssembler
<1>1. IInv => OneAssembler
  BY DEF IInv
<1> QED
  BY <1>1, InitHolds, NextHolds, PTL DEF Spec

(* An upload with a session has its temp directory: cancel, complete and   *)
(* the hourly task remove it only after the session is gone.               *)
THEOREM UploadSessionHasDirectory == Spec => []SessionHasDirectory
<1>1. IInv => SessionHasDirectory
  BY DEF IInv
<1> QED
  BY <1>1, InitHolds, NextHolds, PTL DEF Spec

(* A file with bytes nobody sent is published only after overlapping       *)
(* requests of the client (upload_chunk, complete_chunked_upload).         *)
THEOREM UploadDamagedOnlyByOverlap == Spec => []DamagedOnlyByOverlap
<1>1. IInv => DamagedOnlyByOverlap
  BY DEF IInv
<1> QED
  BY <1>1, InitHolds, NextHolds, PTL DEF Spec

-----------------------------------------------------------------------------
(* Uploads into a game.  What a request does to the game is, for the       *)
(* uploads, nothing or one of their steps, but where the folder goes.      *)
LEMMA RomStepIs ==
    ASSUME RomNext
    PROVE  [NextUpload]_vars \/ \E r \in Request : FolderMissing(r) \/ RemoveFolder(r)
<1> USE DEF vars, uploads, Proceed
<1>1. CASE OtherStep
  BY <1>1 DEF OtherStep
<1>f. ASSUME NEW r \in Request, Fails(r), UNCHANGED uploads PROVE [NextUpload]_vars
  <2>1. CASE InRom(r)
    <3>1. ResolveFails(r)
      BY <1>f, <2>1 DEF Fails, InRom, ResolveFails
    <3> QED
      BY <3>1 DEF NextUpload
  <2>2. CASE ~InRom(r)
    BY <1>f, <2>2 DEF Fails
  <2> QED
    BY <2>1, <2>2
<1>2. ASSUME NEW r \in Request,
             \/ _free_rom_destination(r) \/ convert_rom_to_folder(r)
             \/ LookForFolder(r) \/ MakeFolder(r) \/ MoveIn(r) \/ Convert(r)
             \/ Restore(r) \/ LookIntoFolder(r)
      PROVE  [NextUpload]_vars
  <2>1. UNCHANGED uploads /\ (Fails(r) \/ UNCHANGED pc)
    BY <1>2 DEF _free_rom_destination, convert_rom_to_folder, LookForFolder,
                MakeFolder, MoveIn, Convert, Restore, LookIntoFolder, Promoted
  <2> QED
    BY <1>f, <2>1
<1>3. ASSUME NEW r \in Request, MakeDirectory(r) PROVE [NextUpload]_vars
  <2>1. ResolveDestination(r) \/ ResolveFails(r)
    BY <1>3 DEF MakeDirectory, InRom, ResolveFails
  <2> QED
    BY <2>1 DEF NextUpload, Proceeds
<1>4. ASSUME NEW r \in Request, PromoterDies(r) PROVE [NextUpload]_vars
  BY <1>4 DEF PromoterDies, NextUpload
<1> QED
  BY <1>1, <1>2, <1>3, <1>4 DEF RomNext

(* Also then the uploads keep their invariant.                             *)
LEMMA RomHolds == IInv /\ [RomNext]_romVars => IInv'
<1>1. ASSUME IInv, UNCHANGED romVars PROVE IInv'
  BY <1>1, NextHolds DEF romVars
<1>2. ASSUME IInv, [NextUpload]_vars PROVE IInv'
  BY <1>2, NextHolds
<1>3. ASSUME IInv, NEW r \in Request, FolderMissing(r) PROVE IInv'
  <2>1. Goto(r, "clean") /\ UNCHANGED uploads /\ pc[r] \in {"assemble", "place"}
    BY <1>3 DEF FolderMissing, FolderGone
  <2>2. Typed /\ up[r] \notin session
    BY <1>3, <2>1 DEF IInv, TypeOK, Claimed, Assembling, Typed, uploads, store, hist
  <2> QED
    BY <1>3, <2>1, <2>2, GoesKeeps DEF uploads, store, disk, hist, Step
<1>4. ASSUME IInv, NEW r \in Request, RemoveFolder(r) PROVE IInv'
  <2>1. UNCHANGED <<started, store, disk, locals, hist>>
    BY <1>4 DEF RemoveFolder
  <2>2. Typed
    BY <1>4, <2>1 DEF RemoveFolder, IInv, TypeOK, Typed, store, hist
  <2>3. CASE InRom(r)
    <3>1. Goto(r, "clean") /\ pc[r] = "resolve" /\ up[r] \notin session
      BY <1>4, <2>3 DEF RemoveFolder, Fails, InRom, IInv, Claimed, Assembling
    <3> QED
      BY <1>4, <2>1, <2>2, <3>1, GoesKeeps DEF store, disk, hist, Step
  <2>4. CASE ~InRom(r)
    <3>1. UNCHANGED pc
      BY <1>4, <2>4 DEF RemoveFolder, Fails
    <3> QED
      BY <1>4, <2>1, <2>2, <3>1, UploadKeeps
         DEF IInv, TypeOK, OldIsEnded, SessionHasDirectory, store, disk
  <2> QED
    BY <2>3, <2>4
<1> QED
  BY <1>1, <1>2, <1>3, <1>4, RomStepIs

(* The steps of a promotion.                                              *)
Task == {"none", "promote", "mkdir", "move", "convert", "restore", "look",
         "remove", "ready"}

GameTypes ==
    /\ record \in {"file", "folder"} /\ folder \in BOOLEAN
    /\ at \in {"beside", "inside", "gone"} /\ task \in [Request -> Task]
    /\ stranded \in BOOLEAN /\ late \subseteq Request

(* The promotion that moved the file and has not recorded it.              *)
Moved(r) == task[r] \in {"convert", "restore"}

(* There is one at most, and meanwhile nobody else moves the file out or   *)
(* records it.                                                             *)
OneMover ==
    /\ \A q, r \in Request : Moved(q) /\ Moved(r) => q = r
    /\ \A r \in Request : Moved(r) => record = "file" /\ at # "beside"

(* Who is about to remove the folder found it empty.                       *)
LookIsTrue == \A r \in Request : task[r] = "remove" => at # "inside" \/ r \in late

RInv == GameTypes /\ OneMover /\ LookIsTrue /\ RecordIsRight

(* What the uploads do, and a promotion that changes nothing but its step. *)
LEMMA GameFrame ==
    ASSUME RInv, NEW r \in Request, NEW t \in Task \ {"convert", "restore", "remove"},
           Become(r, t), UNCHANGED <<record, at>>, folder' \in BOOLEAN,
           stranded' \in BOOLEAN, stranded => stranded', late' \in {late, late \ {r}},
           Moved(r) => stranded' \/ record = "folder" \/ at # "inside"
    PROVE  RInv'
<1> USE DEF RInv, GameTypes, Become
<1>1. GameTypes'
  OBVIOUS
<1>2. OneMover'
  BY DEF OneMover, Moved
<1>3. LookIsTrue'
  BY DEF LookIsTrue
<1>4. RecordIsRight'
  BY DEF RecordIsRight, OneMover, Moved
<1> QED
  BY <1>1, <1>2, <1>3, <1>4

(* Every step of a promotion.                                              *)
LEMMA GameStep ==
    ASSUME RInv, NEW r \in Request,
           \/ _free_rom_destination(r) \/ convert_rom_to_folder(r) \/ MakeDirectory(r)
           \/ LookForFolder(r) \/ MakeFolder(r) \/ MoveIn(r) \/ Convert(r)
           \/ Restore(r) \/ LookIntoFolder(r) \/ RemoveFolder(r) \/ PromoterDies(r)
    PROVE  RInv'
<1> USE DEF RInv, GameTypes, Task, game
<1>1. CASE _free_rom_destination(r)
  BY <1>1, GameFrame DEF _free_rom_destination, Fails, Promoted, Proceed, Moved
<1>2. CASE convert_rom_to_folder(r)
  BY <1>2, GameFrame DEF convert_rom_to_folder, Proceed, Moved
<1>3. CASE MakeDirectory(r)
  BY <1>3, GameFrame DEF MakeDirectory, Moved
<1>4. CASE LookForFolder(r)
  BY <1>4, GameFrame DEF LookForFolder, Fails, Promoted, Proceed, Moved
<1>5. CASE MakeFolder(r)
  BY <1>5, GameFrame DEF MakeFolder, Proceed, Moved
<1>6. CASE MoveIn(r)
  <2>1. CASE at' = at
    BY <1>6, <2>1, GameFrame DEF MoveIn, Proceed, Moved
  <2>2. CASE at = "beside" /\ at' = "inside"
    <3>1. /\ Become(r, "convert") /\ folder' = TRUE /\ UNCHANGED <<record, stranded>>
          /\ late' = late \cup {q \in Request : task[q] = "remove"}
      BY <1>6, <2>2 DEF MoveIn, Proceed
    <3>2. GameTypes' /\ LookIsTrue'
      BY <2>2, <3>1 DEF LookIsTrue, Become
    <3>3. OneMover' /\ RecordIsRight'
      BY <2>2, <3>1 DEF OneMover, RecordIsRight, Moved, Become
    <3> QED
      BY <3>2, <3>3
  <2> QED
    BY <1>6, <2>1, <2>2 DEF MoveIn
<1>7. CASE Convert(r)
  <2>1. CASE record' = "folder" /\ (Promoted(r) \/ Fails(r))
    <3>1. PICK t \in {"ready", "none"} : Become(r, t)
      BY <2>1 DEF Promoted, Fails
    <3>2. UNCHANGED <<folder, at, stranded, late>> /\ Moved(r)
      BY <1>7 DEF Convert, Moved
    <3>3. GameTypes' /\ LookIsTrue'
      BY <2>1, <3>1, <3>2 DEF LookIsTrue, Become
    <3>4. OneMover' /\ RecordIsRight'
      BY <2>1, <3>1, <3>2 DEF OneMover, RecordIsRight, Moved, Become
    <3> QED
      BY <3>3, <3>4
  <2>2. CASE UNCHANGED record /\ Proceed(r, "restore")
    <3>1. UNCHANGED <<folder, at, stranded, late>> /\ task[r] = "convert"
      BY <1>7 DEF Convert
    <3>2. GameTypes' /\ LookIsTrue'
      BY <2>2, <3>1 DEF LookIsTrue, Become, Proceed
    <3>3. OneMover' /\ RecordIsRight'
      BY <2>2, <3>1 DEF OneMover, RecordIsRight, Moved, Become, Proceed
    <3> QED
      BY <3>2, <3>3
  <2> QED
    BY <1>7, <2>1, <2>2 DEF Convert
<1>8. CASE Restore(r)
  <2>1. CASE at = "inside" /\ at' = "beside"
    <3>1. /\ Become(r, "look") /\ task[r] = "restore"
          /\ UNCHANGED <<record, folder, stranded, late>>
      BY <1>8, <2>1 DEF Restore, Proceed
    <3>2. GameTypes' /\ LookIsTrue'
      BY <2>1, <3>1 DEF LookIsTrue, Become
    <3>3. OneMover' /\ RecordIsRight'
      BY <2>1, <3>1 DEF OneMover, RecordIsRight, Moved, Become
    <3> QED
      BY <3>2, <3>3
  <2>2. CASE UNCHANGED at
    BY <1>8, <2>2, GameFrame DEF Restore, Fails, Proceed, Moved
  <2> QED
    BY <1>8, <2>1, <2>2 DEF Restore
<1>9. CASE LookIntoFolder(r)
  <2>1. CASE Fails(r)
    BY <1>9, <2>1, GameFrame DEF LookIntoFolder, Fails, Moved
  <2>2. CASE FolderIsEmpty /\ Proceed(r, "remove")
    <3>1. UNCHANGED <<record, folder, at, stranded, late>> /\ at # "inside"
      BY <1>9, <2>2 DEF LookIntoFolder, FolderIsEmpty
    <3>2. GameTypes' /\ LookIsTrue'
      BY <2>2, <3>1 DEF LookIsTrue, Become, Proceed
    <3>3. OneMover' /\ RecordIsRight'
      BY <2>2, <3>1 DEF OneMover, RecordIsRight, Moved, Become, Proceed
    <3> QED
      BY <3>2, <3>3
  <2> QED
    BY <1>9, <2>1, <2>2 DEF LookIntoFolder
<1>10. CASE RemoveFolder(r)
  <2>1. /\ Become(r, "none") /\ task[r] = "remove" /\ folder' = FALSE
        /\ late' = late \ {r} /\ UNCHANGED <<record, stranded>>
        /\ at' = IF at = "inside" THEN "gone" ELSE at
    BY <1>10 DEF RemoveFolder, Fails
  <2>2. GameTypes' /\ LookIsTrue'
    BY <2>1 DEF LookIsTrue, Become
  <2>3. OneMover' /\ RecordIsRight'
    BY <2>1 DEF OneMover, RecordIsRight, Moved, Become
  <2> QED
    BY <2>2, <2>3
<1>11. CASE PromoterDies(r)
  BY <1>11, GameFrame DEF PromoterDies, Moved
<1> QED
  BY <1>1, <1>2, <1>3, <1>4, <1>5, <1>6, <1>7, <1>8, <1>9, <1>10, <1>11

(* So every step of anyone keeps it.                                       *)
LEMMA GameHolds == RInv /\ [RomNext]_romVars => RInv'
<1>1. ASSUME RInv, UNCHANGED <<game, task>> PROVE RInv'
  BY <1>1 DEF game, RInv, GameTypes, OneMover, Moved, LookIsTrue, RecordIsRight
<1> QED
  BY <1>1, GameStep DEF RomNext, romVars, OtherStep, FolderMissing

(* At first the game is a file without a folder.                           *)
LEMMA GameInit == RomInit => RInv
BY DEF RomInit, RInv, GameTypes, Task, OneMover, Moved, LookIsTrue, RecordIsRight

(* Promotions that race, in as many requests as there are, leave the       *)
(* game's file where its record says (_promote, rom_conversion.py:26).     *)
THEOREM PromotionsRecordRight == RomSpec => []RecordIsRight
<1>1. RInv => RecordIsRight
  BY DEF RInv
<1> QED
  BY <1>1, GameInit, GameHolds, PTL DEF RomSpec

(* And none removes it with the folder, but for the gap between the look   *)
(* of _drop_dir and its removal.                                           *)
THEOREM PromotionsKeepFile == RomSpec => FileIsKept
<1>1. RInv /\ [RomNext]_romVars =>
        [at # "gone" /\ at' = "gone" =>
           \E r \in late : task[r] = "remove" /\ task'[r] = "none"]_romVars
  <2> SUFFICES ASSUME RInv, RomNext, at # "gone", at' = "gone"
               PROVE  \E r \in late : task[r] = "remove" /\ task'[r] = "none"
    OBVIOUS
  <2>1. PICK r \in Request : RemoveFolder(r)
    BY DEF RomNext, OtherStep, FolderMissing, _free_rom_destination, MakeDirectory,
           convert_rom_to_folder, LookForFolder, MakeFolder, MoveIn, Convert, Restore,
           LookIntoFolder, PromoterDies, game, RInv, GameTypes
  <2>2. task[r] = "remove" /\ task'[r] = "none" /\ at = "inside"
    BY <2>1 DEF RemoveFolder, Fails, Become, RInv, GameTypes
  <2> QED
    BY <2>2 DEF RInv, LookIsTrue
<1> QED
  BY <1>1, GameInit, GameHolds, PTL DEF RomSpec, FileIsKept

(* What is proved of uploads above holds of those into a game.             *)
THEOREM RomUploadsAreUploads ==
    RomSpec => [](OneAssembler /\ SessionHasDirectory /\ DamagedOnlyByOverlap)
<1>1. IInv => OneAssembler /\ SessionHasDirectory /\ DamagedOnlyByOverlap
  BY DEF IInv
<1>2. RomInit => IInv
  BY InitHolds DEF RomInit
<1> QED
  BY <1>1, <1>2, RomHolds, PTL DEF RomSpec

=============================================================================
