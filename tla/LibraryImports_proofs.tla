----------------------- MODULE LibraryImports_proofs ------------------------
(***************************************************************************)
(* Uploads and imports implement ExclusivePublish, for every set of names, *)
(* uploads and requests and every file length, and a published import is   *)
(* one version of the provider's file.                                     *)
(***************************************************************************)
EXTENDS LibraryImports, Sequences, TLAPS

-----------------------------------------------------------------------------
(* Who holds name n when the requests are at steps p with uploads u.       *)
At(p, u, r, n) == p[r] = "replace" /\ filename[u[r]] = n

HolderIn(p, u, n) ==
    IF \E r \in Request : At(p, u, r, n)
    THEN u[CHOOSE r \in Request : At(p, u, r, n)]
    ELSE Nobody

(* Holder (endpoints/roms/upload.py:499-501), of a state and of its        *)
(* successor.                                                              *)
LEMMA HolderDef ==
    /\ \A n \in Name : Holder(n) = HolderIn(pc, up, n)
    /\ \A n \in Name : Holder(n)' = HolderIn(pc', up', n)
BY DEF Holder, HolderIn, At

(* The one request between _claim_destination and the rename holds.        *)
LEMMA HolderIs ==
    ASSUME NEW p, NEW u, NEW n, NEW r \in Request, At(p, u, r, n),
           \A q \in Request : At(p, u, q, n) => q = r
    PROVE  HolderIn(p, u, n) = u[r]
<1> DEFINE c == CHOOSE q \in Request : At(p, u, q, n)
<1>1. c \in Request /\ At(p, u, c, n)
  OBVIOUS
<1>2. c = r
  BY <1>1
<1>3. HolderIn(p, u, n) = u[c]
  BY DEF HolderIn
<1> QED
  BY <1>2, <1>3

(* With no request there, nobody holds.                                    *)
LEMMA HolderNone ==
    ASSUME NEW p, NEW u, NEW n, \A q \in Request : ~At(p, u, q, n)
    PROVE  HolderIn(p, u, n) = Nobody
BY DEF HolderIn

-----------------------------------------------------------------------------
(* What the refinement rests on.  Type correctness of what it reads.       *)
Types ==
    /\ lib \in [Name -> {"absent", "empty"} \cup Upload \cup {"provider"}]
    /\ pc \in [Request -> Step] /\ up \in [Request -> Upload]

(* A name a request or the attempt is about to fill holds its placeholder, *)
(* and no two of them have the same one.                                   *)
ReplaceIsEmpty ==
    \A r \in Request : pc[r] = "replace" => lib[filename[up[r]]] = "empty"

OneReplacer ==
    \A q, r \in Request :
      pc[q] = "replace" /\ pc[r] = "replace" /\ filename[up[q]] = filename[up[r]] => q = r

ImportHolds ==
    step = "replace" =>
      lib[name] = "empty" /\ \A r \in Request : ~At(pc, up, r, name)

IInv == Types /\ ReplaceIsEmpty /\ OneReplacer /\ ImportHolds /\ NoStrayPlaceholder

-----------------------------------------------------------------------------
(* A step that leaves the library alone and brings no request to the       *)
(* rename or away from it.                                                 *)
SameHolders ==
    \A q \in Request : /\ pc'[q] = "replace" <=> pc[q] = "replace"
                       /\ pc[q] = "replace" => up'[q] = up[q]

Quiet ==
    /\ lib' = lib /\ orphaned' = orphaned
    /\ step' = "replace" <=> step = "replace"
    /\ SameHolders

(* The holder of a name is the same if the requests that want to fill it   *)
(* are.                                                                    *)
LEMMA SameHolder ==
    ASSUME IInv, NEW n \in Name,
           \A q \in Request : At(pc', up', q, n) <=> At(pc, up, q, n),
           \A q \in Request : At(pc, up, q, n) => up'[q] = up[q]
    PROVE  Holder(n)' = Holder(n)
<1>1. CASE \E r \in Request : At(pc, up, r, n)
  <2>1. PICK r \in Request : At(pc, up, r, n)
    BY <1>1
  <2>2. \A q \in Request : At(pc, up, q, n) => q = r
    BY <2>1 DEF IInv, OneReplacer, At
  <2>3. HolderIn(pc, up, n) = up[r]
    BY <2>1, <2>2, HolderIs
  <2>4. HolderIn(pc', up', n) = up'[r]
    BY <2>1, <2>2, HolderIs
  <2> QED
    BY <2>1, <2>3, <2>4, HolderDef
<1>2. CASE ~ \E r \in Request : At(pc, up, r, n)
  <2>1. HolderIn(pc, up, n) = Nobody /\ HolderIn(pc', up', n) = Nobody
    BY <1>2, HolderNone
  <2> QED
    BY <2>1, HolderDef
<1> QED
  BY <1>1, <1>2

(* So it is after a quiet step.                                            *)
LEMMA QuietHolder ==
    ASSUME IInv, SameHolders, NEW n \in Name
    PROVE  Holder(n)' = Holder(n)
<1>1. \A q \in Request : At(pc', up', q, n) <=> At(pc, up, q, n)
  BY DEF SameHolders, At
<1>2. \A q \in Request : At(pc, up, q, n) => up'[q] = up[q]
  BY DEF SameHolders, At
<1> QED
  BY <1>1, <1>2, SameHolder

(* A quiet step keeps the invariant, whatever else it does.                *)
LEMMA QuietKeeps ==
    ASSUME IInv, Quiet, Types'
    PROVE  IInv' /\ UNCHANGED <<lib, [n \in Name |-> AnyHolder(n)]>>
<1>1. ReplaceIsEmpty'
  BY DEF IInv, Quiet, SameHolders, ReplaceIsEmpty
<1>2. OneReplacer'
  BY DEF IInv, Quiet, SameHolders, OneReplacer
<1>3. ImportHolds'
  BY DEF IInv, Quiet, SameHolders, ImportHolds, At
<1>4. \A n \in Name : AnyHolder(n)' = AnyHolder(n)
  BY QuietHolder DEF Quiet, AnyHolder, Import!Provider
<1>5. NoStrayPlaceholder'
  BY <1>4 DEF IInv, Quiet, NoStrayPlaceholder
<1> QED
  BY <1>1, <1>2, <1>3, <1>4, <1>5 DEF IInv, Quiet

-----------------------------------------------------------------------------
(* A request that returns has some upload left in its local (upload.py).   *)
LEMMA AnyUpload == AnyOf(Upload) \in Upload
<1> DEFINE c == CHOOSE x \in Upload : TRUE
<1>1. c \in Upload
  BY UploadAssumption
<1> QED
  BY <1>1 DEF AnyOf

(* The steps of a request of the upload endpoints that are not the claim   *)
(* of the destination, the rename, its failure or a death are quiet.       *)
Small(r) ==
    \/ OpenChunk(r) \/ WriteChunk(r) \/ ChunkFails(r) \/ AddChunk(r)
    \/ CountChunks(r) \/ ClaimSession(r) \/ ResolveDestination(r) \/ ResolveFails(r)
    \/ AssembleChunk(r) \/ CheckSize(r) \/ DropSession(r) \/ _cleanup_upload_state(r)

(* A request moved, from a step that is not the rename to another such.    *)
Moves(r) ==
    /\ pc[r] # "replace" /\ lib' = lib /\ orphaned' = orphaned
    /\ \E s \in Step \ {"replace"} : pc' = [pc EXCEPT ![r] = s]
    /\ up' = up \/ \E u \in Upload : up' = [up EXCEPT ![r] = u]

(* It keeps the types and is quiet.                                        *)
LEMMA MovesIsQuiet ==
    ASSUME IInv, NEW r \in Request, Moves(r), step' = step
    PROVE  Types' /\ Quiet
<1>1. PICK s \in Step \ {"replace"} : pc' = [pc EXCEPT ![r] = s]
  BY DEF Moves
<1>2. lib' = lib /\ orphaned' = orphaned /\ pc[r] # "replace"
  BY DEF Moves
<1>3. pc' \in [Request -> Step] /\ \A q \in Request : pc'[q] = IF q = r THEN s ELSE pc[q]
  BY <1>1 DEF IInv, Types
<1>4. up' \in [Request -> Upload] /\ \A q \in Request : q # r => up'[q] = up[q]
  <2>1. CASE up' = up
    BY <2>1 DEF IInv, Types
  <2>2. CASE \E u \in Upload : up' = [up EXCEPT ![r] = u]
    BY <2>2 DEF IInv, Types
  <2> QED
    BY <2>1, <2>2 DEF Moves
<1>5. Types'
  BY <1>2, <1>3, <1>4 DEF IInv, Types
<1> QED
  BY <1>2, <1>3, <1>4, <1>5 DEF Quiet, SameHolders

(* The small steps of a request move it.                                   *)
LEMMA SmallMoves ==
    ASSUME IInv, NEW r \in Request, Small(r)
    PROVE  Moves(r)
<1> USE AnyUpload DEF Moves, Returns, Goto, Step, disk, store, locals, hist
<1>1. CASE OpenChunk(r)
  BY <1>1 DEF OpenChunk
<1>2. CASE WriteChunk(r)
  BY <1>2 DEF WriteChunk
<1>3. CASE ChunkFails(r)
  BY <1>3 DEF ChunkFails
<1>4. CASE AddChunk(r)
  BY <1>4 DEF AddChunk
<1>5. CASE CountChunks(r)
  BY <1>5 DEF CountChunks
<1>6. CASE ClaimSession(r)
  BY <1>6 DEF ClaimSession
<1>7. CASE ResolveDestination(r)
  BY <1>7 DEF ResolveDestination
<1>8. CASE ResolveFails(r)
  BY <1>8 DEF ResolveFails
<1>9. CASE AssembleChunk(r)
  <2>1. CASE Goto(r, "clean") /\ UNCHANGED <<todo, size, intact, overlap>>
    BY <1>9, <2>1 DEF AssembleChunk
  <2>2. CASE UNCHANGED pc
    <3>1. pc' = [pc EXCEPT ![r] = "assemble"]
      BY <1>9, <2>2 DEF AssembleChunk, IInv, Types
    <3> QED
      BY <1>9, <3>1 DEF AssembleChunk
  <2> QED
    BY <1>9, <2>1, <2>2 DEF AssembleChunk
<1>10. CASE CheckSize(r)
  BY <1>10 DEF CheckSize
<1>11. CASE DropSession(r)
  BY <1>11 DEF DropSession
<1>12. CASE _cleanup_upload_state(r)
  BY <1>12 DEF _cleanup_upload_state
<1> QED
  BY <1>1, <1>2, <1>3, <1>4, <1>5, <1>6, <1>7, <1>8, <1>9, <1>10, <1>11, <1>12 DEF Small

(* So do the arrival of a request.                                         *)
LEMMA ArrivesMoves ==
    ASSUME IInv, NEW r \in Request, NEW u \in Upload, Arrives(r, u)
    PROVE  Moves(r)
<1> USE DEF Moves, Goto, Step, hist, locals
<1>1. CASE \E i \in Index : upload_chunk(r, u, i)
  BY <1>1 DEF upload_chunk
<1>2. CASE complete_chunked_upload(r, u)
  BY <1>2 DEF complete_chunked_upload
<1>3. CASE cancel_chunked_upload(r, u)
  BY <1>3 DEF cancel_chunked_upload
<1> QED
  BY <1>1, <1>2, <1>3 DEF Arrives

-----------------------------------------------------------------------------
(* The abstract holders, and one of them changed.                          *)
Holders == [n \in Name |-> AnyHolder(n)]

(* Every name but m keeps its holder and m has w.                          *)
LEMMA HoldersExcept ==
    ASSUME NEW m \in Name, NEW w, AnyHolder(m)' = w,
           \A n \in Name : n # m => AnyHolder(n)' = AnyHolder(n)
    PROVE  Holders' = [Holders EXCEPT ![m] = w]
BY DEF Holders

(* The exclusive open (_claim_destination): the request becomes the holder *)
(* of a name nobody held.                                                  *)
LEMMA ClaimStep ==
    ASSUME IInv, NEW r \in Request, step' = step,
           _claim_destination(r), lib[filename[up[r]]] = "absent"
    PROVE  IInv' /\ Library!Next
<1>0. PICK m \in Name : m = filename[up[r]]
  BY FilenameAssumption DEF IInv, Types
<1> USE <1>0
<1>1. /\ m \in Name /\ up[r] \in Upload /\ up[r] # Nobody
      /\ up' = up /\ orphaned' = orphaned /\ pc[r] # "replace"
      /\ lib' = [lib EXCEPT ![m] = "empty"] /\ pc' = [pc EXCEPT ![r] = "replace"]
  BY FilenameAssumption, UploadAssumption
     DEF IInv, Types, _claim_destination, Goto, locals, hist
<1>2. \A q \in Request : ~At(pc, up, q, m)
  BY DEF IInv, ReplaceIsEmpty, At
<1>3. step = "replace" => m # name
  BY DEF IInv, ImportHolds
<1>4. \A q \in Request, n \in Name :
        At(pc', up', q, n) <=> At(pc, up, q, n) \/ (q = r /\ n = m)
  BY <1>1 DEF IInv, Types, At
<1>5. AnyHolder(m)' = up[r]
  <2>1. At(pc', up', r, m) /\ \A q \in Request : At(pc', up', q, m) => q = r
    BY <1>2, <1>4
  <2>2. HolderIn(pc', up', m) = up'[r]
    BY <2>1, HolderIs
  <2> QED
    BY <1>1, <1>3, <2>2, HolderDef DEF AnyHolder
<1>6. ASSUME NEW n \in Name, n # m PROVE AnyHolder(n)' = AnyHolder(n)
  <2>1. Holder(n)' = Holder(n)
    BY <1>1, <1>4, <1>6, SameHolder
  <2> QED
    BY <2>1 DEF AnyHolder, Import!Provider
<1>7. Holders' = [Holders EXCEPT ![m] = up[r]]
  <2>1. PICK w : w = up[r]
    OBVIOUS
  <2>2. Holders' = [Holders EXCEPT ![m] = w]
    BY <1>5, <1>6, <2>1, HoldersExcept
  <2> QED
    BY <2>1, <2>2
<1>8. Types'
  BY <1>1 DEF IInv, Types, Step
<1>9. ReplaceIsEmpty'
  BY <1>1, <1>4, FilenameAssumption DEF IInv, Types, ReplaceIsEmpty, At
<1>10. OneReplacer'
  BY <1>1, <1>2, <1>4, FilenameAssumption DEF IInv, Types, OneReplacer, At
<1>11. ImportHolds'
  BY <1>1, <1>3, <1>4, NameAssumption DEF IInv, Types, ImportHolds
<1>12. NoStrayPlaceholder'
  BY <1>1, <1>5, <1>6 DEF IInv, Types, NoStrayPlaceholder
<1>13. Library!Claim(up[r], m)
  BY <1>1, <1>7 DEF Library!Claim, Holders
<1> QED
  BY <1>1, <1>8, <1>9, <1>10, <1>11, <1>12, <1>13 DEF IInv, Library!Next

(* A request leaves the rename.                                            *)
Leaves(r) ==
    /\ pc[r] = "replace"
    /\ \E s \in Step \ {"replace"} : pc' = [pc EXCEPT ![r] = s]
    /\ up' = up \/ \E u \in Upload : up' = [up EXCEPT ![r] = u]

(* It was the holder of its name, which has none now, and other names keep *)
(* theirs.                                                                 *)
LEMMA LeavesHolder ==
    ASSUME IInv, NEW r \in Request, Leaves(r), step' = step
    PROVE  /\ Holders[filename[up[r]]] = up[r]
           /\ Holders' = [Holders EXCEPT ![filename[up[r]]] = Nobody]
           /\ \A n \in Name : n # filename[up[r]] => AnyHolder(n)' = AnyHolder(n)
           /\ \A q \in Request, n \in Name :
                 At(pc', up', q, n) <=> At(pc, up, q, n) /\ n # filename[up[r]]
           /\ pc' \in [Request -> Step] /\ up' \in [Request -> Upload]
           /\ step = "replace" => name # filename[up[r]]
<1>0. PICK m \in Name : m = filename[up[r]]
  BY FilenameAssumption DEF IInv, Types
<1> USE <1>0
<1>1. m \in Name /\ At(pc, up, r, m)
  BY FilenameAssumption DEF IInv, Types, Leaves, At
<1>2. PICK s \in Step \ {"replace"} : pc' = [pc EXCEPT ![r] = s]
  BY DEF Leaves
<1>3. pc' \in [Request -> Step] /\ \A q \in Request : pc'[q] = IF q = r THEN s ELSE pc[q]
  BY <1>2 DEF IInv, Types
<1>4. up' \in [Request -> Upload] /\ \A q \in Request : q # r => up'[q] = up[q]
  <2>1. CASE up' = up
    BY <2>1 DEF IInv, Types
  <2>2. CASE \E u \in Upload : up' = [up EXCEPT ![r] = u]
    BY <2>2 DEF IInv, Types
  <2> QED
    BY <2>1, <2>2 DEF Leaves
<1>5. \A q \in Request : At(pc, up, q, m) => q = r
  BY <1>1 DEF IInv, OneReplacer, At
<1>6. \A q \in Request, n \in Name : At(pc', up', q, n) <=> At(pc, up, q, n) /\ n # m
  BY <1>1, <1>3, <1>4, <1>5 DEF At
<1>7. step = "replace" => name # m
  BY <1>1 DEF IInv, ImportHolds
<1>8. Holders[m] = up[r]
  BY <1>1, <1>5, <1>7, HolderIs, HolderDef DEF Holders, AnyHolder
<1>9. AnyHolder(m)' = Nobody
  BY <1>1, <1>6, <1>7, HolderNone, HolderDef DEF AnyHolder
<1>10. ASSUME NEW n \in Name, n # m PROVE AnyHolder(n)' = AnyHolder(n)
  <2>1. \A q \in Request : At(pc, up, q, n) => up'[q] = up[q]
    BY <1>1, <1>4, <1>10 DEF At
  <2>2. Holder(n)' = Holder(n)
    BY <1>6, <1>10, <2>1, SameHolder
  <2> QED
    BY <2>2 DEF AnyHolder, Import!Provider
<1>11. Holders' = [Holders EXCEPT ![m] = Nobody]
  BY <1>1, <1>9, <1>10, HoldersExcept
<1> QED
  BY <1>3, <1>4, <1>6, <1>7, <1>8, <1>10, <1>11

(* The invariant once it has left, if the name holds what it may hold.     *)
LEMMA LeavesKeeps ==
    ASSUME IInv, NEW r \in Request, Leaves(r), step' = step,
           NEW w \in {"absent", "empty"} \cup Upload,
           lib' = [lib EXCEPT ![filename[up[r]]] = w],
           orphaned \subseteq orphaned',
           w = "empty" => filename[up[r]] \in orphaned'
    PROVE  IInv'
<1>0. PICK m \in Name : m = filename[up[r]]
  BY FilenameAssumption DEF IInv, Types
<1> USE <1>0
<1>1. m \in Name
  BY FilenameAssumption DEF IInv, Types
<1>2. Types'
  BY <1>1, LeavesHolder DEF IInv, Types
<1>3. ReplaceIsEmpty'
  BY <1>1, <1>2, LeavesHolder, FilenameAssumption DEF IInv, Types, ReplaceIsEmpty, At
<1>4. OneReplacer'
  BY <1>2, LeavesHolder, FilenameAssumption DEF IInv, Types, OneReplacer, At
<1>5. ImportHolds'
  BY <1>1, LeavesHolder, NameAssumption DEF IInv, Types, ImportHolds
<1>6. NoStrayPlaceholder'
  <2> SUFFICES ASSUME NEW n \in Name, lib'[n] = "empty"
               PROVE  AnyHolder(n)' # Nobody \/ n \in orphaned'
    BY DEF NoStrayPlaceholder
  <2>1. CASE n = m
    BY <1>1, <2>1 DEF IInv, Types
  <2>2. CASE n # m
    BY <1>1, <2>2, LeavesHolder DEF IInv, Types, NoStrayPlaceholder
  <2> QED
    BY <2>1, <2>2
<1> QED
  BY <1>2, <1>3, <1>4, <1>5, <1>6 DEF IInv

(* The rename: the holder fills its name.                                  *)
LEMMA ReplaceStep ==
    ASSUME IInv, NEW r \in Request, step' = step, ReplaceFile(r)
    PROVE  IInv' /\ Library!Next
<1>1. Leaves(r) /\ up[r] \in Upload /\ filename[up[r]] \in Name
  BY FilenameAssumption
     DEF IInv, Types, ReplaceFile, Goto, Leaves, Step, locals
<1>2. lib' = [lib EXCEPT ![filename[up[r]]] = up[r]] /\ orphaned' = orphaned
  BY DEF ReplaceFile
<1>3. PICK w \in Upload : w = up[r]
  BY <1>1
<1>4. IInv'
  BY <1>1, <1>2, <1>3, LeavesKeeps, UploadAssumption
<1>5. Library!Fill(up[r], filename[up[r]])
  BY <1>1, <1>2, LeavesHolder DEF Library!Fill, Holders
<1> QED
  BY <1>1, <1>4, <1>5 DEF Library!Next

(* Its failure: the holder takes its placeholder back.                     *)
LEMMA ReplaceFailsStep ==
    ASSUME IInv, NEW r \in Request, step' = step, ReplaceFails(r)
    PROVE  IInv' /\ Library!Next
<1>1. Leaves(r) /\ up[r] \in Upload /\ filename[up[r]] \in Name
  BY FilenameAssumption
     DEF IInv, Types, ReplaceFails, Goto, Leaves, Step, locals
<1>2. lib' = [lib EXCEPT ![filename[up[r]]] = "absent"] /\ orphaned' = orphaned
  BY DEF ReplaceFails, hist
<1>3. IInv'
  BY <1>1, <1>2, LeavesKeeps
<1>4. Library!Withdraw(up[r], filename[up[r]])
  BY <1>1, <1>2, LeavesHolder DEF Library!Withdraw, Holders
<1> QED
  BY <1>1, <1>3, <1>4 DEF Library!Next

(* A death at the rename abandons the placeholder; anywhere else it is     *)
(* quiet.                                                                  *)
LEMMA DiesStep ==
    ASSUME IInv, NEW r \in Request, step' = step, RequestDies(r)
    PROVE  IInv' /\ (Library!Next \/ UNCHANGED <<lib, Holders>>)
<1>1. /\ up[r] \in Upload /\ filename[up[r]] \in Name /\ AnyOf(Upload) \in Upload
      /\ lib' = lib /\ up' = [up EXCEPT ![r] = AnyOf(Upload)]
      /\ pc' = [pc EXCEPT ![r] = "idle"]
      /\ orphaned' = IF pc[r] = "replace" THEN orphaned \cup {filename[up[r]]} ELSE orphaned
  BY FilenameAssumption, AnyUpload DEF IInv, Types, RequestDies, Returns, Goto
<1>2. CASE pc[r] = "replace"
  <2>1. Leaves(r)
    BY <1>1, <1>2 DEF Leaves, Step
  <2>2. lib' = [lib EXCEPT ![filename[up[r]]] = "empty"]
    BY <1>1, <1>2 DEF IInv, Types, ReplaceIsEmpty
  <2>3. IInv'
    BY <1>1, <1>2, <2>1, <2>2, LeavesKeeps
  <2>4. Library!Abandon(up[r], filename[up[r]])
    BY <1>1, <2>1, LeavesHolder DEF Library!Abandon, Holders
  <2> QED
    BY <1>1, <2>3, <2>4 DEF Library!Next
<1>3. CASE pc[r] # "replace"
  <2>1. Moves(r)
    BY <1>1, <1>3 DEF Moves, Step
  <2> QED
    BY <2>1, MovesIsQuiet, QuietKeeps DEF Holders
<1> QED
  BY <1>2, <1>3

(* Every step of the uploads.                                              *)
LEMMA UploadStep ==
    ASSUME IInv, NextUpload, UNCHANGED importVars
    PROVE  IInv' /\ (Library!Next \/ UNCHANGED <<lib, Holders>>)
<1>0. step' = step
  BY DEF importVars
<1>1. ASSUME NEW u \in Upload,
             start_chunked_upload(u) \/ SessionExpires(u) \/ ChunksExpire(u)
               \/ DirectoryAges(u) \/ CleanupUploadTmp(u)
      PROVE  IInv' /\ UNCHANGED <<lib, Holders>>
  <2>1. lib' = lib /\ orphaned' = orphaned /\ pc' = pc /\ up' = up
    BY <1>1 DEF start_chunked_upload, SessionExpires, ChunksExpire, DirectoryAges,
                CleanupUploadTmp, locals, hist
  <2>2. Types' /\ Quiet
    BY <1>0, <2>1 DEF IInv, Types, Quiet, SameHolders
  <2> QED
    BY <2>2, QuietKeeps DEF Holders
<1>2. ASSUME NEW r \in Request, Moves(r)
      PROVE  IInv' /\ UNCHANGED <<lib, Holders>>
  BY <1>0, <1>2, MovesIsQuiet, QuietKeeps DEF Holders
<1>3. ASSUME NEW r \in Request, _claim_destination(r)
      PROVE  IInv' /\ (Library!Next \/ UNCHANGED <<lib, Holders>>)
  <2>1. CASE lib[filename[up[r]]] = "absent"
    BY <1>0, <1>3, <2>1, ClaimStep
  <2>2. CASE lib[filename[up[r]]] # "absent"
    <3>1. Moves(r)
      BY <1>3, <2>2 DEF _claim_destination, Moves, Goto, Step, locals, hist
    <3> QED
      BY <3>1, <1>2
  <2> QED
    BY <2>1, <2>2
<1>4. ASSUME NEW u \in Upload, NEW r \in Request, Arrives(r, u)
      PROVE  IInv' /\ UNCHANGED <<lib, Holders>>
  BY <1>2, <1>4, ArrivesMoves
<1>5. ASSUME NEW r \in Request,
             Proceeds(r) \/ ChunkFails(r) \/ ResolveFails(r) \/ ReplaceFails(r)
               \/ RequestDies(r)
      PROVE  IInv' /\ (Library!Next \/ UNCHANGED <<lib, Holders>>)
  <2>1. CASE Small(r)
    BY <2>1, <1>2, SmallMoves
  <2>2. CASE _claim_destination(r)
    BY <2>2, <1>3
  <2>3. CASE ReplaceFile(r)
    BY <1>0, <2>3, ReplaceStep
  <2>4. CASE ReplaceFails(r)
    BY <1>0, <2>4, ReplaceFailsStep
  <2>5. CASE RequestDies(r)
    BY <1>0, <2>5, DiesStep
  <2> QED
    BY <1>5, <2>1, <2>2, <2>3, <2>4, <2>5 DEF Proceeds, Small
<1> QED
  BY <1>1, <1>4, <1>5 DEF NextUpload

-----------------------------------------------------------------------------
(* The attempt's steps but the three that change the library.              *)
ImportSmall ==
    \/ \E u \in Url : Import!http_download(u)
    \/ \E e \in ETag : Import!PartialContent(e) \/ Import!FullContent(e)
    \/ Import!AskAgain \/ Import!WriteMetadata \/ Import!OpenTarget
    \/ Import!ReceiveBlock \/ Import!BodyEnds \/ Import!CheckFree \/ Import!CopyFile
    \/ Import!Register \/ Import!UnlinkStaging

(* They are quiet (http_download and publish_file up to the claim).        *)
LEMMA ImportSmallQuiet ==
    ASSUME IInv, ImportSmall, UNCHANGED uploadVars
    PROVE  Types' /\ Quiet
<1>1. pc' = pc /\ up' = up
  BY DEF uploadVars, locals
<1>2. lib' = lib /\ orphaned' = orphaned /\ step # "replace" /\ step' # "replace"
  BY DEF ImportSmall, Import!http_download, Import!PartialContent, Import!FullContent,
         Import!Respond, Import!AskAgain, Import!WriteMetadata, Import!OpenTarget,
         Import!ReceiveBlock, Import!BodyEnds, Import!CheckFree, Import!CopyFile,
         Import!Register, Import!UnlinkStaging, Import!Ends
<1> QED
  BY <1>1, <1>2 DEF IInv, Types, Quiet, SameHolders

(* The name the attempt imports while the requests do not move: its holder *)
(* follows the attempt's step, the holders of other names stay.            *)
LEMMA ImportHolder ==
    ASSUME IInv, UNCHANGED uploadVars
    PROVE  /\ \A n \in Name : n # name => AnyHolder(n)' = AnyHolder(n)
           /\ AnyHolder(name) = IF step = "replace" THEN "provider" ELSE Holder(name)
           /\ AnyHolder(name)' = IF step' = "replace" THEN "provider" ELSE Holder(name)
<1>1. \A n \in Name : Holder(n)' = Holder(n)
  BY QuietHolder DEF SameHolders, uploadVars, locals
<1> QED
  BY <1>1, NameAssumption DEF AnyHolder, Import!Provider

(* Nobody else holds a name that no request is about to fill.              *)
LEMMA NameIsFree ==
    ASSUME IInv, lib[name] = "absent" \/ step = "replace"
    PROVE  Holder(name) = Nobody /\ \A q \in Request : ~At(pc, up, q, name)
<1>1. \A q \in Request : ~At(pc, up, q, name)
  BY DEF IInv, ReplaceIsEmpty, ImportHolds, At
<1> QED
  BY <1>1, HolderNone, HolderDef, NameAssumption

(* The exclusive open of publish_file.                                     *)
LEMMA ImportClaimStep ==
    ASSUME IInv, Import!ClaimDestination, UNCHANGED uploadVars
    PROVE  IInv' /\ Library!Next
<1>1. /\ pc' = pc /\ up' = up /\ orphaned' = orphaned /\ lib[name] = "absent"
      /\ step' = "replace" /\ lib' = [lib EXCEPT ![name] = "empty"]
  BY DEF Import!ClaimDestination, uploadVars, locals
<1>2. \A q \in Request : ~At(pc, up, q, name)
  BY <1>1, NameIsFree
<1>3. Holders' = [Holders EXCEPT ![name] = "provider"]
  BY <1>1, ImportHolder, HoldersExcept, NameAssumption
<1>4. Library!Claim("provider", name)
  BY <1>1, <1>3 DEF Library!Claim, Holders
<1>5. Types' /\ OneReplacer'
  BY <1>1 DEF IInv, Types, OneReplacer
<1>6. ReplaceIsEmpty' /\ ImportHolds'
  BY <1>1, <1>2, NameAssumption, FilenameAssumption
     DEF IInv, Types, ReplaceIsEmpty, ImportHolds, At
<1>7. NoStrayPlaceholder'
  BY <1>1, ImportHolder DEF IInv, Types, NoStrayPlaceholder, Nobody
<1> QED
  BY <1>4, <1>5, <1>6, <1>7, NameAssumption DEF IInv, Library!Next, Import!Provider

(* The attempt leaves the rename, with w at the name.                      *)
LEMMA ImportLeaves ==
    ASSUME IInv, UNCHANGED uploadVars, step = "replace", step' # "replace",
           NEW w \in {"absent", "empty", "provider"}, lib' = [lib EXCEPT ![name] = w],
           orphaned \subseteq orphaned', w = "empty" => name \in orphaned'
    PROVE  /\ IInv' /\ Holders[name] = "provider"
           /\ Holders' = [Holders EXCEPT ![name] = Nobody]
<1>1. pc' = pc /\ up' = up
  BY DEF uploadVars, locals
<1>2. Holder(name) = Nobody /\ \A q \in Request : ~At(pc, up, q, name)
  BY NameIsFree
<1>3. Holders[name] = "provider"
  BY ImportHolder, NameAssumption DEF Holders
<1>4. Holders' = [Holders EXCEPT ![name] = Nobody]
  BY <1>2, ImportHolder, HoldersExcept, NameAssumption
<1>5. Types' /\ OneReplacer' /\ ImportHolds'
  BY <1>1, NameAssumption DEF IInv, Types, OneReplacer, ImportHolds
<1>6. ReplaceIsEmpty'
  BY <1>1, <1>2, NameAssumption, FilenameAssumption DEF IInv, Types, ReplaceIsEmpty, At
<1>7. NoStrayPlaceholder'
  BY ImportHolder, NameAssumption DEF IInv, Types, NoStrayPlaceholder
<1> QED
  BY <1>3, <1>4, <1>5, <1>6, <1>7 DEF IInv

(* Every step of the import.                                               *)
LEMMA ImportStep ==
    ASSUME IInv, Import!NextImport, UNCHANGED uploadVars
    PROVE  IInv' /\ (Library!Next \/ UNCHANGED <<lib, Holders>>)
<1> USE NameAssumption
<1>1. CASE ImportSmall
  BY <1>1, ImportSmallQuiet, QuietKeeps DEF Holders
<1>2. CASE Import!ClaimDestination
  BY <1>2, ImportClaimStep
<1>3. CASE Import!ReplaceFile
  <2>1. /\ step = "replace" /\ step' # "replace" /\ orphaned' = orphaned
        /\ lib' = [lib EXCEPT ![name] = "provider"]
    BY <1>3 DEF Import!ReplaceFile, Import!Provider
  <2>2. IInv' /\ Library!Fill("provider", name)
    BY <2>1, ImportLeaves DEF Library!Fill, Holders
  <2> QED
    BY <2>2 DEF Library!Next, Import!Provider
<1>4. CASE Import!AttemptFails /\ step = "replace"
  <2>1. /\ step' # "replace" /\ orphaned' = orphaned
        /\ lib' = [lib EXCEPT ![name] = "absent"]
    BY <1>4 DEF Import!AttemptFails, Import!Ends
  <2>2. IInv' /\ Library!Withdraw("provider", name)
    BY <1>4, <2>1, ImportLeaves DEF Library!Withdraw, Holders
  <2> QED
    BY <2>2 DEF Library!Next, Import!Provider
<1>5. CASE Import!WorkerDies /\ step = "replace"
  <2>1. /\ step' # "replace" /\ orphaned' = orphaned \cup {name} /\ lib' = lib
    BY <1>5 DEF Import!WorkerDies, Import!Ends
  <2>2. lib' = [lib EXCEPT ![name] = "empty"]
    BY <1>5, <2>1 DEF IInv, Types, ImportHolds
  <2>3. IInv' /\ Library!Abandon("provider", name)
    BY <1>5, <2>1, <2>2, ImportLeaves DEF Library!Abandon, Holders
  <2> QED
    BY <2>3 DEF Library!Next, Import!Provider
<1>6. CASE (Import!AttemptFails \/ Import!WorkerDies) /\ step # "replace"
  <2>1. Types' /\ Quiet
    BY <1>6 DEF Import!AttemptFails, Import!WorkerDies, Import!Ends, uploadVars, locals,
                IInv, Types, Quiet, SameHolders
  <2> QED
    BY <2>1, QuietKeeps DEF Holders
<1> QED
  BY <1>1, <1>2, <1>3, <1>4, <1>5, <1>6 DEF Import!NextImport, ImportSmall

-----------------------------------------------------------------------------
(* The initial state, and a step of the composition.                       *)
LEMMA InitHolds == AllInit => IInv /\ Library!Init
<1> SUFFICES ASSUME AllInit PROVE IInv /\ Library!Init
  OBVIOUS
<1>1. /\ lib = [n \in Name |-> "absent"] /\ pc = [r \in Request |-> "idle"]
      /\ up = [r \in Request |-> AnyOf(Upload)] /\ step = "idle"
  BY DEF AllInit, Init, InitUpload, InitLocals, Import!InitImport
<1>2. \A n \in Name : \A q \in Request : ~At(pc, up, q, n)
  BY <1>1 DEF At
<1>3. \A n \in Name : AnyHolder(n) = Nobody
  BY <1>1, <1>2, HolderNone, HolderDef DEF AnyHolder
<1>4. IInv
  BY <1>1, AnyUpload DEF IInv, Types, ReplaceIsEmpty, OneReplacer, ImportHolds,
                         NoStrayPlaceholder, Step
<1>5. Library!Init
  BY <1>1, <1>3 DEF Library!Init
<1> QED
  BY <1>4, <1>5

(* Uploads and imports together keep the invariant and step as             *)
(* ExclusivePublish does, or not at all.                                   *)
LEMMA NextHolds ==
    IInv /\ [AllNext]_allVars => IInv' /\ [Library!Next]_(Library!vars)
<1> SUFFICES ASSUME IInv, [AllNext]_allVars
             PROVE  IInv' /\ (Library!Next \/ UNCHANGED Library!vars)
  OBVIOUS
<1>1. CASE AllNext
  BY <1>1, UploadStep, ImportStep DEF AllNext, Library!vars, Holders
<1>2. CASE UNCHANGED allVars
  <2>1. Types' /\ Quiet
    BY <1>2 DEF allVars, importVars, uploadVars, locals, IInv, Types, Quiet, SameHolders
  <2> QED
    BY <2>1, QuietKeeps DEF Library!vars
<1> QED
  BY <1>1, <1>2

(* Uploads and imports implement ExclusivePublish: whatever races, fails   *)
(* or dies, no step writes over or removes a file of the library but a     *)
(* publisher its own placeholder (upload.py, _claim_destination;           *)
(* downloads.py, publish_file).                                            *)
THEOREM Exclusive == AllSpec => LibraryIsExclusive
<1> USE DEF LibraryIsExclusive
<1>1. QED
  BY InitHolds, NextHolds, PTL DEF AllSpec, Library!Spec

(* An empty file in the library has an owner about to fill it, or one that *)
(* died there (upload.py:499-501, downloads.py:372-374).                   *)
THEOREM Placeholders == AllSpec => []NoStrayPlaceholder
<1>1. IInv => NoStrayPlaceholder
  BY DEF IInv
<1> QED
  BY <1>1, InitHolds, NextHolds, PTL DEF AllSpec

-----------------------------------------------------------------------------
(* What the one version of a published file rests on.  The types it needs. *)
ImportTypes ==
    /\ target \in Seq(Import!Content)
    /\ meta \in [source : Url, etag : ETag] \cup {Import!NoMeta}
    /\ url \in Url \cup {Import!NoUrl} /\ offset \in Nat
    /\ step \in Import!Step /\ torn \in BOOLEAN /\ mixed \in BOOLEAN
    /\ sized \in BOOLEAN

(* The staging file holds the version its metadata names, but for the      *)
(* moment between the metadata of a new one and the truncation.            *)
MetaNamesTarget ==
    ~torn /\ ~(step = "open" /\ offset = 0) /\ meta # Import!NoMeta =>
      \A i \in 1 .. Len(target) : target[i] = <<meta.source, meta.etag>>

(* A request for the rest of the file is for the version that is there.    *)
RangeFits ==
    /\ step \in {"request", "meta", "open"} /\ offset > 0 =>
         /\ meta # Import!NoMeta /\ url = meta.source /\ etag = meta.etag
         /\ step # "request" => response = <<url, etag>>
    /\ step \in {"request", "meta", "open"} => url \in Url
    /\ step \in {"meta", "open"} => \E e \in ETag : response = <<url, e>>
    /\ step \in {"open", "stream"} =>
         /\ meta # Import!NoMeta /\ meta.source \in Url /\ meta.etag \in ETag
         /\ response = <<meta.source, meta.etag>>

(* What is about to be published is complete if its length was known, and  *)
(* its metadata is there.                                                  *)
Complete ==
    step \in {"exists", "copy", "claim", "replace"} =>
      /\ target # <<>> /\ meta # Import!NoMeta
      /\ sized => Len(target) = Blocks

VInv == ImportTypes /\ MetaNamesTarget /\ RangeFits /\ Complete /\ ImportIsOneVersion

(* The metadata names a link and a validator, or nothing.                  *)
LEMMA MetaType ==
    ASSUME VInv, meta # Import!NoMeta
    PROVE  meta.source \in Url /\ meta.etag \in ETag
BY DEF VInv, ImportTypes

(* Every step of http_download, publish_file and import_rom keeps it.      *)
LEMMA VersionStep == VInv /\ Import!NextImport => VInv'
<1> SUFFICES ASSUME VInv, Import!NextImport PROVE VInv'
  OBVIOUS
<1> USE StrongAssumption, NoneAssumption, SizeAssumption
    DEF Import!staging, Import!locals, Import!hist, Import!Step, Import!Content,
        Import!NoMeta
<1>0. ImportTypes /\ MetaNamesTarget /\ RangeFits /\ Complete /\ ImportIsOneVersion
  BY DEF VInv
<1>1. CASE \E u \in Url : Import!http_download(u)
  <2>1. ImportTypes'
    BY <1>0, <1>1 DEF Import!http_download, Import!StoredETag, ImportTypes
  <2>2. MetaNamesTarget'
    BY <1>0, <1>1
    DEF Import!http_download, Import!StoredETag, ImportTypes, MetaNamesTarget,
        RangeFits
  <2>3. RangeFits'
    BY <1>0, <1>1
    DEF Import!http_download, Import!StoredETag, ImportTypes, RangeFits
  <2>4. Complete'
    BY <1>0, <1>1
    DEF Import!http_download, Import!StoredETag, ImportTypes, RangeFits, Complete
  <2>5. ImportIsOneVersion'
    BY <1>0, <1>1
    DEF Import!http_download, Import!StoredETag, ImportIsOneVersion,
        Import!PublishedIsOneVersion
  <2> QED
    BY <2>1, <2>2, <2>3, <2>4, <2>5 DEF VInv
<1>2. CASE \E e \in ETag : Import!PartialContent(e)
  <2>1. ImportTypes'
    BY <1>0, <1>2 DEF Import!PartialContent, Import!Respond, ImportTypes
  <2>2. MetaNamesTarget'
    BY <1>0, <1>2
    DEF Import!PartialContent, Import!Respond, ImportTypes, MetaNamesTarget,
        RangeFits
  <2>3. RangeFits'
    BY <1>0, <1>2 DEF Import!PartialContent, Import!Respond, ImportTypes, RangeFits
  <2>4. Complete'
    BY <1>0, <1>2
    DEF Import!PartialContent, Import!Respond, ImportTypes, RangeFits, Complete
  <2>5. ImportIsOneVersion'
    BY <1>0, <1>2
    DEF Import!PartialContent, Import!Respond, ImportIsOneVersion,
        Import!PublishedIsOneVersion
  <2> QED
    BY <2>1, <2>2, <2>3, <2>4, <2>5 DEF VInv
<1>3. CASE \E e \in ETag : Import!FullContent(e)
  <2>1. ImportTypes'
    BY <1>0, <1>3 DEF Import!FullContent, Import!Respond, ImportTypes
  <2>2. MetaNamesTarget'
    BY <1>0, <1>3
    DEF Import!FullContent, Import!Respond, ImportTypes, MetaNamesTarget,
        RangeFits
  <2>3. RangeFits'
    BY <1>0, <1>3 DEF Import!FullContent, Import!Respond, ImportTypes, RangeFits
  <2>4. Complete'
    BY <1>0, <1>3
    DEF Import!FullContent, Import!Respond, ImportTypes, RangeFits, Complete
  <2>5. ImportIsOneVersion'
    BY <1>0, <1>3
    DEF Import!FullContent, Import!Respond, ImportIsOneVersion,
        Import!PublishedIsOneVersion
  <2> QED
    BY <2>1, <2>2, <2>3, <2>4, <2>5 DEF VInv
<1>4. CASE Import!AskAgain
  <2>1. ImportTypes'
    BY <1>0, <1>4 DEF Import!AskAgain, ImportTypes
  <2>2. MetaNamesTarget'
    BY <1>0, <1>4 DEF Import!AskAgain, ImportTypes, MetaNamesTarget, RangeFits
  <2>3. RangeFits'
    BY <1>0, <1>4 DEF Import!AskAgain, ImportTypes, RangeFits
  <2>4. Complete'
    BY <1>0, <1>4 DEF Import!AskAgain, ImportTypes, RangeFits, Complete
  <2>5. ImportIsOneVersion'
    BY <1>0, <1>4
    DEF Import!AskAgain, ImportIsOneVersion, Import!PublishedIsOneVersion
  <2> QED
    BY <2>1, <2>2, <2>3, <2>4, <2>5 DEF VInv
<1>5. CASE Import!WriteMetadata
  <2>1. ImportTypes'
    BY <1>0, <1>5 DEF Import!WriteMetadata, ImportTypes, RangeFits
  <2>2. MetaNamesTarget'
    BY <1>0, <1>5 DEF Import!WriteMetadata, ImportTypes, MetaNamesTarget, RangeFits
  <2>3. RangeFits'
    BY <1>0, <1>5 DEF Import!WriteMetadata, ImportTypes, RangeFits
  <2>4. Complete'
    BY <1>0, <1>5 DEF Import!WriteMetadata, ImportTypes, RangeFits, Complete
  <2>5. ImportIsOneVersion'
    BY <1>0, <1>5
    DEF Import!WriteMetadata, ImportIsOneVersion, Import!PublishedIsOneVersion
  <2> QED
    BY <2>1, <2>2, <2>3, <2>4, <2>5 DEF VInv
<1>6. CASE Import!OpenTarget
  <2>1. ImportTypes'
    BY <1>0, <1>6 DEF Import!OpenTarget, ImportTypes
  <2>2. MetaNamesTarget'
    BY <1>0, <1>6 DEF Import!OpenTarget, ImportTypes, MetaNamesTarget, RangeFits
  <2>3. RangeFits'
    BY <1>0, <1>6 DEF Import!OpenTarget, ImportTypes, RangeFits
  <2>4. Complete'
    BY <1>0, <1>6 DEF Import!OpenTarget, ImportTypes, RangeFits, Complete
  <2>5. ImportIsOneVersion'
    BY <1>0, <1>6
    DEF Import!OpenTarget, ImportIsOneVersion, Import!PublishedIsOneVersion
  <2> QED
    BY <2>1, <2>2, <2>3, <2>4, <2>5 DEF VInv
<1>7. CASE Import!ReceiveBlock
  <2>1. ImportTypes'
    <3>1. response \in Import!Content
      BY <1>0, <1>7 DEF Import!ReceiveBlock, RangeFits
    <3> QED
      BY <1>0, <1>7, <3>1 DEF Import!ReceiveBlock, ImportTypes
  <2>2. MetaNamesTarget'
    BY <1>0, <1>7 DEF Import!ReceiveBlock, ImportTypes, MetaNamesTarget, RangeFits
  <2>3. RangeFits'
    BY <1>0, <1>7 DEF Import!ReceiveBlock, ImportTypes, RangeFits
  <2>4. Complete'
    BY <1>0, <1>7 DEF Import!ReceiveBlock, ImportTypes, RangeFits, Complete
  <2>5. ImportIsOneVersion'
    BY <1>0, <1>7
    DEF Import!ReceiveBlock, ImportIsOneVersion, Import!PublishedIsOneVersion
  <2> QED
    BY <2>1, <2>2, <2>3, <2>4, <2>5 DEF VInv
<1>8. CASE Import!BodyEnds \/ Import!CheckFree \/ Import!CopyFile \/ Import!ClaimDestination
  <2>1. ImportTypes'
    BY <1>0, <1>8
    DEF Import!BodyEnds, Import!CheckFree, Import!CopyFile,
        Import!ClaimDestination, ImportTypes
  <2>2. MetaNamesTarget'
    BY <1>0, <1>8
    DEF Import!BodyEnds, Import!CheckFree, Import!CopyFile,
        Import!ClaimDestination, ImportTypes, MetaNamesTarget, RangeFits
  <2>3. RangeFits'
    BY <1>0, <1>8
    DEF Import!BodyEnds, Import!CheckFree, Import!CopyFile,
        Import!ClaimDestination, ImportTypes, RangeFits
  <2>4. Complete'
    BY <1>0, <1>8
    DEF Import!BodyEnds, Import!CheckFree, Import!CopyFile,
        Import!ClaimDestination, ImportTypes, RangeFits, Complete
  <2>5. ImportIsOneVersion'
    BY <1>0, <1>8
    DEF Import!BodyEnds, Import!CheckFree, Import!CopyFile,
        Import!ClaimDestination, ImportIsOneVersion, Import!PublishedIsOneVersion
  <2> QED
    BY <2>1, <2>2, <2>3, <2>4, <2>5 DEF VInv
<1>9. CASE Import!ReplaceFile
  <2>1. ImportTypes'
    BY <1>0, <1>9 DEF Import!ReplaceFile, Import!OneVersion, ImportTypes
  <2>2. MetaNamesTarget'
    BY <1>0, <1>9
    DEF Import!ReplaceFile, Import!OneVersion, ImportTypes, MetaNamesTarget,
        RangeFits
  <2>3. RangeFits'
    BY <1>0, <1>9 DEF Import!ReplaceFile, Import!OneVersion, ImportTypes, RangeFits
  <2>4. Complete'
    BY <1>0, <1>9
    DEF Import!ReplaceFile, Import!OneVersion, ImportTypes, RangeFits, Complete
  <2>5. ImportIsOneVersion'
    <3>1. ASSUME ~torn PROVE Import!OneVersion
      <4> DEFINE c == <<meta.source, meta.etag>>
      <4>1. c \in Import!Content
        BY <1>0, <1>9, MetaType DEF Import!ReplaceFile, Complete
      <4>2. target \in [1 .. Len(target) -> Import!Content]
        BY <1>0, <1>9 DEF Import!ReplaceFile, ImportTypes
      <4>3. \A i \in 1 .. Len(target) : target[i] = c
        BY <1>0, <1>9, <3>1, <4>2 DEF Import!ReplaceFile, Complete, MetaNamesTarget
      <4>4. target = [i \in 1 .. Len(target) |-> c]
        BY <4>2, <4>3
      <4>5. sized => Len(target) = Blocks
        BY <1>0, <1>9 DEF Import!ReplaceFile, Complete
      <4> QED
        BY <4>1, <4>4, <4>5 DEF Import!OneVersion
    <3> QED
      BY <1>0, <1>9, <3>1
      DEF Import!ReplaceFile, ImportIsOneVersion, Import!PublishedIsOneVersion
  <2> QED
    BY <2>1, <2>2, <2>3, <2>4, <2>5 DEF VInv
<1>10. CASE Import!AttemptFails \/ Import!WorkerDies
  <2>1. ImportTypes'
    <3>1. /\ target' = target /\ meta' \in {meta, Import!NoMeta} /\ torn' \in BOOLEAN
          /\ mixed' = mixed /\ step' = "idle" /\ url' = Import!NoUrl /\ offset' = 0
          /\ sized' = TRUE
      BY <1>0, <1>10 DEF Import!AttemptFails, Import!WorkerDies, Import!Ends,
                         Import!LeavesStaging, ImportTypes
    <3> QED
      BY <1>0, <3>1 DEF ImportTypes
  <2>2. MetaNamesTarget'
    <3>1. /\ target' = target /\ meta' \in {meta, Import!NoMeta}
          /\ ~torn' => ~torn /\ (step = "open" /\ offset = 0 => target = <<>>)
      BY <1>0, <1>10
      DEF Import!AttemptFails, Import!WorkerDies, Import!LeavesStaging,
                         ImportTypes
    <3> QED
      BY <1>0, <3>1 DEF ImportTypes, MetaNamesTarget
  <2>3. RangeFits'
    BY <1>0, <1>10
    DEF Import!AttemptFails, Import!WorkerDies, Import!Ends, Import!LeavesStaging,
        ImportTypes, RangeFits
  <2>4. Complete'
    BY <1>0, <1>10
    DEF Import!AttemptFails, Import!WorkerDies, Import!Ends, Import!LeavesStaging,
        ImportTypes, RangeFits, Complete
  <2>5. ImportIsOneVersion'
    BY <1>0, <1>10
    DEF Import!AttemptFails, Import!WorkerDies, Import!Ends, Import!LeavesStaging,
        ImportIsOneVersion, Import!PublishedIsOneVersion
  <2> QED
    BY <2>1, <2>2, <2>3, <2>4, <2>5 DEF VInv
<1>11. CASE Import!Register
  <2>1. ImportTypes'
    <3>1. UNCHANGED <<target, meta, torn, mixed>> /\ sized' \in {TRUE, sized}
      BY <1>11 DEF Import!Register, Import!Ends
    <3>2. /\ url' \in {Import!NoUrl, url} /\ offset' \in {0, offset}
          /\ step' \in {"idle", "unlink"}
      BY <1>11 DEF Import!Register, Import!Ends
    <3>3. sized' \in BOOLEAN
      BY <1>0, <3>1 DEF ImportTypes
    <3>4. /\ url' \in Url \cup {Import!NoUrl} /\ offset' \in Nat
          /\ step' \in Import!Step
      BY <1>0, <3>2 DEF ImportTypes
    <3> QED
      BY <1>0, <3>1, <3>3, <3>4 DEF ImportTypes
  <2>2. MetaNamesTarget'
    BY <1>0, <1>11
    DEF Import!Register, Import!Ends, ImportTypes, MetaNamesTarget, RangeFits
  <2>3. RangeFits'
    BY <1>0, <1>11 DEF Import!Register, Import!Ends, ImportTypes, RangeFits
  <2>4. Complete'
    BY <1>0, <1>11
    DEF Import!Register, Import!Ends, ImportTypes, RangeFits, Complete
  <2>5. ImportIsOneVersion'
    BY <1>0, <1>11
    DEF Import!Register, Import!Ends, ImportIsOneVersion,
        Import!PublishedIsOneVersion
  <2> QED
    BY <2>1, <2>2, <2>3, <2>4, <2>5 DEF VInv
<1>12. CASE Import!UnlinkStaging
  <2>1. ImportTypes'
    BY <1>0, <1>12 DEF Import!UnlinkStaging, Import!Ends, ImportTypes
  <2>2. MetaNamesTarget'
    BY <1>0, <1>12
    DEF Import!UnlinkStaging, Import!Ends, ImportTypes, MetaNamesTarget, RangeFits
  <2>3. RangeFits'
    BY <1>0, <1>12 DEF Import!UnlinkStaging, Import!Ends, ImportTypes, RangeFits
  <2>4. Complete'
    BY <1>0, <1>12
    DEF Import!UnlinkStaging, Import!Ends, ImportTypes, RangeFits, Complete
  <2>5. ImportIsOneVersion'
    BY <1>0, <1>12
    DEF Import!UnlinkStaging, Import!Ends, ImportIsOneVersion,
        Import!PublishedIsOneVersion
  <2> QED
    BY <2>1, <2>2, <2>3, <2>4, <2>5 DEF VInv
<1> QED
  BY <1>1, <1>2, <1>3, <1>4, <1>5, <1>6, <1>7, <1>8, <1>9, <1>10, <1>11, <1>12
  DEF Import!NextImport

(* An upload does not touch the import.                                    *)
LEMMA VersionKeeps == VInv /\ UNCHANGED importVars => VInv'
BY DEF VInv, ImportTypes, MetaNamesTarget, RangeFits, Complete, ImportIsOneVersion,
       Import!PublishedIsOneVersion, importVars

(* At the start nothing is staged and nothing is published.                *)
LEMMA InitVersion == AllInit => VInv
<1> SUFFICES ASSUME AllInit PROVE VInv
  OBVIOUS
<1>1. /\ target = <<>> /\ meta = Import!NoMeta /\ step = "idle" /\ url = Import!NoUrl
      /\ offset = 0 /\ torn = FALSE /\ mixed = FALSE /\ sized = TRUE
  BY DEF AllInit, Import!InitImport, Import!InitLocals
<1>2. ImportTypes
  <2>1. target \in Seq(Import!Content)
    BY <1>1
  <2> QED
    BY <1>1, <2>1 DEF ImportTypes, Import!Step
<1>3. MetaNamesTarget /\ RangeFits /\ Complete
  BY <1>1 DEF MetaNamesTarget, RangeFits, Complete
<1> QED
  BY <1>1, <1>2, <1>3 DEF VInv, ImportIsOneVersion, Import!PublishedIsOneVersion

(* However many attempts fail, and whatever the links lead to by then, the *)
(* published file is one version of the provider's, and all of it if its   *)
(* length was known, unless an attempt stopped between the write of the    *)
(* resume metadata and the truncation (downloads.py:141-148).              *)
THEOREM OneVersionPublished == AllSpec => []ImportIsOneVersion
<1>1. AllInit => VInv
  BY InitVersion
<1>2. VInv /\ [AllNext]_allVars => VInv'
  BY VersionStep, VersionKeeps DEF AllNext, allVars, importVars
<1>3. VInv => ImportIsOneVersion
  BY DEF VInv
<1> QED
  BY <1>1, <1>2, <1>3, PTL DEF AllSpec

-----------------------------------------------------------------------------
(* Types.  A chunk's file that is written stays a chunk's file.            *)
LEMMA WritesChunkFile ==
    \A f \in ChunkFile : WriteFirst(f) \in ChunkFile /\ WriteSecond(f) \in ChunkFile
BY DEF ChunkFile, WriteFirst, WriteSecond

(* The locals of the requests, and the files of the uploads.               *)
LocalTypes ==
    /\ pc \in [Request -> Step] /\ up \in [Request -> Upload]
    /\ idx \in [Request -> Chunk] /\ todo \in [Request -> SUBSET Chunk]
    /\ size \in [Request -> BOOLEAN] /\ intact \in [Request -> BOOLEAN]

DiskTypes ==
    /\ tmpDir \subseteq started /\ old \subseteq Upload
    /\ chunk \in [Upload -> [Chunk -> ChunkFile]]

(* A request returns.                                                      *)
LEMMA ReturnsTyped ==
    ASSUME TypeOK, NEW r \in Request, Returns(r)
    PROVE  LocalTypes'
<1>1. AnyOf(Upload) \in Upload /\ AnyOf(Chunk) \in Chunk
  BY UploadAssumption, ChunkAssumption DEF AnyOf
<1> QED
  BY <1>1 DEF TypeOK, LocalTypes, Returns, Goto, Step

(* A request goes on with its locals.                                      *)
LEMMA GotoTyped ==
    ASSUME TypeOK, NEW r \in Request, NEW s \in Step, Goto(r, s), UNCHANGED locals
    PROVE  LocalTypes'
BY DEF TypeOK, LocalTypes, Goto, locals

(* A chunk's file is written.                                              *)
LEMMA SetChunkTyped ==
    ASSUME TypeOK, NEW r \in Request, NEW c \in ChunkFile, SetChunk(up[r], idx[r], c)
    PROVE  chunk' \in [Upload -> [Chunk -> ChunkFile]]
BY DEF TypeOK, SetChunk

(* _cleanup_tmp removes the directory with its chunks.                     *)
LEMMA RemoveTmpTyped ==
    ASSUME TypeOK, NEW u \in Upload, RemoveTmp(u), UNCHANGED started
    PROVE  DiskTypes'
BY DEF TypeOK, RemoveTmp, DiskTypes, ChunkFile

(* Every step of a chunked upload keeps the types of the uploads           *)
(* (endpoints/roms/upload.py).                                             *)
LEMMA UploadTypeStep == TypeOK /\ NextUpload => TypeOK'
<1> SUFFICES ASSUME TypeOK, NextUpload PROVE TypeOK'
  OBVIOUS
<1>a. \A r \in Request : up[r] \in Upload /\ idx[r] \in Chunk /\ filename[up[r]] \in Name
  BY FilenameAssumption DEF TypeOK
<1>1. ASSUME NEW u \in Upload, start_chunked_upload(u) PROVE TypeOK'
  BY <1>1 DEF start_chunked_upload, TypeOK, store, disk, locals, hist
<1>2. ASSUME NEW u \in Upload, SessionExpires(u) PROVE TypeOK'
  BY <1>2 DEF SessionExpires, TypeOK, store, disk, locals, hist
<1>3. ASSUME NEW u \in Upload, ChunksExpire(u) PROVE TypeOK'
  BY <1>3 DEF ChunksExpire, TypeOK, store, disk, locals, hist
<1>4. ASSUME NEW u \in Upload, DirectoryAges(u) PROVE TypeOK'
  BY <1>4 DEF DirectoryAges, TypeOK, store, disk, locals, hist
<1>5. ASSUME NEW u \in Upload, CleanupUploadTmp(u) PROVE TypeOK'
  BY <1>5, RemoveTmpTyped DEF CleanupUploadTmp, DiskTypes, TypeOK, store, locals, hist
<1>6. ASSUME NEW u \in Upload, NEW r \in Request, Arrives(r, u) PROVE TypeOK'
  <2>1. /\ UNCHANGED <<lib, started, store, disk, todo, size, intact, hist>>
        /\ up' = [up EXCEPT ![r] = u]
        /\ pc' = [pc EXCEPT ![r] = "open"] \/ pc' = [pc EXCEPT ![r] = "count"]
             \/ pc' = [pc EXCEPT ![r] = "drop"]
        /\ UNCHANGED idx \/ \E i \in Chunk : idx' = [idx EXCEPT ![r] = i]
    BY <1>6
    DEF Arrives, upload_chunk, complete_chunked_upload, cancel_chunked_upload, Goto
  <2>2. pc' \in [Request -> Step]
    BY <2>1 DEF TypeOK, Step
  <2>3. up' \in [Request -> Upload] /\ idx' \in [Request -> Chunk]
    <3>1. /\ up' = [up EXCEPT ![r] = u]
          /\ UNCHANGED idx \/ \E i \in Chunk : idx' = [idx EXCEPT ![r] = i]
      BY <2>1
    <3>2. up \in [Request -> Upload] /\ idx \in [Request -> Chunk]
      BY DEF TypeOK
    <3> QED
      BY <3>1, <3>2
  <2>4. UNCHANGED <<lib, started, store, disk, todo, size, intact, hist>>
    BY <2>1
  <2> QED
    BY <2>2, <2>3, <2>4 DEF TypeOK, store, disk, hist
<1>7. ASSUME NEW r \in Request, OpenChunk(r) PROVE TypeOK'
  <2>1. overlap' \subseteq Upload /\ UNCHANGED <<lib, started, store, orphaned, damaged>>
    BY <1>a, <1>7 DEF OpenChunk, NoteOverlap, TypeOK
  <2>2. CASE up[r] \in tmpDir
    <3>1. LocalTypes'
      BY <1>7, <2>2, GotoTyped DEF OpenChunk, Step
    <3>2. DiskTypes'
      BY <1>7, <2>1, <2>2, SetChunkTyped DEF OpenChunk, DiskTypes, TypeOK, ChunkFile
    <3> QED
      BY <2>1, <3>1, <3>2 DEF LocalTypes, DiskTypes, TypeOK, store
  <2>3. CASE up[r] \notin tmpDir
    BY <1>7, <2>1, <2>3, ReturnsTyped DEF OpenChunk, LocalTypes, TypeOK, store, disk
  <2> QED
    BY <2>2, <2>3
<1>8. ASSUME NEW r \in Request, WriteChunk(r) PROVE TypeOK'
  <2>1. LocalTypes'
    BY <1>8, GotoTyped DEF WriteChunk, Step
  <2>2. chunk' \in [Upload -> [Chunk -> ChunkFile]]
    <3>1. chunk[up[r]][idx[r]] \in ChunkFile
      BY <1>a DEF TypeOK
    <3> QED
      BY <1>8, <3>1, WritesChunkFile, SetChunkTyped DEF WriteChunk
  <2> QED
    BY <1>8, <2>1, <2>2 DEF WriteChunk, LocalTypes, TypeOK, store, hist
<1>9. ASSUME NEW r \in Request, AddChunk(r) PROVE TypeOK'
  BY <1>9, <1>a, ReturnsTyped
  DEF AddChunk, LocalTypes, TypeOK, disk, hist
<1>10. ASSUME NEW r \in Request, CountChunks(r) PROVE TypeOK'
  BY <1>10, ReturnsTyped, GotoTyped
  DEF CountChunks, LocalTypes, TypeOK, Step, store, disk, hist
<1>11. ASSUME NEW r \in Request, ClaimSession(r) PROVE TypeOK'
  BY <1>11, ReturnsTyped, GotoTyped
  DEF ClaimSession, LocalTypes, TypeOK, Step, store, disk, hist
<1>12. ASSUME NEW r \in Request, ResolveDestination(r) PROVE TypeOK'
  BY <1>12
  DEF ResolveDestination, Goto, TypeOK, Step, store, disk, hist
<1>13. ASSUME NEW r \in Request, AssembleChunk(r) PROVE TypeOK'
  <2>1. overlap' \subseteq Upload
    BY <1>a, <1>13 DEF AssembleChunk, NoteOverlap, TypeOK
  <2>2. pc' \in [Request -> Step]
    <3>1. UNCHANGED pc \/ pc' = [pc EXCEPT ![r] = "clean"]
      BY <1>13 DEF AssembleChunk, Goto
    <3> QED
      BY <3>1 DEF TypeOK, Step
  <2>3. todo' \in [Request -> SUBSET Chunk]
    <3>1. PICK i : UNCHANGED todo \/ todo' = [todo EXCEPT ![r] = @ \ {i}]
      BY <1>13 DEF AssembleChunk
    <3>2. todo \in [Request -> SUBSET Chunk]
      BY DEF TypeOK
    <3> QED
      BY <3>1, <3>2
  <2>4. size' \in [Request -> BOOLEAN] /\ intact' \in [Request -> BOOLEAN]
    <3>1. PICK s \in BOOLEAN, t \in BOOLEAN :
            /\ UNCHANGED size \/ size' = [size EXCEPT ![r] = s]
            /\ UNCHANGED intact \/ intact' = [intact EXCEPT ![r] = t]
      BY <1>13, Zenon DEF AssembleChunk
    <3> QED
      BY <3>1 DEF TypeOK
  <2> QED
    BY <1>13, <2>1, <2>2, <2>3, <2>4 DEF AssembleChunk, TypeOK, store, disk
<1>14. ASSUME NEW r \in Request, CheckSize(r) PROVE TypeOK'
  BY <1>14, GotoTyped
  DEF CheckSize, LocalTypes, TypeOK, Step, store, disk, hist
<1>15. ASSUME NEW r \in Request, _claim_destination(r) PROVE TypeOK'
  BY <1>15, <1>a, GotoTyped
  DEF _claim_destination, LocalTypes, TypeOK, Step, store, disk, hist
<1>16. ASSUME NEW r \in Request, ReplaceFile(r) PROVE TypeOK'
  BY <1>16, <1>a, GotoTyped
  DEF ReplaceFile, LocalTypes, TypeOK, Step, store, disk
<1>17. ASSUME NEW r \in Request, DropSession(r) PROVE TypeOK'
  BY <1>17, GotoTyped
  DEF DropSession, LocalTypes, TypeOK, Step, disk, hist
<1>18. ASSUME NEW r \in Request, _cleanup_upload_state(r) PROVE TypeOK'
  BY <1>18, <1>a, ReturnsTyped, GotoTyped, RemoveTmpTyped
  DEF _cleanup_upload_state, LocalTypes, DiskTypes, TypeOK, Step, disk, hist
<1>19. ASSUME NEW r \in Request, ChunkFails(r) PROVE TypeOK'
  <2>1. LocalTypes'
    BY <1>19, ReturnsTyped DEF ChunkFails
  <2>2. chunk' \in [Upload -> [Chunk -> ChunkFile]]
    BY <1>19, SetChunkTyped DEF ChunkFails, ChunkFile
  <2> QED
    BY <1>19, <2>1, <2>2 DEF ChunkFails, LocalTypes, TypeOK, store, hist
<1>20. ASSUME NEW r \in Request, ResolveFails(r) PROVE TypeOK'
  BY <1>20, ReturnsTyped, GotoTyped
  DEF ResolveFails, LocalTypes, TypeOK, Step, store, disk, hist
<1>21. ASSUME NEW r \in Request, ReplaceFails(r) PROVE TypeOK'
  BY <1>21, <1>a, GotoTyped
  DEF ReplaceFails, LocalTypes, TypeOK, Step, store, disk, hist
<1>22. ASSUME NEW r \in Request, RequestDies(r) PROVE TypeOK'
  BY <1>22, <1>a, ReturnsTyped
  DEF RequestDies, LocalTypes, TypeOK, store, disk
<1> QED
  BY <1>1, <1>2, <1>3, <1>4, <1>5, <1>6, <1>7, <1>8, <1>9, <1>10, <1>11,
     <1>12, <1>13, <1>14, <1>15, <1>16, <1>17, <1>18, <1>19, <1>20, <1>21, <1>22
  DEF NextUpload, Proceeds

(* Every step of an import keeps the types of the import                   *)
(* (handler/rom_providers/downloads.py), and of what the uploads share.    *)
LEMMA ImportTypeStep ==
    ASSUME VInv, AllTypeOK, Import!NextImport, UNCHANGED uploadVars
    PROVE  AllTypeOK'
<1> USE StrongAssumption, NoneAssumption, SizeAssumption, NameAssumption
    DEF Import!staging, Import!locals, Import!hist, Import!Step, Import!Content,
        Import!NoMeta, Import!TypeOK
<1>0. Import!TypeOK /\ ImportTypes /\ RangeFits
  BY DEF VInv, AllTypeOK
<1>1. ASSUME \E u \in Url : Import!http_download(u) PROVE Import!TypeOK'
  BY <1>0, <1>1 DEF Import!http_download, Import!StoredETag
<1>2. ASSUME \E e \in ETag : Import!PartialContent(e) PROVE Import!TypeOK'
  BY <1>0, <1>2 DEF Import!PartialContent, Import!Respond, RangeFits
<1>3. ASSUME \E e \in ETag : Import!FullContent(e) PROVE Import!TypeOK'
  BY <1>0, <1>3 DEF Import!FullContent, Import!Respond, RangeFits
<1>4. ASSUME Import!AskAgain PROVE Import!TypeOK'
  BY <1>0, <1>4 DEF Import!AskAgain
<1>5. ASSUME Import!WriteMetadata PROVE Import!TypeOK'
  BY <1>0, <1>5 DEF Import!WriteMetadata, RangeFits
<1>6. ASSUME Import!OpenTarget PROVE Import!TypeOK'
  BY <1>0, <1>6 DEF Import!OpenTarget
<1>7. ASSUME Import!ReceiveBlock PROVE Import!TypeOK'
  BY <1>0, <1>7 DEF Import!ReceiveBlock, RangeFits
<1>8. ASSUME Import!BodyEnds PROVE Import!TypeOK'
  BY <1>0, <1>8 DEF Import!BodyEnds
<1>9. ASSUME Import!CheckFree PROVE Import!TypeOK'
  BY <1>0, <1>9 DEF Import!CheckFree
<1>10. ASSUME Import!CopyFile PROVE Import!TypeOK'
  BY <1>0, <1>10 DEF Import!CopyFile
<1>11. ASSUME Import!ClaimDestination PROVE Import!TypeOK'
  BY <1>0, <1>11 DEF Import!ClaimDestination
<1>12. ASSUME Import!ReplaceFile PROVE Import!TypeOK'
  BY <1>0, <1>12 DEF Import!ReplaceFile, Import!OneVersion
<1>13. ASSUME Import!AttemptFails PROVE Import!TypeOK'
  BY <1>0, <1>13
  DEF Import!AttemptFails, Import!Ends, Import!LeavesStaging, Import!NoContent
<1>14. ASSUME Import!Register PROVE Import!TypeOK'
  <2>1. CASE Import!Ends
    BY <1>0, <1>14, <2>1 DEF Import!Register, Import!Ends, Import!NoContent
  <2>2. CASE step' = "unlink" /\ UNCHANGED Import!locals
    BY <1>0, <1>14, <2>2 DEF Import!Register
  <2> QED
    BY <1>14, <2>1, <2>2 DEF Import!Register
<1>15. ASSUME Import!UnlinkStaging PROVE Import!TypeOK'
  BY <1>0, <1>15 DEF Import!UnlinkStaging, Import!Ends, Import!NoContent
<1>16. ASSUME Import!WorkerDies PROVE Import!TypeOK'
  BY <1>0, <1>16
  DEF Import!WorkerDies, Import!Ends, Import!LeavesStaging, Import!NoContent
<1>17. Import!TypeOK'
  BY <1>1, <1>2, <1>3, <1>4, <1>5, <1>6, <1>7, <1>8, <1>9, <1>10,
     <1>11, <1>12, <1>13, <1>14, <1>15, <1>16
  DEF Import!NextImport
<1>18. /\ lib' \in [Name -> {"absent", "empty"} \cup Upload \cup {"provider"}]
      /\ orphaned' \subseteq Name
  BY DEF AllTypeOK, TypeOK, Import!NextImport, Import!http_download, Import!PartialContent,
         Import!FullContent, Import!Respond, Import!AskAgain, Import!WriteMetadata,
         Import!OpenTarget, Import!ReceiveBlock, Import!BodyEnds, Import!CheckFree,
         Import!CopyFile, Import!ClaimDestination, Import!ReplaceFile, Import!Provider,
         Import!AttemptFails, Import!Register, Import!UnlinkStaging, Import!WorkerDies
<1>19. TypeOK'
  BY <1>18 DEF AllTypeOK, TypeOK, uploadVars, store, disk, locals
<1> QED
  BY <1>17, <1>19 DEF AllTypeOK

(* No attempt writes more to the staging file than the provider announced  *)
(* (downloads.py, http_download), however it was interrupted and resumed,  *)
(* and the state of the uploads and the import has its type.               *)
THEOREM ImportsTyped == AllSpec => []AllTypeOK
<1>1. AllInit => VInv
  BY InitVersion
<1>2. AllInit => AllTypeOK
  <2> SUFFICES ASSUME AllInit PROVE AllTypeOK
    OBVIOUS
  <2>1. TypeOK
    BY UploadAssumption, ChunkAssumption
    DEF AllInit, Init, InitUpload, InitLocals, TypeOK, Step, ChunkFile, AnyOf
  <2>2. Import!TypeOK
    <3>1. target = <<>> /\ Len(target) = 0
      BY DEF AllInit, Import!InitImport
    <3> QED
      BY <3>1, InitVersion, SizeAssumption
      DEF VInv, ImportTypes, AllInit, Import!InitImport, Import!InitLocals, Import!TypeOK
  <2> QED
    BY <2>1, <2>2 DEF AllTypeOK
<1>3. VInv /\ [AllNext]_allVars => VInv'
  BY VersionStep, VersionKeeps DEF AllNext, allVars, importVars
<1>4. VInv /\ AllTypeOK /\ [AllNext]_allVars => AllTypeOK'
  <2> SUFFICES ASSUME VInv, AllTypeOK, [AllNext]_allVars PROVE AllTypeOK'
    OBVIOUS
  <2>1. CASE NextUpload /\ UNCHANGED importVars
    BY <2>1, UploadTypeStep DEF AllTypeOK, Import!TypeOK, importVars
  <2>2. CASE Import!NextImport /\ UNCHANGED uploadVars
    BY <2>2, ImportTypeStep
  <2>3. CASE UNCHANGED allVars
    BY <2>3 DEF AllTypeOK, TypeOK, Import!TypeOK, allVars, importVars, uploadVars,
                store, disk, locals
  <2> QED
    BY <2>1, <2>2, <2>3 DEF AllNext
<1> QED
  BY <1>1, <1>2, <1>3, <1>4, PTL DEF AllSpec

=============================================================================
