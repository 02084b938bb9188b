--------------------------- MODULE ProviderImport ---------------------------
(***************************************************************************)
(* The import of one result of a ROM provider: http_download and           *)
(* publish_file (handler/providers/downloads.py) as import_rom             *)
(* (handler/providers/jobs.py) runs them, attempt after attempt.  Jobs of  *)
(* one kind run one at a time (ProviderJobs), so one attempt runs at a     *)
(* time; it may fail, be cancelled at a report or die with its worker at   *)
(* every step, and what it leaves in the staging directory is what the     *)
(* next attempt resumes from.                                              *)
(***************************************************************************)
EXTENDS Naturals, Sequences

CONSTANTS
    Name, name,     \* names in the library's folder; the one imported
    Url,            \* links the result can be downloaded from
    ETag, Strong,   \* validators a server sends, the strong ones; the rest are W/
    Blocks,         \* the file's length
    Tries           \* requests of one attempt, 6 in the code

Provider == "provider"

VARIABLES
    lib,       \* lib[n]: "absent", "empty", or whose bytes are there
    orphaned,  \* history: names whose placeholder lost its owner to a crash
    target,    \* the staging file: for each block, the version it belongs to
    meta,      \* the .http.json file beside it
    pc, url, etag, offset, tries,   \* locals of the attempt
    response,  \* the version the server is sending
    sized,     \* its length is announced, or that of the file was known
    torn,      \* history: stopped after writing meta, before truncating target
    mixed      \* history: published a file that is not of one version

staging == <<target, meta>>
locals == <<url, etag, offset, tries, response, sized>>
hist == <<torn, mixed>>
vars == <<lib, orphaned, staging, pc, locals, hist>>

Content == Url \X ETag
NoContent == <<>>
NoUrl == "none"
NoETag == "none"
NoMeta == [source |-> NoUrl, etag |-> NoETag]

Step == {"idle", "request", "meta", "open", "stream", "exists", "copy",
         "claim", "replace", "register", "unlink"}

TypeOK ==
    /\ target \in Seq(Content) /\ Len(target) <= Blocks
    /\ meta \in [source : Url, etag : ETag] \cup {NoMeta}
    /\ pc \in Step /\ url \in Url \cup {NoUrl} /\ etag \in ETag \cup {NoETag}
    /\ offset \in 0 .. Blocks /\ tries \in 0 .. Tries
    /\ response \in Content \cup {NoContent} /\ sized \in BOOLEAN
    /\ torn \in BOOLEAN /\ mixed \in BOOLEAN

InitLocals ==
    /\ url = NoUrl /\ etag = NoETag /\ offset = 0 /\ tries = 0
    /\ response = NoContent /\ sized = TRUE

InitImport ==
    /\ target = <<>> /\ meta = NoMeta
    /\ pc = "idle" /\ InitLocals
    /\ torn = FALSE /\ mixed = FALSE

Init == lib = [n \in Name |-> "absent"] /\ orphaned = {} /\ InitImport

(* The attempt is over, well or not.                                       *)
Ends ==
    /\ pc' = "idle" /\ url' = NoUrl /\ etag' = NoETag /\ offset' = 0
    /\ tries' = 0 /\ response' = NoContent /\ sized' = TRUE

-----------------------------------------------------------------------------
(* Variant: the metadata is used whatever link it is about.                *)
ETagOfAny(u) == meta.etag

(* The validator of the bytes already there, if they came from link u.     *)
StoredETag(u) == IF meta.source = u THEN meta.etag ELSE NoETag

(* import_rom starts http_download: a partial file is resumed only with a  *)
(* strong validator.                                                       *)
http_download(u) ==
    /\ pc = "idle" /\ pc' = "request" /\ url' = u /\ tries' = Tries
    /\ etag' = StoredETag(u)
    /\ offset' = IF StoredETag(u) \in Strong THEN Len(target) ELSE 0
    /\ UNCHANGED <<lib, orphaned, staging, response, sized, hist>>

(* A redirect, or 412 or 416 to a range: the next request asks for all.    *)
AskAgain ==
    /\ pc = "request" /\ tries > 0 /\ tries' = tries - 1
    /\ offset' \in {offset, 0}
    /\ UNCHANGED <<lib, orphaned, staging, pc, url, etag, response, sized, hist>>

(* The server answers with the version the link leads to by then.          *)
Respond(e) ==
    /\ pc = "request" /\ tries > 0
    /\ response' = <<url, e>> /\ pc' = "meta"
    /\ UNCHANGED <<lib, orphaned, staging, url, etag, tries, hist>>

(* 206 to If-Range.  The check of the range and its validator leaves only  *)
(* the answer a correct server gives; any other is an error (AttemptFails).*)
(* The range names the length of the whole.                                *)
PartialContent(e) ==
    /\ offset > 0 /\ offset < Blocks /\ e = etag
    /\ Respond(e) /\ sized' = TRUE /\ UNCHANGED offset

(* 200: the whole file, whatever was asked, perhaps without its length.    *)
FullContent(e) == Respond(e) /\ sized' \in BOOLEAN /\ offset' = 0

WriteMetadata ==
    /\ pc = "meta" /\ pc' = "open"
    /\ meta' = [source |-> url, etag |-> response[2]]
    /\ UNCHANGED <<lib, orphaned, target, locals, hist>>

(* target.open("ab" if offset else "wb")                                   *)
OpenTarget ==
    /\ pc = "open" /\ pc' = "stream"
    /\ target' = IF offset = 0 THEN <<>> ELSE target
    /\ UNCHANGED <<lib, orphaned, meta, locals, hist>>

(* A block beyond the expected size is an error.                           *)
ReceiveBlock ==
    /\ pc = "stream" /\ Len(target) < Blocks
    /\ target' = Append(target, response)
    /\ UNCHANGED <<lib, orphaned, meta, pc, locals, hist>>

(* The body ends with the bytes that were announced, or, if none were,     *)
(* with any.                                                               *)
BodyEnds ==
    /\ pc = "stream" /\ pc' = "exists"
    /\ IF sized THEN Len(target) = Blocks ELSE target # <<>>
    /\ UNCHANGED <<lib, orphaned, staging, locals, hist>>

-----------------------------------------------------------------------------
(* publish_file                                                            *)
CheckFree ==
    /\ pc = "exists" /\ lib[name] = "absent" /\ pc' = "copy"
    /\ UNCHANGED <<lib, orphaned, staging, locals, hist>>

CopyFile ==
    /\ pc = "copy" /\ pc' = "claim"
    /\ UNCHANGED <<lib, orphaned, staging, locals, hist>>

(* Variant: the check before the copy is relied on.                        *)
ClaimUnchecked ==
    /\ pc = "claim" /\ pc' = "replace"
    /\ lib' = [lib EXCEPT ![name] = "empty"]
    /\ UNCHANGED <<orphaned, staging, locals, hist>>

(* os.open(destination, O_CREAT | O_EXCL | O_WRONLY)                       *)
ClaimDestination ==
    /\ pc = "claim" /\ lib[name] = "absent" /\ pc' = "replace"
    /\ lib' = [lib EXCEPT ![name] = "empty"]
    /\ UNCHANGED <<orphaned, staging, locals, hist>>

(* The staging file is the whole of one version, or at least the beginning *)
(* of one whose length nobody said.                                        *)
OneVersion ==
    /\ \E c \in Content : target = [i \in 1 .. Len(target) |-> c]
    /\ sized => Len(target) = Blocks

ReplaceFile ==
    /\ pc = "replace" /\ pc' = "register"
    /\ lib' = [lib EXCEPT ![name] = Provider]
    /\ mixed' = (mixed \/ ~OneVersion)
    /\ UNCHANGED <<orphaned, staging, locals, torn>>

(* What an attempt that stops at this step leaves in the staging           *)
(* directory: meta empty if it was being written, or about another version *)
(* than the bytes not yet truncated.                                       *)
LeavesStaging ==
    /\ meta' \in {meta} \cup (IF pc = "meta" THEN {NoMeta} ELSE {})
    /\ torn' = (torn \/ (pc = "open" /\ offset = 0 /\ target # <<>>))
    /\ UNCHANGED target

(* An error or a cancel before the file is in place; the placeholder is    *)
(* removed if this attempt put it there.  A destination that exists, a     *)
(* body that stops short and a range that does not fit end here too.       *)
AttemptFails ==
    /\ pc \notin {"idle", "register", "unlink"} /\ Ends
    /\ lib' = IF pc = "replace" THEN [lib EXCEPT ![name] = "absent"] ELSE lib
    /\ LeavesStaging /\ UNCHANGED <<orphaned, mixed>>

(* register_rom; if it fails the staging file is kept.                     *)
Register ==
    /\ pc = "register"
    /\ \/ pc' = "unlink" /\ UNCHANGED locals
       \/ Ends
    /\ UNCHANGED <<lib, orphaned, staging, hist>>

UnlinkStaging ==
    /\ pc = "unlink" /\ target' = <<>> /\ Ends
    /\ UNCHANGED <<lib, orphaned, meta, hist>>

-----------------------------------------------------------------------------
(* The worker dies: nothing is cleaned up.                                 *)
WorkerDies ==
    /\ pc # "idle" /\ Ends /\ LeavesStaging
    /\ orphaned' = IF pc = "replace" THEN orphaned \cup {name} ELSE orphaned
    /\ UNCHANGED <<lib, mixed>>

NextImport ==
    \/ \E u \in Url : http_download(u)
    \/ \E e \in ETag : PartialContent(e) \/ FullContent(e)
    \/ AskAgain \/ WriteMetadata \/ OpenTarget
    \/ ReceiveBlock \/ BodyEnds \/ CheckFree \/ CopyFile \/ ClaimDestination
    \/ ReplaceFile \/ AttemptFails \/ Register \/ UnlinkStaging \/ WorkerDies

Spec == Init /\ [][NextImport]_vars

-----------------------------------------------------------------------------
(* However many attempts failed, from whatever links and through whatever  *)
(* changes of the file behind them, what is published is one version of    *)
(* it, and all of it if the provider or the server said how long it is,    *)
(* unless an attempt stopped between the write of the resume metadata and  *)
(* the truncation of the old bytes (downloads.py:141-148).                 *)
PublishedIsOneVersion == mixed => torn

=============================================================================
