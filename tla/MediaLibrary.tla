------------------------------ MODULE MediaLibrary ------------------------------
(***************************************************************************)
(* The media library of a brand: apps/api/src/media/media.service.ts, the  *)
(* direct-upload route of the web application and the Google Drive import  *)
(* of apps/api/src/engine/engine-jobs.service.ts.                          *)
(*                                                                         *)
(* A file is kept in two places that no transaction joins: bytes in the    *)
(* blob store and a MediaAsset row in the database.  Every request checks, *)
(* stores and records in separate steps, which interleave with those of    *)
(* every other request.  Files are of size one: StorageLimit counts files. *)
(***************************************************************************)
EXTENDS Naturals, FiniteSets, Sequences

CONSTANTS
    Assets,         \* ids of MediaAsset rows
    Urls,           \* URLs the blob store hands out, each once
    BadUrls,        \* those whose bytes do not match the claimed type
    Files,          \* files of the synced Drive folder
    Requests,       \* HTTP requests and sync passes in progress at once
    NoAsset, NoUrl, NoFile,
    StorageLimit,   \* maxStorageBytes of the plan
    MaxOps,         \* bound: requests served in a behaviour
    MaxCrashes,     \* bound: functions killed between two steps
    MaxDbFailures   \* bound: statements that throw

ASSUME LibraryAssumption ==
    /\ BadUrls \subseteq Urls
    /\ IsFiniteSet(Assets) /\ IsFiniteSet(Requests)
    /\ NoAsset \notin Assets /\ NoUrl \notin Urls /\ NoFile \notin Files
    /\ StorageLimit \in Nat /\ MaxOps \in Nat
    /\ MaxCrashes \in Nat /\ MaxDbFailures \in Nat

VARIABLES
    \* The MediaAsset table.
    mstatus,    \* status, ABSENT before the row and DELETED after it
    url,        \* blobUrl
    link,       \* linkedPostId: an index of posts, 0 for NULL
    stale,      \* updatedAt is more than STALE_PROCESSING_MINUTES ago
    from,       \* the Drive file it was imported from
    \* The Post table, written by module MediaPipeline.
    posts,
    \* The blob store and DriveSyncLog.
    blobs,      \* URLs that hold bytes
    issued,     \* URLs ever handed out
    offered,    \* those of them that a browser transferred itself
    synced,     \* Drive files with a DriveSyncLog row
    \* The requests, and history.
    req,        \* the progress of each request
    contended,  \* URLs registered while another request registered or deleted
                \* them, or whose deletion was cut off
    ops, crashes, dbFailures

rowVars     == <<mstatus, url, link, stale, from>>
storeVars   == <<blobs, issued, offered, synced>>
faultVars   == <<crashes, dbFailures>>
libraryVars == <<mstatus, url, link, stale, from, posts, blobs, issued, offered, synced,
                 req, contended, ops, crashes, dbFailures>>

MediaStatus == {"PENDING", "PROCESSING", "READY", "SCHEDULED", "PUBLISHED", "FAILED"}
Present(a)  == mstatus[a] \in MediaStatus
Rows        == {a \in Assets : Present(a)}

\* Every row counts against the plan, however it was created.
Used == Cardinality(Rows)

\* What uploadAsset, registerUploadedAsset and getUploadPolicy have left.
HasRoom == Used + 1 <= StorageLimit

ActiveStatus == {"NEEDS_APPROVAL", "SCHEDULED", "PUBLISHING"}

RequestSteps == {"idle", "store", "put", "verify", "limit", "create", "log",
                 "fetch", "erase", "drop"}
Request == [pc : RequestSteps, kind : {"none", "upload", "token", "register",
                                       "delete", "sync"},
            asset : Assets \cup {NoAsset}, url : Urls \cup {NoUrl},
            file : Files \cup {NoFile}]
NoRequest == [pc |-> "idle", kind |-> "none", asset |-> NoAsset, url |-> NoUrl,
              file |-> NoFile]

\* A row that exists names its blob by a URL the store handed out, and a
\* request holds the row, the URL or the file it is about.
LibraryTypeOK ==
    /\ mstatus \in [Assets -> MediaStatus \cup {"ABSENT", "DELETED"}]
    /\ url \in [Assets -> issued \cup {NoUrl}]
    /\ link \in [Assets -> Nat]
    /\ stale \in [Assets -> BOOLEAN]
    /\ from \in [Assets -> Files \cup {NoFile}]
    /\ blobs \subseteq issued /\ offered \subseteq issued /\ issued \subseteq Urls
    /\ synced \subseteq Files
    /\ req \in [Requests -> Request]
    /\ contended \subseteq issued
    /\ ops \in Nat /\ crashes \in Nat /\ dbFailures \in Nat

LibraryInit ==
    /\ mstatus = [a \in Assets |-> "ABSENT"]
    /\ url = [a \in Assets |-> NoUrl]
    /\ link = [a \in Assets |-> 0]
    /\ stale = [a \in Assets |-> FALSE]
    /\ from = [a \in Assets |-> NoFile]
    /\ posts = <<>>
    /\ blobs = {} /\ issued = {} /\ offered = {} /\ synced = {}
    /\ req = [u \in Requests |-> NoRequest]
    /\ contended = {}
    /\ ops = 0 /\ crashes = 0 /\ dbFailures = 0

Open(u, r) ==
    /\ req[u].pc = "idle"
    /\ ops < MaxOps
    /\ ops' = ops + 1
    /\ req' = [req EXCEPT ![u] = r]

At(u, k, l)    == req[u].kind = k /\ req[u].pc = l
Continue(u, l) == req' = [req EXCEPT ![u].pc = l]
Reply(u)       == req' = [req EXCEPT ![u] = NoRequest]

\* storage.deleteFile: a failure to delete is logged and swallowed.
DeleteBlob(l) == blobs' \in {blobs, blobs \ {l}}

-----------------------------------------------------------------------------
(* uploadAsset: type, bytes and storage limit, then the store, then a row. *)

Upload(u) ==
    /\ HasRoom
    /\ Open(u, [NoRequest EXCEPT !.kind = "upload", !.pc = "store"])
    /\ UNCHANGED <<rowVars, posts, storeVars, contended, faultVars>>

\* put() with a random suffix: a URL no other file has.
PutBlob(u, free) ==
    /\ \E l \in free \ issued :
          /\ issued' = issued \cup {l}
          /\ blobs' = blobs \cup {l}
          /\ req' = [req EXCEPT ![u].pc = "create", ![u].url = l]
    /\ UNCHANGED <<rowVars, posts, offered, synced, contended, ops, faultVars>>

StoreUpload(u) == At(u, "upload", "store") /\ PutBlob(u, Urls \ BadUrls)

\* createAssetRecord.  A folder of another brand is refused, after the bytes
\* were stored.
CreateRow(u) ==
    /\ req[u].pc = "create"
    /\ \/ /\ \E a \in Assets :
                /\ mstatus[a] = "ABSENT"
                /\ mstatus' = [mstatus EXCEPT ![a] = "PENDING"]
                /\ url' = [url EXCEPT ![a] = req[u].url]
                /\ from' = [from EXCEPT ![a] = req[u].file]
          /\ IF req[u].kind = "sync" THEN Continue(u, "log") ELSE Reply(u)
       \/ /\ req[u].kind \in {"upload", "register"}
          /\ Reply(u)
          /\ UNCHANGED <<mstatus, url, from>>
    /\ UNCHANGED <<link, stale, posts, storeVars, contended, ops, faultVars>>

-----------------------------------------------------------------------------
(* The browser's direct upload: a token from media-upload-token while      *)
(* getUploadPolicy finds room, the transfer, then POST .../register.       *)

Token(u) ==
    /\ HasRoom
    /\ Open(u, [NoRequest EXCEPT !.kind = "token", !.pc = "put"])
    /\ UNCHANGED <<rowVars, posts, storeVars, contended, faultVars>>

Transfer(u) ==
    /\ At(u, "token", "put")
    /\ \E l \in Urls \ issued :
          /\ issued' = issued \cup {l}
          /\ offered' = offered \cup {l}
          /\ blobs' = blobs \cup {l}
    /\ Reply(u)
    /\ UNCHANGED <<rowVars, posts, synced, contended, ops, faultVars>>

Holding(l) == {v \in Requests :
                  req[v].kind \in {"register", "delete"} /\ req[v].url = l}

\* Mutant: the look-up of an existing row is gone.
RegisterAgain(u, l) ==
    /\ l \in offered \cap blobs
    /\ Open(u, [NoRequest EXCEPT !.kind = "register", !.pc = "verify", !.url = l])
    /\ contended' = IF Holding(l) = {} THEN contended ELSE contended \cup {l}
    /\ UNCHANGED <<rowVars, posts, storeVars, faultVars>>

\* inspectUpload, then findFirst({ blobUrl }): a URL that has a row is returned
\* as it is.  A client only knows the URLs it transferred itself; those of the
\* other paths have a row by the time it sees them.
Register(u, l) ==
    /\ l \in offered \cap blobs
    /\ \A a \in Rows : url[a] # l
    /\ Open(u, [NoRequest EXCEPT !.kind = "register", !.pc = "verify", !.url = l])
    /\ contended' = IF Holding(l) = {} THEN contended ELSE contended \cup {l}
    /\ UNCHANGED <<rowVars, posts, storeVars, faultVars>>

\* fetchLeadingBytes: a file that is not what it claims to be is deleted, one
\* that cannot be read is left for another try.
Verify(u) ==
    /\ At(u, "register", "verify")
    /\ LET l == req[u].url IN
          \/ l \in BadUrls /\ DeleteBlob(l) /\ Reply(u)
          \/ Reply(u) /\ UNCHANGED blobs
          \/ l \in blobs \ BadUrls /\ Continue(u, "limit") /\ UNCHANGED blobs
    /\ UNCHANGED <<rowVars, posts, issued, offered, synced, contended, ops, faultVars>>

\* Mutant: the size of the new file is left out of the comparison.
CheckLimitOff(u) ==
    /\ At(u, "register", "limit")
    /\ \/ Used <= StorageLimit /\ Continue(u, "create") /\ UNCHANGED blobs
       \/ Used > StorageLimit /\ DeleteBlob(req[u].url) /\ Reply(u)
    /\ UNCHANGED <<rowVars, posts, issued, offered, synced, contended, ops, faultVars>>

\* assertWithinStorageLimit; past the limit the uploaded bytes are deleted.
CheckLimit(u) ==
    /\ At(u, "register", "limit")
    /\ \/ HasRoom /\ Continue(u, "create") /\ UNCHANGED blobs
       \/ ~HasRoom /\ DeleteBlob(req[u].url) /\ Reply(u)
    /\ UNCHANGED <<rowVars, posts, issued, offered, synced, contended, ops, faultVars>>

-----------------------------------------------------------------------------
(* deleteAsset: the linked post is checked, then the bytes go, then the    *)
(* row; PostMedia rows go with it (onDelete: Cascade).                     *)

LinkedToActive(a) == link[a] # 0 /\ posts[link[a]].status \in ActiveStatus

Delete(u, a) ==
    /\ Present(a)
    /\ ~LinkedToActive(a)
    /\ Open(u, [NoRequest EXCEPT !.kind = "delete", !.asset = a, !.url = url[a],
                    !.pc = IF url[a] = NoUrl THEN "drop" ELSE "erase"])
    /\ UNCHANGED <<rowVars, posts, storeVars, contended, faultVars>>

EraseBytes(u) ==
    /\ At(u, "delete", "erase")
    /\ DeleteBlob(req[u].url)
    /\ Continue(u, "drop")
    /\ UNCHANGED <<rowVars, posts, issued, offered, synced, contended, ops, faultVars>>

\* Deleting a row that is gone already throws.
DropRow(u) ==
    /\ At(u, "delete", "drop")
    /\ mstatus' = [mstatus EXCEPT ![req[u].asset] = "DELETED"]
    /\ Reply(u)
    /\ UNCHANGED <<url, link, stale, from, posts, storeVars, contended, ops, faultVars>>

-----------------------------------------------------------------------------
(* syncOneConfig, for one file of the folder: cron pass or "Sync now".     *)

\* Mutant: the log is not consulted.
SyncAll(u, f) ==
    /\ Open(u, [NoRequest EXCEPT !.kind = "sync", !.pc = "fetch", !.file = f])
    /\ UNCHANGED <<rowVars, posts, storeVars, contended, faultVars>>

\* A failed look-up counts as "not synced yet" (.catch(() => null)).
Sync(u, f) ==
    /\ Open(u, [NoRequest EXCEPT !.kind = "sync", !.pc = "fetch", !.file = f])
    /\ \/ f \notin synced /\ UNCHANGED dbFailures
       \/ /\ f \in synced
          /\ dbFailures < MaxDbFailures
          /\ dbFailures' = dbFailures + 1
    /\ UNCHANGED <<rowVars, posts, storeVars, contended, crashes>>

\* Download and uploadBuffer; there is no storage limit on this path.
FetchFile(u) == At(u, "sync", "fetch") /\ PutBlob(u, Urls)

\* Mutant: the log names the asset, not the file of the folder.
LogSyncAsset(u) ==
    /\ At(u, "sync", "log")
    /\ synced' = synced \cup {req[u].asset}
    /\ Reply(u)
    /\ UNCHANGED <<rowVars, posts, blobs, issued, offered, contended, ops, faultVars>>

\* DriveSyncLog is unique on (config, file): a second insert throws, and its
\* asset stays behind, PENDING.  Otherwise the pipeline runs on the asset.
LogSync(u) ==
    /\ At(u, "sync", "log")
    /\ synced' = synced \cup {req[u].file}
    /\ Reply(u)
    /\ UNCHANGED <<rowVars, posts, blobs, issued, offered, contended, ops, faultVars>>

-----------------------------------------------------------------------------
\* The request ends between two steps: its function is killed, the store or
\* Drive refuses it, or a statement throws.
CrashRequest(u) ==
    /\ crashes < MaxCrashes
    /\ req[u].pc # "idle"
    /\ crashes' = crashes + 1
    /\ contended' = IF req[u].kind = "delete"
                    THEN contended \cup ({req[u].url} \ {NoUrl}) ELSE contended
    /\ Reply(u)
    /\ UNCHANGED <<rowVars, posts, storeVars, ops, dbFailures>>

LibraryNext ==
    \E u \in Requests :
        \/ Upload(u) \/ StoreUpload(u) \/ CreateRow(u)
        \/ Token(u) \/ Transfer(u)
        \/ \E l \in Urls : Register(u, l)
        \/ Verify(u) \/ CheckLimit(u)
        \/ \E a \in Assets : Delete(u, a)
        \/ EraseBytes(u) \/ DropRow(u)
        \/ \E f \in Files : Sync(u, f)
        \/ FetchFile(u) \/ LogSync(u)
        \/ CrashRequest(u)

LibrarySpec == LibraryInit /\ [][LibraryNext]_libraryVars

-----------------------------------------------------------------------------
(* Properties.                                                             *)

BeingDeleted(a) == \E u \in Requests : req[u].kind = "delete" /\ req[u].asset = a

\* A row of the library never points at bytes that some other request has
\* deleted, unless it was registered while another request was registering or
\* deleting that very file, or its own deletion was cut off: in any other order
\* the clean-up of a refused registration never meets a file that has a row.
RowsKeepTheirBytes ==
    \A a \in Rows : url[a] # NoUrl =>
        \/ url[a] \in blobs \cup contended
        \/ BeingDeleted(a)

\* The storage limit is checked before it is used: overlapping uploads exceed
\* it, but by no more than the requests that were past the check together.
\* (Files imported from Drive count, and are never checked.)
DirectUploadsWithinLimit ==
    Cardinality({a \in Rows : from[a] = NoFile})
        <= StorageLimit + Cardinality(Requests) - 1

\* However often and however concurrently the folder is synced, a Drive file
\* becomes at most one asset per pass that overlaps its first import, plus one
\* for each import that was cut off or whose look-up failed.
ImportsBounded ==
    \A f \in Files :
        Cardinality({a \in Assets : from[a] = f})
            <= Cardinality(Requests) + crashes + dbFailures
=============================================================================
