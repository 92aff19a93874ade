------------------------------ MODULE MediaProofs ------------------------------
(***************************************************************************)
(* Proofs about modules MediaLibrary and MediaPipeline, for any number of  *)
(* assets, requests, runs and instants of the calendar.                    *)
(*                                                                         *)
(* The library: a row keeps its bytes unless a deletion or a fault         *)
(* intervenes (BytesInv), uploads pass the storage limit by the requests   *)
(* that asked at the same time (LimitInv), and a Drive file has as many    *)
(* rows as passes that overlap its first import (ImportsInv).  Requests    *)
(* check first and write later, so the invariants count those in between.  *)
(*                                                                         *)
(* The pipeline: runs that may be cut off, overtaken by their own timeout  *)
(* or repeated do what was paid for (GenInv, SchedInv), and an asset is    *)
(* posted within its budget (PostsInv): what an asset has been charged     *)
(* with is its posts, the runs that may still make one or fail it again,   *)
(* and one more claim if it can be claimed.  No step of a run adds to the  *)
(* charge; a fault, a timeout and a composition add to the budget.         *)
(***************************************************************************)
EXTENDS MediaPipeline, FiniteSetTheorems, SequenceTheorems, TLAPS

-----------------------------------------------------------------------------
(* Counting.                                                               *)

\* Sets of rows and of requests are finite.
LEMMA Counts ==
  /\ \A S \in SUBSET Assets   : IsFiniteSet(S) /\ Cardinality(S) \in Nat
  /\ \A S \in SUBSET Requests : IsFiniteSet(S) /\ Cardinality(S) \in Nat
BY LibraryAssumption, FS_Subset, FS_CardinalityType

\* A subset counts no more.
LEMMA FewerCount ==
  ASSUME NEW T, IsFiniteSet(T), NEW S \in SUBSET T
  PROVE  IsFiniteSet(S) /\ Cardinality(S) \in Nat /\ Cardinality(T) \in Nat
            /\ Cardinality(S) <= Cardinality(T)
BY FS_Subset, FS_CardinalityType

\* With one element more, a set counts one more at the most.
LEMMA OneMore ==
  ASSUME NEW T, IsFiniteSet(T), NEW x, NEW S \in SUBSET (T \cup {x})
  PROVE  IsFiniteSet(S) /\ Cardinality(S) \in Nat /\ Cardinality(T) \in Nat
            /\ Cardinality(S) <= Cardinality(T) + 1
<1>1. IsFiniteSet(T \cup {x}) /\ Cardinality(T \cup {x}) <= Cardinality(T) + 1
         /\ Cardinality(T) \in Nat
  BY FS_AddElement, FS_CardinalityType
<1> QED BY <1>1, FewerCount

\* A set that has lost an element counts one less.
LEMMA OneLess ==
  ASSUME NEW T, IsFiniteSet(T), NEW x \in T, NEW S \in SUBSET (T \ {x})
  PROVE  IsFiniteSet(S) /\ Cardinality(S) \in Nat /\ Cardinality(T) \in Nat
            /\ Cardinality(S) + 1 <= Cardinality(T)
<1>1. IsFiniteSet(T \ {x}) /\ Cardinality(T \ {x}) = Cardinality(T) - 1
         /\ Cardinality(T) \in Nat /\ Cardinality(T \ {x}) \in Nat
  BY FS_RemoveElement, FS_CardinalityType
<1> QED BY <1>1, FewerCount

\* Disjoint parts of a set count no more than the set.
LEMMA TwoParts ==
  ASSUME NEW U, IsFiniteSet(U), NEW S \in SUBSET U, NEW T \in SUBSET U, S \cap T = {}
  PROVE  Cardinality(S) + Cardinality(T) <= Cardinality(U)
<1>1. IsFiniteSet(S) /\ IsFiniteSet(T) /\ Cardinality(S) \in Nat /\ Cardinality(T) \in Nat
  BY FewerCount
<1>2. IsFiniteSet(S \cup T) /\ Cardinality(S \cup T) = Cardinality(S) + Cardinality(T)
  BY <1>1, FS_Union, FS_EmptySet
<1> QED BY <1>2, FewerCount

-----------------------------------------------------------------------------
(* The library: what requests hold.                                        *)

\* A URL, if any, that the store has handed out; a Drive file if and only if
\* it is an import; and the bytes of a row to be created are stored only for
\* an upload, a registration or an import.
Asked(u) ==
    /\ req[u].url \in issued \cup {NoUrl}
    /\ req[u].kind = "sync" <=> req[u].file \in Files
    /\ req[u].kind = "delete" => req[u].asset \in Assets
    /\ req[u].pc = "create" => req[u].kind \in {"upload", "register", "sync"}
    /\ req[u].pc \in {"fetch", "log"} => req[u].kind = "sync"
    /\ req[u].pc = "idle" => req[u].kind = "none"

TypedInv == LibraryTypeOK /\ \A u \in Requests : Asked(u)

LEMMA NoRequestTyped == NoRequest \in Request
BY DEF NoRequest, Request, RequestSteps

LEMMA TypedInit == LibraryInit => TypedInv
<1> SUFFICES ASSUME LibraryInit PROVE TypedInv
  OBVIOUS
<1>1. LibraryTypeOK
  BY LibraryAssumption, NoRequestTyped DEF LibraryInit, LibraryTypeOK
<1>2. \A u \in Requests : Asked(u)
  BY LibraryAssumption DEF LibraryInit, Asked, NoRequest
<1> QED BY <1>1, <1>2 DEF TypedInv

\* One request moves: the others hold what they held.
LEMMA OneRequest ==
  ASSUME TypedInv, NEW u \in Requests, NEW q \in Request, req' = [req EXCEPT ![u] = q],
         issued \subseteq issued',
         q.url \in issued' \cup {NoUrl},
         q.kind = "sync" <=> q.file \in Files,
         q.kind = "delete" => q.asset \in Assets,
         q.pc = "create" => q.kind \in {"upload", "register", "sync"},
         q.pc \in {"fetch", "log"} => q.kind = "sync",
         q.pc = "idle" => q.kind = "none"
  PROVE  req' \in [Requests -> Request] /\ \A v \in Requests : Asked(v)'
<1>1. req \in [Requests -> Request] BY DEF TypedInv, LibraryTypeOK
<1>2. ASSUME NEW v \in Requests PROVE Asked(v)'
  <2>1. CASE v = u BY <1>1, <2>1 DEF Asked
  <2>2. CASE v # u
    <3>1. req'[v] = req[v] BY <1>1, <2>2
    <3> QED BY <3>1 DEF TypedInv, Asked
  <2> QED BY <2>1, <2>2
<1> QED BY <1>1, <1>2

\* What a request becomes that starts, goes on to l, or is answered.
LEMMA RequestAt ==
  ASSUME NEW q \in Request, NEW l \in RequestSteps
  PROVE  [q EXCEPT !.pc = l] \in Request
BY DEF Request

LEMMA ReplyTyped ==
  ASSUME TypedInv, NEW u \in Requests, Reply(u), issued \subseteq issued'
  PROVE  req' \in [Requests -> Request] /\ \A v \in Requests : Asked(v)'
<1>1. NoRequest \in Request BY NoRequestTyped
<1> QED BY <1>1, OneRequest, LibraryAssumption DEF Reply, NoRequest

LEMMA ContinueTyped ==
  ASSUME TypedInv, NEW u \in Requests, NEW l \in RequestSteps \ {"idle"}, Continue(u, l),
         issued \subseteq issued',
         l = "create" => req[u].kind \in {"upload", "register", "sync"},
         l \in {"fetch", "log"} => req[u].kind = "sync"
  PROVE  req' \in [Requests -> Request] /\ \A v \in Requests : Asked(v)'
<1> DEFINE q == [req[u] EXCEPT !.pc = l]
<1>1. req[u] \in Request BY DEF TypedInv, LibraryTypeOK
<1>2. q \in Request BY <1>1, RequestAt
<1>3. /\ q.url = req[u].url /\ q.kind = req[u].kind /\ q.file = req[u].file
      /\ q.asset = req[u].asset /\ q.pc = l
  BY <1>1 DEF Request
<1>4. req' = [req EXCEPT ![u] = q] BY DEF Continue
<1>5. /\ req[u].url \in issued \cup {NoUrl}
      /\ req[u].kind = "sync" <=> req[u].file \in Files
      /\ req[u].kind = "delete" => req[u].asset \in Assets
  BY DEF TypedInv, Asked
<1> HIDE DEF q
<1> QED BY <1>2, <1>3, <1>4, <1>5, OneRequest

\* A request that starts is typed by what it is opened with.
LEMMA OpenTyped ==
  ASSUME TypedInv, NEW u \in Requests, NEW q \in Request, Open(u, q), issued' = issued,
         q.url \in issued \cup {NoUrl},
         q.kind = "sync" <=> q.file \in Files,
         q.kind = "delete" => q.asset \in Assets,
         q.pc = "create" => q.kind \in {"upload", "register", "sync"},
         q.pc \in {"fetch", "log"} => q.kind = "sync",
         q.pc = "idle" => q.kind = "none"
  PROVE  req' \in [Requests -> Request] /\ (\A v \in Requests : Asked(v)') /\ ops' \in Nat
<1>1. req' = [req EXCEPT ![u] = q] BY DEF Open
<1>2. ops' \in Nat BY DEF Open, TypedInv, LibraryTypeOK
<1> QED BY <1>1, <1>2, OneRequest

LEMMA TypedNext == TypedInv /\ LibraryNext => TypedInv'
<1> SUFFICES ASSUME TypedInv, LibraryNext PROVE TypedInv'
  OBVIOUS
<1> USE LibraryAssumption
<1>0. LibraryTypeOK /\ req \in [Requests -> Request] BY DEF TypedInv, LibraryTypeOK
<1>1. ASSUME NEW u \in Requests, Upload(u) PROVE TypedInv'
  <2> DEFINE q == [NoRequest EXCEPT !.kind = "upload", !.pc = "store"]
  <2>1. /\ q \in Request /\ q.url = NoUrl /\ q.file = NoFile /\ q.kind = "upload"
        /\ q.pc = "store" /\ Open(u, q) /\ issued' = issued
    BY <1>1 DEF NoRequest, Request, RequestSteps, Upload, storeVars
  <2> HIDE DEF q
  <2>2. req' \in [Requests -> Request] /\ (\A v \in Requests : Asked(v)') /\ ops' \in Nat
    BY <2>1, OpenTyped
  <2> QED BY <1>0, <1>1, <2>2
    DEF Upload, TypedInv, LibraryTypeOK, rowVars, storeVars, faultVars
<1>2. ASSUME NEW u \in Requests, NEW F \in SUBSET Urls, PutBlob(u, F),
             req[u].kind \in {"upload", "sync"}
      PROVE  TypedInv'
  <2>1. PICK l \in F \ issued :
           /\ issued' = issued \cup {l} /\ blobs' = blobs \cup {l}
           /\ req' = [req EXCEPT ![u].pc = "create", ![u].url = l]
    BY <1>2 DEF PutBlob
  <2> DEFINE q == [req[u] EXCEPT !.pc = "create", !.url = l]
  <2>2. l \in Urls /\ issued \subseteq issued' BY <2>1
  <2>3. /\ q \in Request /\ q.url = l /\ q.file = req[u].file /\ q.kind = req[u].kind
        /\ q.pc = "create" /\ q.asset = req[u].asset
    BY <1>0, <2>2 DEF Request, RequestSteps
  <2>4. req' = [req EXCEPT ![u] = q] BY <1>0, <2>1
  <2>5. /\ q.kind = "sync" <=> q.file \in Files
        /\ q.url \in issued' \cup {NoUrl} /\ q.kind \in {"upload", "sync"}
    BY <1>2, <2>1, <2>3 DEF TypedInv, Asked
  <2> HIDE DEF q
  <2>6. req' \in [Requests -> Request] /\ \A v \in Requests : Asked(v)'
    BY <2>2, <2>3, <2>4, <2>5, OneRequest
  <2> QED BY <1>0, <1>2, <2>1, <2>2, <2>6
    DEF PutBlob, TypedInv, LibraryTypeOK, rowVars, faultVars
<1>3. ASSUME NEW u \in Requests, StoreUpload(u) PROVE TypedInv'
  BY <1>2, <1>3 DEF StoreUpload, At
<1>4. ASSUME NEW u \in Requests, CreateRow(u) PROVE TypedInv'
  <2>1. issued' = issued BY <1>4 DEF CreateRow, storeVars
  <2>2. req' \in [Requests -> Request] /\ \A v \in Requests : Asked(v)'
    <3>1. CASE Reply(u) BY <2>1, <3>1, ReplyTyped
    <3>2. CASE req[u].kind = "sync" /\ Continue(u, "log")
      BY <2>1, <3>2, ContinueTyped DEF RequestSteps
    <3> QED BY <1>4, <3>1, <3>2 DEF CreateRow
  <2>3. req[u].url \in issued \cup {NoUrl} /\ req[u].file \in Files \cup {NoFile}
    BY <1>0 DEF TypedInv, Asked, Request
  <2>4. /\ mstatus' \in [Assets -> MediaStatus \cup {"ABSENT", "DELETED"}]
        /\ url' \in [Assets -> issued \cup {NoUrl}]
        /\ from' \in [Assets -> Files \cup {NoFile}]
    BY <1>0, <1>4, <2>3 DEF CreateRow, LibraryTypeOK, MediaStatus
  <2> QED BY <1>0, <1>4, <2>1, <2>2, <2>4
    DEF CreateRow, TypedInv, LibraryTypeOK, storeVars, faultVars
<1>5. ASSUME NEW u \in Requests, Token(u) PROVE TypedInv'
  <2> DEFINE q == [NoRequest EXCEPT !.kind = "token", !.pc = "put"]
  <2>1. /\ q \in Request /\ q.url = NoUrl /\ q.file = NoFile /\ q.kind = "token"
        /\ q.pc = "put" /\ Open(u, q) /\ issued' = issued
    BY <1>5 DEF NoRequest, Request, RequestSteps, Token, storeVars
  <2> HIDE DEF q
  <2>2. req' \in [Requests -> Request] /\ (\A v \in Requests : Asked(v)') /\ ops' \in Nat
    BY <2>1, OpenTyped
  <2> QED BY <1>0, <1>5, <2>2
    DEF Token, TypedInv, LibraryTypeOK, rowVars, storeVars, faultVars
<1>6. ASSUME NEW u \in Requests, Transfer(u) PROVE TypedInv'
  <2>1. PICK l \in Urls \ issued :
           /\ issued' = issued \cup {l} /\ offered' = offered \cup {l}
           /\ blobs' = blobs \cup {l}
    BY <1>6 DEF Transfer
  <2>2. req' \in [Requests -> Request] /\ \A v \in Requests : Asked(v)'
    BY <1>6, <2>1, ReplyTyped DEF Transfer
  <2> QED BY <1>0, <1>6, <2>1, <2>2
    DEF Transfer, TypedInv, LibraryTypeOK, rowVars, faultVars
<1>7. ASSUME NEW u \in Requests, NEW l \in Urls, Register(u, l) PROVE TypedInv'
  <2> DEFINE q == [NoRequest EXCEPT !.kind = "register", !.pc = "verify", !.url = l]
  <2>0. l \in issued BY <1>0, <1>7 DEF Register, LibraryTypeOK
  <2>1. /\ q \in Request /\ q.url = l /\ q.file = NoFile /\ q.kind = "register"
        /\ q.pc = "verify" /\ Open(u, q) /\ issued' = issued
    BY <1>7 DEF NoRequest, Request, RequestSteps, Register, storeVars
  <2> HIDE DEF q
  <2>2. req' \in [Requests -> Request] /\ (\A v \in Requests : Asked(v)') /\ ops' \in Nat
    BY <2>0, <2>1, OpenTyped
  <2>3. contended' \subseteq issued BY <1>0, <1>7, <2>0 DEF Register, LibraryTypeOK
  <2> QED BY <1>0, <1>7, <2>2, <2>3
    DEF Register, TypedInv, LibraryTypeOK, rowVars, storeVars, faultVars
<1>8. ASSUME NEW u \in Requests, Verify(u) \/ CheckLimit(u) \/ EraseBytes(u) PROVE TypedInv'
  <2>1. /\ issued' = issued /\ blobs' \subseteq issued
        /\ UNCHANGED <<rowVars, posts, offered, synced, contended, ops, faultVars>>
    BY <1>0, <1>8 DEF Verify, CheckLimit, EraseBytes, DeleteBlob, LibraryTypeOK
  <2>2. req' \in [Requests -> Request] /\ \A v \in Requests : Asked(v)'
    <3>1. CASE Reply(u) BY <2>1, <3>1, ReplyTyped
    <3>2. CASE Continue(u, "limit") \/ Continue(u, "drop")
      BY <2>1, <3>2, ContinueTyped DEF RequestSteps
    <3>3. CASE Continue(u, "create") /\ req[u].kind = "register"
      BY <2>1, <3>3, ContinueTyped DEF RequestSteps
    <3> QED BY <1>8, <3>1, <3>2, <3>3 DEF Verify, CheckLimit, EraseBytes, At
  <2> QED BY <1>0, <2>1, <2>2 DEF TypedInv, LibraryTypeOK, rowVars, faultVars
<1>9. ASSUME NEW u \in Requests, NEW a \in Assets, Delete(u, a) PROVE TypedInv'
  <2> DEFINE q == [NoRequest EXCEPT !.kind = "delete", !.asset = a, !.url = url[a],
                       !.pc = IF url[a] = NoUrl THEN "drop" ELSE "erase"]
  <2>0. url[a] \in issued \cup {NoUrl} /\ issued \subseteq Urls
    BY <1>0 DEF LibraryTypeOK
  <2>1. /\ q \in Request /\ q.url = url[a] /\ q.file = NoFile /\ q.kind = "delete"
        /\ q.pc \in {"drop", "erase"} /\ q.asset = a /\ Open(u, q) /\ issued' = issued
    BY <1>9, <2>0 DEF NoRequest, Request, RequestSteps, Delete, storeVars
  <2> HIDE DEF q
  <2>2. req' \in [Requests -> Request] /\ (\A v \in Requests : Asked(v)') /\ ops' \in Nat
    BY <2>0, <2>1, OpenTyped
  <2> QED BY <1>0, <1>9, <2>2
    DEF Delete, TypedInv, LibraryTypeOK, rowVars, storeVars, faultVars
<1>10. ASSUME NEW u \in Requests, DropRow(u) PROVE TypedInv'
  <2>1. req' \in [Requests -> Request] /\ \A v \in Requests : Asked(v)'
    BY <1>10, ReplyTyped DEF DropRow, storeVars
  <2>2. mstatus' \in [Assets -> MediaStatus \cup {"ABSENT", "DELETED"}]
    BY <1>0, <1>10 DEF DropRow, LibraryTypeOK
  <2> QED BY <1>0, <1>10, <2>1, <2>2
    DEF DropRow, TypedInv, LibraryTypeOK, storeVars, faultVars
<1>11. ASSUME NEW u \in Requests, NEW f \in Files, Sync(u, f) PROVE TypedInv'
  <2> DEFINE q == [NoRequest EXCEPT !.kind = "sync", !.pc = "fetch", !.file = f]
  <2>1. /\ q \in Request /\ q.url = NoUrl /\ q.file = f /\ q.kind = "sync"
        /\ q.pc = "fetch" /\ Open(u, q) /\ issued' = issued
    BY <1>11 DEF NoRequest, Request, RequestSteps, Sync, storeVars
  <2> HIDE DEF q
  <2>2. req' \in [Requests -> Request] /\ (\A v \in Requests : Asked(v)') /\ ops' \in Nat
    BY <2>1, OpenTyped
  <2>3. dbFailures' \in Nat BY <1>0, <1>11 DEF Sync, LibraryTypeOK
  <2> QED BY <1>0, <1>11, <2>2, <2>3
    DEF Sync, TypedInv, LibraryTypeOK, rowVars, storeVars
<1>12. ASSUME NEW u \in Requests, FetchFile(u) PROVE TypedInv'
  BY <1>2, <1>12 DEF FetchFile, At
<1>13. ASSUME NEW u \in Requests, LogSync(u) PROVE TypedInv'
  <2>1. req' \in [Requests -> Request] /\ \A v \in Requests : Asked(v)'
    BY <1>13, ReplyTyped DEF LogSync
  <2>2. synced' \subseteq Files
    BY <1>0, <1>13 DEF LogSync, At, LibraryTypeOK, TypedInv, Asked
  <2> QED BY <1>0, <1>13, <2>1, <2>2
    DEF LogSync, TypedInv, LibraryTypeOK, rowVars, faultVars
<1>14. ASSUME NEW u \in Requests, CrashRequest(u) PROVE TypedInv'
  <2>1. req' \in [Requests -> Request] /\ \A v \in Requests : Asked(v)'
    BY <1>14, ReplyTyped DEF CrashRequest, storeVars
  <2>2. contended' \subseteq issued
    BY <1>0, <1>14 DEF CrashRequest, LibraryTypeOK, TypedInv, Asked
  <2>3. crashes' \in Nat BY <1>0, <1>14 DEF CrashRequest, LibraryTypeOK
  <2> QED BY <1>0, <1>14, <2>1, <2>2, <2>3
    DEF CrashRequest, TypedInv, LibraryTypeOK, rowVars, storeVars
<1> QED BY <1>1, <1>3, <1>4, <1>5, <1>6, <1>7, <1>8, <1>9, <1>10, <1>11, <1>12, <1>13,
           <1>14 DEF LibraryNext

LEMMA TypedStutter == TypedInv /\ UNCHANGED libraryVars => TypedInv'
BY DEF TypedInv, LibraryTypeOK, Asked, libraryVars

\* The rows, the store and the requests stay what the schema says, and every
\* request holds the row, the URL or the file it is about.
THEOREM LibraryTyped == LibrarySpec => []LibraryTypeOK
<1>1. TypedInv /\ [LibraryNext]_libraryVars => TypedInv'
  BY TypedNext, TypedStutter
<1>2. TypedInv => LibraryTypeOK BY DEF TypedInv
<1> QED BY <1>1, <1>2, TypedInit, PTL DEF LibrarySpec

-----------------------------------------------------------------------------
(* The library: how requests move.                                         *)

Others(u) == \A v \in Requests \ {u} : req'[v] = req[v]

LEMMA Replied ==
  ASSUME TypedInv, NEW u \in Requests, Reply(u)
  PROVE  /\ Others(u)
         /\ req'[u].pc = "idle" /\ req'[u].kind = "none" /\ req'[u].asset = NoAsset
         /\ req'[u].url = NoUrl /\ req'[u].file = NoFile
BY DEF Reply, Others, TypedInv, LibraryTypeOK, NoRequest

LEMMA Continued ==
  ASSUME TypedInv, NEW u \in Requests, NEW l, Continue(u, l)
  PROVE  /\ Others(u)
         /\ req'[u].pc = l /\ req'[u].kind = req[u].kind /\ req'[u].asset = req[u].asset
         /\ req'[u].url = req[u].url /\ req'[u].file = req[u].file
<1>1. req \in [Requests -> Request] BY DEF TypedInv, LibraryTypeOK
<1>2. req[u] \in Request BY <1>1
<1> QED BY <1>1, <1>2 DEF Continue, Others, Request

LEMMA Opened ==
  ASSUME TypedInv, NEW u \in Requests, NEW q, Open(u, q)
  PROVE  Others(u) /\ req'[u] = q /\ req[u].pc = "idle"
BY DEF Open, Others, TypedInv, LibraryTypeOK

LEMMA Stored ==
  ASSUME TypedInv, NEW u \in Requests, NEW F, PutBlob(u, F)
  PROVE  \E l \in F \ issued :
            /\ Others(u)
            /\ issued' = issued \cup {l} /\ blobs' = blobs \cup {l}
            /\ req'[u].pc = "create" /\ req'[u].kind = req[u].kind
            /\ req'[u].asset = req[u].asset
            /\ req'[u].url = l /\ req'[u].file = req[u].file
<1>1. req \in [Requests -> Request] BY DEF TypedInv, LibraryTypeOK
<1>2. req[u] \in Request BY <1>1
<1>3. PICK l \in F \ issued :
         /\ issued' = issued \cup {l} /\ blobs' = blobs \cup {l}
         /\ req' = [req EXCEPT ![u].pc = "create", ![u].url = l]
  BY DEF PutBlob
<1>4. Others(u) BY <1>1, <1>3 DEF Others
<1>5. /\ req'[u].pc = "create" /\ req'[u].kind = req[u].kind
      /\ req'[u].asset = req[u].asset
      /\ req'[u].url = l /\ req'[u].file = req[u].file
  BY <1>1, <1>2, <1>3 DEF Request
<1> QED BY <1>3, <1>4, <1>5

\* What a request becomes when it starts.
Became(u, k, l) == Others(u) /\ req[u].pc = "idle" /\ req'[u].kind = k /\ req'[u].pc = l

LEMMA Begun ==
  ASSUME TypedInv, NEW u \in Requests
  PROVE  /\ Upload(u) => Became(u, "upload", "store") /\ req'[u].file = NoFile
                            /\ req'[u].url = NoUrl
         /\ Token(u) => Became(u, "token", "put") /\ req'[u].file = NoFile
                            /\ req'[u].url = NoUrl
         /\ \A l \in Urls : Register(u, l) =>
               Became(u, "register", "verify") /\ req'[u].url = l /\ req'[u].file = NoFile
         /\ \A a \in Assets : Delete(u, a) =>
               /\ Became(u, "delete", IF url[a] = NoUrl THEN "drop" ELSE "erase")
               /\ req'[u].url = url[a] /\ req'[u].asset = a /\ req'[u].file = NoFile
         /\ \A f \in Files : Sync(u, f) =>
               Became(u, "sync", "fetch") /\ req'[u].file = f /\ req'[u].url = NoUrl
<1> USE DEF Open, NoRequest, Became, Others
<1>0. req \in [Requests -> Request] BY DEF TypedInv, LibraryTypeOK
<1>1. Upload(u) => Became(u, "upload", "store") /\ req'[u].file = NoFile
                     /\ req'[u].url = NoUrl
  BY <1>0 DEF Upload
<1>2. Token(u) => Became(u, "token", "put") /\ req'[u].file = NoFile
                     /\ req'[u].url = NoUrl
  BY <1>0 DEF Token
<1>3. \A l \in Urls : Register(u, l) =>
         Became(u, "register", "verify") /\ req'[u].url = l /\ req'[u].file = NoFile
  BY <1>0 DEF Register
<1>4. \A a \in Assets : Delete(u, a) =>
         /\ Became(u, "delete", IF url[a] = NoUrl THEN "drop" ELSE "erase")
         /\ req'[u].url = url[a] /\ req'[u].asset = a /\ req'[u].file = NoFile
  BY <1>0 DEF Delete
<1>5. \A f \in Files : Sync(u, f) =>
         Became(u, "sync", "fetch") /\ req'[u].file = f /\ req'[u].url = NoUrl
  BY <1>0 DEF Sync
<1> QED BY <1>1, <1>2, <1>3, <1>4, <1>5

-----------------------------------------------------------------------------
(* The storage limit.  Past the check of the limit and not yet a row:      *)

Admitted == {u \in Requests : \/ req[u].kind = "upload"
                              \/ req[u].kind = "register" /\ req[u].pc = "create"}
Direct   == {a \in Rows : from[a] = NoFile}

\* A request that finds room leaves the rows one below the limit, and the
\* others past the check are all the requests but one at the most.
LimitInv == Cardinality(Direct) + Cardinality(Admitted) + 1
                <= StorageLimit + Cardinality(Requests)

LEMMA DirectCounts ==
  /\ IsFiniteSet(Direct) /\ Cardinality(Direct) \in Nat
  /\ IsFiniteSet(Admitted) /\ Cardinality(Admitted) \in Nat
  /\ Cardinality(Admitted) <= Cardinality(Requests)
  /\ Cardinality(Requests) \in Nat /\ StorageLimit \in Nat
<1>1. Direct \subseteq Assets /\ Admitted \subseteq Requests
  BY DEF Direct, Admitted, Rows
<1> QED BY <1>1, Counts, FewerCount, LibraryAssumption

LEMMA DirectCountsNext ==
  /\ IsFiniteSet(Direct') /\ Cardinality(Direct') \in Nat
  /\ IsFiniteSet(Admitted') /\ Cardinality(Admitted') \in Nat
  /\ Cardinality(Admitted') <= Cardinality(Requests)
<1>1. Direct' \subseteq Assets /\ Admitted' \subseteq Requests
  BY DEF Direct, Admitted, Rows
<1> QED BY <1>1, Counts, FewerCount, LibraryAssumption

LEMMA LimitInit == LibraryInit /\ Requests # {} => LimitInv
<1> SUFFICES ASSUME LibraryInit, Requests # {} PROVE LimitInv
  OBVIOUS
<1>1. Direct = {} /\ Admitted = {}
  BY DEF LibraryInit, Direct, Admitted, Rows, Present, MediaStatus, NoRequest
<1>2. Cardinality(Requests) # 0
  BY LibraryAssumption, FS_EmptySet
<1> QED BY <1>1, <1>2, DirectCounts, FS_EmptySet DEF LimitInv

\* Neither part grows.
LEMMA LimitKept ==
  ASSUME LimitInv, Direct' \subseteq Direct, Admitted' \subseteq Admitted
  PROVE  LimitInv'
<1>1. Cardinality(Direct') <= Cardinality(Direct) /\ Cardinality(Admitted') <= Cardinality(Admitted)
  BY DirectCounts, FewerCount
<1> QED BY <1>1, DirectCounts, DirectCountsNext DEF LimitInv

\* The check: as many rows as there are, and every request past the check.
LEMMA LimitChecked ==
  ASSUME HasRoom, Direct' = Direct
  PROVE  LimitInv'
<1>1. Cardinality(Direct) <= Cardinality(Rows) /\ Cardinality(Rows) \in Nat
  <2>1. Direct \subseteq Rows /\ Rows \subseteq Assets BY DEF Direct, Rows
  <2> QED BY <2>1, Counts, FewerCount
<1> QED BY <1>1, DirectCounts, DirectCountsNext DEF LimitInv, HasRoom, Used

LEMMA LimitNext == TypedInv /\ LimitInv /\ LibraryNext => LimitInv'
<1> SUFFICES ASSUME TypedInv, LimitInv, LibraryNext PROVE LimitInv'
  OBVIOUS
\* One request moves, and is admitted afterwards only if it was before.
<1>a. ASSUME NEW u \in Requests, Others(u), u \in Admitted' => u \in Admitted
      PROVE  Admitted' \subseteq Admitted
  BY <1>a DEF Others, Admitted
<1>b. ASSUME rowVars' = rowVars PROVE Direct' = Direct
  BY <1>b DEF rowVars, Direct, Rows, Present
<1>c. ASSUME NEW u \in Requests, Reply(u) PROVE Admitted' \subseteq Admitted \ {u}
  BY <1>c, Replied DEF Others, Admitted
<1>1. ASSUME NEW u \in Requests, Upload(u) PROVE LimitInv'
  <2>1. HasRoom /\ rowVars' = rowVars BY <1>1 DEF Upload
  <2> QED BY <2>1, <1>b, LimitChecked
<1>2. ASSUME NEW u \in Requests, StoreUpload(u) \/ FetchFile(u) PROVE LimitInv'
  <2>1. rowVars' = rowVars BY <1>2 DEF StoreUpload, FetchFile, PutBlob
  <2>2. Admitted' \subseteq Admitted
    <3>1. PICK F : PutBlob(u, F) BY <1>2 DEF StoreUpload, FetchFile
    <3>2. Others(u) /\ req'[u].kind = req[u].kind BY <3>1, Stored
    <3>3. req[u].kind \in {"upload", "sync"} BY <1>2 DEF StoreUpload, FetchFile, At
    <3> QED BY <1>a, <3>2, <3>3 DEF Admitted
  <2> QED BY <2>1, <2>2, <1>b, LimitKept
<1>3. ASSUME NEW u \in Requests, CreateRow(u) PROVE LimitInv'
  <2>1. CASE UNCHANGED <<mstatus, url, from>> /\ Reply(u)
    <3>1. rowVars' = rowVars BY <1>3, <2>1 DEF CreateRow, rowVars
    <3> QED BY <3>1, <2>1, <1>b, <1>c, LimitKept
  <2>2. ASSUME NEW a \in Assets, mstatus[a] = "ABSENT",
               mstatus' = [mstatus EXCEPT ![a] = "PENDING"],
               url' = [url EXCEPT ![a] = req[u].url],
               from' = [from EXCEPT ![a] = req[u].file],
               IF req[u].kind = "sync" THEN Continue(u, "log") ELSE Reply(u)
        PROVE  LimitInv'
    <3>0. mstatus \in [Assets -> MediaStatus \cup {"ABSENT", "DELETED"}]
             /\ from \in [Assets -> Files \cup {NoFile}]
      BY DEF TypedInv, LibraryTypeOK
    <3>1. CASE req[u].kind = "sync"
      <4>1. from'[a] # NoFile
        BY <3>0, <2>2, <3>1, LibraryAssumption DEF TypedInv, Asked
      <4>2. Direct' \subseteq Direct
        BY <3>0, <2>2, <4>1 DEF Direct, Rows, Present, MediaStatus
      <4>3. Admitted' \subseteq Admitted
        BY <2>2, <3>1, <1>a, Continued DEF Admitted
      <4> QED BY <4>2, <4>3, LimitKept
    <3>2. CASE req[u].kind # "sync"
      <4>1. u \in Admitted
        BY <1>3, <3>2 DEF CreateRow, TypedInv, Asked, Admitted
      <4>2. Admitted' \subseteq Admitted \ {u} BY <2>2, <3>2, <1>c
      <4>3. Direct' \subseteq Direct \cup {a}
        BY <3>0, <2>2 DEF Direct, Rows, Present
      <4>4. Cardinality(Direct') <= Cardinality(Direct) + 1
               /\ Cardinality(Admitted') + 1 <= Cardinality(Admitted)
        BY <4>1, <4>2, <4>3, DirectCounts, OneMore, OneLess
      <4> QED BY <4>4, DirectCounts, DirectCountsNext DEF LimitInv
    <3> QED BY <3>1, <3>2
  <2> QED BY <1>3, <2>1, <2>2 DEF CreateRow
<1>4. ASSUME NEW u \in Requests, \/ Token(u) \/ (\E l \in Urls : Register(u, l))
                                 \/ (\E a \in Assets : Delete(u, a))
                                 \/ (\E f \in Files : Sync(u, f))
      PROVE  LimitInv'
  <2>1. rowVars' = rowVars BY <1>4 DEF Token, Register, Delete, Sync
  <2>2. Admitted' \subseteq Admitted
    <3>1. /\ Others(u) /\ req'[u].kind # "upload"
          /\ req'[u].kind = "register" => req'[u].pc # "create"
      BY <1>4, Begun DEF Became
    <3> QED BY <1>a, <3>1 DEF Admitted
  <2> QED BY <2>1, <2>2, <1>b, LimitKept
<1>5. ASSUME NEW u \in Requests, Transfer(u) \/ LogSync(u) \/ CrashRequest(u) PROVE LimitInv'
  <2>1. rowVars' = rowVars /\ Reply(u) BY <1>5 DEF Transfer, LogSync, CrashRequest
  <2> QED BY <2>1, <1>b, <1>c, LimitKept
<1>6. ASSUME NEW u \in Requests, Verify(u) \/ EraseBytes(u) PROVE LimitInv'
  <2>1. rowVars' = rowVars BY <1>6 DEF Verify, EraseBytes
  <2>2. Admitted' \subseteq Admitted
    <3>1. CASE Reply(u) BY <1>c, <3>1
    <3>2. CASE At(u, "register", "verify") /\ Continue(u, "limit")
      BY <1>a, <3>2, Continued DEF At, Admitted
    <3>3. CASE At(u, "delete", "erase") /\ Continue(u, "drop")
      BY <1>a, <3>3, Continued DEF At, Admitted
    <3> QED BY <1>6, <3>1, <3>2, <3>3 DEF Verify, EraseBytes
  <2> QED BY <2>1, <2>2, <1>b, LimitKept
<1>7. ASSUME NEW u \in Requests, CheckLimit(u) PROVE LimitInv'
  <2>1. Direct' = Direct BY <1>7, <1>b DEF CheckLimit
  <2>2. CASE HasRoom BY <2>1, <2>2, LimitChecked
  <2>3. CASE Reply(u) BY <2>1, <2>3, <1>c, LimitKept
  <2> QED BY <1>7, <2>2, <2>3 DEF CheckLimit
<1>8. ASSUME NEW u \in Requests, DropRow(u) PROVE LimitInv'
  <2>1. Direct' \subseteq Direct
    BY <1>8 DEF DropRow, TypedInv, LibraryTypeOK, Direct, Rows, Present, MediaStatus
  <2> QED BY <1>8, <2>1, <1>c, LimitKept DEF DropRow
<1> QED BY <1>1, <1>2, <1>3, <1>4, <1>5, <1>6, <1>7, <1>8 DEF LibraryNext

LEMMA LimitStutter == LimitInv /\ UNCHANGED libraryVars => LimitInv'
<1> SUFFICES ASSUME LimitInv, UNCHANGED libraryVars PROVE LimitInv'
  OBVIOUS
<1>1. Direct' = Direct /\ Admitted' = Admitted
  BY DEF libraryVars, Direct, Admitted, Rows, Present
<1> QED BY <1>1 DEF LimitInv

\* Overlapping uploads exceed the storage limit by no more than the requests
\* that were past the check together.
THEOREM LimitKeptByUploads ==
  ASSUME Requests # {}
  PROVE  LibrarySpec => []DirectUploadsWithinLimit
<1>1. LibraryInit => TypedInv /\ LimitInv BY TypedInit, LimitInit
<1>2. TypedInv /\ LimitInv /\ [LibraryNext]_libraryVars => (TypedInv /\ LimitInv)'
  BY TypedNext, TypedStutter, LimitNext, LimitStutter
<1>3. LimitInv => DirectUploadsWithinLimit
  BY DirectCounts DEF LimitInv, DirectUploadsWithinLimit, Direct
<1> QED BY <1>1, <1>2, <1>3, PTL DEF LibrarySpec

-----------------------------------------------------------------------------
(* Drive imports.                                                          *)

Imported(f) == {a \in Assets : from[a] = f}
\* The imports of a file that have not made their asset, and those that have
\* and are not in the log.
Coming(f)  == {u \in Requests : req[u].file = f /\ req[u].pc \in {"fetch", "create"}}
Logging(f) == {u \in Requests : req[u].file = f /\ req[u].pc = "log"}

\* Until a file is in the log, every asset of it is about to be logged or was
\* cut off.  From then on only the imports that overlapped the first one, or
\* failed to look it up, can make another.
FileInv(f) ==
    /\ f \notin synced => Cardinality(Imported(f)) <= Cardinality(Logging(f)) + crashes
    /\ f \in synced => Cardinality(Imported(f)) + Cardinality(Coming(f))
                          <= Cardinality(Requests) + crashes + dbFailures
ImportsInv == \A f \in Files : FileInv(f)

LEMMA ImportCounts ==
  ASSUME NEW f
  PROVE  /\ IsFiniteSet(Imported(f)) /\ Cardinality(Imported(f)) \in Nat
         /\ IsFiniteSet(Coming(f)) /\ Cardinality(Coming(f)) \in Nat
         /\ IsFiniteSet(Logging(f)) /\ Cardinality(Logging(f)) \in Nat
         /\ Coming(f) \subseteq Requests /\ Logging(f) \subseteq Requests
         /\ Coming(f) \cap Logging(f) = {}
         /\ IsFiniteSet(Requests) /\ Cardinality(Requests) \in Nat
<1>1. /\ Imported(f) \subseteq Assets /\ Coming(f) \subseteq Requests
      /\ Logging(f) \subseteq Requests /\ Coming(f) \cap Logging(f) = {}
  BY DEF Imported, Coming, Logging
<1> QED BY <1>1, Counts

LEMMA ImportCountsNext ==
  ASSUME NEW f
  PROVE  /\ IsFiniteSet(Imported(f)') /\ Cardinality(Imported(f)') \in Nat
         /\ IsFiniteSet(Coming(f)') /\ Cardinality(Coming(f)') \in Nat
         /\ IsFiniteSet(Logging(f)') /\ Cardinality(Logging(f)') \in Nat
         /\ Coming(f)' \subseteq Requests
<1>1. /\ Imported(f)' \subseteq Assets /\ Coming(f)' \subseteq Requests
      /\ Logging(f)' \subseteq Requests
  BY DEF Imported, Coming, Logging
<1> QED BY <1>1, Counts

LEMMA ImportsInit == LibraryInit => ImportsInv
<1> SUFFICES ASSUME LibraryInit, NEW f \in Files PROVE FileInv(f)
  BY DEF ImportsInv
<1>1. Imported(f) = {} /\ synced = {} /\ crashes = 0
  BY LibraryAssumption DEF LibraryInit, Imported
<1> QED BY <1>1, ImportCounts, FS_EmptySet DEF FileInv

\* No asset is made of f, and no import of it comes or goes unlogged.
LEMMA FileKept ==
  ASSUME TypedInv, NEW f, FileInv(f),
         Imported(f)' \subseteq Imported(f), f \in synced' <=> f \in synced,
         Logging(f) \subseteq Logging(f)', Coming(f)' \subseteq Coming(f),
         crashes' = crashes, dbFailures' = dbFailures
  PROVE  FileInv(f)'
<1>1. /\ Cardinality(Imported(f)') <= Cardinality(Imported(f))
      /\ Cardinality(Coming(f)') <= Cardinality(Coming(f))
      /\ Cardinality(Logging(f)) <= Cardinality(Logging(f)')
  BY ImportCounts, ImportCountsNext, FewerCount
<1>2. crashes \in Nat /\ dbFailures \in Nat BY DEF TypedInv, LibraryTypeOK
<1> QED BY <1>1, <1>2, ImportCounts, ImportCountsNext DEF FileInv

\* A request moves that is about no Drive file, before and after.
LEMMA FileElsewhere ==
  ASSUME NEW u \in Requests, NEW f, Others(u),
         req[u].file # f \/ req[u].pc \notin {"log", "fetch", "create"},
         req'[u].file # f \/ req'[u].pc \notin {"log", "fetch", "create"}
  PROVE  Logging(f)' = Logging(f) /\ Coming(f)' = Coming(f)
BY DEF Others, Logging, Coming

LEMMA ImportsNext == TypedInv /\ ImportsInv /\ LibraryNext => ImportsInv'
<1> SUFFICES ASSUME TypedInv, ImportsInv, LibraryNext, NEW f \in Files PROVE FileInv(f)'
  BY DEF ImportsInv
<1> USE LibraryAssumption
<1>0. FileInv(f) /\ crashes \in Nat /\ dbFailures \in Nat
  BY DEF ImportsInv, TypedInv, LibraryTypeOK
<1>a. ASSUME rowVars' = rowVars PROVE Imported(f)' = Imported(f)
  BY <1>a DEF rowVars, Imported
<1>b. \A u \in Requests : req[u].kind # "sync" => req[u].file # f
  BY DEF TypedInv, Asked
\* A step of a request about no Drive file that makes no row.
<1>c. ASSUME NEW u \in Requests, Others(u), from' = from, synced' = synced,
             crashes' = crashes, dbFailures' = dbFailures,
             req[u].pc = "idle" \/ req[u].kind # "sync",
             req'[u].file \in {NoFile, req[u].file},
             req[u].pc = "idle" => req'[u].file = NoFile
      PROVE  FileInv(f)'
  <2>1. Imported(f)' = Imported(f) BY <1>c DEF Imported
  <2>2. Logging(f)' = Logging(f) /\ Coming(f)' = Coming(f)
    BY <1>b, <1>c, FileElsewhere
  <2> QED BY <1>0, <1>c, <2>1, <2>2, FileKept
<1>1. ASSUME NEW u \in Requests, Upload(u) PROVE FileInv(f)'
  BY <1>1, <1>c, Begun DEF Upload, Became, rowVars, storeVars, faultVars
<1>2. ASSUME NEW u \in Requests, StoreUpload(u) PROVE FileInv(f)'
  <2>1. PutBlob(u, Urls \ BadUrls) /\ req[u].kind = "upload" BY <1>2 DEF StoreUpload, At
  <2>2. Others(u) /\ req'[u].file = req[u].file BY <2>1, Stored
  <2>3. req[u].pc # "idle" BY <1>2 DEF StoreUpload, At
  <2> QED BY <2>1, <2>2, <2>3, <1>c DEF PutBlob, rowVars, faultVars
<1>3. ASSUME NEW u \in Requests, CreateRow(u) PROVE FileInv(f)'
  <2>0. /\ req[u].pc = "create" /\ synced' = synced
        /\ crashes' = crashes /\ dbFailures' = dbFailures
    BY <1>3 DEF CreateRow, storeVars, faultVars
  <2>1. CASE UNCHANGED from /\ req[u].kind # "sync" /\ Reply(u)
    <3>1. Others(u) /\ req'[u].file = NoFile BY <2>1, Replied
    <3> QED BY <2>0, <2>1, <3>1, <1>c
  <2>2. ASSUME NEW a \in Assets, from' = [from EXCEPT ![a] = req[u].file],
               IF req[u].kind = "sync" THEN Continue(u, "log") ELSE Reply(u)
        PROVE  FileInv(f)'
    <3>0. from \in [Assets -> Files \cup {NoFile}] BY DEF TypedInv, LibraryTypeOK
    <3>1. CASE req[u].file # f
      <4>1. Imported(f)' \subseteq Imported(f) BY <3>0, <3>1, <2>2 DEF Imported
      <4>2. Others(u) /\ req'[u].file # f BY <2>2, <3>1, Continued, Replied
      <4>3. Logging(f)' = Logging(f) /\ Coming(f)' = Coming(f)
        BY <3>1, <4>2, FileElsewhere
      <4> QED BY <1>0, <2>0, <4>1, <4>3, FileKept
    <3>2. CASE req[u].file = f
      <4>0. req[u].kind = "sync" BY <3>2 DEF TypedInv, Asked
      <4>1. Others(u) /\ req'[u].pc = "log" /\ req'[u].file = f
        BY <2>2, <3>2, <4>0, Continued
      <4>2. Imported(f)' \subseteq Imported(f) \cup {a} BY <3>0, <2>2 DEF Imported
      <4>3. u \in Coming(f) /\ Coming(f)' \subseteq Coming(f) \ {u}
        BY <2>0, <3>2, <4>1 DEF Others, Coming
      <4>4. u \in Logging(f)' /\ Logging(f) \subseteq Logging(f)' \ {u}
        BY <2>0, <4>1 DEF Others, Logging
      <4>5. Cardinality(Imported(f)') <= Cardinality(Imported(f)) + 1
        BY <4>2, ImportCounts, OneMore
      <4>6. Cardinality(Coming(f)') + 1 <= Cardinality(Coming(f))
        BY <4>3, ImportCounts, OneLess
      <4>7. Cardinality(Logging(f)) + 1 <= Cardinality(Logging(f)')
        BY <4>4, ImportCountsNext, OneLess
      <4> QED BY <1>0, <2>0, <4>5, <4>6, <4>7, ImportCounts, ImportCountsNext DEF FileInv
    <3> QED BY <3>1, <3>2
  <2> QED BY <1>3, <2>1, <2>2 DEF CreateRow
<1>4. ASSUME NEW u \in Requests, Token(u) PROVE FileInv(f)'
  BY <1>4, <1>c, Begun DEF Token, Became, rowVars, storeVars, faultVars
<1>5. ASSUME NEW u \in Requests, NEW l \in Urls, Register(u, l) PROVE FileInv(f)'
  BY <1>5, <1>c, Begun DEF Register, Became, rowVars, storeVars, faultVars
<1>6. ASSUME NEW u \in Requests, NEW a \in Assets, Delete(u, a) PROVE FileInv(f)'
  BY <1>6, <1>c, Begun DEF Delete, Became, rowVars, storeVars, faultVars
<1>7. ASSUME NEW u \in Requests, Transfer(u) \/ DropRow(u) PROVE FileInv(f)'
  <2>1. /\ Reply(u) /\ from' = from /\ synced' = synced /\ req[u].kind # "sync"
        /\ req[u].pc # "idle" /\ crashes' = crashes /\ dbFailures' = dbFailures
    BY <1>7 DEF Transfer, DropRow, At, rowVars, storeVars, faultVars
  <2>2. Others(u) /\ req'[u].file = NoFile BY <2>1, Replied
  <2> QED BY <2>1, <2>2, <1>c
<1>8. ASSUME NEW u \in Requests, Verify(u) \/ CheckLimit(u) \/ EraseBytes(u) PROVE FileInv(f)'
  <2>1. /\ from' = from /\ synced' = synced /\ req[u].kind # "sync"
        /\ req[u].pc # "idle" /\ crashes' = crashes /\ dbFailures' = dbFailures
    BY <1>8 DEF Verify, CheckLimit, EraseBytes, At, rowVars, faultVars
  <2>2. Reply(u) \/ Continue(u, "limit") \/ Continue(u, "create") \/ Continue(u, "drop")
    BY <1>8 DEF Verify, CheckLimit, EraseBytes
  <2>3. Others(u) /\ req'[u].file \in {NoFile, req[u].file} BY <2>2, Replied, Continued
  <2> QED BY <2>1, <2>3, <1>c
<1>9. ASSUME NEW u \in Requests, NEW g \in Files, Sync(u, g) PROVE FileInv(f)'
  <2>1. /\ Others(u) /\ req[u].pc = "idle" /\ req'[u].pc = "fetch" /\ req'[u].file = g
        /\ rowVars' = rowVars /\ synced' = synced /\ crashes' = crashes
    BY <1>9, Begun DEF Sync, Became, storeVars
  <2>2. \/ dbFailures' = dbFailures /\ g \notin synced
        \/ dbFailures' = dbFailures + 1
    BY <1>9 DEF Sync
  <2>3. Coming(f)' \subseteq Coming(f) \cup {u} /\ (g # f => Coming(f)' = Coming(f))
    BY <2>1 DEF Others, Coming
  <2>4. Logging(f)' = Logging(f) BY <2>1 DEF Others, Logging
  <2>5. Cardinality(Coming(f)') <= Cardinality(Coming(f)) + 1
    BY <2>3, ImportCounts, OneMore
  <2>6. Imported(f)' = Imported(f) BY <2>1, <1>a
  <2> QED BY <1>0, <2>1, <2>2, <2>3, <2>4, <2>5, <2>6, ImportCounts, ImportCountsNext
    DEF FileInv
<1>10. ASSUME NEW u \in Requests, FetchFile(u) PROVE FileInv(f)'
  <2>1. PutBlob(u, Urls) /\ req[u].pc = "fetch" BY <1>10 DEF FetchFile, At
  <2>2. Others(u) /\ req'[u].file = req[u].file /\ req'[u].pc = "create"
    BY <2>1, Stored
  <2>3. Logging(f)' = Logging(f) /\ Coming(f)' = Coming(f)
    BY <2>1, <2>2 DEF Others, Logging, Coming
  <2> QED BY <1>0, <1>a, <2>1, <2>3, FileKept DEF PutBlob, faultVars
<1>11. ASSUME NEW u \in Requests, LogSync(u) PROVE FileInv(f)'
  <2>1. /\ Others(u) /\ req'[u].pc = "idle" /\ rowVars' = rowVars /\ req[u].pc = "log"
        /\ synced' = synced \cup {req[u].file}
        /\ crashes' = crashes /\ dbFailures' = dbFailures
    BY <1>11, Replied DEF LogSync, At, faultVars
  <2>2. Coming(f)' = Coming(f) BY <2>1 DEF Others, Coming
  <2>3. Imported(f)' = Imported(f) BY <2>1, <1>a
  <2>4. req[u].file # f => Logging(f)' = Logging(f) BY <2>1 DEF Others, Logging
  <2>5. Cardinality(Coming(f)) + Cardinality(Logging(f)) <= Cardinality(Requests)
    BY ImportCounts, TwoParts
  <2> QED BY <1>0, <2>1, <2>2, <2>3, <2>4, <2>5, ImportCounts, ImportCountsNext DEF FileInv
<1>12. ASSUME NEW u \in Requests, CrashRequest(u) PROVE FileInv(f)'
  <2>1. /\ Others(u) /\ req'[u].pc = "idle" /\ rowVars' = rowVars /\ synced' = synced
        /\ crashes' = crashes + 1 /\ dbFailures' = dbFailures
    BY <1>12, Replied DEF CrashRequest, storeVars
  <2>2. Coming(f)' \subseteq Coming(f) /\ Logging(f) \subseteq Logging(f)' \cup {u}
    BY <2>1 DEF Others, Coming, Logging
  <2>3. /\ Cardinality(Coming(f)') <= Cardinality(Coming(f))
        /\ Cardinality(Logging(f)) <= Cardinality(Logging(f)') + 1
    BY <2>2, ImportCounts, ImportCountsNext, FewerCount, OneMore
  <2>4. Imported(f)' = Imported(f) BY <2>1, <1>a
  <2> QED BY <1>0, <2>1, <2>3, <2>4, ImportCounts, ImportCountsNext DEF FileInv
<1> QED BY <1>1, <1>2, <1>3, <1>4, <1>5, <1>6, <1>7, <1>8, <1>9, <1>10, <1>11, <1>12
  DEF LibraryNext

LEMMA ImportsStutter == ImportsInv /\ UNCHANGED libraryVars => ImportsInv'
<1> SUFFICES ASSUME ImportsInv, UNCHANGED libraryVars, NEW f \in Files PROVE FileInv(f)'
  BY DEF ImportsInv
<1>1. Imported(f)' = Imported(f) /\ Coming(f)' = Coming(f) /\ Logging(f)' = Logging(f)
  BY DEF libraryVars, Imported, Coming, Logging
<1>2. FileInv(f) BY DEF ImportsInv
<1> QED BY <1>1, <1>2 DEF FileInv, libraryVars

\* A Drive file becomes at most one asset per pass that overlaps its first
\* import, and one for each import that was cut off or failed to look it up.
THEOREM ImportsKeptBounded == LibrarySpec => []ImportsBounded
<1>1. LibraryInit => TypedInv /\ ImportsInv BY TypedInit, ImportsInit
<1>2. TypedInv /\ ImportsInv /\ [LibraryNext]_libraryVars => (TypedInv /\ ImportsInv)'
  BY TypedNext, TypedStutter, ImportsNext, ImportsStutter
<1>3. TypedInv /\ ImportsInv => ImportsBounded
  <2> SUFFICES ASSUME TypedInv, ImportsInv, NEW f \in Files
               PROVE  Cardinality(Imported(f)) <= Cardinality(Requests) + crashes + dbFailures
    BY DEF ImportsBounded, Imported
  <2>1. FileInv(f) /\ crashes \in Nat /\ dbFailures \in Nat
    BY DEF ImportsInv, TypedInv, LibraryTypeOK
  <2>2. Cardinality(Logging(f)) <= Cardinality(Requests) BY ImportCounts, FewerCount
  <2> QED BY <2>1, <2>2, ImportCounts DEF FileInv
<1> QED BY <1>1, <1>2, <1>3, PTL DEF LibrarySpec

-----------------------------------------------------------------------------
(* Rows and their bytes.                                                   *)

Unlisted(l) == \A a \in Rows : url[a] # l

\* The URL of a registration is held by no row and no other request, and still
\* has its bytes, or the URL is contended.
RegisterHeld(u) ==
    req[u].kind = "register" =>
        /\ req[u].url \in offered
        /\ req[u].url \notin contended =>
              /\ req[u].url \in blobs /\ Unlisted(req[u].url)
              /\ Holding(req[u].url) = {u}

\* The URL of an upload or an import that is to become a row is its own.
CreateHeld(u) ==
    req[u].kind \in {"upload", "sync"} /\ req[u].pc = "create" =>
        /\ req[u].url \in blobs \ offered
        /\ \A a \in Assets : url[a] # req[u].url
        /\ \A v \in Requests \ {u} : req[v].url # req[u].url

\* A deletion holds the URL of its row; no other row has it, or it is contended.
DeleteHeld(u) ==
    req[u].kind = "delete" =>
        /\ mstatus[req[u].asset] # "ABSENT" /\ url[req[u].asset] = req[u].url
        /\ req[u].url \notin contended \cup {NoUrl} =>
              \A a \in Rows : url[a] = req[u].url => a = req[u].asset

Held(u) == RegisterHeld(u) /\ CreateHeld(u) /\ DeleteHeld(u)

\* Two rows share a URL only if it is contended.
RowsDiffer ==
    \A a, b \in Rows : url[a] = url[b] /\ url[a] \notin contended \cup {NoUrl} => a = b

BytesInv == RowsKeepTheirBytes /\ RowsDiffer /\ \A u \in Requests : Held(u)

LEMMA BytesInit == LibraryInit => BytesInv
BY DEF LibraryInit, BytesInv, RowsKeepTheirBytes, RowsDiffer, Held, RegisterHeld, CreateHeld,
       DeleteHeld, Rows, Present, MediaStatus, NoRequest

\* The rows, the store and what v holds stay as they are, and the request that
\* moves takes up no URL.
LEMMA HeldKept ==
  ASSUME TypedInv, NEW u \in Requests, NEW v \in Requests \ {u}, Held(v), Others(u),
         mstatus' = mstatus, url' = url, offered' = offered, blobs' = blobs,
         contended \subseteq contended',
         req'[u].url = NoUrl \/ (req'[u].kind = req[u].kind /\ req'[u].url = req[u].url)
  PROVE  Held(v)'
<1>1. req'[v] = req[v] /\ req \in [Requests -> Request] /\ blobs \subseteq Urls
         /\ offered \subseteq Urls
  BY DEF Others, TypedInv, LibraryTypeOK
<1>2. RegisterHeld(v)'
  <2> SUFFICES ASSUME req[v].kind = "register", NEW l, l = req[v].url
               PROVE  l \in offered /\ (l \notin contended' =>
                            l \in blobs /\ Unlisted(l)' /\ Holding(l)' = {v})
    BY <1>1 DEF RegisterHeld
  <2>1. l \in offered /\ (l \notin contended' =>
                            l \in blobs /\ Unlisted(l) /\ Holding(l) = {v})
    BY DEF Held, RegisterHeld
  <2>2. Holding(l) = {v} => Holding(l)' = {v}
    BY <1>1, <2>1, LibraryAssumption DEF Holding, Others
  <2>3. Unlisted(l)' <=> Unlisted(l) BY DEF Unlisted, Rows, Present
  <2> QED BY <2>1, <2>2, <2>3
<1>3. CreateHeld(v)'
  BY <1>1, LibraryAssumption DEF Held, CreateHeld, Others
<1>4. DeleteHeld(v)'
  BY <1>1 DEF Held, DeleteHeld, Rows, Present
<1> QED BY <1>2, <1>3, <1>4 DEF Held

\* The same of the rows; a deletion that stops leaves its URL contended.
LEMMA RowsHeld ==
  ASSUME TypedInv, BytesInv, NEW u \in Requests, Others(u),
         mstatus' = mstatus, url' = url, blobs \subseteq blobs', contended \subseteq contended',
         req[u].kind = "delete" =>
            \/ req'[u].kind = "delete" /\ req'[u].asset = req[u].asset
            \/ req[u].url \in contended' \cup {NoUrl}
  PROVE  RowsKeepTheirBytes' /\ RowsDiffer'
<1>1. Rows' = Rows BY DEF Rows, Present
<1>2. RowsDiffer' BY <1>1 DEF BytesInv, RowsDiffer
<1>3. ASSUME NEW a \in Rows, url[a] # NoUrl, url[a] \notin blobs' \cup contended'
      PROVE  BeingDeleted(a)'
  <2>1. PICK v \in Requests : req[v].kind = "delete" /\ req[v].asset = a
    BY <1>3 DEF BytesInv, RowsKeepTheirBytes, BeingDeleted
  <2>2. url[a] = req[v].url BY <2>1 DEF BytesInv, Held, DeleteHeld
  <2>3. CASE v # u BY <2>1, <2>3 DEF Others, BeingDeleted
  <2>4. CASE v = u BY <1>3, <2>1, <2>2, <2>4 DEF BeingDeleted
  <2> QED BY <2>3, <2>4
<1> QED BY <1>1, <1>2, <1>3 DEF RowsKeepTheirBytes

\* A request is answered, or goes on with what it held, and nothing is deleted.
LEMMA BytesKept ==
  ASSUME TypedInv, BytesInv, NEW u \in Requests, Others(u), Held(u)',
         mstatus' = mstatus, url' = url, offered' = offered, blobs' = blobs,
         contended \subseteq contended',
         req'[u].url = NoUrl \/ (req'[u].kind = req[u].kind /\ req'[u].url = req[u].url),
         req[u].kind = "delete" =>
            \/ req'[u].kind = "delete" /\ req'[u].asset = req[u].asset
            \/ req[u].url \in contended' \cup {NoUrl}
  PROVE  BytesInv'
<1>1. \A v \in Requests \ {u} : Held(v)' BY HeldKept DEF BytesInv
<1> QED BY <1>1, RowsHeld DEF BytesInv

\* A request that has been answered holds nothing, nor does one that has not
\* stored its bytes.
LEMMA NothingHeld ==
  ASSUME NEW u, \/ req'[u].kind \in {"none", "token"}
                \/ req'[u].kind \in {"upload", "sync"} /\ req'[u].pc # "create"
  PROVE  Held(u)'
BY DEF Held, RegisterHeld, CreateHeld, DeleteHeld

\* A new URL is nobody's.
LEMMA BytesStored ==
  ASSUME TypedInv, BytesInv, NEW u \in Requests, NEW F \in SUBSET Urls, PutBlob(u, F),
         req[u].kind \in {"upload", "sync"}
  PROVE  BytesInv'
<1>1. PICK l \in F \ issued :
         /\ Others(u)
         /\ issued' = issued \cup {l} /\ blobs' = blobs \cup {l}
         /\ req'[u].pc = "create" /\ req'[u].kind = req[u].kind /\ req'[u].url = l
  BY Stored
<1>2. /\ mstatus' = mstatus /\ url' = url /\ offered' = offered /\ contended' = contended
      /\ Rows' = Rows
  BY DEF PutBlob, rowVars, Rows, Present
<1>3. /\ offered \subseteq issued /\ blobs \subseteq issued /\ l # NoUrl
      /\ \A a \in Assets : url[a] # l
      /\ \A v \in Requests : req[v].url # l
  BY <1>1, LibraryAssumption DEF TypedInv, LibraryTypeOK, Asked
<1>4. CreateHeld(u)'
  BY <1>1, <1>2, <1>3 DEF CreateHeld, Others
<1>5. Held(u)' BY <1>1, <1>4 DEF Held, RegisterHeld, DeleteHeld
<1>6. ASSUME NEW v \in Requests \ {u} PROVE Held(v)'
  <2>0. Held(v) /\ req'[v] = req[v] BY <1>1 DEF BytesInv, Others
  <2>1. RegisterHeld(v)'
    <3> SUFFICES ASSUME req[v].kind = "register", NEW k, k = req[v].url
                 PROVE  k \in offered /\ (k \notin contended =>
                              k \in blobs' /\ Unlisted(k)' /\ Holding(k)' = {v})
      BY <1>2, <2>0 DEF RegisterHeld
    <3>1. k \in offered /\ (k \notin contended =>
                              k \in blobs /\ Unlisted(k) /\ Holding(k) = {v})
      BY <2>0 DEF Held, RegisterHeld
    <3>2. Holding(k)' = Holding(k) BY <1>1 DEF Holding, Others
    <3>3. Unlisted(k)' <=> Unlisted(k) BY <1>2 DEF Unlisted
    <3> QED BY <1>1, <3>1, <3>2, <3>3
  <2>2. CreateHeld(v)'
    BY <1>1, <1>2, <1>3, <2>0 DEF Held, CreateHeld, Others
  <2>3. DeleteHeld(v)'
    BY <1>2, <2>0 DEF Held, DeleteHeld
  <2> QED BY <2>1, <2>2, <2>3 DEF Held
<1>7. RowsKeepTheirBytes' /\ RowsDiffer'
  BY <1>1, <1>2, RowsHeld
<1> QED BY <1>5, <1>6, <1>7 DEF BytesInv

\* A new row: its URL was held by u alone, or is contended.
LEMMA BytesOfNewRow ==
  ASSUME TypedInv, BytesInv, NEW u \in Requests, CreateRow(u), NEW a \in Assets,
         mstatus[a] = "ABSENT", mstatus' = [mstatus EXCEPT ![a] = "PENDING"],
         url' = [url EXCEPT ![a] = req[u].url],
         IF req[u].kind = "sync" THEN Continue(u, "log") ELSE Reply(u)
  PROVE  BytesInv'
<1> DEFINE l == req[u].url
<1>0. /\ mstatus \in [Assets -> MediaStatus \cup {"ABSENT", "DELETED"}]
      /\ url \in [Assets -> issued \cup {NoUrl}] /\ issued \subseteq Urls
      /\ offered \subseteq issued /\ blobs \subseteq issued
  BY DEF TypedInv, LibraryTypeOK
<1>1. /\ blobs' = blobs /\ offered' = offered /\ contended' = contended
      /\ req[u].pc = "create" /\ req[u].kind \in {"upload", "register", "sync"}
  BY DEF CreateRow, storeVars, TypedInv, Asked
<1>2. /\ Others(u)
      /\ \/ req'[u].kind = "none" /\ req'[u].url = NoUrl
         \/ req'[u].kind = "sync" /\ req'[u].pc = "log" /\ req'[u].url = l
               /\ req[u].kind = "sync"
  BY <1>1, Replied, Continued
<1>3. Held(u)' BY <1>2, NothingHeld
<1>4. /\ Rows' = Rows \cup {a} /\ a \notin Rows
      /\ url'[a] = l /\ \A b \in Assets \ {a} : url'[b] = url[b] /\ mstatus'[b] = mstatus[b]
  BY <1>0 DEF Rows, Present, MediaStatus
<1>5. Held(u) BY DEF BytesInv
<1>6. l # NoUrl /\ (l \notin contended => l \in blobs /\ Unlisted(l))
  <2>1. CASE req[u].kind = "register"
    BY <1>0, <1>5, <2>1, LibraryAssumption DEF Held, RegisterHeld
  <2>2. CASE req[u].kind # "register"
    BY <1>0, <1>1, <1>5, <2>2, LibraryAssumption DEF Held, CreateHeld, Unlisted, Rows
  <2> QED BY <2>1, <2>2
<1>7. RowsDiffer'
  <2>1. \A b \in Rows : url[b] # l \/ l \in contended BY <1>6 DEF Unlisted
  <2> QED BY <1>1, <1>4, <2>1 DEF BytesInv, RowsDiffer, Rows
<1>8. RowsKeepTheirBytes'
  <2>1. ASSUME NEW b \in Rows, BeingDeleted(b) PROVE BeingDeleted(b)'
    BY <1>1, <1>2, <2>1 DEF BeingDeleted, Others
  <2>2. ASSUME NEW b \in Rows
        PROVE  url'[b] # NoUrl => url'[b] \in blobs' \cup contended' \/ BeingDeleted(b)'
    <3>1. url'[b] = url[b] BY <1>4, <2>2 DEF Rows
    <3> QED BY <1>1, <2>1, <2>2, <3>1 DEF BytesInv, RowsKeepTheirBytes
  <2>3. url'[a] \in blobs' \cup contended' BY <1>1, <1>4, <1>6
  <2> QED BY <1>4, <2>2, <2>3 DEF RowsKeepTheirBytes
<1>9. ASSUME NEW v \in Requests \ {u} PROVE Held(v)'
  <2>0. Held(v) /\ req'[v] = req[v] BY <1>2 DEF BytesInv, Others
  <2>1. RegisterHeld(v)'
    <3> SUFFICES ASSUME req[v].kind = "register", NEW k, k = req[v].url
                 PROVE  k \in offered /\ (k \notin contended =>
                              k \in blobs /\ Unlisted(k)' /\ Holding(k)' = {v})
      BY <1>1, <2>0 DEF RegisterHeld
    <3>1. k \in offered /\ (k \notin contended =>
                              k \in blobs /\ Unlisted(k) /\ Holding(k) = {v})
      BY <2>0 DEF Held, RegisterHeld
    <3>2. k \notin contended => l # k
      <4>1. CASE req[u].kind = "register"
        BY <3>1, <4>1 DEF Holding
      <4>2. CASE req[u].kind # "register"
        BY <1>1, <1>5, <4>2 DEF Held, CreateHeld
      <4> QED BY <4>1, <4>2
    <3>3. Holding(k) = {v} => Holding(k)' = {v}
      BY <1>1, <1>2, <2>0 DEF Holding, Others
    <3>4. k \notin contended => (Unlisted(k) => Unlisted(k)')
      BY <1>4, <3>2 DEF Unlisted, Rows
    <3> QED BY <3>1, <3>3, <3>4
  <2>2. CreateHeld(v)'
    <3> SUFFICES ASSUME req[v].kind \in {"upload", "sync"}, req[v].pc = "create"
                 PROVE  /\ req[v].url \in blobs \ offered
                        /\ \A b \in Assets : url'[b] # req[v].url
                        /\ \A w \in Requests \ {v} : req'[w].url # req[v].url
      BY <1>1, <2>0 DEF CreateHeld
    <3>1. /\ req[v].url \in blobs \ offered
          /\ \A b \in Assets : url[b] # req[v].url
          /\ \A w \in Requests \ {v} : req[w].url # req[v].url
      BY <2>0 DEF Held, CreateHeld
    <3>2. l # req[v].url BY <3>1
    <3>3. req[v].url # NoUrl BY <1>0, <3>1, LibraryAssumption
    <3> QED BY <1>2, <1>4, <3>1, <3>2, <3>3 DEF Others
  <2>3. DeleteHeld(v)'
    <3> SUFFICES ASSUME req[v].kind = "delete", NEW b, b = req[v].asset
                 PROVE  /\ mstatus'[b] # "ABSENT" /\ url'[b] = req[v].url
                        /\ req[v].url \notin contended \cup {NoUrl} =>
                              \A c \in Rows' : url'[c] = req[v].url => c = b
      BY <1>1, <2>0 DEF DeleteHeld
    <3>1. /\ mstatus[b] # "ABSENT" /\ url[b] = req[v].url
          /\ req[v].url \notin contended \cup {NoUrl} =>
                \A c \in Rows : url[c] = req[v].url => c = b
      BY <2>0 DEF Held, DeleteHeld
    <3>2. b \in Assets \ {a} BY <3>1 DEF TypedInv, Asked
    <3>3. req[v].url \notin contended => l # req[v].url
      <4>1. CASE req[u].kind = "register"
        BY <1>5, <4>1 DEF Holding, Held, RegisterHeld
      <4>2. CASE req[u].kind # "register"
        BY <1>1, <1>5, <4>2 DEF Held, CreateHeld
      <4> QED BY <4>1, <4>2
    <3> QED BY <1>4, <3>1, <3>2, <3>3 DEF Rows
  <2> QED BY <2>1, <2>2, <2>3 DEF Held
<1> QED BY <1>3, <1>7, <1>8, <1>9 DEF BytesInv

\* Bytes are deleted by a registration whose URL no row has, or by the deletion
\* of the one row that has it; or the URL is contended.
LEMMA BytesErased ==
  ASSUME TypedInv, BytesInv, NEW u \in Requests, Others(u), Held(u)',
         rowVars' = rowVars, offered' = offered, contended' = contended,
         blobs' \in {blobs, blobs \ {req[u].url}},
         req'[u].url = NoUrl \/ (req'[u].kind = req[u].kind /\ req'[u].url = req[u].url),
         \/ req[u].kind = "register"
         \/ req[u].kind = "delete" /\ req'[u].kind = "delete" /\ req'[u].asset = req[u].asset
  PROVE  BytesInv'
<1>0. /\ Held(u) /\ mstatus' = mstatus /\ url' = url /\ Rows' = Rows
      /\ offered \subseteq Urls /\ blobs \subseteq Urls
  BY DEF BytesInv, rowVars, Rows, Present, TypedInv, LibraryTypeOK
<1>1. RowsDiffer' BY <1>0 DEF BytesInv, RowsDiffer
<1>2. RowsKeepTheirBytes'
  <2> SUFFICES ASSUME NEW a \in Rows, url[a] # NoUrl, url[a] \notin blobs' \cup contended
               PROVE  BeingDeleted(a)'
    BY <1>0 DEF RowsKeepTheirBytes
  <2>1. CASE url[a] \in blobs
    <3>1. url[a] = req[u].url BY <2>1
    <3>2. req[u].kind = "delete" /\ a = req[u].asset
      BY <1>0, <3>1 DEF Held, RegisterHeld, DeleteHeld, Unlisted
    <3> QED BY <3>2 DEF BeingDeleted
  <2>2. CASE url[a] \notin blobs
    <3>1. PICK v \in Requests : req[v].kind = "delete" /\ req[v].asset = a
      BY <2>2 DEF BytesInv, RowsKeepTheirBytes, BeingDeleted
    <3> QED BY <3>1 DEF BeingDeleted, Others
  <2> QED BY <2>1, <2>2
<1>3. ASSUME NEW v \in Requests \ {u} PROVE Held(v)'
  <2>0. Held(v) /\ req'[v] = req[v] BY DEF BytesInv, Others
  <2>1. RegisterHeld(v)'
    <3> SUFFICES ASSUME req[v].kind = "register", NEW k, k = req[v].url
                 PROVE  k \in offered /\ (k \notin contended =>
                              k \in blobs' /\ Unlisted(k)' /\ Holding(k)' = {v})
      BY <2>0 DEF RegisterHeld
    <3>1. k \in offered /\ (k \notin contended =>
                              k \in blobs /\ Unlisted(k) /\ Holding(k) = {v})
      BY <2>0 DEF Held, RegisterHeld
    <3>2. k \notin contended => req[u].url # k BY <3>1 DEF Holding
    <3>3. Holding(k) = {v} => Holding(k)' = {v}
      BY <1>0, <2>0, <3>1, LibraryAssumption DEF Holding, Others
    <3>4. Unlisted(k)' <=> Unlisted(k) BY <1>0 DEF Unlisted
    <3> QED BY <3>1, <3>2, <3>3, <3>4
  <2>2. CreateHeld(v)'
    BY <1>0, <2>0, LibraryAssumption DEF Held, CreateHeld, Others
  <2>3. DeleteHeld(v)' BY <1>0, <2>0 DEF Held, DeleteHeld
  <2> QED BY <2>1, <2>2, <2>3 DEF Held
<1> QED BY <1>1, <1>2, <1>3 DEF BytesInv

LEMMA BytesNext == TypedInv /\ BytesInv /\ LibraryNext => BytesInv'
<1> SUFFICES ASSUME TypedInv, BytesInv, LibraryNext PROVE BytesInv'
  OBVIOUS
<1>0. \A u \in Requests : Held(u) /\ (req[u].pc = "idle" => req[u].kind = "none")
  BY DEF BytesInv, TypedInv, Asked
<1>1. ASSUME NEW u \in Requests,
             Upload(u) \/ Token(u) \/ \E f \in Files : Sync(u, f)
      PROVE  BytesInv'
  <2>1. /\ Others(u) /\ req'[u].url = NoUrl /\ req[u].pc = "idle"
        /\ \/ req'[u].kind = "token"
           \/ req'[u].kind \in {"upload", "sync"} /\ req'[u].pc # "create"
    BY <1>1, Begun DEF Became
  <2>2. /\ mstatus' = mstatus /\ url' = url /\ offered' = offered /\ blobs' = blobs
        /\ contended' = contended
    BY <1>1 DEF Upload, Token, Sync, rowVars, storeVars
  <2>3. Held(u)' BY <2>1, NothingHeld
  <2> QED BY <1>0, <2>1, <2>2, <2>3, BytesKept
<1>2. ASSUME NEW u \in Requests, StoreUpload(u) \/ FetchFile(u) PROVE BytesInv'
  <2>1. \E F \in SUBSET Urls : PutBlob(u, F) BY <1>2 DEF StoreUpload, FetchFile
  <2>2. req[u].kind \in {"upload", "sync"} BY <1>2 DEF StoreUpload, FetchFile, At
  <2> QED BY <2>1, <2>2, BytesStored
<1>3. ASSUME NEW u \in Requests, CreateRow(u) PROVE BytesInv'
  <2>1. CASE UNCHANGED <<mstatus, url, from>> /\ req[u].kind \in {"upload", "register"}
                /\ Reply(u)
    <3>1. Others(u) /\ req'[u].url = NoUrl /\ req'[u].kind = "none" BY <2>1, Replied
    <3>2. offered' = offered /\ blobs' = blobs /\ contended' = contended
      BY <1>3 DEF CreateRow, storeVars
    <3> QED BY <2>1, <3>1, <3>2, NothingHeld, BytesKept
  <2> QED BY <1>3, <2>1, BytesOfNewRow DEF CreateRow
<1>4. ASSUME NEW u \in Requests, Transfer(u) PROVE BytesInv'
  <2>1. PICK l \in Urls \ issued : offered' = offered \cup {l} /\ blobs' = blobs \cup {l}
    BY <1>4 DEF Transfer
  <2>2. /\ Others(u) /\ req'[u].url = NoUrl /\ req'[u].kind = "none"
        /\ req[u].kind = "token"
    BY <1>4, Replied DEF Transfer, At
  <2>3. mstatus' = mstatus /\ url' = url /\ contended' = contended /\ Rows' = Rows
    BY <1>4 DEF Transfer, rowVars, Rows, Present
  <2>4. Held(u)' BY <2>2, NothingHeld
  <2>5. RowsKeepTheirBytes' /\ RowsDiffer' BY <2>1, <2>2, <2>3, RowsHeld
  <2>6. ASSUME NEW v \in Requests \ {u} PROVE Held(v)'
    <3>0. Held(v) /\ req'[v] = req[v] /\ blobs \subseteq issued /\ issued \subseteq Urls
             /\ offered \subseteq Urls
      BY <1>0, <2>2 DEF Others, TypedInv, LibraryTypeOK
    <3>1. RegisterHeld(v)'
      <4> SUFFICES ASSUME req[v].kind = "register", NEW k, k = req[v].url
                   PROVE  k \in offered' /\ (k \notin contended =>
                                k \in blobs' /\ Unlisted(k)' /\ Holding(k)' = {v})
        BY <2>3, <3>0 DEF RegisterHeld
      <4>1. k \in offered /\ (k \notin contended =>
                                k \in blobs /\ Unlisted(k) /\ Holding(k) = {v})
        BY <3>0 DEF Held, RegisterHeld
      <4>2. Holding(k)' = Holding(k) BY <2>2 DEF Holding, Others
      <4>3. Unlisted(k)' <=> Unlisted(k) BY <2>3 DEF Unlisted
      <4> QED BY <2>1, <4>1, <4>2, <4>3
    <3>2. CreateHeld(v)'
      BY <2>1, <2>2, <2>3, <3>0, LibraryAssumption DEF Held, CreateHeld, Others
    <3>3. DeleteHeld(v)' BY <2>3, <3>0 DEF Held, DeleteHeld
    <3> QED BY <3>1, <3>2, <3>3 DEF Held
  <2> QED BY <2>4, <2>5, <2>6 DEF BytesInv
<1>5. ASSUME NEW u \in Requests, NEW l \in Urls, Register(u, l) PROVE BytesInv'
  <2>1. /\ Others(u) /\ req'[u].url = l /\ req'[u].kind = "register" /\ req[u].kind = "none"
    BY <1>0, <1>5, Begun DEF Became
  <2>2. /\ mstatus' = mstatus /\ url' = url /\ offered' = offered /\ blobs' = blobs
        /\ Rows' = Rows /\ contended \subseteq contended'
        /\ (Holding(l) # {} => l \in contended')
        /\ l \in offered \cap blobs /\ Unlisted(l)
    BY <1>5 DEF Register, rowVars, storeVars, Rows, Present, Unlisted
  <2>3. RowsKeepTheirBytes' /\ RowsDiffer' BY <2>1, <2>2, RowsHeld
  <2>4. Held(u)'
    <3>1. Holding(l) = {} => Holding(l)' = {u} BY <2>1 DEF Holding, Others
    <3>2. Unlisted(l)' BY <2>2 DEF Unlisted
    <3> QED BY <2>1, <2>2, <3>1, <3>2 DEF Held, RegisterHeld, CreateHeld, DeleteHeld
  <2>5. ASSUME NEW v \in Requests \ {u} PROVE Held(v)'
    <3>0. Held(v) /\ req'[v] = req[v] BY <1>0, <2>1 DEF Others
    <3>1. RegisterHeld(v)'
      <4> SUFFICES ASSUME req[v].kind = "register", NEW k, k = req[v].url
                   PROVE  k \in offered /\ (k \notin contended' =>
                                k \in blobs /\ Unlisted(k)' /\ Holding(k)' = {v})
        BY <2>2, <3>0 DEF RegisterHeld
      <4>1. k \in offered /\ (k \notin contended' =>
                                k \in blobs /\ Unlisted(k) /\ Holding(k) = {v})
        BY <2>2, <3>0 DEF Held, RegisterHeld
      <4>2. k \notin contended' => k # l BY <2>2, <4>1
      <4>3. k # l => Holding(k)' = Holding(k) BY <2>1 DEF Holding, Others
      <4>4. Unlisted(k)' <=> Unlisted(k) BY <2>2 DEF Unlisted
      <4> QED BY <4>1, <4>2, <4>3, <4>4
    <3>2. CreateHeld(v)' BY <2>1, <2>2, <3>0 DEF Held, CreateHeld, Others
    <3>3. DeleteHeld(v)' BY <2>2, <3>0 DEF Held, DeleteHeld
    <3> QED BY <3>1, <3>2, <3>3 DEF Held
  <2> QED BY <2>3, <2>4, <2>5 DEF BytesInv
<1>6. ASSUME NEW u \in Requests, Verify(u) \/ CheckLimit(u) PROVE BytesInv'
  <2>1. /\ rowVars' = rowVars /\ offered' = offered /\ contended' = contended
        /\ req[u].kind = "register"
        /\ blobs' \in {blobs, blobs \ {req[u].url}}
    BY <1>6 DEF Verify, CheckLimit, DeleteBlob, At
  <2>2. CASE Reply(u)
    <3>1. Others(u) /\ req'[u].url = NoUrl /\ req'[u].kind = "none" BY <2>2, Replied
    <3> QED BY <2>1, <3>1, NothingHeld, BytesErased
  <2>3. CASE blobs' = blobs /\ (Continue(u, "limit") \/ Continue(u, "create"))
    <3>1. /\ Others(u) /\ req'[u].kind = req[u].kind /\ req'[u].url = req[u].url
      BY <2>3, Continued
    <3>2. Held(u) BY <1>0
    <3>3. RegisterHeld(u)'
      <4> SUFFICES ASSUME NEW k, k = req[u].url
                   PROVE  k \in offered /\ (k \notin contended =>
                                k \in blobs /\ Unlisted(k)' /\ Holding(k)' = {u})
        BY <2>1, <2>3, <3>1 DEF RegisterHeld
      <4>1. k \in offered /\ (k \notin contended =>
                                k \in blobs /\ Unlisted(k) /\ Holding(k) = {u})
        BY <2>1, <3>2 DEF Held, RegisterHeld
      <4>2. Holding(k)' = Holding(k) BY <3>1 DEF Holding, Others
      <4>3. Unlisted(k)' <=> Unlisted(k) BY <2>1 DEF Unlisted, Rows, Present, rowVars
      <4> QED BY <4>1, <4>2, <4>3
    <3>4. Held(u)' BY <2>1, <3>1, <3>3 DEF Held, CreateHeld, DeleteHeld
    <3> QED BY <2>1, <3>1, <3>4, BytesErased
  <2> QED BY <1>6, <2>2, <2>3 DEF Verify, CheckLimit
<1>7. ASSUME NEW u \in Requests, NEW a \in Assets, Delete(u, a) PROVE BytesInv'
  <2>1. /\ Others(u) /\ req'[u].url = url[a] /\ req'[u].kind = "delete"
        /\ req'[u].asset = a /\ req[u].kind = "none"
    BY <1>0, <1>7, Begun DEF Became
  <2>2. /\ mstatus' = mstatus /\ url' = url /\ offered' = offered /\ blobs' = blobs
        /\ Rows' = Rows /\ contended' = contended /\ a \in Rows
    BY <1>7 DEF Delete, rowVars, storeVars, Rows, Present
  <2>3. RowsKeepTheirBytes' /\ RowsDiffer' BY <2>1, <2>2, RowsHeld
  <2>4. Held(u)'
    <3>1. mstatus[a] # "ABSENT" BY <2>2 DEF Rows, Present, MediaStatus
    <3>2. DeleteHeld(u)' BY <2>1, <2>2, <3>1 DEF BytesInv, RowsDiffer, DeleteHeld
    <3> QED BY <2>1, <3>2 DEF Held, RegisterHeld, CreateHeld
  <2>5. ASSUME NEW v \in Requests \ {u} PROVE Held(v)'
    <3>0. Held(v) /\ req'[v] = req[v] BY <1>0, <2>1 DEF Others
    <3>1. RegisterHeld(v)'
      <4> SUFFICES ASSUME req[v].kind = "register", NEW k, k = req[v].url
                   PROVE  k \in offered /\ (k \notin contended =>
                                k \in blobs /\ Unlisted(k)' /\ Holding(k)' = {v})
        BY <2>2, <3>0 DEF RegisterHeld
      <4>1. k \in offered /\ (k \notin contended =>
                                k \in blobs /\ Unlisted(k) /\ Holding(k) = {v})
        BY <3>0 DEF Held, RegisterHeld
      <4>2. Unlisted(k) => Holding(k)' = Holding(k)
        BY <2>1, <2>2 DEF Holding, Others, Unlisted
      <4>3. Unlisted(k)' <=> Unlisted(k) BY <2>2 DEF Unlisted
      <4> QED BY <4>1, <4>2, <4>3
    <3>2. CreateHeld(v)' BY <2>1, <2>2, <3>0 DEF Held, CreateHeld, Others
    <3>3. DeleteHeld(v)' BY <2>2, <3>0 DEF Held, DeleteHeld
    <3> QED BY <3>1, <3>2, <3>3 DEF Held
  <2> QED BY <2>3, <2>4, <2>5 DEF BytesInv
<1>8. ASSUME NEW u \in Requests, EraseBytes(u) PROVE BytesInv'
  <2>1. /\ rowVars' = rowVars /\ offered' = offered /\ contended' = contended
        /\ req[u].kind = "delete" /\ Continue(u, "drop")
        /\ blobs' \in {blobs, blobs \ {req[u].url}}
    BY <1>8 DEF EraseBytes, DeleteBlob, At
  <2>2. /\ Others(u) /\ req'[u].kind = "delete" /\ req'[u].url = req[u].url
        /\ req'[u].asset = req[u].asset
    BY <2>1, Continued
  <2>3. Held(u) BY <1>0
  <2>4. Held(u)'
    BY <2>1, <2>2, <2>3 DEF Held, RegisterHeld, CreateHeld, DeleteHeld, Rows, Present, rowVars
  <2> QED BY <2>1, <2>2, <2>4, BytesErased
<1>9. ASSUME NEW u \in Requests, DropRow(u) PROVE BytesInv'
  <2>1. /\ url' = url /\ offered' = offered /\ blobs' = blobs /\ contended' = contended
        /\ mstatus' = [mstatus EXCEPT ![req[u].asset] = "DELETED"] /\ req[u].kind = "delete"
    BY <1>9 DEF DropRow, At, storeVars
  <2>2. Others(u) /\ req'[u].url = NoUrl /\ req'[u].kind = "none"
    BY <1>9, Replied DEF DropRow
  <2>3. Rows' = Rows \ {req[u].asset}
    BY <2>1 DEF Rows, Present, MediaStatus, TypedInv, LibraryTypeOK
  <2>4. RowsDiffer' BY <2>1, <2>3 DEF BytesInv, RowsDiffer
  <2>5. RowsKeepTheirBytes'
    BY <2>1, <2>2, <2>3 DEF BytesInv, RowsKeepTheirBytes, BeingDeleted, Others
  <2>6. ASSUME NEW v \in Requests \ {u} PROVE Held(v)'
    <3>0. Held(v) /\ req'[v] = req[v] BY <1>0, <2>2 DEF Others
    <3>1. RegisterHeld(v)'
      <4> SUFFICES ASSUME req[v].kind = "register", NEW k, k = req[v].url
                   PROVE  k \in offered /\ (k \notin contended =>
                                k \in blobs /\ Unlisted(k)' /\ Holding(k)' = {v})
        BY <2>1, <3>0 DEF RegisterHeld
      <4>1. k \in offered /\ (k \notin contended =>
                                k \in blobs /\ Unlisted(k) /\ Holding(k) = {v})
        BY <3>0 DEF Held, RegisterHeld
      <4>2. Holding(k) = {v} => Holding(k)' = {v} BY <2>2, <3>0 DEF Holding, Others
      <4>3. Unlisted(k) => Unlisted(k)' BY <2>1, <2>3 DEF Unlisted
      <4> QED BY <4>1, <4>2, <4>3
    <3>2. CreateHeld(v)'
      BY <2>1, <2>2, <3>0, LibraryAssumption
      DEF Held, CreateHeld, Others, TypedInv, LibraryTypeOK
    <3>3. DeleteHeld(v)'
      BY <2>1, <2>3, <3>0 DEF Held, DeleteHeld, TypedInv, LibraryTypeOK
    <3> QED BY <3>1, <3>2, <3>3 DEF Held
  <2>7. Held(u)' BY <2>2, NothingHeld
  <2> QED BY <2>4, <2>5, <2>6, <2>7 DEF BytesInv
<1>10. ASSUME NEW u \in Requests, LogSync(u) \/ CrashRequest(u) PROVE BytesInv'
  <2>1. Others(u) /\ req'[u].url = NoUrl /\ req'[u].kind = "none"
    BY <1>10, Replied DEF LogSync, CrashRequest
  <2>2. /\ mstatus' = mstatus /\ url' = url /\ offered' = offered /\ blobs' = blobs
        /\ contended \subseteq contended'
        /\ (req[u].kind = "delete" => req[u].url \in contended' \cup {NoUrl})
    BY <1>10 DEF LogSync, CrashRequest, At, rowVars, storeVars
  <2> QED BY <2>1, <2>2, NothingHeld, BytesKept
<1> QED BY <1>1, <1>2, <1>3, <1>4, <1>5, <1>6, <1>7, <1>8, <1>9, <1>10 DEF LibraryNext

LEMMA BytesStutter == BytesInv /\ UNCHANGED libraryVars => BytesInv'
BY DEF BytesInv, RowsKeepTheirBytes, RowsDiffer, Held, RegisterHeld, CreateHeld, DeleteHeld,
       Unlisted, Holding, BeingDeleted, Rows, Present, libraryVars

\* A row never points at bytes another request has deleted, unless its URL was
\* contended.
THEOREM RowsKeepBytes == LibrarySpec => []RowsKeepTheirBytes
<1>1. LibraryInit => TypedInv /\ BytesInv BY TypedInit, BytesInit
<1>2. TypedInv /\ BytesInv /\ [LibraryNext]_libraryVars => (TypedInv /\ BytesInv)'
  BY TypedNext, TypedStutter, BytesNext, BytesStutter
<1>3. BytesInv => RowsKeepTheirBytes BY DEF BytesInv
<1> QED BY <1>1, <1>2, <1>3, PTL DEF LibrarySpec

-----------------------------------------------------------------------------
(* The pipeline: what runs hold.                                           *)

\* Which steps belong to which kind of run, and that the pipeline of an asset
\* is about that asset alone.
Placed(q) ==
    /\ q.pc = "idle" <=> q.kind = "none"
    /\ q.pc = "idle" => q = NoRun
    /\ q.kind = "auto" => \E a \in Assets : q.media = {a}
    /\ q.kind = "auto" <=> q.timer # "none"
    /\ q.auto => q.kind = "auto"
    /\ q.pc \in {"claim", "refused", "credit", "downgrade"} => q.kind = "auto"
    /\ q.pc = "mark" => q.kind = "compose"
    /\ q.pc \in {"reserve", "generate", "release"} => q.kind # "draft"
    /\ q.pc \in {"credit", "downgrade", "link"} => q.post # 0
    /\ q.pc = "late" => q.timer = "fired"

\* A row is never created here, so that one that is gone is gone for good.
RunsInv ==
    /\ PipelineTypeOK /\ \A u \in Requests : Asked(u)
    /\ \A a \in Assets : mstatus[a] # "ABSENT"
    /\ \A r \in Runs : Placed(run[r])

OtherRuns(r) == \A x \in Runs \ {r} : run'[x] = run[x]

LEMMA NoRunTyped == NoRun \in Run /\ Placed(NoRun)
BY PipelineAssumption DEF NoRun, Run, RunSteps, Placed

\* Fields of a run.
LEMMA RunFields ==
  ASSUME RunsInv, NEW r \in Runs
  PROVE  /\ run[r] \in Run /\ Placed(run[r]) /\ run[r].post \in 0..Len(posts)
         /\ run[r].media \subseteq Assets /\ run[r].pc \in RunSteps
         /\ run[r].kind \in {"none", "auto", "compose", "draft"}
         /\ run[r].timer \in {"none", "armed", "fired", "written"}
         /\ run[r].auto \in BOOLEAN
BY DEF RunsInv, PipelineTypeOK, Run

\* Two runs that differ in their step alone.
SameRun(p, q) ==
    /\ p.kind = q.kind /\ p.media = q.media /\ p.auto = q.auto /\ p.slot = q.slot
    /\ p.tries = q.tries /\ p.post = q.post /\ p.timer = q.timer

LEMMA Goes ==
  ASSUME RunsInv, NEW r \in Runs, NEW l \in RunSteps, Go(r, l)
  PROVE  /\ OtherRuns(r) /\ run' \in [Runs -> Run]
         /\ run'[r].pc = l /\ SameRun(run'[r], run[r])
<1>1. run \in [Runs -> Run] BY DEF RunsInv, PipelineTypeOK
<1>2. run[r] \in Run BY <1>1
<1>3. OtherRuns(r) BY <1>1 DEF Go, OtherRuns
<1>4. run'[r] \in Run /\ run'[r].pc = l /\ SameRun(run'[r], run[r])
  BY <1>1, <1>2 DEF Go, SameRun, Run
<1>5. run' \in [Runs -> Run] BY <1>1, <1>3, <1>4 DEF Go, OtherRuns
<1> QED BY <1>3, <1>4, <1>5

\* A run that ends is gone, or waits for its handler.
LEMMA Ends ==
  ASSUME RunsInv, NEW r \in Runs, End(r)
  PROVE  /\ OtherRuns(r) /\ run' \in [Runs -> Run]
         /\ \/ /\ run[r].timer = "fired" /\ run'[r].pc = "late"
               /\ SameRun(run'[r], run[r])
            \/ run[r].timer # "fired" /\ run'[r] = NoRun
<1>1. run \in [Runs -> Run] BY DEF RunsInv, PipelineTypeOK
<1>2. run[r] \in Run BY <1>1
<1>3. OtherRuns(r) BY <1>1 DEF End, OtherRuns
<1>4. CASE run[r].timer = "fired"
  <2>1. run'[r] = [run[r] EXCEPT !.pc = "late"] BY <1>1, <1>4 DEF End
  <2>2. run'[r] \in Run /\ run'[r].pc = "late" /\ SameRun(run'[r], run[r])
    BY <1>2, <2>1 DEF Run, RunSteps, SameRun
  <2>3. run' \in [Runs -> Run] BY <1>1, <1>3, <2>2 DEF End, OtherRuns
  <2> QED BY <1>3, <1>4, <2>2, <2>3
<1>5. CASE run[r].timer # "fired"
  <2>1. run'[r] = NoRun BY <1>1, <1>5 DEF End
  <2>2. run' \in [Runs -> Run] BY <1>1, <1>3, <2>1, NoRunTyped DEF End, OtherRuns
  <2> QED BY <1>3, <1>5, <2>1, <2>2
<1> QED BY <1>4, <1>5

\* The state after a step of one run.
LEMMA OneRun ==
  ASSUME RunsInv, NEW r \in Runs, OtherRuns(r), run' \in [Runs -> Run],
         Placed(run'[r]), run'[r].post \in 0..Len(posts'),
         posts' \in Seq(Post), Len(posts) <= Len(posts'),
         restVars' = restVars,
         mstatus' \in [Assets -> MediaStatus \cup {"ABSENT", "DELETED"}],
         \A a \in Assets : mstatus'[a] # "ABSENT",
         stale' \in [Assets -> BOOLEAN], link' \in [Assets -> 0..Len(posts')],
         crashes' \in Nat, dbFailures' \in Nat,
         ai' \in Nat, used' \in 0..quota, timeouts' \in Nat, started' \in Nat,
         composed' \in [Assets -> Nat]
  PROVE  RunsInv'
<1>1. ASSUME NEW x \in Runs PROVE run'[x].post \in 0..Len(posts') /\ Placed(run'[x])
  <2>1. CASE x = r BY <2>1
  <2>2. CASE x # r
    <3>1. run'[x] = run[x] BY <2>2 DEF OtherRuns
    <3>2. Placed(run[x]) /\ run[x].post \in 0..Len(posts) BY RunFields
    <3>3. Len(posts) \in Nat /\ Len(posts') \in Nat BY DEF RunsInv, PipelineTypeOK
    <3> QED BY <3>1, <3>2, <3>3
  <2> QED BY <2>1, <2>2
<1>2. Len(posts') \in Nat OBVIOUS
<1>3. LibraryTypeOK'
  <2>1. link' \in [Assets -> Nat] BY <1>2
  <2> QED BY <2>1 DEF RunsInv, PipelineTypeOK, LibraryTypeOK, restVars, storeVars
<1>4. \A u \in Requests : Asked(u)' BY DEF RunsInv, Asked, restVars, storeVars
<1>5. \A a \in Assets : link'[a] \in 0..Len(posts') OBVIOUS
<1>6. quota' = quota /\ quota \in 0..PostLimit BY DEF restVars, RunsInv, PipelineTypeOK
<1>7. PipelineTypeOK' BY <1>1, <1>3, <1>5, <1>6 DEF PipelineTypeOK
<1> QED BY <1>1, <1>4, <1>7 DEF RunsInv

\* The assets are marked.
LEMMA Marked ==
  ASSUME RunsInv, NEW S, NEW s \in MediaStatus, Mark(S, s)
  PROVE  /\ mstatus' \in [Assets -> MediaStatus \cup {"ABSENT", "DELETED"}]
         /\ stale' \in [Assets -> BOOLEAN]
         /\ Rows' = Rows /\ \A a \in Assets : mstatus'[a] # "ABSENT"
         /\ \A a \in Assets : a \in S \cap Rows => mstatus'[a] = s /\ stale'[a] = FALSE
         /\ \A a \in Assets : a \notin S => mstatus'[a] = mstatus[a] /\ stale'[a] = stale[a]
<1>1. mstatus \in [Assets -> MediaStatus \cup {"ABSENT", "DELETED"}] /\ stale \in [Assets -> BOOLEAN]
  BY DEF RunsInv, PipelineTypeOK, LibraryTypeOK
<1>2. \A a \in Assets : mstatus[a] # "ABSENT" BY DEF RunsInv
<1>3. \A a \in Assets : /\ mstatus'[a] = IF a \in S \cap Rows THEN s ELSE mstatus[a]
                        /\ stale'[a] = (stale[a] /\ a \notin S)
  BY DEF Mark
<1>4. Rows' = Rows BY <1>3 DEF Rows, Present
<1>5. stale' \in [Assets -> BOOLEAN] BY <1>1 DEF Mark
<1>6. mstatus' \in [Assets -> MediaStatus \cup {"ABSENT", "DELETED"}] BY <1>1 DEF Mark
<1>7. "ABSENT" \notin MediaStatus BY DEF MediaStatus
<1>8. \A a \in Assets : a \in S \cap Rows => mstatus'[a] = s /\ stale'[a] = FALSE
  BY <1>1, <1>3
<1>9. \A a \in Assets : a \notin S => mstatus'[a] = mstatus[a] /\ stale'[a] = stale[a]
  BY <1>1, <1>3
<1>10. \A a \in Assets : mstatus'[a] # "ABSENT" BY <1>2, <1>3, <1>7
<1> QED BY <1>4, <1>5, <1>6, <1>8, <1>9, <1>10

LEMMA RunsInvFields ==
  ASSUME RunsInv
  PROVE  /\ mstatus \in [Assets -> MediaStatus \cup {"ABSENT", "DELETED"}]
         /\ \A a \in Assets : mstatus[a] # "ABSENT"
         /\ stale \in [Assets -> BOOLEAN] /\ link \in [Assets -> 0..Len(posts)]
         /\ posts \in Seq(Post) /\ Len(posts) \in Nat
         /\ crashes \in Nat /\ dbFailures \in Nat /\ ai \in Nat /\ quota \in 0..PostLimit
         /\ used \in 0..quota /\ timeouts \in Nat /\ started \in Nat
         /\ composed \in [Assets -> Nat]
<1>1. link \in [Assets -> 0..Len(posts)] BY DEF RunsInv, PipelineTypeOK, LibraryTypeOK
<1> QED BY <1>1 DEF RunsInv, PipelineTypeOK, LibraryTypeOK

LEMMA RunsInit == PipelineInit => RunsInv
<1> SUFFICES ASSUME PipelineInit PROVE RunsInv
  OBVIOUS
<1>1. url \in [Assets -> Urls \ BadUrls] BY DEF PipelineInit
<1>2. LibraryTypeOK
  <2>1. blobs = issued /\ offered = issued /\ issued \subseteq Urls
           /\ url \in [Assets -> issued \cup {NoUrl}]
    BY <1>1 DEF PipelineInit
  <2>2. /\ mstatus \in [Assets -> MediaStatus \cup {"ABSENT", "DELETED"}]
        /\ link \in [Assets -> Nat] /\ stale \in [Assets -> BOOLEAN]
        /\ from \in [Assets -> Files \cup {NoFile}]
        /\ synced = {} /\ contended = {} /\ ops = 0 /\ crashes = 0 /\ dbFailures = 0
    BY DEF PipelineInit, MediaStatus
  <2>3. req \in [Requests -> Request] BY NoRequestTyped DEF PipelineInit
  <2> QED BY <2>1, <2>2, <2>3 DEF LibraryTypeOK
<1>3. posts = <<>> /\ posts \in Seq(Post) /\ Len(posts) = 0 BY DEF PipelineInit
<1>4. \A r \in Runs : run[r] = NoRun BY DEF PipelineInit
<1>5. run \in [Runs -> Run] BY NoRunTyped DEF PipelineInit
<1>6. PipelineTypeOK
  BY <1>2, <1>3, <1>4, <1>5, PipelineAssumption DEF PipelineInit, PipelineTypeOK, NoRun
<1>7. \A u \in Requests : Asked(u)
  BY LibraryAssumption DEF PipelineInit, Asked, NoRequest
<1>8. \A a \in Assets : mstatus[a] # "ABSENT" BY DEF PipelineInit
<1> QED BY <1>4, <1>6, <1>7, <1>8, NoRunTyped DEF RunsInv

\* What a run is when it starts.
Fresh(q, k, S, l, t) ==
    /\ q.kind = k /\ q.media = S /\ q.pc = l /\ q.timer = t
    /\ q.post = 0 /\ q.auto = FALSE

LEMMA Launched ==
  ASSUME RunsInv, NEW r \in Runs, NEW k, NEW S, NEW l, NEW t, Launch(r, k, S, l, t),
         k \in {"auto", "compose", "draft"}, S \subseteq Assets,
         l \in {"claim", "reserve", "slot"}, t \in {"none", "armed"}
  PROVE  /\ OtherRuns(r) /\ run' \in [Runs -> Run] /\ run[r] = NoRun
         /\ Fresh(run'[r], k, S, l, t)
<1> DEFINE q == [NoRun EXCEPT !.kind = k, !.media = S, !.pc = l, !.timer = t]
<1>1. q \in Run /\ Fresh(q, k, S, l, t)
  <2>0. l \in RunSteps BY DEF RunSteps
  <2>1. NoRun \in Run /\ NoRun.post = 0 /\ NoRun.auto = FALSE
    BY NoRunTyped DEF NoRun
  <2> QED BY <2>0, <2>1 DEF Run, Fresh
<1>2. run \in [Runs -> Run] /\ run' = [run EXCEPT ![r] = q] /\ run[r].pc = "idle"
  BY DEF Launch, RunsInv, PipelineTypeOK
<1>3. run[r] = NoRun BY <1>2, RunFields DEF Placed
<1> HIDE DEF q
<1> QED BY <1>1, <1>2, <1>3 DEF OtherRuns

LEMMA LaunchTyped ==
  ASSUME RunsInv, NEW r \in Runs, NEW k, NEW S, NEW l, NEW t, Launch(r, k, S, l, t),
         OtherRuns(r), run' \in [Runs -> Run], Fresh(run'[r], k, S, l, t),
         k \in {"auto", "compose", "draft"}, S \subseteq Assets,
         l \in {"claim", "reserve", "slot"}, t \in {"none", "armed"},
         k = "auto" => l = "claim" /\ \E a \in Assets : S = {a},
         k = "auto" <=> t = "armed",
         l = "claim" => k = "auto", l = "reserve" => k # "draft",
         started' \in Nat, composed' \in [Assets -> Nat]
  PROVE  RunsInv'
<1>2. /\ run'[r].kind = k /\ run'[r].media = S /\ run'[r].pc = l /\ run'[r].timer = t
      /\ run'[r].post = 0 /\ run'[r].auto = FALSE
  BY DEF Fresh
<1>3. Placed(run'[r])
  <2>1. k = "auto" => l = "claim" /\ t = "armed" /\ \E a \in Assets : S = {a}
    OBVIOUS
  <2>2. k # "auto" => t = "none" /\ l \in {"reserve", "slot"}
    OBVIOUS
  <2>3. l = "reserve" => k # "draft"
    OBVIOUS
  <2>4. CASE k = "auto" BY <1>2, <2>1, <2>4 DEF Placed
  <2>5. CASE k # "auto" BY <1>2, <2>2, <2>3, <2>5 DEF Placed
  <2> QED BY <2>4, <2>5
<1>4. /\ mstatus' = mstatus /\ stale' = stale /\ link' = link /\ posts' = posts
      /\ crashes' = crashes /\ dbFailures' = dbFailures /\ ai' = ai /\ used' = used
      /\ timeouts' = timeouts /\ restVars' = restVars
  BY DEF Launch, rowVars, faultVars
<1>5. posts' \in Seq(Post) /\ Len(posts) <= Len(posts') /\ run'[r].post \in 0..Len(posts')
  BY <1>2, <1>4, RunsInvFields
<1> QED BY <1>2, <1>3, <1>4, <1>5, RunsInvFields, OneRun

\* A step that only moves a run and counts.
LEMMA StepTyped ==
  ASSUME RunsInv, NEW r \in Runs, OtherRuns(r), run' \in [Runs -> Run],
         Placed(run'[r]), run'[r].post \in 0..Len(posts),
         restVars' = restVars, posts' = posts, link' = link,
         \/ UNCHANGED <<mstatus, stale>>
         \/ \E S \in SUBSET Assets : \E s \in MediaStatus : Mark(S, s),
         crashes' \in Nat, dbFailures' \in Nat,
         ai' \in Nat, used' \in 0..quota, timeouts' \in Nat,
         UNCHANGED <<composed, started>>
  PROVE  RunsInv'
<1>1. /\ mstatus' \in [Assets -> MediaStatus \cup {"ABSENT", "DELETED"}]
      /\ \A a \in Assets : mstatus'[a] # "ABSENT"
      /\ stale' \in [Assets -> BOOLEAN]
  <2>1. CASE UNCHANGED <<mstatus, stale>> BY <2>1, RunsInvFields
  <2>2. ASSUME NEW S \in SUBSET Assets, NEW s \in MediaStatus, Mark(S, s)
        PROVE  /\ mstatus' \in [Assets -> MediaStatus \cup {"ABSENT", "DELETED"}]
               /\ \A a \in Assets : mstatus'[a] # "ABSENT"
               /\ stale' \in [Assets -> BOOLEAN]
    BY <2>2, Marked
  <2> QED BY <2>1, <2>2
<1>2. posts' \in Seq(Post) /\ Len(posts) <= Len(posts') /\ link' \in [Assets -> 0..Len(posts')]
  BY RunsInvFields
<1> QED BY <1>1, <1>2, RunsInvFields, OneRun

\* A run that goes on to another step keeps its place there.
LEMMA GoPlaced ==
  ASSUME RunsInv, NEW r \in Runs, NEW l \in RunSteps \ {"idle", "late"}, Go(r, l),
         run[r].pc # "idle",
         l \in {"claim", "refused", "credit", "downgrade"} => run[r].kind = "auto",
         l = "mark" => run[r].kind = "compose",
         l \in {"reserve", "generate", "release"} => run[r].kind # "draft",
         l \in {"credit", "downgrade", "link"} => run[r].post # 0
  PROVE  Placed(run'[r]) /\ run'[r].post \in 0..Len(posts)
<1>1. Placed(run[r]) /\ run[r].post \in 0..Len(posts) BY RunFields
<1>2. run'[r].pc = l /\ SameRun(run'[r], run[r]) BY Goes
<1> QED BY <1>1, <1>2 DEF Placed, SameRun

LEMMA EndPlaced ==
  ASSUME RunsInv, NEW r \in Runs, End(r)
  PROVE  Placed(run'[r]) /\ run'[r].post \in 0..Len(posts)
<1>1. Placed(run[r]) /\ run[r].post \in 0..Len(posts) /\ Len(posts) \in Nat
  BY RunFields, RunsInvFields
<1>2. CASE run'[r] = NoRun BY <1>1, <1>2, NoRunTyped DEF NoRun
<1>3. CASE run[r].timer = "fired" /\ run'[r].pc = "late" /\ SameRun(run'[r], run[r])
  BY <1>1, <1>3 DEF Placed, SameRun
<1> QED BY <1>2, <1>3, Ends

-----------------------------------------------------------------------------
(* The table of posts.                                                     *)

LEMMA PostMarked ==
  ASSUME posts \in Seq(Post), NEW p \in 1..Len(posts), NEW s \in PostStatus,
         posts' = [posts EXCEPT ![p].status = s]
  PROVE  /\ posts' \in Seq(Post) /\ Len(posts') = Len(posts)
         /\ DOMAIN posts' = DOMAIN posts /\ DOMAIN posts = 1..Len(posts)
         /\ \A q \in DOMAIN posts :
               /\ posts'[q].media = posts[q].media
               /\ posts'[q].status = IF q = p THEN s ELSE posts[q].status
<1>1. posts[p] \in Post BY ElementOfSeq
<1> DEFINE e == [posts[p] EXCEPT !.status = s]
<1>2. e \in Post /\ e.media = posts[p].media /\ e.status = s BY <1>1 DEF Post
<1>3. DOMAIN posts = 1..Len(posts) BY LenProperties
<1>4. posts' = [posts EXCEPT ![p] = e] BY <1>3
<1> HIDE DEF e
<1>5. /\ [posts EXCEPT ![p] = e] \in Seq(Post)
      /\ Len([posts EXCEPT ![p] = e]) = Len(posts)
      /\ \A j \in 1..Len(posts) : [posts EXCEPT ![p] = e][j] = IF j = p THEN e ELSE posts[j]
  BY <1>2, ExceptSeq
<1>6. DOMAIN posts' = 1..Len(posts) BY <1>4, <1>5, LenProperties
<1> QED BY <1>2, <1>3, <1>4, <1>5, <1>6

LEMMA PostAdded ==
  ASSUME posts \in Seq(Post), NEW e \in Post, posts' = Append(posts, e)
  PROVE  /\ posts' \in Seq(Post) /\ Len(posts') = Len(posts) + 1 /\ Len(posts) \in Nat
         /\ DOMAIN posts' = DOMAIN posts \cup {Len(posts) + 1}
         /\ Len(posts) + 1 \notin DOMAIN posts
         /\ posts'[Len(posts) + 1] = e /\ \A q \in DOMAIN posts : posts'[q] = posts[q]
<1>1. /\ posts' \in Seq(Post) /\ Len(posts') = Len(posts) + 1
      /\ \A i \in 1..Len(posts) : posts'[i] = posts[i]
      /\ posts'[Len(posts) + 1] = e
  BY AppendProperties
<1>2. /\ Len(posts) \in Nat /\ DOMAIN posts = 1..Len(posts)
      /\ DOMAIN posts' = 1..Len(posts')
  BY <1>1, LenProperties
<1> QED BY <1>1, <1>2

-----------------------------------------------------------------------------
(* How a run moves when it does more than go on or end.                    *)

Work(p, q) == p.kind = q.kind /\ p.media = q.media /\ p.post = q.post

LEMMA GenerateMoves ==
  ASSUME RunsInv, NEW r \in Runs, Generate(r)
  PROVE  /\ OtherRuns(r) /\ run' \in [Runs -> Run] /\ run[r].pc = "generate"
         /\ run'[r].pc \in {"slot", "release"} /\ Work(run'[r], run[r])
         /\ run'[r].timer = run[r].timer /\ (run'[r].auto => run[r].kind = "auto")
<1>0. /\ run[r] \in Run /\ run \in [Runs -> Run] /\ run[r].pc = "generate"
      /\ run[r].auto => run[r].kind = "auto"
  BY RunFields DEF RunsInv, PipelineTypeOK, Generate, OnRun, Placed
<1>1. CASE Go(r, "release")
  <2>1. "release" \in RunSteps BY DEF RunSteps
  <2>2. /\ OtherRuns(r) /\ run' \in [Runs -> Run]
        /\ run'[r].pc = "release" /\ SameRun(run'[r], run[r])
    BY <1>1, <2>1, Goes
  <2> QED BY <1>0, <2>2 DEF SameRun, Work
<1>2. ASSUME NEW auto \in {FALSE, run[r].kind = "auto"},
             run' = [run EXCEPT ![r].pc = "slot", ![r].auto = auto]
      PROVE  /\ OtherRuns(r) /\ run' \in [Runs -> Run]
             /\ run'[r].pc = "slot" /\ Work(run'[r], run[r])
             /\ run'[r].timer = run[r].timer /\ (run'[r].auto => run[r].kind = "auto")
  <2>1. OtherRuns(r) /\ run' \in [Runs -> Run]
    BY <1>0, <1>2 DEF OtherRuns, Run, RunSteps
  <2>2. /\ run'[r].pc = "slot" /\ run'[r].kind = run[r].kind
        /\ run'[r].media = run[r].media /\ run'[r].timer = run[r].timer
        /\ run'[r].post = run[r].post /\ (run'[r].auto => run[r].kind = "auto")
    BY <1>0, <1>2 DEF Run
  <2> QED BY <2>1, <2>2 DEF Work
<1> QED BY <1>0, <1>1, <1>2 DEF Generate

LEMMA SlotMoves ==
  ASSUME RunsInv, NEW r \in Runs, PickSlot(r)
  PROVE  /\ OtherRuns(r) /\ run' \in [Runs -> Run] /\ run[r].pc = "slot"
         /\ run'[r].pc = "create" /\ Work(run'[r], run[r])
         /\ run'[r].timer = run[r].timer /\ run'[r].auto = run[r].auto
<1>0. run[r] \in Run /\ run \in [Runs -> Run] /\ run[r].pc = "slot"
  BY RunFields DEF RunsInv, PipelineTypeOK, PickSlot, OnRun
<1>1. PICK s \in Slots \cup {0} : run' = [run EXCEPT ![r].pc = "create", ![r].slot = s]
  BY DEF PickSlot, FreeSlots
<1>2. OtherRuns(r) /\ run' \in [Runs -> Run]
  BY <1>0, <1>1 DEF OtherRuns, Run, RunSteps
<1>3. /\ run'[r].pc = "create" /\ run'[r].kind = run[r].kind
      /\ run'[r].media = run[r].media /\ run'[r].timer = run[r].timer
      /\ run'[r].post = run[r].post /\ run'[r].auto = run[r].auto
  BY <1>0, <1>1 DEF Run
<1> QED BY <1>0, <1>2, <1>3 DEF Work

\* A run makes its post of rows that are still there, unless it is a draft,
\* takes another slot, or fails.
NewPost(r, s) == [status |-> s, slot |-> run[r].slot, by |-> run[r].kind,
                  media |-> IF run[r].kind = "draft" THEN {} ELSE run[r].media]

LEMMA CreateMoves ==
  ASSUME RunsInv, NEW r \in Runs, CreatePost(r)
  PROVE  /\ OtherRuns(r) /\ run' \in [Runs -> Run] /\ run[r].pc = "create"
         /\ run'[r].kind = run[r].kind /\ run'[r].media = run[r].media
         /\ run'[r].timer = run[r].timer /\ run'[r].auto = run[r].auto
         /\ \/ /\ \E s \in StatusOf(r) :
                     NewPost(r, s) \in Post /\ posts' = Append(posts, NewPost(r, s))
               /\ run'[r].pc = (IF run[r].auto THEN "credit" ELSE "link")
               /\ run'[r].post = Len(posts) + 1
               /\ run[r].kind = "draft" \/ run[r].media \subseteq Rows
            \/ run'[r].pc = "slot" /\ run'[r].post = run[r].post /\ posts' = posts
            \/ run'[r].pc = "fail" /\ run'[r].post = run[r].post /\ posts' = posts
<1>0. /\ run[r] \in Run /\ run \in [Runs -> Run] /\ run[r].pc = "create"
      /\ run[r].kind \in {"auto", "compose", "draft"} /\ run[r].media \subseteq Assets
      /\ Len(posts) \in Nat
  BY RunFields, RunsInvFields DEF RunsInv, PipelineTypeOK, CreatePost, OnRun, Placed
<1>1. ASSUME NEW s \in StatusOf(r), posts' = Append(posts, NewPost(r, s)),
             run[r].kind = "draft" \/ run[r].media \subseteq Rows,
             run' = [run EXCEPT ![r].post = Len(posts) + 1,
                                ![r].pc = IF run[r].auto THEN "credit" ELSE "link"]
      PROVE  /\ OtherRuns(r) /\ run' \in [Runs -> Run]
             /\ run'[r].kind = run[r].kind /\ run'[r].media = run[r].media
             /\ run'[r].timer = run[r].timer /\ run'[r].auto = run[r].auto
             /\ run'[r].pc = (IF run[r].auto THEN "credit" ELSE "link")
             /\ run'[r].post = Len(posts) + 1
             /\ NewPost(r, s) \in Post
  <2>1. NewPost(r, s) \in Post
    <3>1. s \in PostStatus BY DEF StatusOf, PostStatus
    <3>2. run[r].slot \in Slots \cup {0} BY <1>0 DEF Run
    <3> QED BY <1>0, <3>1, <3>2 DEF Post, NewPost
  <2>2. OtherRuns(r) /\ run' \in [Runs -> Run]
    <3>1. Len(posts) + 1 \in Nat BY <1>0
    <3> QED BY <1>0, <1>1, <3>1 DEF OtherRuns, Run, RunSteps
  <2>3. /\ run'[r].kind = run[r].kind /\ run'[r].media = run[r].media
        /\ run'[r].timer = run[r].timer /\ run'[r].auto = run[r].auto
        /\ run'[r].pc = (IF run[r].auto THEN "credit" ELSE "link")
        /\ run'[r].post = Len(posts) + 1
    BY <1>0, <1>1 DEF Run
  <2> QED BY <2>1, <2>2, <2>3
<1>2. ASSUME run' = [run EXCEPT ![r].pc = "slot", ![r].tries = @ + 1],
             run[r].tries < MaxSlotRetries
      PROVE  /\ OtherRuns(r) /\ run' \in [Runs -> Run]
             /\ run'[r].kind = run[r].kind /\ run'[r].media = run[r].media
             /\ run'[r].timer = run[r].timer /\ run'[r].auto = run[r].auto
             /\ run'[r].pc = "slot" /\ run'[r].post = run[r].post
  <2>0. run[r].tries + 1 \in 1..MaxSlotRetries
    BY <1>0, <1>2, PipelineAssumption DEF Run
  <2>1. OtherRuns(r) /\ run' \in [Runs -> Run]
    BY <1>0, <1>2, <2>0 DEF OtherRuns, Run, RunSteps
  <2> QED BY <1>0, <1>2, <2>1 DEF Run
<1>3. ASSUME Go(r, "fail")
      PROVE  /\ OtherRuns(r) /\ run' \in [Runs -> Run]
             /\ run'[r].kind = run[r].kind /\ run'[r].media = run[r].media
             /\ run'[r].timer = run[r].timer /\ run'[r].auto = run[r].auto
             /\ run'[r].pc = "fail" /\ run'[r].post = run[r].post
  <2>1. "fail" \in RunSteps BY DEF RunSteps
  <2> QED BY <1>3, <2>1, Goes DEF SameRun
<1> QED BY <1>0, <1>1, <1>2, <1>3 DEF CreatePost, NewPost

LEMMA DowngradeMoves ==
  ASSUME RunsInv, NEW r \in Runs, Downgrade(r)
  PROVE  /\ OtherRuns(r) /\ run' \in [Runs -> Run]
         /\ run[r].pc = "downgrade" /\ run[r].kind = "auto" /\ run[r].post \in 1..Len(posts)
         /\ run'[r].pc = "link" /\ Work(run'[r], run[r])
         /\ run'[r].timer = run[r].timer /\ run'[r].auto = FALSE
<1>0. /\ run[r] \in Run /\ run \in [Runs -> Run] /\ run[r].pc = "downgrade"
      /\ run[r].kind = "auto" /\ run[r].post \in 1..Len(posts)
  <2>1. run[r] \in Run /\ Placed(run[r]) /\ run[r].post \in 0..Len(posts) /\ Len(posts) \in Nat
    BY RunFields, RunsInvFields
  <2>2. run[r].pc = "downgrade" /\ run \in [Runs -> Run]
    BY DEF Downgrade, OnRun, RunsInv, PipelineTypeOK
  <2>3. run[r].kind = "auto" /\ run[r].post # 0 BY <2>1, <2>2 DEF Placed
  <2> QED BY <2>1, <2>2, <2>3
<1>1. run' = [run EXCEPT ![r].pc = "link", ![r].auto = FALSE] BY DEF Downgrade
<1>2. OtherRuns(r) /\ run' \in [Runs -> Run] BY <1>0, <1>1 DEF OtherRuns, Run, RunSteps
<1>3. /\ run'[r].pc = "link" /\ run'[r].kind = run[r].kind
      /\ run'[r].media = run[r].media /\ run'[r].timer = run[r].timer
      /\ run'[r].post = run[r].post /\ run'[r].auto = FALSE
  BY <1>0, <1>1 DEF Run
<1> QED BY <1>0, <1>2, <1>3 DEF Work

\* The handler answers, and the run goes on or is gone.
LEMMA HandlerMoves ==
  ASSUME RunsInv, NEW r \in Runs, HandlerFails(r)
  PROVE  /\ OtherRuns(r) /\ run' \in [Runs -> Run]
         /\ run[r].timer = "fired" /\ run[r].kind = "auto" /\ run[r].pc # "idle"
         /\ \/ run[r].pc = "late" /\ run'[r] = NoRun
            \/ /\ run[r].pc # "late" /\ run'[r].pc = run[r].pc /\ Work(run'[r], run[r])
               /\ run'[r].timer = "written" /\ run'[r].auto = run[r].auto
<1>0. /\ run[r] \in Run /\ run \in [Runs -> Run] /\ run[r].timer = "fired"
      /\ run[r].kind = "auto" /\ run[r].pc # "idle"
  BY RunFields DEF RunsInv, PipelineTypeOK, HandlerFails, Placed
<1>1. CASE run[r].pc = "late"
  <2>1. run' = [run EXCEPT ![r] = NoRun] BY <1>0, <1>1 DEF HandlerFails
  <2> QED BY <1>0, <1>1, <2>1, NoRunTyped DEF OtherRuns
<1>2. CASE run[r].pc # "late"
  <2>1. run' = [run EXCEPT ![r] = [run[r] EXCEPT !.timer = "written"]]
    BY <1>0, <1>2 DEF HandlerFails
  <2>2. OtherRuns(r) /\ run' \in [Runs -> Run] BY <1>0, <2>1 DEF OtherRuns, Run
  <2>3. /\ run'[r].pc = run[r].pc /\ run'[r].kind = run[r].kind
        /\ run'[r].media = run[r].media /\ run'[r].timer = "written"
        /\ run'[r].post = run[r].post /\ run'[r].auto = run[r].auto
    BY <1>0, <2>1 DEF Run
  <2> QED BY <1>0, <1>2, <2>2, <2>3 DEF Work
<1> QED BY <1>1, <1>2

LEMMA TimerMoves ==
  ASSUME RunsInv, NEW r \in Runs, TimerFires(r)
  PROVE  /\ OtherRuns(r) /\ run' \in [Runs -> Run]
         /\ run[r].timer = "armed" /\ run[r].kind = "auto" /\ run[r].pc \notin {"idle", "late"}
         /\ run'[r].pc = run[r].pc /\ Work(run'[r], run[r])
         /\ run'[r].timer = "fired" /\ run'[r].auto = run[r].auto
<1>0. /\ run[r] \in Run /\ run \in [Runs -> Run] /\ run[r].timer = "armed"
      /\ run[r].kind = "auto" /\ run[r].pc \notin {"idle", "late"}
  BY RunFields DEF RunsInv, PipelineTypeOK, TimerFires, Placed
<1>1. run' = [run EXCEPT ![r].timer = "fired"] BY DEF TimerFires
<1>2. OtherRuns(r) /\ run' \in [Runs -> Run] BY <1>0, <1>1 DEF OtherRuns, Run
<1>3. /\ run'[r].pc = run[r].pc /\ run'[r].kind = run[r].kind
      /\ run'[r].media = run[r].media /\ run'[r].timer = "fired"
      /\ run'[r].post = run[r].post /\ run'[r].auto = run[r].auto
  BY <1>0, <1>1 DEF Run
<1> QED BY <1>0, <1>2, <1>3 DEF Work

\* The function is frozen or killed.
LEMMA Gone ==
  ASSUME RunsInv, NEW r \in Runs, run' = [run EXCEPT ![r] = NoRun]
  PROVE  OtherRuns(r) /\ run' \in [Runs -> Run] /\ run'[r] = NoRun
BY NoRunTyped DEF RunsInv, PipelineTypeOK, OtherRuns

LEMMA RunsStep ==
  ASSUME RunsInv, NEW r \in Runs,
         \/ Step(r) \/ TimerFires(r) \/ Freeze(r) \/ CrashRun(r) \/ StatementFails(r)
  PROVE  RunsInv'
<1> USE PipelineAssumption
<1>0. /\ Placed(run[r]) /\ run[r] \in Run /\ run[r].post \in 0..Len(posts)
      /\ run[r].media \subseteq Assets /\ run \in [Runs -> Run]
  BY RunFields DEF RunsInv, PipelineTypeOK
<1>1. CASE ClaimAsset(r)
  <2>1. run[r].kind = "auto" BY <1>0, <1>1 DEF ClaimAsset, OnRun, Placed
  <2>2. TheAsset(r) \in Assets /\ run[r].media = {TheAsset(r)}
    BY <1>0, <2>1 DEF Placed, TheAsset
  <2>3. \/ Go(r, "reserve") /\ Mark({TheAsset(r)}, "PROCESSING")
        \/ End(r) /\ UNCHANGED <<mstatus, stale>>
    BY <1>1 DEF ClaimAsset
  <2>4. OtherRuns(r) /\ run' \in [Runs -> Run] /\ Placed(run'[r]) /\ run'[r].post \in 0..Len(posts)
    <3>1. run[r].pc = "claim" BY <1>1 DEF ClaimAsset, OnRun
    <3>2. "reserve" \in RunSteps BY DEF RunSteps
    <3> QED BY <2>1, <2>3, <3>1, <3>2, Goes, Ends, GoPlaced, EndPlaced
  <2>5. UNCHANGED <<mstatus, stale>> \/ \E S \in SUBSET Assets : \E s \in MediaStatus : Mark(S, s)
    BY <2>2, <2>3 DEF MediaStatus
  <2> QED BY <1>1, <2>4, <2>5, RunsInvFields, StepTyped DEF ClaimAsset, faultVars
<1>2. CASE ReserveAi(r)
  <2>0. run[r].pc = "reserve" BY <1>2 DEF ReserveAi, OnRun
  <2>1. /\ \/ End(r)
           \/ Go(r, "mark") /\ run[r].kind = "compose"
           \/ Go(r, "generate") /\ run[r].kind # "compose"
           \/ Go(r, "refused") /\ run[r].kind # "compose"
        /\ ai' \in Nat
    BY <1>2, RunsInvFields DEF ReserveAi
  <2>2. run[r].kind \in {"compose", "auto"}
    BY <1>0, <2>0, RunFields DEF Placed
  <2>3. OtherRuns(r) /\ run' \in [Runs -> Run] /\ Placed(run'[r]) /\ run'[r].post \in 0..Len(posts)
    <3>1. {"mark", "generate", "refused"} \subseteq RunSteps BY DEF RunSteps
    <3> QED BY <2>0, <2>1, <2>2, <3>1, Goes, Ends, GoPlaced, EndPlaced
  <2> QED BY <1>2, <2>1, <2>3, RunsInvFields, StepTyped DEF ReserveAi, faultVars
<1>3. CASE Refuse(r)
  <2>1. End(r) /\ Mark(run[r].media, "FAILED") BY <1>3 DEF Refuse
  <2>2. OtherRuns(r) /\ run' \in [Runs -> Run] /\ Placed(run'[r]) /\ run'[r].post \in 0..Len(posts)
    BY <2>1, Ends, EndPlaced
  <2>3. \E S \in SUBSET Assets : \E s \in MediaStatus : Mark(S, s)
    BY <1>0, <2>1 DEF MediaStatus
  <2> QED BY <1>3, <2>2, <2>3, RunsInvFields, StepTyped DEF Refuse, faultVars
<1>4. CASE MarkComposed(r)
  <2>1. Go(r, "generate") /\ Mark(run[r].media, "PROCESSING") /\ run[r].pc = "mark"
    BY <1>4 DEF MarkComposed, OnRun
  <2>2. OtherRuns(r) /\ run' \in [Runs -> Run] /\ Placed(run'[r]) /\ run'[r].post \in 0..Len(posts)
    <3>1. "generate" \in RunSteps BY DEF RunSteps
    <3>2. run[r].kind = "compose" BY <1>0, <2>1 DEF Placed
    <3> QED BY <2>1, <3>1, <3>2, Goes, GoPlaced
  <2>3. \E S \in SUBSET Assets : \E s \in MediaStatus : Mark(S, s)
    BY <1>0, <2>1 DEF MediaStatus
  <2> QED BY <1>4, <2>2, <2>3, RunsInvFields, StepTyped DEF MarkComposed, faultVars
<1>5. CASE Generate(r)
  <2>1. /\ OtherRuns(r) /\ run' \in [Runs -> Run] /\ run[r].pc = "generate"
        /\ run'[r].pc \in {"slot", "release"} /\ Work(run'[r], run[r])
        /\ run'[r].timer = run[r].timer /\ (run'[r].auto => run[r].kind = "auto")
    BY <1>5, GenerateMoves
  <2>2. Placed(run'[r]) /\ run'[r].post \in 0..Len(posts) BY <1>0, <2>1 DEF Placed, Work
  <2> QED BY <1>5, <2>1, <2>2, RunsInvFields, StepTyped DEF Generate, faultVars
<1>6. CASE ReleaseAi(r)
  <2>1. Go(r, "fail") /\ run[r].pc = "release" BY <1>6 DEF ReleaseAi, OnRun
  <2>2. OtherRuns(r) /\ run' \in [Runs -> Run] /\ Placed(run'[r]) /\ run'[r].post \in 0..Len(posts)
    <3>1. "fail" \in RunSteps BY DEF RunSteps
    <3> QED BY <2>1, <3>1, Goes, GoPlaced
  <2>3. ai' \in Nat BY <1>6, RunsInvFields DEF ReleaseAi
  <2> QED BY <1>6, <2>2, <2>3, RunsInvFields, StepTyped DEF ReleaseAi, faultVars
<1>7. CASE PickSlot(r)
  <2>1. /\ OtherRuns(r) /\ run' \in [Runs -> Run] /\ run[r].pc = "slot"
        /\ run'[r].pc = "create" /\ Work(run'[r], run[r])
        /\ run'[r].timer = run[r].timer /\ run'[r].auto = run[r].auto
    BY <1>7, SlotMoves
  <2>2. Placed(run'[r]) /\ run'[r].post \in 0..Len(posts) BY <1>0, <2>1 DEF Placed, Work
  <2> QED BY <1>7, <2>1, <2>2, RunsInvFields, StepTyped DEF PickSlot, faultVars
<1>8. CASE CreatePost(r)
  <2>0. UNCHANGED <<mstatus, link, stale, restVars, faultVars, ai, used, composed,
                   timeouts, started>>
    BY <1>8 DEF CreatePost
  <2>1. /\ OtherRuns(r) /\ run' \in [Runs -> Run] /\ run[r].pc = "create"
        /\ run'[r].kind = run[r].kind /\ run'[r].media = run[r].media
        /\ run'[r].timer = run[r].timer /\ run'[r].auto = run[r].auto
    BY <1>8, CreateMoves
  <2>2. CASE run'[r].pc \in {"slot", "fail"} /\ run'[r].post = run[r].post /\ posts' = posts
    <3>1. Placed(run'[r]) /\ run'[r].post \in 0..Len(posts) BY <1>0, <2>1, <2>2 DEF Placed
    <3> QED BY <2>0, <2>1, <2>2, <3>1, RunsInvFields, StepTyped DEF faultVars
  <2>3. ASSUME NEW e \in Post, posts' = Append(posts, e),
               run'[r].pc = (IF run[r].auto THEN "credit" ELSE "link"),
               run'[r].post = Len(posts) + 1
        PROVE  RunsInv'
    <3>1. posts' \in Seq(Post) /\ Len(posts') = Len(posts) + 1 /\ Len(posts) <= Len(posts')
      BY <2>3, RunsInvFields, PostAdded
    <3>2. Placed(run'[r]) /\ run'[r].post \in 0..Len(posts')
      BY <1>0, <2>1, <2>3, <3>1, RunsInvFields DEF Placed
    <3>3. link' \in [Assets -> 0..Len(posts')] BY <2>0, <3>1, RunsInvFields
    <3> QED BY <2>0, <2>1, <3>1, <3>2, <3>3, RunsInvFields, OneRun DEF faultVars
  <2> QED BY <1>8, <2>2, <2>3, CreateMoves
<1>9. CASE ReserveCredit(r)
  <2>0. run[r].pc = "credit" /\ run[r].kind = "auto" /\ run[r].post # 0
    BY <1>0, <1>9 DEF ReserveCredit, OnRun, Placed
  <2>1. (Go(r, "link") \/ Go(r, "downgrade")) /\ used' \in 0..quota
    BY <1>9, RunsInvFields DEF ReserveCredit
  <2>2. OtherRuns(r) /\ run' \in [Runs -> Run] /\ Placed(run'[r]) /\ run'[r].post \in 0..Len(posts)
    <3>1. {"link", "downgrade"} \subseteq RunSteps BY DEF RunSteps
    <3> QED BY <2>0, <2>1, <3>1, Goes, GoPlaced
  <2> QED BY <1>9, <2>1, <2>2, RunsInvFields, StepTyped DEF ReserveCredit, faultVars
<1>10. CASE Downgrade(r)
  <2>1. /\ posts' = [posts EXCEPT ![run[r].post].status = "NEEDS_APPROVAL"]
        /\ UNCHANGED <<mstatus, link, stale, restVars, faultVars, ai, used, composed,
                   timeouts, started>>
    BY <1>10 DEF Downgrade
  <2>2. /\ OtherRuns(r) /\ run' \in [Runs -> Run]
        /\ run[r].pc = "downgrade" /\ run[r].kind = "auto" /\ run[r].post \in 1..Len(posts)
        /\ run'[r].pc = "link" /\ Work(run'[r], run[r])
        /\ run'[r].timer = run[r].timer /\ run'[r].auto = FALSE
    BY <1>10, DowngradeMoves
  <2>3. posts' \in Seq(Post) /\ Len(posts') = Len(posts) /\ Len(posts) <= Len(posts')
    <3>1. "NEEDS_APPROVAL" \in PostStatus BY DEF PostStatus
    <3>2. posts \in Seq(Post) /\ Len(posts) \in Nat BY RunsInvFields
    <3>3. posts' \in Seq(Post) /\ Len(posts') = Len(posts)
      BY <2>1, <2>2, <3>1, <3>2, PostMarked
    <3> QED BY <3>2, <3>3
  <2>4. Placed(run'[r]) /\ run'[r].post \in 0..Len(posts')
    BY <1>0, <2>2, <2>3 DEF Placed, Work
  <2> QED BY <2>1, <2>2, <2>3, <2>4, RunsInvFields, OneRun DEF faultVars
<1>11. CASE Link(r)
  <2>0. run[r].pc = "link" /\ run[r].post # 0 BY <1>0, <1>11 DEF Link, OnRun, Placed
  <2>1. /\ posts' = posts /\ restVars' = restVars
        /\ UNCHANGED <<faultVars, ai, used, composed, timeouts, started>>
    BY <1>11 DEF Link
  <2>2. ASSUME NEW s \in MediaStatus, Mark(run[r].media, s), End(r),
               link' = [a \in Assets |-> IF a \in run[r].media \cap Rows THEN run[r].post
                                                                     ELSE link[a]]
        PROVE  RunsInv'
    <3>1. OtherRuns(r) /\ run' \in [Runs -> Run] /\ Placed(run'[r]) /\ run'[r].post \in 0..Len(posts)
      BY <2>2, Ends, EndPlaced
    <3>2. link' \in [Assets -> 0..Len(posts')] BY <1>0, <2>1, <2>2, RunsInvFields
    <3>3. /\ mstatus' \in [Assets -> MediaStatus \cup {"ABSENT", "DELETED"}]
          /\ \A a \in Assets : mstatus'[a] # "ABSENT"
          /\ stale' \in [Assets -> BOOLEAN]
      BY <2>2, Marked
    <3>4. Len(posts) <= Len(posts') /\ posts' \in Seq(Post) /\ run'[r].post \in 0..Len(posts')
      BY <2>1, <3>1, RunsInvFields
    <3> QED BY <2>1, <3>1, <3>2, <3>3, <3>4, RunsInvFields, OneRun DEF faultVars
  <2>3. ASSUME Go(r, "fail"), UNCHANGED <<mstatus, stale, link>> PROVE RunsInv'
    <3>1. "fail" \in RunSteps BY DEF RunSteps
    <3>2. OtherRuns(r) /\ run' \in [Runs -> Run] /\ Placed(run'[r]) /\ run'[r].post \in 0..Len(posts)
      BY <2>0, <2>3, <3>1, Goes, GoPlaced
    <3> QED BY <2>1, <2>3, <3>2, RunsInvFields, StepTyped DEF faultVars
  <2> QED BY <1>11, <2>2, <2>3 DEF Link, MediaStatus
<1>12. CASE FailRun(r)
  <2>1. /\ End(r)
        /\ UNCHANGED <<mstatus, stale>> \/ \E s \in {"FAILED", "READY"} : Mark(run[r].media, s)
    BY <1>12 DEF FailRun
  <2>2. OtherRuns(r) /\ run' \in [Runs -> Run] /\ Placed(run'[r]) /\ run'[r].post \in 0..Len(posts)
    BY <2>1, Ends, EndPlaced
  <2>3. UNCHANGED <<mstatus, stale>> \/ \E S \in SUBSET Assets : \E s \in MediaStatus : Mark(S, s)
    BY <1>0, <2>1 DEF MediaStatus
  <2> QED BY <1>12, <2>2, <2>3, RunsInvFields, StepTyped DEF FailRun, faultVars
<1>13. CASE HandlerFails(r)
  <2>1. Mark(run[r].media, "FAILED") BY <1>13 DEF HandlerFails
  <2>2. OtherRuns(r) /\ run' \in [Runs -> Run] BY <1>13, HandlerMoves
  <2>3. Placed(run'[r]) /\ run'[r].post \in 0..Len(posts)
    <3>1. CASE run'[r] = NoRun
      <4>1. NoRun.post = 0 /\ Len(posts) \in Nat BY RunsInvFields DEF NoRun
      <4> QED BY <3>1, <4>1, NoRunTyped
    <3>2. CASE run'[r] # NoRun
      <4>1. /\ run[r].timer = "fired" /\ run[r].kind = "auto" /\ run[r].pc \notin {"idle", "late"}
            /\ run'[r].pc = run[r].pc /\ Work(run'[r], run[r])
            /\ run'[r].timer = "written" /\ run'[r].auto = run[r].auto
        BY <1>13, <3>2, HandlerMoves
      <4> QED BY <1>0, <4>1 DEF Placed, Work
    <3> QED BY <3>1, <3>2
  <2>4. \E S \in SUBSET Assets : \E s \in MediaStatus : Mark(S, s)
    BY <1>0, <2>1 DEF MediaStatus
  <2> QED BY <1>13, <2>2, <2>3, <2>4, RunsInvFields, StepTyped DEF HandlerFails, faultVars
<1>14. CASE TimerFires(r)
  <2>1. timeouts' \in Nat
    <3>1. timeouts' = timeouts + 1 BY <1>14 DEF TimerFires
    <3> QED BY <3>1, RunsInvFields
  <2>2. /\ OtherRuns(r) /\ run' \in [Runs -> Run]
        /\ run[r].timer = "armed" /\ run[r].kind = "auto" /\ run[r].pc \notin {"idle", "late"}
        /\ run'[r].pc = run[r].pc /\ Work(run'[r], run[r])
        /\ run'[r].timer = "fired" /\ run'[r].auto = run[r].auto
    BY <1>14, TimerMoves
  <2>3. Placed(run'[r]) /\ run'[r].post \in 0..Len(posts) BY <1>0, <2>2 DEF Placed, Work
  <2> QED BY <1>14, <2>1, <2>2, <2>3, RunsInvFields, StepTyped
      DEF TimerFires, rowVars, faultVars
<1>15. CASE Freeze(r) \/ CrashRun(r)
  <2>1. run' = [run EXCEPT ![r] = NoRun] /\ crashes' \in Nat
    BY <1>15, RunsInvFields DEF Freeze, CrashRun, faultVars
  <2>2. OtherRuns(r) /\ run' \in [Runs -> Run] /\ Placed(run'[r]) /\ run'[r].post \in 0..Len(posts)
    <3>1. NoRun.post = 0 /\ Len(posts) \in Nat BY RunsInvFields DEF NoRun
    <3>2. OtherRuns(r) /\ run' \in [Runs -> Run] /\ run'[r] = NoRun BY <2>1, Gone
    <3> QED BY <3>1, <3>2, NoRunTyped
  <2> QED BY <1>15, <2>1, <2>2, RunsInvFields, StepTyped
      DEF Freeze, CrashRun, rowVars, faultVars
<1>16. CASE StatementFails(r)
  <2>1. \/ Go(r, "downgrade") /\ run[r].pc = "credit"
        \/ End(r)
        \/ Go(r, "fail") /\ run[r].pc # "idle"
    BY <1>16 DEF StatementFails, OnRun
  <2>2. OtherRuns(r) /\ run' \in [Runs -> Run] /\ Placed(run'[r]) /\ run'[r].post \in 0..Len(posts)
    <3>1. {"fail", "downgrade"} \subseteq RunSteps BY DEF RunSteps
    <3>2. run[r].pc = "credit" => run[r].kind = "auto" /\ run[r].post # 0 BY <1>0 DEF Placed
    <3> QED BY <2>1, <3>1, <3>2, Goes, Ends, GoPlaced, EndPlaced
  <2>3. dbFailures' \in Nat /\ crashes' = crashes BY <1>16, RunsInvFields DEF StatementFails
  <2> QED BY <1>16, <2>2, <2>3, RunsInvFields, StepTyped DEF StatementFails, rowVars
<1> QED BY <1>1, <1>2, <1>3, <1>4, <1>5, <1>6, <1>7, <1>8, <1>9, <1>10, <1>11, <1>12,
           <1>13, <1>14, <1>15, <1>16 DEF Step

\* What a request may do to the rows a pipeline is about: nothing but delete one.
LEMMA LibraryStep ==
  ASSUME RunsInv, LibraryNext
  PROVE  /\ posts' = posts /\ link' = link /\ stale' = stale
         /\ Rows' \subseteq Rows /\ \A a \in Rows' : mstatus'[a] = mstatus[a]
         /\ \A a \in Assets : mstatus'[a] # "ABSENT"
         /\ crashes' \in Nat /\ crashes <= crashes'
         /\ dbFailures' \in Nat /\ dbFailures <= dbFailures'
<1>0. /\ \A a \in Assets : mstatus[a] # "ABSENT"
      /\ crashes \in Nat /\ dbFailures \in Nat
      /\ mstatus \in [Assets -> MediaStatus \cup {"ABSENT", "DELETED"}]
  BY RunsInvFields
<1>1. PICK u \in Requests :
        \/ Upload(u) \/ StoreUpload(u) \/ CreateRow(u) \/ Token(u) \/ Transfer(u)
        \/ \E l \in Urls : Register(u, l)
        \/ Verify(u) \/ CheckLimit(u)
        \/ \E a \in Assets : Delete(u, a)
        \/ EraseBytes(u) \/ DropRow(u)
        \/ \E f \in Files : Sync(u, f)
        \/ FetchFile(u) \/ LogSync(u)
        \/ CrashRequest(u)
  BY DEF LibraryNext
<1>2. posts' = posts /\ link' = link /\ stale' = stale
  BY <1>1 DEF Upload, StoreUpload, CreateRow, Token, Transfer, Register, Verify, CheckLimit,
              Delete, EraseBytes, DropRow, Sync, FetchFile, LogSync, CrashRequest, PutBlob, rowVars
<1>3. mstatus' = mstatus \/ mstatus' = [mstatus EXCEPT ![req[u].asset] = "DELETED"]
  BY <1>0, <1>1 DEF Upload, StoreUpload, CreateRow, Token, Transfer, Register, Verify, CheckLimit,
              Delete, EraseBytes, DropRow, Sync, FetchFile, LogSync, CrashRequest, PutBlob, rowVars
<1>4. /\ Rows' \subseteq Rows /\ \A a \in Rows' : mstatus'[a] = mstatus[a]
      /\ \A a \in Assets : mstatus'[a] # "ABSENT"
  BY <1>0, <1>3 DEF Rows, Present, MediaStatus
<1>5. /\ crashes' = crashes \/ crashes' = crashes + 1
      /\ dbFailures' = dbFailures \/ dbFailures' = dbFailures + 1
  BY <1>1 DEF Upload, StoreUpload, CreateRow, Token, Transfer, Register, Verify, CheckLimit,
              Delete, EraseBytes, DropRow, Sync, FetchFile, LogSync, CrashRequest, PutBlob, faultVars
<1> QED BY <1>0, <1>2, <1>4, <1>5

LEMMA RunsNext == RunsInv /\ PipelineNext => RunsInv'
<1> SUFFICES ASSUME RunsInv, PipelineNext PROVE RunsInv'
  OBVIOUS
<1> USE LibraryAssumption, PipelineAssumption
<1>1. CASE LibraryNext /\ UNCHANGED pipelineVars
  <2>1. TypedInv BY DEF RunsInv, PipelineTypeOK, TypedInv
  <2>2. TypedInv' BY <1>1, <2>1, TypedNext
  <2>3. LibraryTypeOK' /\ \A u \in Requests : Asked(u)' BY <2>2 DEF TypedInv
  <2>4. posts' = posts /\ link' = link /\ \A a \in Assets : mstatus'[a] # "ABSENT"
    BY <1>1, LibraryStep
  <2>5. PipelineTypeOK'
    BY <1>1, <2>3, <2>4 DEF RunsInv, PipelineTypeOK, pipelineVars
  <2>6. \A r \in Runs : Placed(run[r])' BY <1>1 DEF RunsInv, pipelineVars, Placed
  <2> QED BY <2>3, <2>4, <2>5, <2>6 DEF RunsInv
<1>2. ASSUME NEW r \in Runs, NEW a \in Assets, Recover(r, a) \/ Process(r, a) PROVE RunsInv'
  <2>1. /\ Launch(r, "auto", {a}, "claim", "armed")
        /\ started' = started \/ started' = started + 1
        /\ composed' = composed
    BY <1>2 DEF Recover, Process
  <2>2. started' \in Nat /\ composed' \in [Assets -> Nat] BY <2>1, RunsInvFields
  <2>3. OtherRuns(r) /\ run' \in [Runs -> Run] /\ Fresh(run'[r], "auto", {a}, "claim", "armed")
    BY <2>1, Launched
  <2> QED BY <2>1, <2>2, <2>3, LaunchTyped
<1>3. ASSUME NEW r \in Runs, NEW S \in SUBSET Assets, Compose(r, S) PROVE RunsInv'
  <2>1. Launch(r, "compose", S, "reserve", "none") /\ started' = started + 1
    BY <1>3 DEF Compose
  <2>3. started' \in Nat BY <2>1, RunsInvFields
  <2>2. composed' \in [Assets -> Nat]
    <3>1. \A a \in Assets : composed[a] + (IF a \in S THEN 1 ELSE 0) \in Nat
      BY RunsInvFields
    <3> QED BY <1>3, <3>1 DEF Compose
  <2>4. OtherRuns(r) /\ run' \in [Runs -> Run] /\ Fresh(run'[r], "compose", S, "reserve", "none")
    BY <2>1, Launched
  <2> QED BY <2>1, <2>2, <2>3, <2>4, LaunchTyped
<1>4. ASSUME NEW r \in Runs, NEW S \in SUBSET Assets, Draft(r, S) PROVE RunsInv'
  <2>1. /\ Launch(r, "draft", S, "slot", "none")
        /\ started' = started + 1 /\ composed' = composed
    BY <1>4 DEF Draft
  <2>2. started' \in Nat /\ composed' \in [Assets -> Nat] BY <2>1, RunsInvFields
  <2>3. OtherRuns(r) /\ run' \in [Runs -> Run] /\ Fresh(run'[r], "draft", S, "slot", "none")
    BY <2>1, Launched
  <2> QED BY <2>1, <2>2, <2>3, LaunchTyped
<1>5. ASSUME NEW a \in Assets, Age(a) PROVE RunsInv'
  <2>1. stale' \in [Assets -> BOOLEAN] BY <1>5, RunsInvFields DEF Age
  <2> QED BY <1>5, <2>1
          DEF Age, RunsInv, PipelineTypeOK, LibraryTypeOK, Asked, storeVars, faultVars,
              pipelineVars
<1>6. ASSUME NEW p \in DOMAIN posts, NEW s \in PostStatus,
             posts' = [posts EXCEPT ![p].status = s],
             UNCHANGED <<url, link, from, storeVars, req, contended, ops, faultVars, pipelineVars>>,
             UNCHANGED <<mstatus, stale>> \/ \E S : Mark(S, "FAILED")
      PROVE  RunsInv'
  <2>1. posts' \in Seq(Post) /\ Len(posts') = Len(posts)
    BY <1>6, RunsInvFields, PostMarked, LenProperties
  <2>2. /\ mstatus' \in [Assets -> MediaStatus \cup {"ABSENT", "DELETED"}]
        /\ \A a \in Assets : mstatus'[a] # "ABSENT"
        /\ stale' \in [Assets -> BOOLEAN]
    <3>1. CASE UNCHANGED <<mstatus, stale>> BY <3>1, RunsInvFields
    <3>2. "FAILED" \in MediaStatus BY DEF MediaStatus
    <3> QED BY <1>6, <3>1, <3>2, Marked
  <2>3. LibraryTypeOK'
    BY <1>6, <2>2 DEF RunsInv, PipelineTypeOK, LibraryTypeOK, storeVars, faultVars
  <2>4. \A u \in Requests : Asked(u)' BY <1>6 DEF RunsInv, Asked, storeVars
  <2>5. PipelineTypeOK'
    BY <1>6, <2>1, <2>3 DEF RunsInv, PipelineTypeOK, pipelineVars
  <2>6. \A r \in Runs : Placed(run[r])' BY <1>6 DEF RunsInv, pipelineVars, Placed
  <2> QED BY <2>2, <2>4, <2>5, <2>6 DEF RunsInv
<1>7. ASSUME NEW p \in DOMAIN posts, ResolvePost(p) PROVE RunsInv'
  <2>1. "RESOLVED" \in PostStatus BY DEF PostStatus
  <2> QED BY <1>6, <1>7, <2>1 DEF ResolvePost, rowVars
<1>8. ASSUME NEW p \in DOMAIN posts, RejectPost(p) PROVE RunsInv'
  <2>1. "REJECTED" \in PostStatus BY DEF PostStatus
  <2> QED BY <1>6, <1>8, <2>1 DEF RejectPost
<1> QED BY <1>1, <1>2, <1>3, <1>4, <1>5, <1>7, <1>8, RunsStep, SelectionsAssumption
        DEF PipelineNext

LEMMA RunsStutter == RunsInv /\ UNCHANGED mediaVars => RunsInv'
BY DEF RunsInv, PipelineTypeOK, LibraryTypeOK, Asked, mediaVars, libraryVars, pipelineVars

\* Links name rows of the Post table, and so does the post of every run that has
\* created one.
THEOREM PipelineTyped == PipelineSpec => []PipelineTypeOK
<1>1. RunsInv /\ [PipelineNext]_mediaVars => RunsInv'
  BY RunsNext, RunsStutter
<1>2. RunsInv => PipelineTypeOK BY DEF RunsInv
<1> QED BY <1>1, <1>2, RunsInit, PTL DEF PipelineSpec

-----------------------------------------------------------------------------
(* Counting runs.                                                          *)

\* Two sets that differ in r at the most differ by one at the most.
LEMMA CountStep ==
  ASSUME NEW F, IsFiniteSet(F), NEW r, NEW S \in SUBSET F, NEW T \in SUBSET F,
         S \ {r} = T \ {r}
  PROVE  /\ Cardinality(S) \in Nat /\ Cardinality(T) \in Nat
         /\ (r \in S <=> r \in T)   => Cardinality(T) = Cardinality(S)
         /\ r \in S /\ r \notin T   => Cardinality(T) + 1 = Cardinality(S)
         /\ r \notin S /\ r \in T   => Cardinality(T) = Cardinality(S) + 1
<1>1. ASSUME NEW U \in SUBSET F
      PROVE  /\ Cardinality(U) \in Nat /\ Cardinality(U \ {r}) \in Nat
             /\ r \in U => Cardinality(U) = Cardinality(U \ {r}) + 1
             /\ r \notin U => Cardinality(U) = Cardinality(U \ {r})
  <2>1. IsFiniteSet(U) /\ Cardinality(U) \in Nat BY FewerCount
  <2>2. CASE r \in U
    <3>1. IsFiniteSet(U \ {r}) /\ Cardinality(U \ {r}) = Cardinality(U) - 1
      BY <2>1, <2>2, FS_RemoveElement
    <3>2. Cardinality(U \ {r}) \in Nat BY <3>1, FS_CardinalityType
    <3> QED BY <2>1, <2>2, <3>1, <3>2
  <2>3. CASE r \notin U
    <3>1. U \ {r} = U BY <2>3
    <3> QED BY <2>1, <2>3, <3>1
  <2> QED BY <2>2, <2>3
<1>2. /\ Cardinality(S) \in Nat /\ Cardinality(S \ {r}) \in Nat
      /\ r \in S => Cardinality(S) = Cardinality(S \ {r}) + 1
      /\ r \notin S => Cardinality(S) = Cardinality(S \ {r})
  BY <1>1
<1>3. /\ Cardinality(T) \in Nat
      /\ r \in T => Cardinality(T) = Cardinality(T \ {r}) + 1
      /\ r \notin T => Cardinality(T) = Cardinality(T \ {r})
  BY <1>1
<1> QED BY <1>2, <1>3

\* The posts are finitely many.
LEMMA PostCounts ==
  ASSUME posts \in Seq(Post)
  PROVE  /\ IsFiniteSet(DOMAIN posts) /\ DOMAIN posts = 1..Len(posts)
         /\ \A S \in SUBSET DOMAIN posts : IsFiniteSet(S) /\ Cardinality(S) \in Nat
<1>1. Len(posts) \in Nat /\ DOMAIN posts = 1..Len(posts) BY LenProperties
<1>2. IsFiniteSet(1..Len(posts)) BY <1>1, FS_Interval
<1> QED BY <1>1, <1>2, FewerCount

\* How a run moves: on, to its end, or away.
LEMMA EndsIdle ==
  ASSUME RunsInv, NEW r \in Runs, End(r) \/ run' = [run EXCEPT ![r] = NoRun]
  PROVE  OtherRuns(r) /\ run' \in [Runs -> Run] /\ run'[r].pc \in {"idle", "late"}
<1>1. CASE End(r)
  <2>1. CASE run'[r] = NoRun BY <1>1, <2>1, Ends DEF NoRun
  <2>2. CASE run'[r] # NoRun BY <1>1, <2>2, Ends
  <2> QED BY <2>1, <2>2
<1>2. CASE run' = [run EXCEPT ![r] = NoRun]
  <2>1. OtherRuns(r) /\ run' \in [Runs -> Run] /\ run'[r] = NoRun BY <1>2, Gone
  <2> QED BY <2>1 DEF NoRun
<1> QED BY <1>1, <1>2

-----------------------------------------------------------------------------
(* AI credits.                                                             *)

\* A run has paid for the caption that it has not made a post of yet.
Paying(q) == /\ q.kind # "draft"
             /\ q.pc \in {"mark", "generate", "release", "slot", "create"}
PaidRuns  == {r \in Runs : Paying(run[r])}
MadePosts == {p \in DOMAIN posts : posts[p].media # {}}

GenInv == Cardinality(MadePosts) + Cardinality(PaidRuns) <= ai /\ ai <= AiLimit

LEMMA PaidStep ==
  ASSUME NEW r \in Runs, OtherRuns(r)
  PROVE  /\ Cardinality(PaidRuns) \in Nat /\ Cardinality(PaidRuns') \in Nat
         /\ (Paying(run[r]) <=> Paying(run'[r])) => Cardinality(PaidRuns') = Cardinality(PaidRuns)
         /\ Paying(run[r]) /\ ~Paying(run'[r]) => Cardinality(PaidRuns') + 1 = Cardinality(PaidRuns)
         /\ ~Paying(run[r]) /\ Paying(run'[r]) => Cardinality(PaidRuns') = Cardinality(PaidRuns) + 1
<1>1. /\ PaidRuns \in SUBSET Runs /\ PaidRuns' \in SUBSET Runs
      /\ PaidRuns \ {r} = PaidRuns' \ {r}
      /\ r \in PaidRuns <=> Paying(run[r])
      /\ r \in PaidRuns' <=> Paying(run'[r])
  BY DEF PaidRuns, OtherRuns, Paying
<1>2. IsFiniteSet(Runs) BY PipelineAssumption
<1> QED BY <1>1, <1>2, CountStep

\* Most steps make no post and leave the counter alone.
LEMMA GenKept ==
  ASSUME RunsInv, GenInv, NEW r \in Runs, OtherRuns(r), ai' = ai, MadePosts' = MadePosts,
         Paying(run'[r]) => Paying(run[r])
  PROVE  GenInv'
<1>1. Cardinality(MadePosts) \in Nat /\ ai \in Nat
  BY RunsInvFields, PostCounts DEF MadePosts
<1> QED BY <1>1, PaidStep, PipelineAssumption DEF GenInv

LEMMA GenInit == PipelineInit => GenInv
<1> SUFFICES ASSUME PipelineInit PROVE GenInv
  OBVIOUS
<1>1. MadePosts = {} BY DEF PipelineInit, MadePosts
<1>2. PaidRuns = {} BY DEF PipelineInit, PaidRuns, Paying, NoRun
<1> QED BY <1>1, <1>2, FS_EmptySet, PipelineAssumption DEF PipelineInit, GenInv

LEMMA GenStep ==
  ASSUME RunsInv, GenInv, NEW r \in Runs,
         \/ Step(r) \/ TimerFires(r) \/ Freeze(r) \/ CrashRun(r) \/ StatementFails(r)
  PROVE  GenInv'
<1>0. Cardinality(MadePosts) \in Nat /\ ai \in Nat /\ AiLimit \in Nat /\ posts \in Seq(Post)
  BY RunsInvFields, PostCounts, PipelineAssumption DEF MadePosts
<1>1. ASSUME End(r) \/ run' = [run EXCEPT ![r] = NoRun], posts' = posts, ai' = ai
      PROVE  GenInv'
  <2>1. MadePosts' = MadePosts BY <1>1 DEF MadePosts
  <2>2. OtherRuns(r) /\ ~Paying(run'[r]) BY <1>1, EndsIdle DEF Paying
  <2> QED BY <1>1, <2>1, <2>2, GenKept
<1>2. ASSUME NEW l \in RunSteps, Go(r, l), posts' = posts, ai' = ai,
             l \in {"mark", "generate", "release", "slot", "create"} => Paying(run[r])
      PROVE  GenInv'
  <2>1. MadePosts' = MadePosts BY <1>2 DEF MadePosts
  <2>2. OtherRuns(r) /\ run'[r].pc = l BY <1>2, Goes
  <2>3. Paying(run'[r]) => Paying(run[r]) BY <1>2, <2>2 DEF Paying
  <2> QED BY <1>2, <2>1, <2>2, <2>3, GenKept
<1>3. ASSUME OtherRuns(r), posts' = posts, ai' = ai, run'[r].kind = run[r].kind,
             Paying(run'[r]) => Paying(run[r])
      PROVE  GenInv'
  <2>1. MadePosts' = MadePosts BY <1>3 DEF MadePosts
  <2> QED BY <1>3, <2>1, GenKept
<1>4. {"reserve", "refused", "mark", "generate", "fail", "link", "downgrade"} \subseteq RunSteps
  BY DEF RunSteps
<1>5. CASE ClaimAsset(r) BY <1>1, <1>2, <1>4, <1>5 DEF ClaimAsset
<1>6. CASE ReserveAi(r)
  <2>0. run[r].pc = "reserve" /\ posts' = posts BY <1>6 DEF ReserveAi, OnRun
  <2>1. CASE ai' = ai /\ (End(r) \/ Go(r, "refused")) BY <1>1, <1>2, <1>4, <2>0, <2>1
  <2>2. CASE /\ ai < AiLimit /\ ai' = ai + 1
             /\ Go(r, "mark") \/ Go(r, "generate")
    <3>1. OtherRuns(r) BY <1>4, <2>2, Goes
    <3>2. MadePosts' = MadePosts BY <2>0 DEF MadePosts
    <3>3. ~Paying(run[r]) BY <2>0 DEF Paying
    <3>4. /\ Cardinality(PaidRuns) \in Nat /\ Cardinality(PaidRuns') \in Nat
          /\ Cardinality(PaidRuns') <= Cardinality(PaidRuns) + 1
      BY <3>1, <3>3, PaidStep
    <3> QED BY <1>0, <2>2, <3>2, <3>4 DEF GenInv
  <2> QED BY <1>6, <2>1, <2>2 DEF ReserveAi
<1>7. CASE Refuse(r) BY <1>1, <1>7 DEF Refuse
<1>8. CASE MarkComposed(r)
  <2>1. Paying(run[r]) BY <1>8, RunFields DEF MarkComposed, OnRun, Placed, Paying
  <2> QED BY <1>2, <1>4, <1>8, <2>1 DEF MarkComposed
<1>9. CASE Generate(r)
  <2>1. Placed(run[r]) /\ OtherRuns(r) /\ run[r].pc = "generate" /\ run'[r].kind = run[r].kind
    BY <1>9, RunFields, GenerateMoves DEF Work
  <2>2. Paying(run[r]) BY <2>1 DEF Paying, Placed
  <2> QED BY <1>3, <1>9, <2>1, <2>2 DEF Generate
<1>10. CASE ReleaseAi(r)
  <2>0. /\ run[r].pc = "release" /\ posts' = posts /\ Go(r, "fail")
        /\ ai > 0 => ai' = ai - 1
    BY <1>10 DEF ReleaseAi, OnRun
  <2>1. OtherRuns(r) /\ run'[r].pc = "fail" BY <1>4, <2>0, Goes
  <2>2. Paying(run[r]) /\ ~Paying(run'[r]) BY <2>0, <2>1, RunFields DEF Paying, Placed
  <2>3. Cardinality(PaidRuns') + 1 = Cardinality(PaidRuns)
        /\ Cardinality(PaidRuns) \in Nat /\ Cardinality(PaidRuns') \in Nat
    BY <2>1, <2>2, PaidStep
  <2>4. MadePosts' = MadePosts BY <2>0 DEF MadePosts
  <2> QED BY <1>0, <2>0, <2>3, <2>4 DEF GenInv
<1>11. CASE PickSlot(r)
  <2>1. OtherRuns(r) /\ run[r].pc = "slot" /\ run'[r].kind = run[r].kind
    BY <1>11, SlotMoves DEF Work
  <2>2. Paying(run'[r]) => Paying(run[r]) BY <2>1 DEF Paying
  <2> QED BY <1>3, <1>11, <2>1, <2>2 DEF PickSlot
<1>12. CASE CreatePost(r)
  <2>1. /\ OtherRuns(r) /\ run[r].pc = "create" /\ run'[r].kind = run[r].kind
        /\ ai' = ai
    BY <1>12, CreateMoves DEF CreatePost
  <2>2. Paying(run'[r]) => Paying(run[r]) BY <2>1 DEF Paying
  <2>3. CASE posts' = posts BY <1>3, <2>1, <2>2, <2>3
  <2>4. ASSUME NEW s \in StatusOf(r), NewPost(r, s) \in Post,
               posts' = Append(posts, NewPost(r, s)),
               run'[r].pc = (IF run[r].auto THEN "credit" ELSE "link")
        PROVE  GenInv'
    <3> DEFINE n == Len(posts) + 1
    <3>1. /\ DOMAIN posts' = DOMAIN posts \cup {n} /\ n \notin DOMAIN posts
          /\ posts'[n] = NewPost(r, s) /\ \A q \in DOMAIN posts : posts'[q] = posts[q]
      BY <1>0, <2>4, PostAdded
    <3> HIDE DEF n
    <3>2. ~Paying(run'[r]) BY <2>4 DEF Paying
    <3>3. CASE run[r].kind = "draft"
      <4>1. NewPost(r, s).media = {} BY <3>3 DEF NewPost
      <4>2. MadePosts' = MadePosts BY <3>1, <4>1 DEF MadePosts
      <4> QED BY <2>1, <2>2, <4>2, GenKept
    <3>4. CASE run[r].kind # "draft"
      <4>1. Paying(run[r]) BY <2>1, <3>4 DEF Paying
      <4>2. Cardinality(PaidRuns') + 1 = Cardinality(PaidRuns)
            /\ Cardinality(PaidRuns) \in Nat /\ Cardinality(PaidRuns') \in Nat
        BY <2>1, <3>2, <4>1, PaidStep
      <4>3. MadePosts' \subseteq MadePosts \cup {n} BY <3>1 DEF MadePosts
      <4>4. IsFiniteSet(MadePosts) BY <1>0, PostCounts DEF MadePosts
      <4>5. Cardinality(MadePosts') \in Nat
            /\ Cardinality(MadePosts') <= Cardinality(MadePosts) + 1
        BY <4>3, <4>4, OneMore
      <4> QED BY <1>0, <2>1, <4>2, <4>5 DEF GenInv
    <3> QED BY <3>3, <3>4
  <2> QED BY <1>12, <2>3, <2>4, CreateMoves
<1>13. CASE ReserveCredit(r) BY <1>2, <1>4, <1>13 DEF ReserveCredit
<1>14. CASE Downgrade(r)
  <2>1. OtherRuns(r) /\ run'[r].pc = "link" /\ run[r].post \in 1..Len(posts)
    BY <1>14, DowngradeMoves
  <2>2. "NEEDS_APPROVAL" \in PostStatus BY DEF PostStatus
  <2>3. posts' = [posts EXCEPT ![run[r].post].status = "NEEDS_APPROVAL"] /\ ai' = ai
    BY <1>14 DEF Downgrade
  <2>4. /\ DOMAIN posts' = DOMAIN posts
        /\ \A q \in DOMAIN posts : posts'[q].media = posts[q].media
    BY <1>0, <2>1, <2>2, <2>3, PostMarked
  <2>5. MadePosts' = MadePosts BY <2>4 DEF MadePosts
  <2>6. ~Paying(run'[r]) BY <2>1 DEF Paying
  <2> QED BY <2>1, <2>3, <2>5, <2>6, GenKept
<1>15. CASE Link(r) BY <1>1, <1>2, <1>4, <1>15 DEF Link
<1>16. CASE FailRun(r) BY <1>1, <1>16 DEF FailRun
<1>17. CASE HandlerFails(r) \/ TimerFires(r)
  <2>1. posts' = posts /\ ai' = ai BY <1>17 DEF HandlerFails, TimerFires
  <2>2. OtherRuns(r) /\ (Paying(run'[r]) => Paying(run[r]))
    <3>1. CASE run'[r] = NoRun /\ OtherRuns(r) BY <3>1 DEF Paying, NoRun
    <3>2. CASE OtherRuns(r) /\ run'[r].pc = run[r].pc /\ Work(run'[r], run[r])
      BY <3>2 DEF Paying, Work
    <3> QED BY <1>17, <3>1, <3>2, HandlerMoves, TimerMoves
  <2>3. MadePosts' = MadePosts BY <2>1 DEF MadePosts
  <2> QED BY <2>1, <2>2, <2>3, GenKept
<1>18. CASE Freeze(r) \/ CrashRun(r) BY <1>1, <1>18 DEF Freeze, CrashRun
<1>19. CASE StatementFails(r) BY <1>1, <1>2, <1>4, <1>19 DEF StatementFails
<1> QED BY <1>5, <1>6, <1>7, <1>8, <1>9, <1>10, <1>11, <1>12, <1>13, <1>14, <1>15, <1>16,
           <1>17, <1>18, <1>19 DEF Step

LEMMA GenNext == RunsInv /\ GenInv /\ PipelineNext => GenInv'
<1> SUFFICES ASSUME RunsInv, GenInv, PipelineNext PROVE GenInv'
  OBVIOUS
<1>0. posts \in Seq(Post) BY RunsInvFields
<1>1. ASSUME MadePosts' = MadePosts, run' = run, ai' = ai PROVE GenInv'
  BY <1>1 DEF GenInv, PaidRuns
<1>2. CASE LibraryNext /\ UNCHANGED pipelineVars
  <2>1. posts' = posts BY <1>2, LibraryStep
  <2> QED BY <1>1, <1>2, <2>1 DEF pipelineVars, MadePosts
<1>3. ASSUME NEW r \in Runs, NEW a \in Assets, Recover(r, a) \/ Process(r, a) PROVE GenInv'
  <2>1. Launch(r, "auto", {a}, "claim", "armed") BY <1>3 DEF Recover, Process
  <2>2. OtherRuns(r) /\ run'[r].pc = "claim"
    <3>1. OtherRuns(r) /\ Fresh(run'[r], "auto", {a}, "claim", "armed") BY <2>1, Launched
    <3> QED BY <3>1 DEF Fresh
  <2>3. MadePosts' = MadePosts /\ ai' = ai BY <2>1 DEF Launch, MadePosts
  <2>4. ~Paying(run'[r]) BY <2>2 DEF Paying
  <2> QED BY <2>2, <2>3, <2>4, GenKept
<1>4. ASSUME NEW r \in Runs, NEW S \in SUBSET Assets, Compose(r, S) PROVE GenInv'
  <2>1. Launch(r, "compose", S, "reserve", "none") BY <1>4 DEF Compose
  <2>2. OtherRuns(r) /\ run'[r].pc = "reserve" BY <2>1, Launched DEF Fresh
  <2>3. MadePosts' = MadePosts /\ ai' = ai BY <2>1 DEF Launch, MadePosts
  <2>4. ~Paying(run'[r]) BY <2>2 DEF Paying
  <2> QED BY <2>2, <2>3, <2>4, GenKept
<1>5. ASSUME NEW r \in Runs, NEW S \in SUBSET Assets, Draft(r, S) PROVE GenInv'
  <2>1. Launch(r, "draft", S, "slot", "none") BY <1>5 DEF Draft
  <2>2. OtherRuns(r) /\ run'[r].kind = "draft" BY <2>1, Launched DEF Fresh
  <2>3. MadePosts' = MadePosts /\ ai' = ai BY <2>1 DEF Launch, MadePosts
  <2>4. ~Paying(run'[r]) BY <2>2 DEF Paying
  <2> QED BY <2>2, <2>3, <2>4, GenKept
<1>6. ASSUME NEW a \in Assets, Age(a) PROVE GenInv'
  BY <1>1, <1>6 DEF Age, pipelineVars, MadePosts
<1>7. ASSUME NEW p \in DOMAIN posts, ResolvePost(p) \/ RejectPost(p) PROVE GenInv'
  <2>1. PICK s \in PostStatus : posts' = [posts EXCEPT ![p].status = s]
    BY <1>7 DEF ResolvePost, RejectPost, PostStatus
  <2>2. p \in 1..Len(posts) BY <1>0, PostCounts
  <2>3. /\ DOMAIN posts' = DOMAIN posts
        /\ \A q \in DOMAIN posts : posts'[q].media = posts[q].media
    BY <1>0, <2>1, <2>2, PostMarked
  <2>4. MadePosts' = MadePosts BY <2>3 DEF MadePosts
  <2>5. run' = run /\ ai' = ai BY <1>7 DEF ResolvePost, RejectPost, pipelineVars
  <2> QED BY <1>1, <2>4, <2>5
<1> QED BY <1>2, <1>3, <1>4, <1>5, <1>6, <1>7, GenStep, SelectionsAssumption
        DEF PipelineNext

LEMMA GenStutter == GenInv /\ UNCHANGED mediaVars => GenInv'
BY DEF GenInv, PaidRuns, MadePosts, mediaVars, libraryVars, pipelineVars

\* However runs overlap, fail or are refunded, every post with media has its own
\* AI credit, and no more were taken than the plan has.
THEOREM GenerationsPaid == PipelineSpec => []GenerationsArePaid
<1>1. RunsInv /\ GenInv /\ [PipelineNext]_mediaVars => RunsInv' /\ GenInv'
  BY RunsNext, RunsStutter, GenNext, GenStutter
<1>2. RunsInv /\ GenInv => GenerationsArePaid
  <2> SUFFICES ASSUME RunsInv, GenInv PROVE GenerationsArePaid
    OBVIOUS
  <2>1. Cardinality(MadePosts) \in Nat /\ ai \in Nat /\ AiLimit \in Nat
    BY RunsInvFields, PostCounts, PipelineAssumption DEF MadePosts
  <2>2. Cardinality(PaidRuns) \in Nat BY PipelineAssumption, FewerCount DEF PaidRuns
  <2> QED BY <2>1, <2>2 DEF GenInv, GenerationsArePaid, MadePosts
<1> QED BY <1>1, <1>2, RunsInit, GenInit, PTL DEF PipelineSpec

-----------------------------------------------------------------------------
(* Publishing credits.                                                     *)

\* AutoPilot's run has scheduled its post and not settled the credit yet.
Crediting(q) == q.pc \in {"credit", "downgrade"}
Late(q)      == q.timer \in {"fired", "written"}

\* The scheduled posts that no run will come back to.
Charged  == {p \in PostsIn({"SCHEDULED", "RESOLVED"}) :
                ~ \E r \in Runs : Crediting(run[r]) /\ run[r].post = p}
LateRuns == {r \in Runs : Late(run[r])}
Means    == used + PipelineFaults

\* A run past its timeout may be frozen before it settles: that is one fault,
\* which is set aside for it from the timeout on.
SchedInv == Cardinality(Charged) + Cardinality(LateRuns) <= Means

LEMMA MeansCount == (RunsInv => Means \in Nat) /\ (RunsInv' => Means' \in Nat)
<1>1. ASSUME RunsInv PROVE Means \in Nat
  <2>1. used \in Nat /\ crashes \in Nat /\ dbFailures \in Nat /\ timeouts \in Nat
    BY <1>1, RunsInvFields, PipelineAssumption
  <2> QED BY <2>1 DEF Means, PipelineFaults
<1>2. ASSUME RunsInv' PROVE Means' \in Nat
  <2>1. /\ crashes' \in Nat /\ dbFailures' \in Nat /\ timeouts' \in Nat
        /\ used' \in 0..quota' /\ quota' \in 0..PostLimit
    BY <1>2 DEF RunsInv, PipelineTypeOK, LibraryTypeOK
  <2>2. used' \in Nat BY <2>1, PipelineAssumption
  <2>3. Means' = used' + (crashes' + dbFailures' + timeouts') BY DEF Means, PipelineFaults
  <2>4. \A u, c, d, t \in Nat : u + (c + d + t) \in Nat OBVIOUS
  <2> QED BY <2>1, <2>2, <2>3, <2>4
<1> QED BY <1>1, <1>2

LEMMA ChargedCounts ==
  ASSUME RunsInv
  PROVE  /\ IsFiniteSet(Charged) /\ Cardinality(Charged) \in Nat
         /\ IsFiniteSet(LateRuns) /\ Cardinality(LateRuns) \in Nat
<1>1. Charged \in SUBSET DOMAIN posts BY DEF Charged, PostsIn
<1>2. LateRuns \in SUBSET Runs BY DEF LateRuns
<1> QED BY <1>1, <1>2, RunsInvFields, PostCounts, PipelineAssumption, FewerCount

\* Nothing is charged that was not, and no run is late that was not.
LEMMA SchedKept ==
  ASSUME RunsInv, RunsInv', SchedInv, NEW r \in Runs, OtherRuns(r),
         Charged' \subseteq Charged, Late(run'[r]) => Late(run[r]), Means <= Means'
  PROVE  SchedInv'
<1>1. LateRuns' \subseteq LateRuns BY DEF LateRuns, OtherRuns
<1>2. Cardinality(Charged') \in Nat /\ Cardinality(Charged') <= Cardinality(Charged)
  BY ChargedCounts, FewerCount
<1>3. Cardinality(LateRuns') \in Nat /\ Cardinality(LateRuns') <= Cardinality(LateRuns)
  BY <1>1, ChargedCounts, FewerCount
<1>4. Means \in Nat /\ Means' \in Nat BY MeansCount
<1> QED BY <1>2, <1>3, <1>4, ChargedCounts DEF SchedInv

\* A post is charged to a credit or to a fault.
LEMMA SchedPaid ==
  ASSUME RunsInv, RunsInv', SchedInv, NEW r \in Runs, OtherRuns(r),
         Charged' \subseteq Charged \cup {run[r].post}, Late(run'[r]) => Late(run[r]),
         Means + 1 <= Means'
  PROVE  SchedInv'
<1>1. LateRuns' \subseteq LateRuns BY DEF LateRuns, OtherRuns
<1>2. Cardinality(Charged') \in Nat /\ Cardinality(Charged') <= Cardinality(Charged) + 1
  BY ChargedCounts, OneMore
<1>3. Cardinality(LateRuns') \in Nat /\ Cardinality(LateRuns') <= Cardinality(LateRuns)
  BY <1>1, ChargedCounts, FewerCount
<1>4. Means \in Nat /\ Means' \in Nat BY MeansCount
<1> QED BY <1>2, <1>3, <1>4, ChargedCounts DEF SchedInv

\* When one run moves and no post does.
LEMMA ChargedStep ==
  ASSUME NEW r \in Runs, OtherRuns(r), posts' = posts
  PROVE  /\ Charged' \subseteq Charged \cup {run[r].post}
         /\ (Crediting(run[r]) => Crediting(run'[r]) /\ run'[r].post = run[r].post)
               => Charged' \subseteq Charged
<1>1. \A p \in Charged' : p \in PostsIn({"SCHEDULED", "RESOLVED"})
  BY DEF Charged, PostsIn
<1>2. ASSUME NEW p \in Charged', NEW x \in Runs \ {r}
      PROVE  ~(Crediting(run[x]) /\ run[x].post = p)
  <2>1. run'[x] = run[x] BY <1>2 DEF OtherRuns
  <2> QED BY <1>2, <2>1 DEF Charged, Crediting
<1>3. ASSUME NEW p \in Charged'
      PROVE  ~(Crediting(run'[r]) /\ run'[r].post = p)
  BY <1>3 DEF Charged, Crediting
<1>4. ASSUME NEW p \in Charged', ~(Crediting(run[r]) /\ run[r].post = p) PROVE p \in Charged
  <2>1. \A x \in Runs : ~(Crediting(run[x]) /\ run[x].post = p) BY <1>2, <1>4
  <2> QED BY <1>1, <2>1 DEF Charged
<1>5. Charged' \subseteq Charged \cup {run[r].post} BY <1>4
<1>6. ASSUME Crediting(run[r]) => Crediting(run'[r]) /\ run'[r].post = run[r].post
      PROVE  Charged' \subseteq Charged
  <2>1. \A p \in Charged' : ~(Crediting(run[r]) /\ run[r].post = p) BY <1>3, <1>6
  <2> QED BY <1>4, <2>1
<1> QED BY <1>5, <1>6

\* A run that was not at its credit ends, or goes on to somewhere.
LEMMA SchedEnd ==
  ASSUME RunsInv, RunsInv', SchedInv, NEW r \in Runs, End(r), ~Crediting(run[r]),
         posts' = posts, Means <= Means'
  PROVE  SchedInv'
<1>1. OtherRuns(r) /\ (Late(run'[r]) => Late(run[r]))
  <2>1. CASE run'[r] = NoRun BY <2>1, Ends DEF NoRun, Late
  <2>2. CASE run'[r] # NoRun BY <2>2, Ends DEF SameRun, Late
  <2> QED BY <2>1, <2>2
<1>2. Charged' \subseteq Charged BY <1>1, ChargedStep
<1> QED BY <1>1, <1>2, SchedKept

LEMMA SchedGo ==
  ASSUME RunsInv, RunsInv', SchedInv, NEW r \in Runs, NEW l \in RunSteps, Go(r, l),
         posts' = posts, Means <= Means',
         Crediting(run[r]) => l = "downgrade" \/ Means + 1 <= Means'
  PROVE  SchedInv'
<1>1. OtherRuns(r) /\ run'[r].pc = l /\ SameRun(run'[r], run[r]) BY Goes
<1>2. Late(run'[r]) => Late(run[r]) BY <1>1 DEF SameRun, Late
<1>3. CASE Means + 1 <= Means'
  <2>1. Charged' \subseteq Charged \cup {run[r].post} BY <1>1, ChargedStep
  <2> QED BY <1>1, <1>2, <1>3, <2>1, SchedPaid
<1>4. CASE ~(Means + 1 <= Means')
  <2>1. Crediting(run[r]) => Crediting(run'[r]) /\ run'[r].post = run[r].post
    BY <1>1, <1>4 DEF Crediting, SameRun
  <2>2. Charged' \subseteq Charged BY <1>1, <2>1, ChargedStep
  <2> QED BY <1>1, <1>2, <2>2, SchedKept
<1> QED BY <1>3, <1>4

\* The steps that leave the means alone.
LEMMA MeansSame == UNCHANGED <<used, crashes, dbFailures, timeouts>> => Means' = Means
BY DEF Means, PipelineFaults

LEMMA SchedInit == PipelineInit => SchedInv
<1> SUFFICES ASSUME PipelineInit PROVE SchedInv
  OBVIOUS
<1>1. Charged = {} BY DEF PipelineInit, Charged, PostsIn
<1>2. LateRuns = {} BY DEF PipelineInit, LateRuns, Late, NoRun
<1>3. Cardinality({}) = 0 BY FS_EmptySet
<1> QED BY <1>1, <1>2, <1>3 DEF PipelineInit, SchedInv, Means, PipelineFaults

LEMMA SchedStep ==
  ASSUME RunsInv, RunsInv', SchedInv, NEW r \in Runs,
         \/ Step(r) \/ TimerFires(r) \/ Freeze(r) \/ CrashRun(r) \/ StatementFails(r)
  PROVE  SchedInv'
<1>0. /\ Means \in Nat /\ Means' \in Nat /\ posts \in Seq(Post) /\ Placed(run[r])
      /\ Len(posts) \in Nat
  BY MeansCount, RunsInvFields, RunFields
<1>1. ASSUME End(r), ~Crediting(run[r]), posts' = posts, UNCHANGED <<used, faultVars, timeouts>>
      PROVE  SchedInv'
  <2>1. Means' = Means BY <1>1, MeansSame DEF faultVars
  <2>2. Means <= Means' BY <1>0, <2>1
  <2> QED BY <1>1, <2>2, SchedEnd
<1>2. ASSUME NEW l \in RunSteps, Go(r, l), Crediting(run[r]) => l = "downgrade",
             posts' = posts, UNCHANGED <<used, faultVars, timeouts>>
      PROVE  SchedInv'
  <2>1. Means' = Means BY <1>2, MeansSame DEF faultVars
  <2>2. Means <= Means' BY <1>0, <2>1
  <2> QED BY <1>2, <2>2, SchedGo
<1>3. ASSUME OtherRuns(r), run'[r].timer = run[r].timer, ~Crediting(run[r]),
             posts' = posts, UNCHANGED <<used, faultVars, timeouts>>
      PROVE  SchedInv'
  <2>1. Means' = Means BY <1>3, MeansSame DEF faultVars
  <2>2. Means <= Means' BY <1>0, <2>1
  <2>3. Charged' \subseteq Charged BY <1>3, ChargedStep
  <2>4. Late(run'[r]) => Late(run[r]) BY <1>3 DEF Late
  <2> QED BY <1>3, <2>2, <2>3, <2>4, SchedKept
<1>4. {"reserve", "refused", "mark", "generate", "fail", "link", "downgrade"} \subseteq RunSteps
  BY DEF RunSteps
<1>5. CASE ClaimAsset(r)
  <2>1. ~Crediting(run[r]) BY <1>5 DEF ClaimAsset, OnRun, Crediting
  <2> QED BY <1>1, <1>2, <1>4, <1>5, <2>1 DEF ClaimAsset
<1>6. CASE ReserveAi(r)
  <2>1. ~Crediting(run[r]) BY <1>6 DEF ReserveAi, OnRun, Crediting
  <2>2. End(r) \/ Go(r, "mark") \/ Go(r, "generate") \/ Go(r, "refused")
    BY <1>6 DEF ReserveAi
  <2> QED BY <1>1, <1>2, <1>4, <1>6, <2>1, <2>2 DEF ReserveAi
<1>7. CASE Refuse(r)
  <2>1. ~Crediting(run[r]) BY <1>7 DEF Refuse, OnRun, Crediting
  <2> QED BY <1>1, <1>7, <2>1 DEF Refuse
<1>8. CASE MarkComposed(r)
  <2>1. ~Crediting(run[r]) BY <1>8 DEF MarkComposed, OnRun, Crediting
  <2> QED BY <1>2, <1>4, <1>8, <2>1 DEF MarkComposed
<1>9. CASE Generate(r)
  <2>1. OtherRuns(r) /\ run[r].pc = "generate" /\ run'[r].timer = run[r].timer
    BY <1>9, GenerateMoves
  <2>2. ~Crediting(run[r]) BY <2>1 DEF Crediting
  <2> QED BY <1>3, <1>9, <2>1, <2>2 DEF Generate
<1>10. CASE ReleaseAi(r)
  <2>1. ~Crediting(run[r]) BY <1>10 DEF ReleaseAi, OnRun, Crediting
  <2> QED BY <1>2, <1>4, <1>10, <2>1 DEF ReleaseAi
<1>11. CASE PickSlot(r)
  <2>1. OtherRuns(r) /\ run[r].pc = "slot" /\ run'[r].timer = run[r].timer
    BY <1>11, SlotMoves
  <2>2. ~Crediting(run[r]) BY <2>1 DEF Crediting
  <2> QED BY <1>3, <1>11, <2>1, <2>2 DEF PickSlot
<1>12. CASE CreatePost(r)
  <2>0. UNCHANGED <<used, faultVars, timeouts>> BY <1>12 DEF CreatePost
  <2>1. OtherRuns(r) /\ run[r].pc = "create" /\ run'[r].timer = run[r].timer
    BY <1>12, CreateMoves
  <2>2. ~Crediting(run[r]) BY <2>1 DEF Crediting
  <2>3. CASE posts' = posts BY <1>3, <2>0, <2>1, <2>2, <2>3
  <2>4. ASSUME NEW s \in StatusOf(r), NewPost(r, s) \in Post,
               posts' = Append(posts, NewPost(r, s)),
               run'[r].pc = (IF run[r].auto THEN "credit" ELSE "link"),
               run'[r].post = Len(posts) + 1
        PROVE  SchedInv'
    <3> DEFINE n == Len(posts) + 1
    <3>1. /\ DOMAIN posts' = DOMAIN posts \cup {n} /\ n \notin DOMAIN posts
          /\ posts'[n] = NewPost(r, s) /\ \A q \in DOMAIN posts : posts'[q] = posts[q]
      BY <1>0, <2>4, PostAdded
    <3>2. run'[r].post = n BY <2>4
    <3> HIDE DEF n
    <3>3. n \notin Charged'
      <4>1. CASE run[r].auto
        <5>1. Crediting(run'[r]) BY <2>4, <4>1 DEF Crediting
        <5> QED BY <3>2, <5>1 DEF Charged, Crediting
      <4>2. CASE ~run[r].auto
        <5>1. s \notin {"SCHEDULED", "RESOLVED"} BY <2>4, <4>2 DEF StatusOf
        <5>2. posts'[n].status = s BY <3>1 DEF NewPost
        <5> QED BY <5>1, <5>2 DEF Charged, PostsIn
      <4> QED BY <4>1, <4>2
    <3>4. ASSUME NEW p \in Charged' PROVE p \in Charged
      <4>1. p \in DOMAIN posts /\ posts[p].status \in {"SCHEDULED", "RESOLVED"}
        BY <3>1, <3>3, <3>4 DEF Charged, PostsIn
      <4>2. ASSUME NEW x \in Runs PROVE ~(Crediting(run[x]) /\ run[x].post = p)
        <5>1. CASE x = r BY <2>2, <5>1
        <5>2. CASE x # r
          <6>1. run'[x] = run[x] BY <2>1, <5>2 DEF OtherRuns
          <6> QED BY <3>4, <6>1 DEF Charged, Crediting
        <5> QED BY <5>1, <5>2
      <4> QED BY <4>1, <4>2 DEF Charged, PostsIn
    <3>5. Late(run'[r]) => Late(run[r]) BY <2>1 DEF Late
    <3>6. Means <= Means'
      <4>1. Means' = Means BY <2>0, MeansSame DEF faultVars
      <4> QED BY <1>0, <4>1
    <3> QED BY <2>1, <3>4, <3>5, <3>6, SchedKept
  <2> QED BY <1>12, <2>3, <2>4, CreateMoves
<1>13. CASE ReserveCredit(r)
  <2>1. CASE used = quota /\ Go(r, "downgrade") /\ used' = used
    BY <1>2, <1>4, <1>13, <2>1 DEF ReserveCredit
  <2>2. CASE used' = used + 1 /\ Go(r, "link")
    <3>1. UNCHANGED <<crashes, dbFailures, timeouts>> BY <1>13 DEF ReserveCredit, faultVars
    <3>2. used \in Nat /\ PipelineFaults \in Nat
      BY RunsInvFields, PipelineAssumption DEF PipelineFaults
    <3>3. PipelineFaults' = PipelineFaults BY <3>1 DEF PipelineFaults
    <3>4. Means' = Means + 1 BY <2>2, <3>2, <3>3 DEF Means
    <3>5. Means <= Means' /\ Means + 1 <= Means' BY <1>0, <3>4
    <3>6. posts' = posts BY <1>13 DEF ReserveCredit
    <3> QED BY <1>4, <2>2, <3>5, <3>6, SchedGo
  <2> QED BY <1>13, <2>1, <2>2 DEF ReserveCredit
<1>14. CASE Downgrade(r)
  <2>1. /\ OtherRuns(r) /\ run[r].post \in 1..Len(posts)
        /\ run'[r].timer = run[r].timer
    BY <1>14, DowngradeMoves
  <2>2. "NEEDS_APPROVAL" \in PostStatus BY DEF PostStatus
  <2>3. posts' = [posts EXCEPT ![run[r].post].status = "NEEDS_APPROVAL"]
    BY <1>14 DEF Downgrade
  <2>4. /\ DOMAIN posts' = DOMAIN posts
        /\ \A q \in DOMAIN posts : posts'[q].status
              = (IF q = run[r].post THEN "NEEDS_APPROVAL" ELSE posts[q].status)
    BY <1>0, <2>1, <2>2, <2>3, PostMarked
  <2>5. ASSUME NEW p \in Charged' PROVE p \in Charged
    <3>1. /\ p # run[r].post /\ p \in DOMAIN posts
          /\ posts[p].status \in {"SCHEDULED", "RESOLVED"}
      BY <2>4, <2>5 DEF Charged, PostsIn
    <3>2. ASSUME NEW x \in Runs PROVE ~(Crediting(run[x]) /\ run[x].post = p)
      <4>1. CASE x = r BY <3>1, <4>1
      <4>2. CASE x # r
        <5>1. run'[x] = run[x] BY <2>1, <4>2 DEF OtherRuns
        <5> QED BY <2>5, <5>1 DEF Charged, Crediting
      <4> QED BY <4>1, <4>2
    <3> QED BY <3>1, <3>2 DEF Charged, PostsIn
  <2>6. Late(run'[r]) => Late(run[r]) BY <2>1 DEF Late
  <2>7. Means <= Means'
    <3>1. Means' = Means BY <1>14, MeansSame DEF Downgrade, faultVars
    <3> QED BY <1>0, <3>1
  <2> QED BY <2>1, <2>5, <2>6, <2>7, SchedKept
<1>15. CASE Link(r)
  <2>1. ~Crediting(run[r]) BY <1>15 DEF Link, OnRun, Crediting
  <2>2. End(r) \/ Go(r, "fail") BY <1>15 DEF Link
  <2> QED BY <1>1, <1>2, <1>4, <1>15, <2>1, <2>2 DEF Link
<1>16. CASE FailRun(r)
  <2>1. ~Crediting(run[r]) BY <1>16 DEF FailRun, OnRun, Crediting
  <2> QED BY <1>1, <1>16, <2>1 DEF FailRun
<1>17. CASE HandlerFails(r)
  <2>1. /\ OtherRuns(r) /\ Late(run[r])
        /\ Crediting(run[r]) => Crediting(run'[r]) /\ run'[r].post = run[r].post
    <3>1. CASE run[r].pc = "late" BY <1>17, <3>1, HandlerMoves DEF Late, Crediting
    <3>2. CASE run[r].pc # "late"
      <4>1. OtherRuns(r) /\ run[r].timer = "fired" /\ run'[r].pc = run[r].pc
               /\ Work(run'[r], run[r])
        BY <1>17, <3>2, HandlerMoves
      <4> QED BY <4>1 DEF Late, Crediting, Work
    <3> QED BY <3>1, <3>2
  <2>2. Charged' \subseteq Charged BY <1>17, <2>1, ChargedStep DEF HandlerFails
  <2>3. Means <= Means'
    <3>1. Means' = Means BY <1>17, MeansSame DEF HandlerFails, faultVars
    <3> QED BY <1>0, <3>1
  <2> QED BY <2>1, <2>2, <2>3, SchedKept
<1>18. CASE TimerFires(r)
  <2>1. /\ OtherRuns(r) /\ run[r].timer = "armed"
        /\ run'[r].pc = run[r].pc /\ Work(run'[r], run[r])
    BY <1>18, TimerMoves
  <2>2. Crediting(run[r]) => Crediting(run'[r]) /\ run'[r].post = run[r].post
    BY <2>1 DEF Crediting, Work
  <2>3. Charged' \subseteq Charged BY <1>18, <2>1, <2>2, ChargedStep DEF TimerFires
  <2>4. LateRuns' \subseteq LateRuns \cup {r} BY <2>1 DEF LateRuns, OtherRuns
  <2>5. Cardinality(LateRuns') \in Nat /\ Cardinality(LateRuns') <= Cardinality(LateRuns) + 1
    BY <2>4, ChargedCounts, OneMore
  <2>6. Cardinality(Charged') \in Nat /\ Cardinality(Charged') <= Cardinality(Charged)
    BY <2>3, ChargedCounts, FewerCount
  <2>7. Means' = Means + 1
    <3>1. used' = used /\ crashes' = crashes /\ dbFailures' = dbFailures
             /\ timeouts' = timeouts + 1
      BY <1>18 DEF TimerFires, faultVars
    <3>2. used \in Nat /\ crashes \in Nat /\ dbFailures \in Nat /\ timeouts \in Nat
      BY RunsInvFields, PipelineAssumption
    <3> QED BY <3>1, <3>2 DEF Means, PipelineFaults
  <2> QED BY <1>0, <2>5, <2>6, <2>7, ChargedCounts DEF SchedInv
<1>19. CASE Freeze(r)
  <2>1. OtherRuns(r) /\ run'[r] = NoRun /\ Late(run[r]) /\ posts' = posts
    BY <1>19, Gone DEF Freeze, Late
  <2>2. Charged' \subseteq Charged \cup {run[r].post} BY <2>1, ChargedStep
  <2>3. LateRuns' \subseteq LateRuns \ {r} /\ r \in LateRuns
    BY <2>1 DEF LateRuns, OtherRuns, Late, NoRun
  <2>4. Cardinality(LateRuns') \in Nat /\ Cardinality(LateRuns') + 1 <= Cardinality(LateRuns)
    BY <2>3, ChargedCounts, OneLess
  <2>5. Cardinality(Charged') \in Nat /\ Cardinality(Charged') <= Cardinality(Charged) + 1
    BY <2>2, ChargedCounts, OneMore
  <2>6. Means' = Means BY <1>19, MeansSame DEF Freeze, faultVars
  <2> QED BY <1>0, <2>4, <2>5, <2>6, ChargedCounts DEF SchedInv
<1>20. CASE CrashRun(r)
  <2>1. OtherRuns(r) /\ run'[r] = NoRun /\ posts' = posts BY <1>20, Gone DEF CrashRun
  <2>2. Charged' \subseteq Charged \cup {run[r].post} BY <2>1, ChargedStep
  <2>3. Late(run'[r]) => Late(run[r]) BY <2>1 DEF Late, NoRun
  <2>4. Means + 1 <= Means'
    <3>1. used' = used /\ crashes' = crashes + 1 /\ dbFailures' = dbFailures
             /\ timeouts' = timeouts
      BY <1>20 DEF CrashRun
    <3>2. used \in Nat /\ crashes \in Nat /\ dbFailures \in Nat /\ timeouts \in Nat
      BY RunsInvFields, PipelineAssumption
    <3> QED BY <3>1, <3>2 DEF Means, PipelineFaults
  <2> QED BY <2>1, <2>2, <2>3, <2>4, SchedPaid
<1>21. CASE StatementFails(r)
  <2>1. Means + 1 <= Means'
    <3>1. used' = used /\ crashes' = crashes /\ dbFailures' = dbFailures + 1
             /\ timeouts' = timeouts
      BY <1>21 DEF StatementFails
    <3>2. used \in Nat /\ crashes \in Nat /\ dbFailures \in Nat /\ timeouts \in Nat
      BY RunsInvFields, PipelineAssumption
    <3> QED BY <3>1, <3>2 DEF Means, PipelineFaults
  <2>2. Means <= Means' /\ posts' = posts BY <1>0, <1>21, <2>1 DEF StatementFails
  <2>3. CASE End(r) /\ run[r].pc \in {"slot", "link"}
    <3>1. ~Crediting(run[r]) BY <2>3 DEF Crediting
    <3> QED BY <2>2, <2>3, <3>1, SchedEnd
  <2>4. CASE Go(r, "downgrade") \/ Go(r, "fail") BY <1>4, <2>1, <2>2, <2>4, SchedGo
  <2> QED BY <1>21, <2>3, <2>4 DEF StatementFails
<1> QED BY <1>5, <1>6, <1>7, <1>8, <1>9, <1>10, <1>11, <1>12, <1>13, <1>14, <1>15, <1>16,
           <1>17, <1>18, <1>19, <1>20, <1>21 DEF Step

LEMMA SchedNext == RunsInv /\ RunsInv' /\ SchedInv /\ PipelineNext => SchedInv'
<1> SUFFICES ASSUME RunsInv, RunsInv', SchedInv, PipelineNext PROVE SchedInv'
  OBVIOUS
<1>0. posts \in Seq(Post) /\ Means \in Nat /\ Means' \in Nat BY RunsInvFields, MeansCount
<1>1. ASSUME Charged' \subseteq Charged, run' = run, Means <= Means' PROVE SchedInv'
  <2>1. LateRuns' = LateRuns BY <1>1 DEF LateRuns
  <2>2. Cardinality(Charged') \in Nat /\ Cardinality(Charged') <= Cardinality(Charged)
    BY <1>1, ChargedCounts, FewerCount
  <2> QED BY <1>0, <1>1, <2>1, <2>2, ChargedCounts DEF SchedInv
<1>2. CASE LibraryNext /\ UNCHANGED pipelineVars
  <2>1. /\ posts' = posts /\ crashes' \in Nat /\ crashes <= crashes'
        /\ dbFailures' \in Nat /\ dbFailures <= dbFailures'
    BY <1>2, LibraryStep
  <2>2. run' = run /\ used' = used /\ timeouts' = timeouts BY <1>2 DEF pipelineVars
  <2>3. Charged' = Charged BY <2>1, <2>2 DEF Charged, PostsIn
  <2>4. used \in Nat /\ crashes \in Nat /\ dbFailures \in Nat /\ timeouts \in Nat
    BY RunsInvFields, PipelineAssumption
  <2>5. /\ Means = used + (crashes + dbFailures + timeouts)
        /\ Means' = used + (crashes' + dbFailures' + timeouts)
    BY <2>2 DEF Means, PipelineFaults
  <2>6. Means <= Means'
    <3>1. \A u, c, d, t, i, j \in Nat :
             c <= i /\ d <= j => u + (c + d + t) <= u + (i + j + t)
      OBVIOUS
    <3> QED BY <2>1, <2>4, <2>5, <3>1
  <2> QED BY <1>1, <2>2, <2>3, <2>6
<1>3. ASSUME NEW r \in Runs, NEW k, NEW S, NEW l, NEW t, Launch(r, k, S, l, t),
             k \in {"auto", "compose", "draft"}, S \subseteq Assets,
             l \in {"claim", "reserve", "slot"}, t \in {"none", "armed"}
      PROVE  SchedInv'
  <2>1. OtherRuns(r) /\ run[r] = NoRun /\ Fresh(run'[r], k, S, l, t) BY <1>3, Launched
  <2>2. ~Crediting(run[r]) BY <2>1 DEF Crediting, NoRun
  <2>3. ~Late(run'[r]) BY <1>3, <2>1 DEF Late, Fresh
  <2>4. Charged' \subseteq Charged BY <1>3, <2>1, <2>2, ChargedStep DEF Launch
  <2>5. Means' = Means BY <1>3, MeansSame DEF Launch, faultVars
  <2>6. Means <= Means' BY <1>0, <2>5
  <2> QED BY <2>1, <2>3, <2>4, <2>6, SchedKept
<1>4. ASSUME NEW r \in Runs, NEW a \in Assets, Recover(r, a) \/ Process(r, a) PROVE SchedInv'
  <2>1. Launch(r, "auto", {a}, "claim", "armed") BY <1>4 DEF Recover, Process
  <2> QED BY <1>3, <2>1
<1>5. ASSUME NEW r \in Runs, NEW S \in SUBSET Assets, Compose(r, S) \/ Draft(r, S)
      PROVE  SchedInv'
  <2>1. Launch(r, "compose", S, "reserve", "none") \/ Launch(r, "draft", S, "slot", "none")
    BY <1>5 DEF Compose, Draft
  <2> QED BY <1>3, <2>1
<1>6. ASSUME NEW a \in Assets, Age(a) PROVE SchedInv'
  <2>1. posts' = posts /\ run' = run BY <1>6 DEF Age, pipelineVars
  <2>2. Charged' = Charged BY <2>1 DEF Charged, PostsIn
  <2>3. Means' = Means BY <1>6, MeansSame DEF Age, pipelineVars, faultVars
  <2>4. Means <= Means' BY <1>0, <2>3
  <2> QED BY <1>1, <2>1, <2>2, <2>4
<1>7. ASSUME NEW p \in DOMAIN posts, ResolvePost(p) \/ RejectPost(p) PROVE SchedInv'
  <2>1. run' = run /\ Means' = Means
    BY <1>7, MeansSame DEF ResolvePost, RejectPost, pipelineVars, faultVars
  <2>2. PICK s \in PostStatus : /\ posts' = [posts EXCEPT ![p].status = s]
                                /\ \/ s = "RESOLVED" /\ posts[p].status = "SCHEDULED"
                                   \/ s = "REJECTED"
    BY <1>7 DEF ResolvePost, RejectPost, PostStatus
  <2>3. p \in 1..Len(posts) BY <1>0, PostCounts
  <2>4. /\ DOMAIN posts' = DOMAIN posts
        /\ \A q \in DOMAIN posts :
              posts'[q].status = (IF q = p THEN s ELSE posts[q].status)
    BY <1>0, <2>2, <2>3, PostMarked
  <2>5. PostsIn({"SCHEDULED", "RESOLVED"})' \subseteq PostsIn({"SCHEDULED", "RESOLVED"})
    BY <2>2, <2>4 DEF PostsIn
  <2>6. Charged' \subseteq Charged BY <2>1, <2>5 DEF Charged
  <2>7. Means <= Means' BY <1>0, <2>1
  <2> QED BY <1>1, <2>1, <2>6, <2>7
<1> QED BY <1>2, <1>4, <1>5, <1>6, <1>7, SchedStep, SelectionsAssumption
        DEF PipelineNext

LEMMA SchedStutter == SchedInv /\ UNCHANGED mediaVars => SchedInv'
BY DEF SchedInv, Charged, PostsIn, LateRuns, Means, PipelineFaults, mediaVars, libraryVars,
       faultVars, pipelineVars

\* The posts that wait for a run are no more than those runs.
LEMMA Awaited ==
  ASSUME RunsInv
  PROVE  Cardinality(PostsIn({"SCHEDULED", "RESOLVED"}))
            <= Cardinality(Charged) + Cardinality({r \in Runs : Crediting(run[r])})
<1> DEFINE C == {r \in Runs : Crediting(run[r])}
           P == PostsIn({"SCHEDULED", "RESOLVED"})
           U == P \ Charged
           D == {r \in C : run[r].post \in U}
           f == [r \in D |-> run[r].post]
<1>1. IsFiniteSet(P) /\ IsFiniteSet(U) /\ Cardinality(U) \in Nat
  <2>1. P \in SUBSET DOMAIN posts /\ U \in SUBSET DOMAIN posts BY DEF PostsIn
  <2> QED BY <2>1, RunsInvFields, PostCounts
<1>2. IsFiniteSet(D) /\ Cardinality(D) <= Cardinality(C)
         /\ Cardinality(D) \in Nat /\ Cardinality(C) \in Nat
  <2>1. C \in SUBSET Runs /\ D \in SUBSET C OBVIOUS
  <2>2. IsFiniteSet(C) BY <2>1, PipelineAssumption, FewerCount
  <2> HIDE DEF C, D
  <2> QED BY <2>1, <2>2, FewerCount
<1>3. f \in Surjection(D, U)
  <2>1. \A p \in U : \E r \in D : run[r].post = p BY DEF Charged
  <2>2. f \in [D -> U] OBVIOUS
  <2> QED BY <2>1, <2>2 DEF Surjection
<1>4. Cardinality(U) <= Cardinality(D) BY <1>2, <1>3, FS_Surjection
<1>5. P = Charged \cup U /\ Charged \cap U = {} BY DEF Charged
<1>6. Cardinality(P) = Cardinality(Charged) + Cardinality(U)
  <2> HIDE DEF P, U
  <2>1. IsFiniteSet(Charged) /\ Cardinality(Charged) \in Nat BY ChargedCounts
  <2>2. Cardinality(Charged \cup U)
          = Cardinality(Charged) + Cardinality(U) - Cardinality(Charged \cap U)
    BY <1>1, <2>1, FS_Union
  <2>3. Cardinality(Charged \cap U) = 0 BY <1>5, FS_EmptySet
  <2> QED BY <1>1, <1>5, <2>1, <2>2, <2>3
<1> HIDE DEF P, U, C, D
<1>7. Cardinality(P) <= Cardinality(Charged) + Cardinality(C)
  BY <1>1, <1>2, <1>4, <1>6, ChargedCounts
<1> QED BY <1>7 DEF P, C

\* AutoPilot schedules before it reserves, and yet every post that stays
\* scheduled has its credit, unless a fault cut its run off in between.
THEOREM SchedulesPaid == PipelineSpec => []ScheduledPostsArePaid
<1>1. RunsInv /\ SchedInv /\ [PipelineNext]_mediaVars => RunsInv' /\ SchedInv'
  BY RunsNext, RunsStutter, SchedNext, SchedStutter
<1>2. RunsInv /\ SchedInv => ScheduledPostsArePaid
  <2> SUFFICES ASSUME RunsInv, SchedInv PROVE ScheduledPostsArePaid
    OBVIOUS
  <2> DEFINE C == {r \in Runs : Crediting(run[r])}
             P == PostsIn({"SCHEDULED", "RESOLVED"})
  <2>1. C = {r \in Runs : run[r].pc \in {"credit", "downgrade"}} BY DEF Crediting
  <2>2. Cardinality(C) \in Nat /\ Cardinality(P) \in Nat
    <3>1. C \in SUBSET Runs /\ P \in SUBSET DOMAIN posts BY DEF PostsIn
    <3> QED BY <3>1, RunsInvFields, PostCounts, PipelineAssumption, FewerCount
  <2>3. Cardinality(P) <= Cardinality(Charged) + Cardinality(C) BY Awaited
  <2> HIDE DEF C, P
  <2>4. Cardinality(P) <= Means + Cardinality(C)
    BY <2>2, <2>3, MeansCount, ChargedCounts DEF SchedInv
  <2> QED BY <2>1, <2>4 DEF P, Means, ScheduledPostsArePaid
<1> QED BY <1>1, <1>2, RunsInit, SchedInit, PTL DEF PipelineSpec

-----------------------------------------------------------------------------
(* One asset, one post: what an asset is charged with.                     *)

\* A run with a claim or a composition on the asset, that may still make its post.
Carries(q, a)  == /\ a \in q.media /\ q.kind # "draft"
                  /\ q.pc \in {"reserve", "refused", "mark", "generate", "release", "slot",
                               "create", "fail"}
\* One whose handler will fail the asset once more, and one that may be frozen.
Answers(q, a)  == a \in q.media /\ q.timer = "fired"
TimesOut(q, a) == a \in q.media /\ q.timer \in {"fired", "written"}

Weight(q, a) == (IF Carries(q, a) THEN 1 ELSE 0) + (IF Answers(q, a) THEN 1 ELSE 0)
                    + (IF TimesOut(q, a) THEN 1 ELSE 0)

Carriers(a)  == {r \in Runs : Carries(run[r], a)}
Answering(a) == {r \in Runs : Answers(run[r], a)}
TimedOut(a)  == {r \in Runs : TimesOut(run[r], a)}
RunLoad(a)   == Cardinality(Carriers(a)) + Cardinality(Answering(a)) + Cardinality(TimedOut(a))

\* A run that has taken the asset, so that it cannot grow stale meanwhile.
Minds(q, a) ==
    /\ a \in q.media
    /\ \/ q.kind = "auto" /\ q.pc # "claim"
       \/ q.kind = "compose" /\ q.pc \notin {"reserve", "mark"}

\* The asset can be claimed, now or when it has grown stale.
Reopens(a) ==
    \/ mstatus[a] = "PENDING"
    \/ mstatus[a] = "FAILED" /\ link[a] = 0
    \/ mstatus[a] = "PROCESSING" /\ (stale[a] \/ ~ \E r \in Runs : Minds(run[r], a))
Reopen(a) == IF Reopens(a) THEN 1 ELSE 0

Budget(a) == 1 + PipelineFaults + timeouts + composed[a]

\* What has become of an asset, may become of it through the runs that hold it,
\* and through one more claim, stays within its budget as long as its row is there.
Within(a) ==
    /\ Cardinality(PostsOf(a)) <= Budget(a)
    /\ a \in Rows => Cardinality(PostsOf(a)) + RunLoad(a) + Reopen(a) <= Budget(a)

PostsInv == \A a \in Assets : Within(a)

\* The run q holds no more of the asset than p did.
Eases(q, p, a) == /\ Carries(q, a) => Carries(p, a)
                  /\ Answers(q, a) => Answers(p, a)
                  /\ TimesOut(q, a) => TimesOut(p, a)

LEMMA Weights ==
  ASSUME NEW p, NEW q, NEW a
  PROVE  /\ Weight(p, a) \in 0..3
         /\ Eases(q, p, a) => Weight(q, a) <= Weight(p, a)
         /\ Eases(q, p, a) /\ (\/ Carries(p, a) /\ ~Carries(q, a)
                               \/ Answers(p, a) /\ ~Answers(q, a)
                               \/ TimesOut(p, a) /\ ~TimesOut(q, a))
               => Weight(q, a) + 1 <= Weight(p, a)
         /\ (Answers(q, a) => Answers(p, a)) /\ (TimesOut(q, a) => TimesOut(p, a))
               => Weight(q, a) <= Weight(p, a) + 1
         /\ (Carries(q, a) => Carries(p, a)) => Weight(q, a) <= Weight(p, a) + 2
         /\ a \notin q.media => Weight(q, a) = 0
<1>1. a \notin q.media => ~Carries(q, a) /\ ~Answers(q, a) /\ ~TimesOut(q, a)
  BY DEF Carries, Answers, TimesOut
<1> QED BY <1>1 DEF Weight, Eases

LEMMA LoadStep ==
  ASSUME NEW r \in Runs, OtherRuns(r), NEW a
  PROVE  /\ RunLoad(a) \in Nat /\ RunLoad(a)' \in Nat
         /\ RunLoad(a)' + Weight(run[r], a) = RunLoad(a) + Weight(run'[r], a)
<1>0. IsFiniteSet(Runs) BY PipelineAssumption
<1>1. /\ Carriers(a) \in SUBSET Runs /\ Carriers(a)' \in SUBSET Runs
      /\ Carriers(a) \ {r} = Carriers(a)' \ {r}
      /\ r \in Carriers(a) <=> Carries(run[r], a)
      /\ r \in Carriers(a)' <=> Carries(run'[r], a)
  BY DEF Carriers, OtherRuns, Carries
<1>2. /\ Answering(a) \in SUBSET Runs /\ Answering(a)' \in SUBSET Runs
      /\ Answering(a) \ {r} = Answering(a)' \ {r}
      /\ r \in Answering(a) <=> Answers(run[r], a)
      /\ r \in Answering(a)' <=> Answers(run'[r], a)
  BY DEF Answering, OtherRuns, Answers
<1>3. /\ TimedOut(a) \in SUBSET Runs /\ TimedOut(a)' \in SUBSET Runs
      /\ TimedOut(a) \ {r} = TimedOut(a)' \ {r}
      /\ r \in TimedOut(a) <=> TimesOut(run[r], a)
      /\ r \in TimedOut(a)' <=> TimesOut(run'[r], a)
  BY DEF TimedOut, OtherRuns, TimesOut
<1>4. /\ Cardinality(Carriers(a)) \in Nat /\ Cardinality(Carriers(a)') \in Nat
      /\ Cardinality(Carriers(a)') + (IF Carries(run[r], a) THEN 1 ELSE 0)
            = Cardinality(Carriers(a)) + (IF Carries(run'[r], a) THEN 1 ELSE 0)
  BY <1>0, <1>1, CountStep
<1>5. /\ Cardinality(Answering(a)) \in Nat /\ Cardinality(Answering(a)') \in Nat
      /\ Cardinality(Answering(a)') + (IF Answers(run[r], a) THEN 1 ELSE 0)
            = Cardinality(Answering(a)) + (IF Answers(run'[r], a) THEN 1 ELSE 0)
  BY <1>0, <1>2, CountStep
<1>6. /\ Cardinality(TimedOut(a)) \in Nat /\ Cardinality(TimedOut(a)') \in Nat
      /\ Cardinality(TimedOut(a)') + (IF TimesOut(run[r], a) THEN 1 ELSE 0)
            = Cardinality(TimedOut(a)) + (IF TimesOut(run'[r], a) THEN 1 ELSE 0)
  BY <1>0, <1>3, CountStep
<1> QED BY <1>4, <1>5, <1>6 DEF RunLoad, Weight

LEMMA BudgetCount ==
  ASSUME NEW a \in Assets
  PROVE  (RunsInv => Budget(a) \in Nat) /\ (RunsInv' => Budget(a)' \in Nat)
<1>0. \A c, d, t, k \in Nat : 1 + (c + d + t) + t + k \in Nat OBVIOUS
<1>1. ASSUME RunsInv PROVE Budget(a) \in Nat
  <2>1. crashes \in Nat /\ dbFailures \in Nat /\ timeouts \in Nat /\ composed[a] \in Nat
    BY <1>1, RunsInvFields
  <2>2. Budget(a) = 1 + (crashes + dbFailures + timeouts) + timeouts + composed[a]
    BY DEF Budget, PipelineFaults
  <2> QED BY <1>0, <2>1, <2>2
<1>2. ASSUME RunsInv' PROVE Budget(a)' \in Nat
  <2>1. crashes' \in Nat /\ dbFailures' \in Nat /\ timeouts' \in Nat /\ composed'[a] \in Nat
    BY <1>2 DEF RunsInv, PipelineTypeOK, LibraryTypeOK
  <2>2. Budget(a)' = 1 + (crashes' + dbFailures' + timeouts') + timeouts' + composed'[a]
    BY DEF Budget, PipelineFaults
  <2> QED BY <1>0, <2>1, <2>2
<1> QED BY <1>1, <1>2

\* The asset's budget grows with faults and compositions alone.
LEMMA BudgetStep ==
  ASSUME RunsInv, NEW a \in Assets
  PROVE  /\ Budget(a) \in Nat
         /\ UNCHANGED <<faultVars, timeouts, composed>> => Budget(a)' = Budget(a)
         /\ (crashes' = crashes + 1 /\ dbFailures' = dbFailures
                /\ UNCHANGED <<timeouts, composed>>)
               => Budget(a)' = Budget(a) + 1
         /\ (crashes' = crashes /\ dbFailures' = dbFailures + 1
                /\ UNCHANGED <<timeouts, composed>>)
               => Budget(a)' = Budget(a) + 1
         /\ UNCHANGED <<faultVars, composed>> /\ timeouts' = timeouts + 1
               => Budget(a)' = Budget(a) + 2
         /\ UNCHANGED <<faultVars, timeouts>> /\ composed'[a] = composed[a] + 1
               => Budget(a)' = Budget(a) + 1
         /\ UNCHANGED <<faultVars, timeouts>> /\ composed'[a] = composed[a]
               => Budget(a)' = Budget(a)
<1>1. crashes \in Nat /\ dbFailures \in Nat /\ timeouts \in Nat /\ composed[a] \in Nat
  BY RunsInvFields
<1>2. Budget(a) = 1 + (crashes + dbFailures + timeouts) + timeouts + composed[a]
  BY DEF Budget, PipelineFaults
<1>3. Budget(a)' = 1 + (crashes' + dbFailures' + timeouts') + timeouts' + composed'[a]
  BY DEF Budget, PipelineFaults
<1>4. faultVars' = faultVars <=> crashes' = crashes /\ dbFailures' = dbFailures
  BY DEF faultVars
<1>5. Budget(a) \in Nat BY BudgetCount
<1>6. \A c, d, t, k \in Nat :
         /\ 1 + (c + 1 + d + t) + t + k = 1 + (c + d + t) + t + k + 1
         /\ 1 + (c + (d + 1) + t) + t + k = 1 + (c + d + t) + t + k + 1
         /\ 1 + (c + d + (t + 1)) + (t + 1) + k = 1 + (c + d + t) + t + k + 2
         /\ 1 + (c + d + t) + t + (k + 1) = 1 + (c + d + t) + t + k + 1
  OBVIOUS
<1>7. ASSUME UNCHANGED <<faultVars, timeouts>>, composed'[a] = composed[a]
      PROVE  Budget(a)' = Budget(a)
  BY <1>2, <1>3, <1>4, <1>7
<1>8. ASSUME crashes' = crashes + 1, dbFailures' = dbFailures, UNCHANGED <<timeouts, composed>>
      PROVE  Budget(a)' = Budget(a) + 1
  BY <1>1, <1>2, <1>3, <1>6, <1>8
<1>9. ASSUME crashes' = crashes, dbFailures' = dbFailures + 1, UNCHANGED <<timeouts, composed>>
      PROVE  Budget(a)' = Budget(a) + 1
  BY <1>1, <1>2, <1>3, <1>6, <1>9
<1>10. ASSUME UNCHANGED <<faultVars, composed>>, timeouts' = timeouts + 1
       PROVE  Budget(a)' = Budget(a) + 2
  BY <1>1, <1>2, <1>3, <1>4, <1>6, <1>10
<1>11. ASSUME UNCHANGED <<faultVars, timeouts>>, composed'[a] = composed[a] + 1
       PROVE  Budget(a)' = Budget(a) + 1
  BY <1>1, <1>2, <1>3, <1>4, <1>6, <1>11
<1> HIDE DEF Budget
<1> QED BY <1>5, <1>7, <1>8, <1>9, <1>10, <1>11

LEMMA PostsOfCount == RunsInv => \A a : Cardinality(PostsOf(a)) \in Nat
BY RunsInvFields, PostCounts DEF PostsOf

LEMMA ReopenBit == \A a : Reopen(a) \in 0..1 /\ Reopen(a)' \in 0..1
BY DEF Reopen

\* The account of one asset over a step of one run that makes no post of it.
LEMMA Balance ==
  ASSUME RunsInv, RunsInv', NEW a \in Assets, Within(a), NEW r \in Runs, OtherRuns(r),
         PostsOf(a)' = PostsOf(a), Budget(a) <= Budget(a)',
         a \in Rows' => a \in Rows,
         a \in Rows' => Weight(run'[r], a) + Reopen(a)' + Budget(a)
                           <= Weight(run[r], a) + Reopen(a) + Budget(a)'
  PROVE  Within(a)'
<1> DEFINE n == Cardinality(PostsOf(a))
<1>1. n \in Nat /\ Cardinality(PostsOf(a)') = n BY PostsOfCount
<1>2. /\ RunLoad(a) \in Nat /\ RunLoad(a)' \in Nat
      /\ RunLoad(a)' + Weight(run[r], a) = RunLoad(a) + Weight(run'[r], a)
  BY LoadStep
<1>3. Weight(run[r], a) \in Nat /\ Weight(run'[r], a) \in Nat
  <2>1. Weight(run[r], a) \in 0..3 /\ Weight(run'[r], a) \in 0..3 BY Weights
  <2> QED BY <2>1
<1>4. Reopen(a) \in Nat /\ Reopen(a)' \in Nat
  <2>1. Reopen(a) \in 0..1 /\ Reopen(a)' \in 0..1 BY ReopenBit
  <2> QED BY <2>1
<1>5. Budget(a) \in Nat /\ Budget(a)' \in Nat BY BudgetCount
<1>6. n <= Budget(a) /\ (a \in Rows => n + RunLoad(a) + Reopen(a) <= Budget(a))
  BY DEF Within
<1> HIDE DEF n
<1>7. n <= Budget(a)' BY <1>1, <1>5, <1>6
<1>8. ASSUME a \in Rows' PROVE n + RunLoad(a)' + Reopen(a)' <= Budget(a)'
  <2>1. n + RunLoad(a) + Reopen(a) <= Budget(a) BY <1>6, <1>8
  <2>2. Weight(run'[r], a) + Reopen(a)' + Budget(a)
           <= Weight(run[r], a) + Reopen(a) + Budget(a)'
    BY <1>8
  <2>3. \A m, l, k, w, v, x, y, b, c \in Nat :
           /\ k + w = l + v /\ m + l + x <= b /\ v + y + b <= w + x + c
           => m + k + y <= c
    OBVIOUS
  <2> QED BY <1>1, <1>2, <1>3, <1>4, <1>5, <2>1, <2>2, <2>3
<1> QED BY <1>1, <1>7, <1>8 DEF Within

\* When the rows stay, an asset reopens only because a run lets go of it.
LEMMA ReopenKept ==
  ASSUME NEW a \in Assets, NEW r \in Runs, OtherRuns(r),
         mstatus'[a] = mstatus[a], stale'[a] = stale[a], link'[a] = link[a],
         Minds(run[r], a) => Minds(run'[r], a)
  PROVE  Reopen(a)' <= Reopen(a)
<1>1. (\E x \in Runs : Minds(run[x], a)) => \E x \in Runs : Minds(run'[x], a)
  <2> SUFFICES ASSUME NEW x \in Runs, Minds(run[x], a)
               PROVE  \E y \in Runs : Minds(run'[y], a)
    OBVIOUS
  <2>1. CASE x = r BY <2>1
  <2>2. CASE x # r
    <3>1. run'[x] = run[x] BY <2>2 DEF OtherRuns
    <3> QED BY <3>1
  <2> QED BY <2>1, <2>2
<1>2. Reopens(a)' => Reopens(a) BY <1>1 DEF Reopens, Minds
<1> QED BY <1>2 DEF Reopen

\* A step that moves a run and leaves rows and budget alone.
LEMMA Quiet ==
  ASSUME RunsInv, RunsInv', NEW a \in Assets, Within(a), NEW r \in Runs, OtherRuns(r),
         PostsOf(a)' = PostsOf(a), Budget(a) <= Budget(a)', a \in Rows' => a \in Rows,
         mstatus'[a] = mstatus[a], stale'[a] = stale[a], link'[a] = link[a],
         Minds(run[r], a) => Minds(run'[r], a), Eases(run'[r], run[r], a)
  PROVE  Within(a)'
<1>1. /\ Weight(run'[r], a) <= Weight(run[r], a)
      /\ Weight(run[r], a) \in 0..3 /\ Weight(run'[r], a) \in 0..3
  BY Weights
<1>2. Reopen(a)' <= Reopen(a) /\ Reopen(a) \in 0..1 /\ Reopen(a)' \in 0..1
  BY ReopenKept, ReopenBit
<1>3. Budget(a) \in Nat /\ Budget(a)' \in Nat BY BudgetCount
<1>4. Weight(run'[r], a) + Reopen(a)' + Budget(a)
         <= Weight(run[r], a) + Reopen(a) + Budget(a)'
  BY <1>1, <1>2, <1>3
<1> QED BY <1>4, Balance

\* A step by which a run gives up its hold on an asset, which may reopen.
LEMMA GivesUp ==
  ASSUME RunsInv, RunsInv', NEW a \in Assets, Within(a), NEW r \in Runs, OtherRuns(r),
         PostsOf(a)' = PostsOf(a), Budget(a)' = Budget(a), a \in Rows' => a \in Rows,
         Eases(run'[r], run[r], a),
         \/ Carries(run[r], a) /\ ~Carries(run'[r], a)
         \/ Answers(run[r], a) /\ ~Answers(run'[r], a)
         \/ TimesOut(run[r], a) /\ ~TimesOut(run'[r], a)
  PROVE  Within(a)'
<1>1. /\ Weight(run'[r], a) + 1 <= Weight(run[r], a)
      /\ Weight(run[r], a) \in 0..3 /\ Weight(run'[r], a) \in 0..3
  BY Weights
<1>2. Reopen(a) \in 0..1 /\ Reopen(a)' \in 0..1 BY ReopenBit
<1>3. Budget(a) \in Nat BY BudgetCount
<1>4. Weight(run'[r], a) + Reopen(a)' + Budget(a)
         <= Weight(run[r], a) + Reopen(a) + Budget(a)'
  BY <1>1, <1>2, <1>3
<1>5. Budget(a) <= Budget(a)' BY <1>3
<1> QED BY <1>4, <1>5, Balance

\* A step that leaves an asset of the run closed.
LEMMA Closes ==
  ASSUME RunsInv, RunsInv', NEW a \in Assets, Within(a), NEW r \in Runs, OtherRuns(r),
         PostsOf(a)' = PostsOf(a), Budget(a)' = Budget(a), a \in Rows' => a \in Rows,
         a \in Rows' => ~Reopens(a)',
         \/ Eases(run'[r], run[r], a)
         \/ /\ a \in Rows' => Reopens(a)
            /\ Answers(run'[r], a) => Answers(run[r], a)
            /\ TimesOut(run'[r], a) => TimesOut(run[r], a)
  PROVE  Within(a)'
<1>1. Weight(run[r], a) \in 0..3 /\ Weight(run'[r], a) \in 0..3 BY Weights
<1>2. a \in Rows' => Reopen(a)' = 0 BY DEF Reopen
<1>3. Budget(a) \in Nat /\ Reopen(a) \in 0..1 BY BudgetCount, ReopenBit
<1>4. ASSUME a \in Rows' PROVE Weight(run'[r], a) <= Weight(run[r], a) + Reopen(a)
  <2>1. CASE Eases(run'[r], run[r], a)
    <3>1. Weight(run'[r], a) <= Weight(run[r], a) BY <2>1, Weights
    <3> QED BY <1>1, <1>3, <3>1
  <2>2. CASE ~Eases(run'[r], run[r], a)
    <3>1. Reopen(a) = 1 BY <1>4, <2>2 DEF Reopen
    <3>2. Weight(run'[r], a) <= Weight(run[r], a) + 1 BY <2>2, Weights
    <3> QED BY <3>1, <3>2
  <2> QED BY <2>1, <2>2
<1>5. a \in Rows' => Weight(run'[r], a) + Reopen(a)' + Budget(a)
                        <= Weight(run[r], a) + Reopen(a) + Budget(a)'
  BY <1>1, <1>2, <1>3, <1>4
<1>6. Budget(a) <= Budget(a)' BY <1>3
<1> QED BY <1>5, <1>6, Balance

\* A fault, or a composition, pays for one hold more, or for one claim more.
LEMMA Pays ==
  ASSUME RunsInv, RunsInv', NEW a \in Assets, Within(a), NEW r \in Runs, OtherRuns(r),
         PostsOf(a)' = PostsOf(a), Budget(a)' = Budget(a) + 1, a \in Rows' => a \in Rows,
         \/ Eases(run'[r], run[r], a)
         \/ /\ Reopen(a)' <= Reopen(a)
            /\ Answers(run'[r], a) => Answers(run[r], a)
            /\ TimesOut(run'[r], a) => TimesOut(run[r], a)
  PROVE  Within(a)'
<1>1. Weight(run[r], a) \in 0..3 /\ Weight(run'[r], a) \in 0..3 BY Weights
<1>2. Reopen(a) \in 0..1 /\ Reopen(a)' \in 0..1 BY ReopenBit
<1>3. Budget(a) \in Nat BY BudgetCount
<1>4. Weight(run'[r], a) + Reopen(a)' <= Weight(run[r], a) + Reopen(a) + 1
  <2>1. CASE Eases(run'[r], run[r], a)
    <3>1. Weight(run'[r], a) <= Weight(run[r], a) BY <2>1, Weights
    <3> QED BY <1>1, <1>2, <3>1
  <2>2. CASE ~Eases(run'[r], run[r], a)
    <3>1. Weight(run'[r], a) <= Weight(run[r], a) + 1 BY <2>2, Weights
    <3>2. Reopen(a)' <= Reopen(a) BY <2>2
    <3> QED BY <1>1, <1>2, <3>1, <3>2
  <2> QED BY <2>1, <2>2
<1>5. Weight(run'[r], a) + Reopen(a)' + Budget(a)
         <= Weight(run[r], a) + Reopen(a) + Budget(a)'
  BY <1>1, <1>2, <1>3, <1>4
<1>6. Budget(a) <= Budget(a)' BY <1>3
<1> QED BY <1>5, <1>6, Balance

LEMMA SamePosts == posts' = posts => \A a : PostsOf(a)' = PostsOf(a)
BY DEF PostsOf

\* A run that ends holds nothing more but the answer it may still wait for.
LEMMA EndEases ==
  ASSUME RunsInv, NEW r \in Runs, End(r) \/ run' = [run EXCEPT ![r] = NoRun]
  PROVE  /\ OtherRuns(r) /\ run'[r].media \subseteq run[r].media
         /\ \A a : Eases(run'[r], run[r], a) /\ ~Carries(run'[r], a)
<1>1. CASE run'[r] = NoRun /\ OtherRuns(r)
  <2>1. run'[r].media = {} BY <1>1 DEF NoRun
  <2> QED BY <1>1, <2>1 DEF Eases, Carries, Answers, TimesOut
<1>2. CASE OtherRuns(r) /\ run'[r].pc = "late" /\ SameRun(run'[r], run[r])
  BY <1>2 DEF SameRun, Eases, Carries, Answers, TimesOut
<1> QED BY <1>1, <1>2, Ends, Gone

\* An asset that the run is not about.
LEMMA Apart ==
  ASSUME RunsInv, RunsInv', NEW a \in Assets, Within(a), NEW r \in Runs, OtherRuns(r),
         PostsOf(a)' = PostsOf(a), Budget(a) <= Budget(a)', a \in Rows' => a \in Rows,
         mstatus'[a] = mstatus[a], stale'[a] = stale[a], link'[a] = link[a],
         run'[r].media \subseteq run[r].media, a \notin run[r].media
  PROVE  Within(a)'
<1>1. a \notin run'[r].media OBVIOUS
<1>2. (Minds(run[r], a) => Minds(run'[r], a)) /\ Eases(run'[r], run[r], a)
  BY <1>1 DEF Minds, Eases, Carries, Answers, TimesOut
<1> QED BY <1>2, Quiet

\* A step that moves a run, and touches no row.
LEMMA QuietStep ==
  ASSUME RunsInv, RunsInv', PostsInv, NEW r \in Runs, OtherRuns(r), posts' = posts,
         UNCHANGED <<mstatus, stale, link, faultVars, timeouts, composed>>,
         \A a \in Assets : /\ Minds(run[r], a) => Minds(run'[r], a)
                           /\ Eases(run'[r], run[r], a)
  PROVE  PostsInv'
<1> SUFFICES ASSUME NEW a \in Assets PROVE Within(a)'
  BY DEF PostsInv
<1>1. Within(a) BY DEF PostsInv
<1>2. PostsOf(a)' = PostsOf(a) BY SamePosts
<1>3. Budget(a) \in Nat /\ Budget(a)' = Budget(a) BY BudgetStep
<1>4. Budget(a) <= Budget(a)' BY <1>3
<1>5. a \in Rows' => a \in Rows BY DEF Rows, Present
<1> QED BY <1>1, <1>2, <1>4, <1>5, Quiet

\* A step that marks the assets of the run as it moves.
LEMMA MarkStep ==
  ASSUME RunsInv, RunsInv', PostsInv, NEW r \in Runs, OtherRuns(r), posts' = posts,
         UNCHANGED <<faultVars, timeouts, composed>>,
         NEW s \in MediaStatus, Mark(run[r].media, s),
         \A a \in Assets \ run[r].media : link'[a] = link[a],
         run'[r].media \subseteq run[r].media,
         \A a \in run[r].media \cap Assets :
            \/ /\ Eases(run'[r], run[r], a)
               /\ \/ Carries(run[r], a) /\ ~Carries(run'[r], a)
                  \/ Answers(run[r], a) /\ ~Answers(run'[r], a)
            \/ /\ a \in Rows' => ~Reopens(a)'
               /\ \/ Eases(run'[r], run[r], a)
                  \/ /\ a \in Rows' => Reopens(a)
                     /\ Answers(run'[r], a) => Answers(run[r], a)
                     /\ TimesOut(run'[r], a) => TimesOut(run[r], a)
  PROVE  PostsInv'
<1> SUFFICES ASSUME NEW a \in Assets PROVE Within(a)'
  BY DEF PostsInv
<1>1. Within(a) BY DEF PostsInv
<1>2. PostsOf(a)' = PostsOf(a) BY SamePosts
<1>3. Budget(a) \in Nat /\ Budget(a)' = Budget(a) BY BudgetStep
<1>4. Budget(a) <= Budget(a)' BY <1>3
<1>5. Rows' = Rows BY Marked
<1>6. CASE a \notin run[r].media
  <2>1. mstatus'[a] = mstatus[a] /\ stale'[a] = stale[a] BY <1>6, Marked
  <2>2. link'[a] = link[a] BY <1>6
  <2> QED BY <1>1, <1>2, <1>4, <1>5, <1>6, <2>1, <2>2, Apart
<1>7. CASE /\ Eases(run'[r], run[r], a)
           /\ \/ Carries(run[r], a) /\ ~Carries(run'[r], a)
              \/ Answers(run[r], a) /\ ~Answers(run'[r], a)
  BY <1>1, <1>2, <1>3, <1>5, <1>7, GivesUp
<1>8. CASE /\ a \in Rows' => ~Reopens(a)'
           /\ \/ Eases(run'[r], run[r], a)
              \/ /\ a \in Rows' => Reopens(a)
                 /\ Answers(run'[r], a) => Answers(run[r], a)
                 /\ TimesOut(run'[r], a) => TimesOut(run[r], a)
  BY <1>1, <1>2, <1>3, <1>5, <1>8, Closes
<1> QED BY <1>6, <1>7, <1>8

\* A run lets go of its assets without touching their rows.
LEMMA LetGo ==
  ASSUME RunsInv, RunsInv', PostsInv, NEW r \in Runs, OtherRuns(r), posts' = posts,
         UNCHANGED <<mstatus, stale, link, faultVars, timeouts, composed>>,
         run'[r].media \subseteq run[r].media,
         \A a \in run[r].media \cap Assets :
               /\ Eases(run'[r], run[r], a)
               /\ \/ Carries(run[r], a) /\ ~Carries(run'[r], a)
                  \/ TimesOut(run[r], a) /\ ~TimesOut(run'[r], a)
  PROVE  PostsInv'
<1> SUFFICES ASSUME NEW a \in Assets PROVE Within(a)'
  BY DEF PostsInv
<1>1. Within(a) BY DEF PostsInv
<1>2. PostsOf(a)' = PostsOf(a) BY SamePosts
<1>3. Budget(a) \in Nat /\ Budget(a)' = Budget(a) BY BudgetStep
<1>4. Budget(a) <= Budget(a)' BY <1>3
<1>5. a \in Rows' => a \in Rows BY DEF Rows, Present
<1>6. CASE a \notin run[r].media BY <1>1, <1>2, <1>4, <1>5, <1>6, Apart
<1>7. CASE a \in run[r].media BY <1>1, <1>2, <1>3, <1>5, <1>7, GivesUp
<1> QED BY <1>6, <1>7

\* A fault moves a run, and touches no row.
LEMMA FaultStep ==
  ASSUME RunsInv, RunsInv', PostsInv, NEW r \in Runs, OtherRuns(r), posts' = posts,
         UNCHANGED <<mstatus, stale, link>>,
         \A a \in Assets : Budget(a)' = Budget(a) + 1,
         \A a \in Assets :
            \/ Eases(run'[r], run[r], a)
            \/ /\ Minds(run[r], a) => Minds(run'[r], a)
               /\ Answers(run'[r], a) => Answers(run[r], a)
               /\ TimesOut(run'[r], a) => TimesOut(run[r], a)
  PROVE  PostsInv'
<1> SUFFICES ASSUME NEW a \in Assets PROVE Within(a)'
  BY DEF PostsInv
<1>1. Within(a) BY DEF PostsInv
<1>2. PostsOf(a)' = PostsOf(a) BY SamePosts
<1>3. Budget(a)' = Budget(a) + 1 OBVIOUS
<1>4. a \in Rows' => a \in Rows BY DEF Rows, Present
<1>5. CASE Eases(run'[r], run[r], a) BY <1>1, <1>2, <1>3, <1>4, <1>5, Pays
<1>6. CASE /\ Minds(run[r], a) => Minds(run'[r], a)
           /\ Answers(run'[r], a) => Answers(run[r], a)
           /\ TimesOut(run'[r], a) => TimesOut(run[r], a)
  <2>1. Reopen(a)' <= Reopen(a) BY <1>6, ReopenKept
  <2> QED BY <1>1, <1>2, <1>3, <1>4, <1>6, <2>1, Pays
<1> QED BY <1>5, <1>6

\* The step that makes the post.
LEMMA MakesPost ==
  ASSUME RunsInv, RunsInv', PostsInv, NEW r \in Runs, OtherRuns(r),
         NEW e \in Post, posts' = Append(posts, e),
         e.media \subseteq run[r].media, e.media \subseteq Rows,
         UNCHANGED <<mstatus, stale, link, faultVars, timeouts, composed>>,
         \A a \in Assets : /\ Minds(run[r], a) => Minds(run'[r], a)
                           /\ Eases(run'[r], run[r], a)
                           /\ a \in e.media => Carries(run[r], a) /\ ~Carries(run'[r], a)
  PROVE  PostsInv'
<1> SUFFICES ASSUME NEW a \in Assets PROVE Within(a)'
  BY DEF PostsInv
<1> DEFINE k == Len(posts) + 1
<1>0. Within(a) BY DEF PostsInv
<1>1. /\ DOMAIN posts' = DOMAIN posts \cup {k} /\ k \notin DOMAIN posts
      /\ posts'[k] = e /\ \A q \in DOMAIN posts : posts'[q] = posts[q]
  BY RunsInvFields, PostAdded
<1> HIDE DEF k
<1>2. Budget(a) \in Nat /\ Budget(a)' = Budget(a) BY BudgetStep
<1>3. Budget(a) <= Budget(a)' BY <1>2
<1>4. a \in Rows' => a \in Rows BY DEF Rows, Present
<1>5. Minds(run[r], a) => Minds(run'[r], a) OBVIOUS
<1>6. Eases(run'[r], run[r], a) OBVIOUS
<1>7. CASE a \notin e.media
  <2>1. PostsOf(a)' = PostsOf(a) BY <1>1, <1>7 DEF PostsOf
  <2> QED BY <1>0, <1>3, <1>4, <1>5, <1>6, <2>1, Quiet
<1>8. CASE a \in e.media
  <2>1. PostsOf(a)' \subseteq PostsOf(a) \cup {k} BY <1>1 DEF PostsOf
  <2>2. IsFiniteSet(PostsOf(a)) BY RunsInvFields, PostCounts DEF PostsOf
  <2> DEFINE n == Cardinality(PostsOf(a))
             m == Cardinality(PostsOf(a)')
  <2>3. n \in Nat /\ m \in Nat /\ m <= n + 1 BY <2>1, <2>2, OneMore
  <2>4. /\ RunLoad(a) \in Nat /\ RunLoad(a)' \in Nat
        /\ RunLoad(a)' + Weight(run[r], a) = RunLoad(a) + Weight(run'[r], a)
    BY LoadStep
  <2>5. /\ Weight(run'[r], a) + 1 <= Weight(run[r], a)
        /\ Weight(run[r], a) \in 0..3 /\ Weight(run'[r], a) \in 0..3
    BY <1>6, <1>8, Weights
  <2>6. Reopen(a)' <= Reopen(a) /\ Reopen(a) \in 0..1 /\ Reopen(a)' \in 0..1
    BY <1>5, ReopenKept, ReopenBit
  <2>7. n + RunLoad(a) + Reopen(a) <= Budget(a) BY <1>0, <1>8 DEF Within
  <2> HIDE DEF n, m
  <2>8. /\ Weight(run[r], a) \in Nat /\ Weight(run'[r], a) \in Nat
        /\ Reopen(a) \in Nat /\ Reopen(a)' \in Nat
    BY <2>5, <2>6
  <2>9. \A l, h, w, v \in Nat : h + w = l + v /\ v + 1 <= w => h + 1 <= l OBVIOUS
  <2>10. RunLoad(a)' + 1 <= RunLoad(a) BY <2>4, <2>5, <2>8, <2>9
  <2>11. \A i, j, l, h, x, y, b \in Nat :
           j <= i + 1 /\ h + 1 <= l /\ y <= x /\ i + l + x <= b => j + h + y <= b /\ j <= b
    <3> TAKE i, j, l, h, x, y, b \in Nat
    <3> HAVE j <= i + 1 /\ h + 1 <= l /\ y <= x /\ i + l + x <= b
    <3>1. j + h <= i + l OBVIOUS
    <3> QED BY <3>1
  <2>12. m + RunLoad(a)' + Reopen(a)' <= Budget(a) /\ m <= Budget(a)
    BY <1>2, <2>3, <2>4, <2>6, <2>7, <2>8, <2>10, <2>11
  <2> QED BY <1>2, <2>12 DEF Within, m
<1> QED BY <1>7, <1>8

\* What a run's assets hold once they have been marked, as far as they exist.
LEMMA MarkedAs ==
  ASSUME RunsInv, NEW S, NEW s \in MediaStatus, Mark(S, s), NEW a \in Assets, a \in S,
         a \in Rows'
  PROVE  mstatus'[a] = s /\ stale'[a] = FALSE
<1>1. Rows' = Rows BY Marked
<1>2. a \in S \cap Rows BY <1>1
<1> QED BY <1>2 DEF Mark

LEMMA PostsStep ==
  ASSUME RunsInv, RunsInv', PostsInv, NEW r \in Runs,
         \/ Step(r) \/ TimerFires(r) \/ Freeze(r) \/ CrashRun(r) \/ StatementFails(r)
  PROVE  PostsInv'
<1>0. /\ Placed(run[r]) /\ run[r] \in Run /\ run[r].media \subseteq Assets
      /\ posts \in Seq(Post) /\ Len(posts) \in Nat
      /\ run[r].kind \in {"none", "auto", "compose", "draft"}
  BY RunFields, RunsInvFields
<1>1. ASSUME NEW l \in RunSteps, Go(r, l)
      PROVE  /\ OtherRuns(r) /\ run'[r].pc = l /\ SameRun(run'[r], run[r])
             /\ run'[r].media = run[r].media /\ run'[r].kind = run[r].kind
             /\ \A a : /\ Answers(run'[r], a) => Answers(run[r], a)
                       /\ TimesOut(run'[r], a) => TimesOut(run[r], a)
  <2>1. OtherRuns(r) /\ run'[r].pc = l /\ SameRun(run'[r], run[r]) BY <1>1, Goes
  <2> QED BY <2>1 DEF SameRun, Answers, TimesOut
<1>2. {"reserve", "refused", "mark", "generate", "fail", "link", "downgrade"} \subseteq RunSteps
  BY DEF RunSteps
<1>3. {"PROCESSING", "FAILED", "READY", "SCHEDULED"} \subseteq MediaStatus
  BY DEF MediaStatus
<1>4. mstatus \in [Assets -> MediaStatus \cup {"ABSENT", "DELETED"}] /\ stale \in [Assets -> BOOLEAN]
  BY RunsInvFields
\* What the assets of a run become: READY and SCHEDULED are not claimed again.
<1>5. ASSUME Mark(run[r].media, "READY") \/ Mark(run[r].media, "SCHEDULED"),
             NEW a \in run[r].media, a \in Rows'
      PROVE  ~Reopens(a)'
  <2>0. a \in Assets /\ a \in run[r].media /\ a \in Rows' BY <1>0, <1>5
  <2>1. "READY" \in MediaStatus /\ "SCHEDULED" \in MediaStatus BY <1>3
  <2>2. ASSUME Mark(run[r].media, "READY") PROVE ~Reopens(a)'
    <3>1. mstatus'[a] = "READY" /\ stale'[a] = FALSE BY <2>0, <2>1, <2>2, MarkedAs
    <3> QED BY <3>1 DEF Reopens
  <2>3. ASSUME Mark(run[r].media, "SCHEDULED") PROVE ~Reopens(a)'
    <3>1. mstatus'[a] = "SCHEDULED" /\ stale'[a] = FALSE BY <2>0, <2>1, <2>3, MarkedAs
    <3> QED BY <3>1 DEF Reopens
  <2> QED BY <1>5, <2>2, <2>3
<1>6. ASSUME Mark(run[r].media, "PROCESSING"), NEW a \in run[r].media, a \in Rows',
             Minds(run'[r], a)
      PROVE  ~Reopens(a)'
  <2>0. a \in Assets /\ a \in run[r].media /\ a \in Rows' BY <1>0, <1>6
  <2>1. "PROCESSING" \in MediaStatus BY <1>3
  <2>2. Mark(run[r].media, "PROCESSING") BY <1>6
  <2>3. mstatus'[a] = "PROCESSING" /\ stale'[a] = FALSE BY <2>0, <2>1, <2>2, MarkedAs
  <2> QED BY <1>6, <2>3 DEF Reopens, Minds
<1>7. ASSUME End(r), posts' = posts, ~\E a \in Assets : Minds(run[r], a),
             UNCHANGED <<mstatus, stale, link, faultVars, timeouts, composed>>
      PROVE  PostsInv'
  <2>1. OtherRuns(r) /\ \A a : Eases(run'[r], run[r], a) BY <1>7, EndEases
  <2> QED BY <1>7, <2>1, QuietStep
<1>8. CASE ClaimAsset(r)
  <2>0. run[r].pc = "claim" /\ run[r].kind = "auto"
    BY <1>0, <1>8 DEF ClaimAsset, OnRun, Placed
  <2>1. TheAsset(r) \in Assets /\ run[r].media = {TheAsset(r)}
    BY <1>0, <2>0 DEF Placed, TheAsset
  <2>2. posts' = posts /\ UNCHANGED <<link, faultVars, timeouts, composed>>
    BY <1>8 DEF ClaimAsset
  <2>3. CASE End(r) /\ UNCHANGED <<mstatus, stale>>
    <3>1. ~\E a \in Assets : Minds(run[r], a) BY <2>0 DEF Minds
    <3> QED BY <1>7, <2>2, <2>3, <3>1
  <2>4. CASE /\ Recoverable(TheAsset(r)) \/ (mstatus[TheAsset(r)] = "FAILED" /\ link[TheAsset(r)] = 0)
             /\ Mark({TheAsset(r)}, "PROCESSING") /\ Go(r, "reserve")
    <3>1. /\ OtherRuns(r) /\ run'[r].pc = "reserve"
          /\ run'[r].media = run[r].media /\ run'[r].kind = run[r].kind
          /\ \A a : /\ Answers(run'[r], a) => Answers(run[r], a)
                    /\ TimesOut(run'[r], a) => TimesOut(run[r], a)
      BY <1>1, <1>2, <2>4
    <3>2. Mark(run[r].media, "PROCESSING") BY <2>1, <2>4
    <3>3. ASSUME NEW a \in run[r].media PROVE Minds(run'[r], a) /\ Reopens(a)
      <4>1. a = TheAsset(r) BY <2>1, <3>3
      <4>2. Minds(run'[r], a) BY <2>0, <3>1, <3>3 DEF Minds
      <4> QED BY <2>4, <4>1, <4>2 DEF Reopens, Recoverable
    <3>4. \A a \in run[r].media : a \in Rows' => ~Reopens(a)' BY <1>6, <3>2, <3>3
    <3> QED BY <1>3, <2>2, <3>1, <3>2, <3>3, <3>4, MarkStep
  <2> QED BY <1>8, <2>3, <2>4 DEF ClaimAsset
<1>9. CASE ReserveAi(r)
  <2>0. /\ run[r].pc = "reserve" /\ posts' = posts
        /\ UNCHANGED <<mstatus, stale, link, faultVars, timeouts, composed>>
    BY <1>9 DEF ReserveAi, OnRun
  <2>1. CASE End(r) /\ run[r].kind = "compose"
    <3>1. ~\E a \in Assets : Minds(run[r], a) BY <2>0, <2>1 DEF Minds
    <3> QED BY <1>7, <2>0, <2>1, <3>1
  <2>2. ASSUME NEW l \in {"mark", "generate", "refused"}, Go(r, l),
               l = "mark" => run[r].kind = "compose"
        PROVE  PostsInv'
    <3>1. /\ OtherRuns(r) /\ run'[r].pc = l
          /\ run'[r].media = run[r].media /\ run'[r].kind = run[r].kind
          /\ \A a : /\ Answers(run'[r], a) => Answers(run[r], a)
                    /\ TimesOut(run'[r], a) => TimesOut(run[r], a)
      BY <1>1, <1>2, <2>2
    <3>2. \A a \in Assets : Minds(run[r], a) => Minds(run'[r], a)
      BY <2>0, <2>2, <3>1 DEF Minds
    <3>3. \A a \in Assets : Eases(run'[r], run[r], a)
      BY <2>0, <2>2, <3>1 DEF Eases, Carries
    <3> QED BY <2>0, <3>1, <3>2, <3>3, QuietStep
  <2>3. \/ End(r) /\ run[r].kind = "compose"
        \/ \E l \in {"mark", "generate", "refused"} :
              Go(r, l) /\ (l = "mark" => run[r].kind = "compose")
    BY <1>9 DEF ReserveAi
  <2> QED BY <2>1, <2>2, <2>3
<1>10. CASE Refuse(r)
  <2>0. /\ run[r].pc = "refused" /\ run[r].kind = "auto" /\ posts' = posts
        /\ UNCHANGED <<link, faultVars, timeouts, composed>>
        /\ Mark(run[r].media, "FAILED") /\ End(r)
    BY <1>0, <1>10 DEF Refuse, OnRun, Placed
  <2>1. /\ OtherRuns(r) /\ run'[r].media \subseteq run[r].media
        /\ \A a : Eases(run'[r], run[r], a) /\ ~Carries(run'[r], a)
    BY <2>0, EndEases
  <2>2. \A a \in run[r].media : Carries(run[r], a) BY <2>0 DEF Carries
  <2> QED BY <1>3, <2>0, <2>1, <2>2, MarkStep
<1>11. CASE MarkComposed(r)
  <2>0. /\ run[r].pc = "mark" /\ run[r].kind = "compose" /\ posts' = posts
        /\ UNCHANGED <<link, faultVars, timeouts, composed>>
        /\ Mark(run[r].media, "PROCESSING") /\ Go(r, "generate")
    BY <1>0, <1>11 DEF MarkComposed, OnRun, Placed
  <2>1. /\ OtherRuns(r) /\ run'[r].pc = "generate"
        /\ run'[r].media = run[r].media /\ run'[r].kind = run[r].kind
        /\ \A a : /\ Answers(run'[r], a) => Answers(run[r], a)
                  /\ TimesOut(run'[r], a) => TimesOut(run[r], a)
    BY <1>1, <1>2, <2>0
  <2>2. \A a \in run[r].media : Minds(run'[r], a) BY <2>0, <2>1 DEF Minds
  <2>3. \A a \in run[r].media : Eases(run'[r], run[r], a) BY <2>0, <2>1 DEF Eases, Carries
  <2>4. \A a \in run[r].media : a \in Rows' => ~Reopens(a)' BY <1>6, <2>0, <2>2
  <2> QED BY <1>3, <2>0, <2>1, <2>3, <2>4, MarkStep
<1>12. CASE Generate(r)
  <2>0. /\ posts' = posts /\ UNCHANGED <<mstatus, stale, link, faultVars, timeouts, composed>>
    BY <1>12 DEF Generate
  <2>1. /\ OtherRuns(r) /\ run[r].pc = "generate"
        /\ run'[r].pc \in {"slot", "release"} /\ Work(run'[r], run[r])
        /\ run'[r].timer = run[r].timer
    BY <1>12, GenerateMoves
  <2>2. \A a \in Assets : /\ Minds(run[r], a) => Minds(run'[r], a)
                          /\ Eases(run'[r], run[r], a)
    BY <2>1 DEF Work, Minds, Eases, Carries, Answers, TimesOut
  <2> QED BY <2>0, <2>1, <2>2, QuietStep
<1>13. CASE ReleaseAi(r)
  <2>0. /\ run[r].pc = "release" /\ posts' = posts /\ Go(r, "fail")
        /\ UNCHANGED <<mstatus, stale, link, faultVars, timeouts, composed>>
    BY <1>13 DEF ReleaseAi, OnRun
  <2>1. OtherRuns(r) /\ run'[r].pc = "fail" /\ SameRun(run'[r], run[r]) BY <1>1, <1>2, <2>0
  <2>2. \A a \in Assets : /\ Minds(run[r], a) => Minds(run'[r], a)
                          /\ Eases(run'[r], run[r], a)
    BY <2>0, <2>1 DEF SameRun, Minds, Eases, Carries, Answers, TimesOut
  <2> QED BY <2>0, <2>1, <2>2, QuietStep
<1>14. CASE PickSlot(r)
  <2>0. /\ posts' = posts /\ UNCHANGED <<mstatus, stale, link, faultVars, timeouts, composed>>
    BY <1>14 DEF PickSlot
  <2>1. /\ OtherRuns(r) /\ run[r].pc = "slot" /\ run'[r].pc = "create"
        /\ Work(run'[r], run[r]) /\ run'[r].timer = run[r].timer
    BY <1>14, SlotMoves
  <2>2. \A a \in Assets : /\ Minds(run[r], a) => Minds(run'[r], a)
                          /\ Eases(run'[r], run[r], a)
    BY <2>1 DEF Work, Minds, Eases, Carries, Answers, TimesOut
  <2> QED BY <2>0, <2>1, <2>2, QuietStep
<1>15. CASE CreatePost(r)
  <2>0. UNCHANGED <<mstatus, stale, link, faultVars, timeouts, composed>>
    BY <1>15 DEF CreatePost
  <2>1. /\ OtherRuns(r) /\ run[r].pc = "create"
        /\ run'[r].kind = run[r].kind /\ run'[r].media = run[r].media
        /\ run'[r].timer = run[r].timer
        /\ run'[r].pc \in {"credit", "link", "slot", "fail"}
    BY <1>15, CreateMoves
  <2>2. \A a \in Assets : /\ Minds(run[r], a) => Minds(run'[r], a)
                          /\ Eases(run'[r], run[r], a)
    BY <2>1 DEF Minds, Eases, Carries, Answers, TimesOut
  <2>3. CASE posts' = posts BY <2>0, <2>1, <2>2, <2>3, QuietStep
  <2>4. ASSUME NEW s \in StatusOf(r), NewPost(r, s) \in Post,
               posts' = Append(posts, NewPost(r, s)),
               run'[r].pc \in {"credit", "link"},
               run[r].kind = "draft" \/ run[r].media \subseteq Rows
        PROVE  PostsInv'
    <3>1. NewPost(r, s).media = IF run[r].kind = "draft" THEN {} ELSE run[r].media
      BY DEF NewPost
    <3>2. NewPost(r, s).media \subseteq run[r].media /\ NewPost(r, s).media \subseteq Rows
      BY <2>4, <3>1
    <3>3. \A a \in NewPost(r, s).media : Carries(run[r], a) /\ ~Carries(run'[r], a)
      BY <2>1, <2>4, <3>1 DEF Carries
    <3> QED BY <2>0, <2>1, <2>2, <2>4, <3>2, <3>3, MakesPost
  <2>5. posts' = posts
        \/ \E s \in StatusOf(r) :
              /\ NewPost(r, s) \in Post /\ posts' = Append(posts, NewPost(r, s))
              /\ run'[r].pc \in {"credit", "link"}
              /\ run[r].kind = "draft" \/ run[r].media \subseteq Rows
    BY <1>15, CreateMoves
  <2> QED BY <2>3, <2>4, <2>5
<1>16. CASE ReserveCredit(r)
  <2>0. /\ run[r].pc = "credit" /\ posts' = posts /\ (Go(r, "link") \/ Go(r, "downgrade"))
        /\ UNCHANGED <<mstatus, stale, link, faultVars, timeouts, composed>>
    BY <1>16 DEF ReserveCredit, OnRun
  <2>1. /\ OtherRuns(r) /\ run'[r].pc \in {"link", "downgrade"} /\ SameRun(run'[r], run[r])
    BY <1>1, <1>2, <2>0
  <2>2. \A a \in Assets : /\ Minds(run[r], a) => Minds(run'[r], a)
                          /\ Eases(run'[r], run[r], a)
    BY <2>0, <2>1 DEF SameRun, Minds, Eases, Carries, Answers, TimesOut
  <2> QED BY <2>0, <2>1, <2>2, QuietStep
<1>17. CASE Downgrade(r)
  <2>1. /\ OtherRuns(r) /\ run[r].pc = "downgrade" /\ run[r].post \in 1..Len(posts)
        /\ run'[r].pc = "link" /\ Work(run'[r], run[r]) /\ run'[r].timer = run[r].timer
    BY <1>17, DowngradeMoves
  <2>2. "NEEDS_APPROVAL" \in PostStatus BY DEF PostStatus
  <2>3. /\ posts' = [posts EXCEPT ![run[r].post].status = "NEEDS_APPROVAL"]
        /\ UNCHANGED <<mstatus, stale, link, faultVars, timeouts, composed>>
    BY <1>17 DEF Downgrade
  <2>4. /\ DOMAIN posts' = DOMAIN posts
        /\ \A q \in DOMAIN posts : posts'[q].media = posts[q].media
    BY <1>0, <2>1, <2>2, <2>3, PostMarked
  <2> SUFFICES ASSUME NEW a \in Assets PROVE Within(a)'
    BY DEF PostsInv
  <2>5. PostsOf(a)' = PostsOf(a) BY <2>4 DEF PostsOf
  <2>6. Within(a) BY DEF PostsInv
  <2>7. Budget(a) \in Nat /\ Budget(a)' = Budget(a) BY <2>3, BudgetStep
  <2>8. Budget(a) <= Budget(a)' BY <2>7
  <2>9. (Minds(run[r], a) => Minds(run'[r], a)) /\ Eases(run'[r], run[r], a)
    BY <2>1 DEF Work, Minds, Eases, Carries, Answers, TimesOut
  <2>10. a \in Rows' => a \in Rows BY <2>3 DEF Rows, Present
  <2> QED BY <2>1, <2>3, <2>5, <2>6, <2>8, <2>9, <2>10, Quiet
<1>18. CASE Link(r)
  <2>0. run[r].pc = "link" /\ posts' = posts /\ UNCHANGED <<faultVars, timeouts, composed>>
    BY <1>18 DEF Link, OnRun
  <2>1. ASSUME NEW s \in {"READY", "SCHEDULED"}, Mark(run[r].media, s), End(r),
               \A a \in Assets \ run[r].media : link'[a] = link[a]
        PROVE  PostsInv'
    <3>1. /\ OtherRuns(r) /\ run'[r].media \subseteq run[r].media
          /\ \A a : Eases(run'[r], run[r], a)
      BY <2>1, EndEases
    <3>2. Mark(run[r].media, "READY") \/ Mark(run[r].media, "SCHEDULED") BY <2>1
    <3>3. \A a \in run[r].media : a \in Rows' => ~Reopens(a)' BY <1>5, <3>2
    <3> QED BY <1>3, <2>0, <2>1, <3>1, <3>3, MarkStep
  <2>2. ASSUME Go(r, "fail"), UNCHANGED <<mstatus, stale, link>>, run[r].kind = "auto",
               ~ run[r].media \subseteq Rows
        PROVE  PostsInv'
    <3>1. /\ OtherRuns(r) /\ run'[r].media = run[r].media
          /\ \A a : /\ Answers(run'[r], a) => Answers(run[r], a)
                    /\ TimesOut(run'[r], a) => TimesOut(run[r], a)
      BY <1>1, <1>2, <2>2
    <3>2. \A a \in run[r].media : a \notin Rows BY <1>0, <2>2 DEF Placed
    <3>3. Rows' = Rows BY <2>2 DEF Rows, Present
    <3> SUFFICES ASSUME NEW a \in Assets PROVE Within(a)'
      BY DEF PostsInv
    <3>4. Within(a) BY DEF PostsInv
    <3>5. PostsOf(a)' = PostsOf(a) BY <2>0, SamePosts
    <3>6. Budget(a) \in Nat /\ Budget(a)' = Budget(a) BY <2>0, BudgetStep
    <3>7. Budget(a) <= Budget(a)' BY <3>6
    <3>8. CASE a \notin run[r].media
      BY <2>2, <3>1, <3>3, <3>4, <3>5, <3>7, <3>8, Apart
    <3>9. CASE a \in run[r].media
      BY <3>1, <3>2, <3>3, <3>4, <3>5, <3>6, <3>9, Closes
    <3> QED BY <3>8, <3>9
  <2>3. \/ /\ \E s \in {"READY", "SCHEDULED"} : Mark(run[r].media, s)
           /\ End(r) /\ \A a \in Assets \ run[r].media : link'[a] = link[a]
        \/ /\ Go(r, "fail") /\ UNCHANGED <<mstatus, stale, link>> /\ run[r].kind = "auto"
           /\ ~ run[r].media \subseteq Rows
    BY <1>18 DEF Link
  <2> QED BY <2>1, <2>2, <2>3
<1>19. CASE FailRun(r)
  <2>0. /\ run[r].pc = "fail" /\ End(r) /\ posts' = posts
        /\ UNCHANGED <<link, faultVars, timeouts, composed>>
    BY <1>19 DEF FailRun, OnRun
  <2>1. /\ OtherRuns(r) /\ run'[r].media \subseteq run[r].media
        /\ \A a : Eases(run'[r], run[r], a) /\ ~Carries(run'[r], a)
    BY <2>0, EndEases
  <2>2. CASE run[r].kind = "draft"
    <3>1. ~\E a \in Assets : Minds(run[r], a) BY <2>2 DEF Minds
    <3>2. UNCHANGED <<mstatus, stale>>
      <4>1. run[r].timer = "none" BY <1>0, <2>2 DEF Placed
      <4>2. run[r].timer # "armed" /\ run[r].kind # "compose" BY <2>2, <4>1
      <4> QED BY <1>19, <2>2, <4>2 DEF FailRun
    <3> QED BY <1>7, <2>0, <3>1, <3>2
  <2>3. CASE run[r].kind # "draft"
    <3>1. \A a \in run[r].media : Carries(run[r], a) BY <2>0, <2>3 DEF Carries
    <3>2. CASE UNCHANGED <<mstatus, stale>> BY <2>0, <2>1, <3>1, <3>2, LetGo
    <3>3. ASSUME NEW s \in {"FAILED", "READY"}, Mark(run[r].media, s) PROVE PostsInv'
      BY <1>3, <2>0, <2>1, <3>1, <3>3, MarkStep
    <3>4. UNCHANGED <<mstatus, stale>> \/ \E s \in {"FAILED", "READY"} : Mark(run[r].media, s)
      BY <1>19 DEF FailRun
    <3> QED BY <3>2, <3>3, <3>4
  <2> QED BY <2>2, <2>3
<1>20. CASE HandlerFails(r)
  <2>0. /\ Mark(run[r].media, "FAILED") /\ posts' = posts
        /\ UNCHANGED <<link, faultVars, timeouts, composed>>
    BY <1>20 DEF HandlerFails
  <2>1. /\ OtherRuns(r) /\ run[r].timer = "fired"
        /\ \/ run'[r] = NoRun
           \/ /\ run'[r].pc = run[r].pc /\ Work(run'[r], run[r]) /\ run'[r].timer = "written"
    BY <1>20, HandlerMoves
  <2>2. /\ run'[r].media \subseteq run[r].media
        /\ \A a \in run[r].media : /\ Eases(run'[r], run[r], a)
                                   /\ Answers(run[r], a) /\ ~Answers(run'[r], a)
    <3>1. CASE run'[r] = NoRun
      <4>1. run'[r].media = {} BY <3>1 DEF NoRun
      <4> QED BY <2>1, <4>1 DEF Eases, Carries, Answers, TimesOut
    <3>2. CASE run'[r].pc = run[r].pc /\ Work(run'[r], run[r]) /\ run'[r].timer = "written"
      BY <2>1, <3>2 DEF Work, Eases, Carries, Answers, TimesOut
    <3> QED BY <2>1, <3>1, <3>2
  <2> QED BY <1>3, <2>0, <2>1, <2>2, MarkStep
<1>21. CASE TimerFires(r)
  <2>1. /\ OtherRuns(r) /\ run'[r].pc = run[r].pc /\ Work(run'[r], run[r])
    BY <1>21, TimerMoves
  <2>2. /\ posts' = posts /\ UNCHANGED <<mstatus, stale, link, faultVars, composed>>
        /\ timeouts' = timeouts + 1
    BY <1>21 DEF TimerFires, rowVars
  <2> SUFFICES ASSUME NEW a \in Assets PROVE Within(a)'
    BY DEF PostsInv
  <2>3. Within(a) /\ PostsOf(a)' = PostsOf(a) BY <2>2, SamePosts DEF PostsInv
  <2>4. Budget(a) \in Nat /\ Budget(a)' = Budget(a) + 2 BY <2>2, BudgetStep
  <2>5. (Minds(run[r], a) => Minds(run'[r], a)) /\ (Carries(run'[r], a) => Carries(run[r], a))
    BY <2>1 DEF Work, Minds, Carries
  <2>6. Reopen(a)' <= Reopen(a) /\ Reopen(a) \in 0..1 /\ Reopen(a)' \in 0..1
    BY <2>1, <2>2, <2>5, ReopenKept, ReopenBit
  <2>7. /\ Weight(run'[r], a) <= Weight(run[r], a) + 2
        /\ Weight(run[r], a) \in 0..3 /\ Weight(run'[r], a) \in 0..3
    BY <2>5, Weights
  <2>8. Weight(run'[r], a) + Reopen(a)' + Budget(a)
           <= Weight(run[r], a) + Reopen(a) + Budget(a)'
    BY <2>4, <2>6, <2>7
  <2>9. Budget(a) <= Budget(a)' BY <2>4
  <2>10. a \in Rows' => a \in Rows BY <2>2 DEF Rows, Present
  <2> QED BY <2>1, <2>3, <2>8, <2>9, <2>10, Balance
<1>22. CASE Freeze(r)
  <2>0. /\ run[r].timer = "written" /\ run' = [run EXCEPT ![r] = NoRun] /\ posts' = posts
        /\ UNCHANGED <<mstatus, stale, link, faultVars, timeouts, composed>>
    BY <1>22 DEF Freeze, rowVars
  <2>1. /\ OtherRuns(r) /\ run'[r].media \subseteq run[r].media
        /\ \A a : Eases(run'[r], run[r], a)
    BY <2>0, EndEases
  <2>2. \A a \in run[r].media : TimesOut(run[r], a) /\ ~TimesOut(run'[r], a)
    <3>1. run'[r].media = {} BY <2>0, Gone DEF NoRun
    <3> QED BY <2>0, <3>1 DEF TimesOut
  <2> QED BY <2>0, <2>1, <2>2, LetGo
<1>23. CASE CrashRun(r)
  <2>0. /\ run' = [run EXCEPT ![r] = NoRun] /\ posts' = posts
        /\ UNCHANGED <<mstatus, stale, link, timeouts, composed>>
        /\ crashes' = crashes + 1 /\ dbFailures' = dbFailures
    BY <1>23 DEF CrashRun, rowVars
  <2>1. OtherRuns(r) /\ \A a : Eases(run'[r], run[r], a) BY <2>0, EndEases
  <2>2. \A a \in Assets : Budget(a)' = Budget(a) + 1 BY <2>0, BudgetStep
  <2> QED BY <2>0, <2>1, <2>2, FaultStep
<1>24. CASE StatementFails(r)
  <2>0. /\ posts' = posts /\ UNCHANGED <<mstatus, stale, link, timeouts, composed>>
        /\ crashes' = crashes /\ dbFailures' = dbFailures + 1
    BY <1>24 DEF StatementFails, rowVars
  <2>1. \A a \in Assets : Budget(a)' = Budget(a) + 1 BY <2>0, BudgetStep
  <2>2. CASE End(r)
    <3>1. OtherRuns(r) /\ \A a : Eases(run'[r], run[r], a) BY <2>2, EndEases
    <3> QED BY <2>0, <2>1, <3>1, FaultStep
  <2>3. ASSUME NEW l \in {"downgrade", "fail"}, Go(r, l) PROVE PostsInv'
    <3>1. /\ OtherRuns(r) /\ run'[r].pc = l
          /\ run'[r].media = run[r].media /\ run'[r].kind = run[r].kind
          /\ \A a : /\ Answers(run'[r], a) => Answers(run[r], a)
                    /\ TimesOut(run'[r], a) => TimesOut(run[r], a)
      BY <1>1, <1>2, <2>3
    <3>2. \A a \in Assets : Minds(run[r], a) => Minds(run'[r], a)
      BY <2>3, <3>1 DEF Minds
    <3> QED BY <2>0, <2>1, <3>1, <3>2, FaultStep
  <2> QED BY <1>24, <2>2, <2>3 DEF StatementFails
<1> QED BY <1>8, <1>9, <1>10, <1>11, <1>12, <1>13, <1>14, <1>15, <1>16, <1>17, <1>18, <1>19,
           <1>20, <1>21, <1>22, <1>23, <1>24 DEF Step

\* The rows may change while no run moves.
LEMMA Still ==
  ASSUME RunsInv, RunsInv', NEW a \in Assets, Within(a), run' = run,
         PostsOf(a)' = PostsOf(a), Budget(a) <= Budget(a)',
         a \in Rows' => a \in Rows /\ (Reopens(a)' => Reopens(a))
  PROVE  Within(a)'
<1> DEFINE n == Cardinality(PostsOf(a))
<1>1. n \in Nat /\ Cardinality(PostsOf(a)') = n BY PostsOfCount
<1>2. RunLoad(a)' = RunLoad(a) BY DEF RunLoad, Carriers, Answering, TimedOut
<1>3. RunLoad(a) \in Nat
  <2>1. /\ Carriers(a) \in SUBSET Runs /\ Answering(a) \in SUBSET Runs
        /\ TimedOut(a) \in SUBSET Runs
    BY DEF Carriers, Answering, TimedOut
  <2>2. /\ Cardinality(Carriers(a)) \in Nat /\ Cardinality(Answering(a)) \in Nat
        /\ Cardinality(TimedOut(a)) \in Nat
    BY <2>1, PipelineAssumption, FewerCount
  <2> QED BY <2>2 DEF RunLoad
<1>4. Budget(a) \in Nat /\ Budget(a)' \in Nat BY BudgetCount
<1>5. n <= Budget(a) /\ (a \in Rows => n + RunLoad(a) + Reopen(a) <= Budget(a))
  BY DEF Within
<1> HIDE DEF n
<1>6. n <= Budget(a)' BY <1>1, <1>4, <1>5
<1>7. ASSUME a \in Rows' PROVE n + RunLoad(a)' + Reopen(a)' <= Budget(a)'
  <2>1. Reopen(a)' <= Reopen(a) BY <1>7 DEF Reopen
  <2>2. Reopen(a) \in Nat /\ Reopen(a)' \in Nat
    <3>1. Reopen(a) \in 0..1 /\ Reopen(a)' \in 0..1 BY ReopenBit
    <3> QED BY <3>1
  <2>3. n + RunLoad(a) + Reopen(a) <= Budget(a) BY <1>5, <1>7
  <2>4. \A m, l, x, y, b, c \in Nat : m + l + x <= b /\ y <= x /\ b <= c => m + l + y <= c
    OBVIOUS
  <2> QED BY <1>1, <1>2, <1>3, <1>4, <2>1, <2>2, <2>3, <2>4
<1> QED BY <1>1, <1>6, <1>7 DEF Within

LEMMA PostsNext == RunsInv /\ RunsInv' /\ PostsInv /\ PipelineNext => PostsInv'
<1> SUFFICES ASSUME RunsInv, RunsInv', PostsInv, PipelineNext PROVE PostsInv'
  OBVIOUS
<1>0. posts \in Seq(Post) BY RunsInvFields
<1>1. ASSUME LibraryNext /\ UNCHANGED pipelineVars, NEW a \in Assets PROVE Within(a)'
  <2>1. /\ posts' = posts /\ link' = link /\ stale' = stale
        /\ Rows' \subseteq Rows /\ \A b \in Rows' : mstatus'[b] = mstatus[b]
        /\ crashes' \in Nat /\ crashes <= crashes'
        /\ dbFailures' \in Nat /\ dbFailures <= dbFailures'
    BY <1>1, LibraryStep
  <2>2. run' = run /\ timeouts' = timeouts /\ composed' = composed
    BY <1>1 DEF pipelineVars
  <2>3. Within(a) /\ PostsOf(a)' = PostsOf(a) BY <2>1, SamePosts DEF PostsInv
  <2>4. a \in Rows' => a \in Rows /\ (Reopens(a)' => Reopens(a))
    BY <2>1, <2>2 DEF Reopens
  <2>5. Budget(a) <= Budget(a)'
    <3>1. crashes \in Nat /\ dbFailures \in Nat /\ timeouts \in Nat /\ composed[a] \in Nat
      BY RunsInvFields
    <3>2. /\ Budget(a) = 1 + (crashes + dbFailures + timeouts) + timeouts + composed[a]
          /\ Budget(a)' = 1 + (crashes' + dbFailures' + timeouts) + timeouts + composed[a]
      BY <2>2 DEF Budget, PipelineFaults
    <3>3. \A c, d, t, k, i, j \in Nat : c <= i /\ d <= j =>
             1 + (c + d + t) + t + k <= 1 + (i + j + t) + t + k
      OBVIOUS
    <3> QED BY <2>1, <3>1, <3>2, <3>3
  <2> QED BY <2>2, <2>3, <2>4, <2>5, Still
<1>2. ASSUME NEW r \in Runs, NEW k, NEW S, NEW l, NEW t, Launch(r, k, S, l, t),
             k \in {"auto", "compose", "draft"}, S \subseteq Assets,
             l \in {"claim", "reserve", "slot"}, t \in {"none", "armed"},
             k # "draft" => l = "claim" \/ \A a \in S : composed'[a] = composed[a] + 1,
             \A a \in Assets : composed'[a] = composed[a] \/ composed'[a] = composed[a] + 1
      PROVE  PostsInv'
  <2>1. OtherRuns(r) /\ run[r] = NoRun /\ Fresh(run'[r], k, S, l, t) BY <1>2, Launched
  <2>2. /\ posts' = posts /\ UNCHANGED <<mstatus, stale, link, faultVars, timeouts>>
    BY <1>2 DEF Launch, rowVars
  <2> SUFFICES ASSUME NEW a \in Assets PROVE Within(a)'
    BY DEF PostsInv
  <2>3. Within(a) /\ PostsOf(a)' = PostsOf(a) BY <2>2, SamePosts DEF PostsInv
  <2>4. a \in Rows' => a \in Rows BY <2>2 DEF Rows, Present
  <2>5. ~Minds(run[r], a) BY <2>1 DEF Minds, NoRun
  <2>6. ~Answers(run'[r], a) /\ ~TimesOut(run'[r], a) BY <1>2, <2>1 DEF Fresh, Answers, TimesOut
  <2>7. CASE composed'[a] = composed[a] + 1
    <3>1. Budget(a)' = Budget(a) + 1 BY <2>2, <2>7, BudgetStep
    <3>2. Reopen(a)' <= Reopen(a) BY <2>1, <2>2, <2>5, ReopenKept
    <3> QED BY <2>1, <2>3, <2>4, <2>6, <3>1, <3>2, Pays
  <2>8. CASE composed'[a] = composed[a] /\ composed'[a] # composed[a] + 1
    <3>1. Budget(a) \in Nat /\ Budget(a)' = Budget(a) BY <2>2, <2>8, BudgetStep
    <3>2. Budget(a) <= Budget(a)' BY <3>1
    <3>3. ~Carries(run'[r], a)
      <4>1. /\ run'[r].kind = k /\ run'[r].media = S /\ run'[r].pc = l BY <2>1 DEF Fresh
      <4>2. k = "draft" \/ l = "claim" \/ a \notin S BY <1>2, <2>8
      <4> QED BY <4>1, <4>2 DEF Carries
    <3>4. Eases(run'[r], run[r], a) BY <2>6, <3>3 DEF Eases
    <3> QED BY <2>1, <2>2, <2>3, <2>4, <2>5, <3>2, <3>4, Quiet
  <2> QED BY <1>2, <2>7, <2>8
<1>3. ASSUME NEW r \in Runs, NEW a \in Assets, Recover(r, a) \/ Process(r, a) PROVE PostsInv'
  <2>1. Launch(r, "auto", {a}, "claim", "armed") /\ composed' = composed
    BY <1>3 DEF Recover, Process
  <2> QED BY <1>2, <2>1
<1>4. ASSUME NEW r \in Runs, NEW S \in SUBSET Assets, Compose(r, S) PROVE PostsInv'
  <2>1. /\ Launch(r, "compose", S, "reserve", "none")
        /\ composed' = [a \in Assets |-> composed[a] + (IF a \in S THEN 1 ELSE 0)]
    BY <1>4 DEF Compose
  <2>2. \A a \in Assets : composed[a] \in Nat BY RunsInvFields
  <2>3. /\ \A a \in S : composed'[a] = composed[a] + 1
        /\ \A a \in Assets : composed'[a] = composed[a] \/ composed'[a] = composed[a] + 1
    BY <2>1, <2>2
  <2> QED BY <1>2, <2>1, <2>3
<1>5. ASSUME NEW r \in Runs, NEW S \in SUBSET Assets, Draft(r, S) PROVE PostsInv'
  <2>1. Launch(r, "draft", S, "slot", "none") /\ composed' = composed BY <1>5 DEF Draft
  <2> QED BY <1>2, <2>1
<1>6. ASSUME NEW b \in Assets, Age(b), NEW a \in Assets PROVE Within(a)'
  <2>1. /\ posts' = posts /\ run' = run /\ UNCHANGED <<mstatus, link, faultVars, timeouts, composed>>
        /\ stale' = [stale EXCEPT ![b] = TRUE]
    BY <1>6 DEF Age, pipelineVars
  <2>2. Within(a) /\ PostsOf(a)' = PostsOf(a) BY <2>1, SamePosts DEF PostsInv
  <2>3. Budget(a) \in Nat /\ Budget(a)' = Budget(a) BY <2>1, BudgetStep
  <2>4. Budget(a) <= Budget(a)' BY <2>3
  <2>5. a \in Rows' => a \in Rows BY <2>1 DEF Rows, Present
  <2>6. Reopens(a)' => Reopens(a)
    <3>1. CASE a # b
      <4>1. stale'[a] = stale[a] BY <2>1, <3>1, RunsInvFields
      <4> QED BY <2>1, <4>1 DEF Reopens
    <3>2. CASE a = b
      <4>1. ASSUME NEW r \in Runs PROVE ~Minds(run[r], a)
        <5>1. Placed(run[r]) BY RunFields
        <5>2. a \in run[r].media => run[r].pc = "claim" BY <1>6, <3>2 DEF Age
        <5> QED BY <5>1, <5>2 DEF Placed, Minds
      <4>2. mstatus[a] = "PROCESSING" BY <1>6, <3>2 DEF Age
      <4> QED BY <4>1, <4>2 DEF Reopens
    <3> QED BY <3>1, <3>2
  <2> QED BY <2>1, <2>2, <2>4, <2>5, <2>6, Still
<1>7. ASSUME NEW p \in DOMAIN posts, ResolvePost(p) \/ RejectPost(p), NEW a \in Assets
      PROVE  Within(a)'
  <2>1. run' = run /\ link' = link /\ UNCHANGED <<faultVars, timeouts, composed>>
    BY <1>7 DEF ResolvePost, RejectPost, pipelineVars, rowVars
  <2>2. PICK s \in PostStatus : posts' = [posts EXCEPT ![p].status = s]
    BY <1>7 DEF ResolvePost, RejectPost, PostStatus
  <2>3. p \in 1..Len(posts) BY <1>0, PostCounts
  <2>4. /\ DOMAIN posts' = DOMAIN posts
        /\ \A q \in DOMAIN posts : posts'[q].media = posts[q].media
    BY <1>0, <2>2, <2>3, PostMarked
  <2>5. PostsOf(a)' = PostsOf(a) BY <2>4 DEF PostsOf
  <2>6. Within(a) BY DEF PostsInv
  <2>7. Budget(a) \in Nat /\ Budget(a)' = Budget(a) BY <2>1, BudgetStep
  <2>8. Budget(a) <= Budget(a)' BY <2>7
  <2>9. a \in Rows' => a \in Rows /\ (Reopens(a)' => Reopens(a))
    <3>1. CASE UNCHANGED <<mstatus, stale>> BY <2>1, <3>1 DEF Rows, Present, Reopens
    <3>2. CASE Mark({b \in Assets : link[b] = p}, "FAILED")
      <4> DEFINE S == {b \in Assets : link[b] = p}
      <4>0. Mark(S, "FAILED") /\ (a \in S <=> link[a] = p) BY <3>2
      <4> HIDE DEF S
      <4>1. "FAILED" \in MediaStatus BY DEF MediaStatus
      <4>2. Rows' = Rows BY <4>0, <4>1, Marked
      <4>3. CASE link[a] = p
        <5>1. a \in Rows => mstatus'[a] = "FAILED" BY <4>0, <4>1, <4>3, Marked
        <5>2. link'[a] # 0 BY <2>1, <2>3, <4>3
        <5> QED BY <4>2, <5>1, <5>2 DEF Reopens
      <4>4. CASE link[a] # p
        <5>1. mstatus'[a] = mstatus[a] /\ stale'[a] = stale[a] BY <4>0, <4>1, <4>4, Marked
        <5> QED BY <2>1, <4>2, <5>1 DEF Reopens
      <4> QED BY <4>3, <4>4
    <3> QED BY <1>7, <3>1, <3>2 DEF ResolvePost, RejectPost, rowVars
  <2> QED BY <2>1, <2>5, <2>6, <2>8, <2>9, Still
<1>8. CASE LibraryNext /\ UNCHANGED pipelineVars BY <1>1, <1>8 DEF PostsInv
<1>9. CASE \E a \in Assets : Age(a) BY <1>6, <1>9 DEF PostsInv
<1>10. CASE \E p \in DOMAIN posts : ResolvePost(p) \/ RejectPost(p) BY <1>7, <1>10 DEF PostsInv
<1> QED BY <1>3, <1>4, <1>5, <1>8, <1>9, <1>10, PostsStep, SelectionsAssumption
        DEF PipelineNext

LEMMA PostsStutter == PostsInv /\ UNCHANGED mediaVars => PostsInv'
BY DEF PostsInv, Within, PostsOf, RunLoad, Carriers, Answering, TimedOut, Reopen, Reopens,
       Budget, PipelineFaults, Rows, Present, mediaVars, libraryVars, rowVars, faultVars,
       pipelineVars

LEMMA PostsInit == PipelineInit => PostsInv
<1> SUFFICES ASSUME PipelineInit, NEW a \in Assets PROVE Within(a)
  BY DEF PostsInv
<1>1. PostsOf(a) = {} BY DEF PipelineInit, PostsOf
<1>2. /\ Carriers(a) = {} /\ Answering(a) = {} /\ TimedOut(a) = {}
  BY DEF PipelineInit, NoRun, Carriers, Answering, TimedOut, Carries, Answers, TimesOut
<1>3. RunLoad(a) = 0 /\ Cardinality(PostsOf(a)) = 0 BY <1>1, <1>2, FS_EmptySet DEF RunLoad
<1>4. Budget(a) = 1 BY DEF PipelineInit, Budget, PipelineFaults
<1> QED BY <1>3, <1>4, ReopenBit DEF Within

\* However the browser, the sweeps, the cron pass and imports overlap, an asset
\* enters one post, and more only for the faults and the compositions it has seen.
THEOREM PostsKeptFew == PipelineSpec => []PostsPerAsset
<1>1. RunsInv /\ PostsInv /\ [PipelineNext]_mediaVars => RunsInv' /\ PostsInv'
  BY RunsNext, RunsStutter, PostsNext, PostsStutter
<1>2. RunsInv /\ PostsInv => PostsPerAsset
  BY DEF PostsInv, Within, PostsPerAsset, Budget
<1> QED BY <1>1, <1>2, RunsInit, PostsInit, PTL DEF PipelineSpec

=============================================================================
