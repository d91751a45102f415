---------------------------- MODULE MediaProofs ----------------------------
(***************************************************************************)
(* What Media guarantees for any number of requests and URIs and for any   *)
(* size of the cache: the keys of an upload stay in the store, and the     *)
(* cache never knows more than the store.                                  *)
(***************************************************************************)
EXTENDS Media, TLAPS

-----------------------------------------------------------------------------
(* The helpers.                                                            *)

(* Two facts about sequences.                                             *)
LEMMA ElementOf ==
  ASSUME NEW S, NEW s \in Seq(S), NEW i \in 1..Len(s)
  PROVE  s[i] \in S
OBVIOUS

(* The empty sequence has every type.                                      *)
LEMMA EmptyOf ==
  ASSUME NEW S
  PROVE  <<>> \in Seq(S)
OBVIOUS

(* Whatever an eviction leaves, the cache is a partial map of URIs to keys *)
(* and holds only what it held and what was put into it.                   *)
LEMMA RememberKeeps ==
  ASSUME media_info \in [Uris -> Keys \cup {None}],
         NEW found, DOMAIN found \subseteq Uris, \A u \in DOMAIN found : found[u] \in Keys,
         Remember(found)
  PROVE  /\ media_info' \in [Uris -> Keys \cup {None}]
         /\ Cached' \subseteq Cached \cup DOMAIN found
<1>1. PICK kept \in SUBSET Uris :
        /\ Fits(kept, Cached \cup DOMAIN found)
        /\ media_info' = [u \in Uris |-> IF u \notin kept THEN None
                                         ELSE IF u \in DOMAIN found THEN found[u]
                                         ELSE media_info[u]]
  BY DEF Remember
<1>2. kept \subseteq Cached \cup DOMAIN found  BY <1>1 DEF Fits
<1>3. media_info' \in [Uris -> Keys \cup {None}]  BY <1>1
<1>4. Cached' \subseteq kept  BY <1>1 DEF Cached
<1> QED  BY <1>2, <1>3, <1>4

(* A single entry put into the cache.                                      *)
LEMMA PutInCacheKeeps ==
  ASSUME media_info \in [Uris -> Keys \cup {None}],
         NEW u \in Uris, NEW k \in Keys, PutInCache(u, k)
  PROVE  /\ media_info' \in [Uris -> Keys \cup {None}]
         /\ Cached' \subseteq Cached \cup {u}
<1> DEFINE found == [w \in {u} |-> k]
<1>1. Remember(found)  BY DEF PutInCache
<1>2. DOMAIN found = {u} /\ \A w \in DOMAIN found : found[w] \in Keys  OBVIOUS
<1> HIDE DEF found
<1> QED  BY <1>1, <1>2, RememberKeeps

(* A client only names URIs that are there.                                *)
LEMMA KnownUris ==
  ASSUME TypeOK
  PROVE  Known \subseteq Uris
<1>1. \A q \in Requests : \A i \in DOMAIN copies[q] : copies[q][i] \in Uris
  BY DEF TypeOK
<1> QED  BY <1>1, ReceivedAssumption DEF TypeOK, Known

(* What an event can refer to: a media, or a media and its thumbnail.      *)
LEMMA ReferenceUris ==
  ASSUME TypeOK, NEW ref \in References
  PROVE  ref \in Seq(Uris) /\ Len(ref) \in {1, 2}
<1>1. CASE \E u \in Known : ref = <<u>>  BY <1>1, KnownUris
<1>2. CASE \E u, v \in Known : ref = <<u, v>>  BY <1>2, KnownUris
<1> QED  BY <1>1, <1>2 DEF References

(* The keys of what is stored or cached.                                   *)
LEMMA KeysOfType ==
  ASSUME TypeOK, NEW u \in Uris, u \in Cached \cup Stored
  PROVE  KeysOf(u) \in Keys
BY DEF TypeOK, KeysOf, Cached, Stored

(* The entries that handling a reference puts into the cache are stored.   *)
LEMMA CacheReferenceKeeps ==
  ASSUME TypeOK, NEW ref \in Seq(Uris), CacheReference(ref)
  PROVE  /\ media_info' \in [Uris -> Keys \cup {None}]
         /\ Cached' \subseteq Cached \cup Stored
<1> DEFINE D == {ref[i] : i \in {j \in 1..Len(ref) : HasInfo(ref[1]) /\ HasInfo(ref[j])}}
           found == [u \in D |-> media_row[u]]
<1>1. \A i \in 1..Len(ref) : ref[i] \in Uris  OBVIOUS
<1>2. D \subseteq Uris /\ D \subseteq Stored  BY <1>1 DEF HasInfo
<1>3. \A u \in D : media_row[u] \in Keys  BY <1>2 DEF TypeOK, Stored
<1>4. Remember(found)  BY DEF CacheReference
<1>5. DOMAIN found = D /\ \A u \in DOMAIN found : found[u] \in Keys  BY <1>3
<1>6. media_info \in [Uris -> Keys \cup {None}]  BY DEF TypeOK
<1> HIDE DEF found, D
<1> QED  BY <1>2, <1>4, <1>5, <1>6, RememberKeeps

(* The keys an event carries: those that are stored, or what it had        *)
(* before.                                                                 *)
LEMMA CarriedType ==
  ASSUME TypeOK, NEW ref \in Seq(Uris), NEW before,
         \A i \in 1..Len(ref) : before[i] \in Keys \cup {None}
  PROVE  Carried(ref, before) \in Seq(Keys \cup {None})
<1>1. \A i \in 1..Len(ref) : ref[i] \in Uris  OBVIOUS
<1>2. \A i \in 1..Len(ref) : (IF HasInfo(ref[1]) /\ HasInfo(ref[i])
                               THEN media_row[ref[i]] ELSE before[i]) \in Keys \cup {None}
  BY <1>1 DEF TypeOK
<1>3. Len(ref) \in Nat  OBVIOUS
<1> QED  BY <1>2, <1>3 DEF Carried

-----------------------------------------------------------------------------
(* The inductive invariant.  A step of a request is looked at first for    *)
(* the types, then for what the other parts of the invariant say.          *)

(* The invariant holds at the start.                                       *)
LEMMA InvInit ==
  ASSUME Init
  PROVE  IndInv
<1>1. TypeOK
  <2>1. /\ uris \in [Requests -> Seq(Uris)] /\ copies \in [Requests -> Seq(Uris)]
        /\ carried \in [Requests -> Seq(Keys \cup {None})]
    BY EmptyOf DEF Init
  <2> QED  BY <2>1, ReceivedAssumption DEF Init, TypeOK, Stages, Results
<1>2. NamedIsThere  BY ReceivedAssumption DEF Init, NamedIsThere, Stored
<1>3. UploadsKeepKeys /\ CachedIsStored  BY DEF Init, UploadsKeepKeys, CachedIsStored, Cached
<1>4. AttachmentsFit /\ SentWithKeys  BY DEF Init, AttachmentsFit, SentWithKeys
<1> QED  BY <1>1, <1>2, <1>3, <1>4 DEF IndInv

(* A URI a client was told of is in the media repository.                  *)
LEMMA KnownIsThere ==
  ASSUME TypeOK, NamedIsThere, NEW u \in Known
  PROVE  u \in Uris /\ content[u] # "absent"
<1>1. u \in Uris  BY KnownUris
<1>2. CASE u \in Received \cup uploaded  BY <1>1, <1>2 DEF NamedIsThere
<1>3. CASE \E q \in Requests : \E i \in DOMAIN copies[q] : u = copies[q][i]
  BY <1>1, <1>3 DEF NamedIsThere
<1> QED  BY <1>1, <1>2, <1>3 DEF Known

(* Messages under way stay as they are in a step that begins none.         *)
LEMMA AttachmentsKept ==
  ASSUME IndInv, UNCHANGED <<content, uploaded>>,
         \A q \in Requests : pc'[q] \in {"posting", "asking"} =>
           pc[q] \in {"posting", "asking"} /\ uris'[q] = uris[q] /\ carried'[q] = carried[q],
         \A q \in Requests : pc'[q] = "posting" => pc[q] = "posting"
  PROVE  AttachmentsFit' /\ SentWithKeys'
<1>1. AttachmentsFit'  BY DEF IndInv, AttachmentsFit
<1>2. SentWithKeys'  BY DEF IndInv, SentWithKeys
<1> QED  BY <1>1, <1>2

(* A step that leaves the store, the cache and the copies alone, or drops  *)
(* copies, keeps what relates them, unless it begins a raw download.       *)
LEMMA SharedKept ==
  ASSUME IndInv, TypeOK', AttachmentsFit', SentWithKeys', UNCHANGED sharedVars,
         \A q \in Requests : copies'[q] \in {copies[q], <<>>},
         \A q \in Requests : pc'[q] = "raw" => pc[q] = "raw" /\ uris'[q] = uris[q]
  PROVE  IndInv'
<1> USE DEF IndInv, sharedVars, storeVars
<1>1. Stored' = Stored /\ Cached' = Cached  BY DEF Stored, Cached
<1>2. NamedIsThere'  BY <1>1 DEF NamedIsThere
<1>3. UploadsKeepKeys' /\ CachedIsStored'  BY <1>1 DEF UploadsKeepKeys, CachedIsStored
<1> QED  BY <1>2, <1>3

(* The steps of a request that touch neither the store nor the cache.      *)
Local(q) ==
  \/ UploadWithoutClient(q) \/ Upload(q) \/ UploadFails(q) \/ RawReturns(q)
  \/ DownloadReturns(q) \/ Decrypt(q) \/ (\E ref \in References : Reference(q, ref))
  \/ ResolveUnknown(q) \/ FetchReturns(q) \/ DecryptCopy(q) \/ ReuploadFails(q)
  \/ ForwardReturns(q) \/ SendMediaReturns(q)

(* The steps of a request that touch nothing but the request: the types.   *)
LEMMA LocalType ==
  ASSUME IndInv, NEW q \in Requests, Local(q)
  PROVE  TypeOK'
<1>a. uris[q] \in Seq(Uris)  BY DEF IndInv, TypeOK
<1>b. pc[q] = "raw" => content[uris[q][1]] \in Results
  <2> HAVE pc[q] = "raw"
  <2>1. Len(uris[q]) = 1 /\ content[uris[q][1]] # "absent"  BY DEF IndInv, NamedIsThere
  <2>2. uris[q][1] \in Uris  BY <1>a, <2>1, ElementOf
  <2> QED  BY <2>1, <2>2 DEF IndInv, TypeOK, Results
<1>c. [copies EXCEPT ![q] = <<>>] \in [Requests -> Seq(Uris)]
  BY EmptyOf DEF IndInv, TypeOK
<1> USE DEF IndInv, TypeOK, Stages, Goto, Answer, ForwardOriginal,
            storeVars, sharedVars, mediaVars
<1>1. CASE UploadWithoutClient(q)  BY <1>1 DEF UploadWithoutClient, Results
<1>2. CASE Upload(q)  BY <1>2 DEF Upload
<1>3. CASE UploadFails(q)  BY <1>3 DEF UploadFails, Results
<1>4. CASE RawReturns(q)
  <2>1. \E r \in Results : result' = [result EXCEPT ![q] = r]
    BY <1>4, <1>b DEF RawReturns, Results
  <2>2. pc' = [pc EXCEPT ![q] = "done"] /\ UNCHANGED <<sharedVars, mediaVars>>
    BY <1>4 DEF RawReturns
  <2> QED  BY <2>1, <2>2
<1>5. CASE DownloadReturns(q)  BY <1>5 DEF DownloadReturns, Results
<1>6. CASE Decrypt(q)  BY <1>6 DEF Decrypt, Results
<1>7. CASE \E ref \in References : Reference(q, ref)
  BY <1>7, ReferenceUris DEF Reference
<1>8. CASE ResolveUnknown(q)  BY <1>8, <1>c DEF ResolveUnknown
<1>9. CASE FetchReturns(q)  BY <1>9, <1>c DEF FetchReturns, Results
<1>10. CASE DecryptCopy(q)  BY <1>10 DEF DecryptCopy, Results
<1>11. CASE ReuploadFails(q)  BY <1>11, <1>c DEF ReuploadFails, Results
<1>12. CASE ForwardReturns(q)  BY <1>12 DEF ForwardReturns, Results
<1>13. CASE SendMediaReturns(q)  BY <1>13 DEF SendMediaReturns, Results
<1> QED
  BY <1>1, <1>2, <1>3, <1>4, <1>5, <1>6, <1>7, <1>8, <1>9, <1>10, <1>11, <1>12, <1>13 DEF Local

(* ... and the whole invariant.                                            *)
LEMMA LocalStep ==
  ASSUME IndInv, NEW q \in Requests, Local(q)
  PROVE  IndInv'
<1>1. TypeOK'  BY LocalType
<1>2. UNCHANGED sharedVars
  BY DEF Local, UploadWithoutClient, Upload, UploadFails, RawReturns, DownloadReturns,
         Decrypt, Reference, ResolveUnknown, FetchReturns, DecryptCopy, ReuploadFails,
         ForwardReturns, SendMediaReturns
<1>3. /\ \A p \in Requests : copies'[p] \in {copies[p], <<>>}
      /\ \A p \in Requests : pc'[p] = "raw" => pc[p] = "raw" /\ uris'[p] = uris[p]
  BY DEF IndInv, TypeOK, mediaVars, Goto, Answer, ForwardOriginal,
         Local, UploadWithoutClient, Upload, UploadFails, RawReturns, DownloadReturns,
         Decrypt, Reference, ResolveUnknown, FetchReturns, DecryptCopy, ReuploadFails,
         ForwardReturns, SendMediaReturns
<1>4. /\ \A p \in Requests : pc'[p] \in {"posting", "asking"} =>
           pc[p] \in {"posting", "asking"} /\ uris'[p] = uris[p] /\ carried'[p] = carried[p]
      /\ \A p \in Requests : pc'[p] = "posting" => pc[p] = "posting"
  BY DEF IndInv, TypeOK, mediaVars, Goto, Answer, ForwardOriginal,
         Local, UploadWithoutClient, Upload, UploadFails, RawReturns, DownloadReturns,
         Decrypt, Reference, ResolveUnknown, FetchReturns, DecryptCopy, ReuploadFails,
         ForwardReturns, SendMediaReturns
<1>5. AttachmentsFit' /\ SentWithKeys'
  BY <1>2, <1>4, AttachmentsKept DEF sharedVars
<1> QED  BY <1>1, <1>2, <1>3, <1>5, SharedKept

-----------------------------------------------------------------------------
(* The steps that reach the cache alone: what they put there is stored.    *)
LEMMA CacheKept ==
  ASSUME IndInv, TypeOK', AttachmentsFit', SentWithKeys',
         UNCHANGED <<content, storeVars, uploaded, copies>>,
         Cached' \subseteq Cached \cup Stored,
         \A q \in Requests : pc'[q] = "raw" =>
           \/ pc[q] = "raw" /\ uris'[q] = uris[q]
           \/ Len(uris'[q]) = 1 /\ content[uris'[q][1]] # "absent"
  PROVE  IndInv'
<1> USE DEF IndInv, storeVars
<1>1. Stored' = Stored  BY DEF Stored
<1>2. NamedIsThere'  BY <1>1 DEF NamedIsThere
<1>3. UploadsKeepKeys'  BY DEF UploadsKeepKeys
<1>4. CachedIsStored'  BY <1>1 DEF CachedIsStored
<1> QED  BY <1>2, <1>3, <1>4

(* A login lets uploads begin, and changes nothing else.                   *)
LEMMA LoginStep ==
  ASSUME IndInv, Login
  PROVE  IndInv'
<1>1. TypeOK'  BY DEF IndInv, TypeOK, Login, storeVars, requestVars
<1>2. Cached' = Cached  BY DEF Cached, Login
<1>3. AttachmentsFit' /\ SentWithKeys'  BY AttachmentsKept DEF Login, requestVars
<1> QED  BY <1>1, <1>2, <1>3, CacheKept DEF Login, requestVars, IndInv

(* A download that is not decrypted: no keys, or no client to do it.       *)
LEMMA DownloadRawStep ==
  ASSUME IndInv, NEW q \in Requests, NEW u \in Uris, DownloadRaw(q, u)
  PROVE  IndInv'
<1>1. u \in Uris /\ content[u] # "absent"  BY KnownIsThere DEF IndInv, DownloadRaw
<1>2. /\ media_info' \in [Uris -> Keys \cup {None}]
      /\ Cached' \subseteq Cached \cup Stored
  <2>1. CASE UNCHANGED media_info  BY <2>1 DEF Cached, IndInv, TypeOK
  <2>2. CASE u \in Stored /\ PutInCache(u, media_row[u])
    <3>1. media_row[u] \in Keys  BY <2>2 DEF Stored, IndInv, TypeOK
    <3>2. media_info \in [Uris -> Keys \cup {None}]  BY DEF IndInv, TypeOK
    <3> QED  BY <2>2, <3>1, <3>2, PutInCacheKeeps
  <2> QED  BY <2>1, <2>2 DEF DownloadRaw
<1>3. uris' = [uris EXCEPT ![q] = <<u>>] /\ pc' = [pc EXCEPT ![q] = "raw"]
  BY DEF DownloadRaw, Goto
<1>4. TypeOK'
  BY <1>2, <1>3 DEF DownloadRaw, IndInv, TypeOK, storeVars, Stages
<1>5. \A p \in Requests : pc'[p] = "raw" =>
        \/ pc[p] = "raw" /\ uris'[p] = uris[p]
        \/ Len(uris'[p]) = 1 /\ content[uris'[p][1]] # "absent"
  BY <1>1, <1>3 DEF IndInv, TypeOK
<1>6. AttachmentsFit' /\ SentWithKeys'
  BY AttachmentsKept DEF DownloadRaw, Goto, IndInv, TypeOK
<1> QED  BY <1>2, <1>4, <1>5, <1>6, CacheKept DEF DownloadRaw

(* A download of a media with keys.                                        *)
LEMMA DownloadStep ==
  ASSUME IndInv, NEW q \in Requests, NEW u \in Uris, Download(q, u)
  PROVE  IndInv'
<1>1. KeysOf(u) \in Keys  BY KeysOfType DEF IndInv, Download
<1>2. /\ media_info' \in [Uris -> Keys \cup {None}]
      /\ Cached' \subseteq Cached \cup {u}
  BY <1>1, PutInCacheKeeps DEF IndInv, TypeOK, Download
<1>3. u \in Cached \cup Stored  BY DEF Download
<1>4. TypeOK'
  BY <1>1, <1>2 DEF Download, Goto, IndInv, TypeOK, storeVars, Stages
<1>5. \A p \in Requests : pc'[p] = "raw" => pc[p] = "raw" /\ uris'[p] = uris[p]
  BY DEF Download, Goto, IndInv, TypeOK
<1>6. AttachmentsFit' /\ SentWithKeys'
  BY AttachmentsKept DEF Download, Goto, IndInv, TypeOK
<1> QED  BY <1>2, <1>3, <1>4, <1>5, <1>6, CacheKept DEF Download

(* An attachment's media is looked up, to be decrypted and uploaded again. *)
LEMMA ResolveStep ==
  ASSUME IndInv, NEW q \in Requests, Resolve(q)
  PROVE  IndInv'
<1> DEFINE u == Current(q)
<1>1. u \in Uris /\ u \in Stored  BY DEF Resolve, HasInfo, Stored
<1>2. media_row[u] \in Keys  BY <1>1 DEF Stored, IndInv, TypeOK
<1>3. /\ media_info' \in [Uris -> Keys \cup {None}]
      /\ Cached' \subseteq Cached \cup {u}
  BY <1>1, <1>2, PutInCacheKeeps DEF IndInv, TypeOK, Resolve
<1>4. TypeOK'
  BY <1>2, <1>3 DEF Resolve, Goto, IndInv, TypeOK, storeVars, Stages
<1>5. \A p \in Requests : pc'[p] = "raw" => pc[p] = "raw" /\ uris'[p] = uris[p]
  BY DEF Resolve, Goto, IndInv, TypeOK
<1>6. AttachmentsFit' /\ SentWithKeys'
  BY AttachmentsKept DEF Resolve, Goto, IndInv, TypeOK
<1> QED  BY <1>1, <1>3, <1>4, <1>5, <1>6, CacheKept DEF Resolve

(* The keys a look-up puts into a message under way.                       *)
LEMMA CarriedKeys ==
  ASSUME IndInv, NEW ref \in Seq(Uris), ref[1] \in uploaded, NEW before,
         NEW i \in 1..Len(ref), ref[i] \in uploaded
  PROVE  Carried(ref, before)[i] = "own"
<1>1. HasInfo(ref[1]) /\ HasInfo(ref[i]) /\ media_row[ref[i]] = "own"
  BY NoneAssumption DEF IndInv, TypeOK, UploadsKeepKeys, HasInfo, Stored
<1> QED  BY <1>1 DEF Carried

(* A message that is sent or sent again, with what the store has.          *)
LEMMA AttachmentsSent ==
  ASSUME IndInv, NEW q \in Requests,
         pc' = [pc EXCEPT ![q] = "posting"],
         \E before : carried'[q] = Carried(uris'[q], before),
         uris'[q] \in Seq(Uris),
         \A i \in 1..Len(uris'[q]) : content[uris'[q][i]] # "absent",
         \A p \in Requests \ {q} : uris'[p] = uris[p] /\ carried'[p] = carried[p],
         UNCHANGED <<content, uploaded>>
  PROVE  AttachmentsFit' /\ SentWithKeys'
<1> DEFINE ref == uris'[q]
<1>0. PICK before : carried'[q] = Carried(ref, before)  OBVIOUS
<1>1. Len(Carried(ref, before)) = Len(ref)
  <2>1. Len(ref) \in Nat  OBVIOUS
  <2> QED  BY <2>1 DEF Carried
<1>2. pc'[q] = "posting" /\ \A p \in Requests \ {q} : pc'[p] = pc[p]
  BY DEF IndInv, TypeOK
<1>3. AttachmentsFit'
  <2>1. Len(carried'[q]) = Len(uris'[q])  BY <1>0, <1>1
  <2> HIDE DEF ref
  <2>2. ASSUME NEW p \in Requests, p # q
        PROVE  pc'[p] = pc[p] /\ uris'[p] = uris[p] /\ carried'[p] = carried[p]
    BY <1>2, <2>2
  <2> QED  BY <2>1, <2>2 DEF IndInv, AttachmentsFit
<1>4. ASSUME NEW p \in Requests, pc'[p] = "posting", uris'[p][1] \in uploaded',
             NEW i \in DOMAIN uris'[p], uris'[p][i] \in uploaded'
      PROVE  carried'[p][i] = "own"
  <2>1. CASE p = q
    <3>1. i \in 1..Len(ref)  BY <1>4, <2>1
    <3> QED  BY <1>4, <2>1, <3>1, CarriedKeys
  <2>2. CASE p # q  BY <1>2, <1>4, <2>2 DEF IndInv, SentWithKeys
  <2> QED  BY <2>1, <2>2
<1>5. SentWithKeys'  BY <1>4 DEF SentWithKeys
<1> QED  BY <1>3, <1>5

(* An event is sent with the keys of its media.                            *)
LEMMA SendMediaStep ==
  ASSUME IndInv, NEW q \in Requests, NEW ref \in References, SendMedia(q, ref)
  PROVE  IndInv'
<1>1. ref \in Seq(Uris)  BY ReferenceUris DEF IndInv
<1>2. /\ media_info' \in [Uris -> Keys \cup {None}]
      /\ Cached' \subseteq Cached \cup Stored
  BY <1>1, CacheReferenceKeeps DEF IndInv, SendMedia
<1> DEFINE none == [i \in 1..Len(ref) |-> None]
<1>3. Carried(ref, none) \in Seq(Keys \cup {None})
  BY <1>1, CarriedType DEF IndInv
<1> HIDE DEF none
<1>4. TypeOK'
  BY <1>1, <1>2, <1>3 DEF SendMedia, Goto, IndInv, TypeOK, storeVars, Stages, none
<1>5. \A p \in Requests : pc'[p] = "raw" => pc[p] = "raw" /\ uris'[p] = uris[p]
  BY DEF SendMedia, Goto, IndInv, TypeOK
<1>6. \A i \in 1..Len(ref) : content[ref[i]] # "absent"
  BY KnownIsThere DEF References, IndInv
<1>7. /\ uris'[q] = ref /\ carried'[q] = Carried(ref, none)
      /\ pc' = [pc EXCEPT ![q] = "posting"]
      /\ \A p \in Requests \ {q} : uris'[p] = uris[p] /\ carried'[p] = carried[p]
  BY DEF SendMedia, Goto, IndInv, TypeOK, none
<1>8. UNCHANGED <<content, uploaded>>  BY DEF SendMedia
<1>9. AttachmentsFit' /\ SentWithKeys'
  <2>1. /\ uris'[q] \in Seq(Uris) /\ \E b : carried'[q] = Carried(uris'[q], b)
        /\ \A i \in 1..Len(uris'[q]) : content[uris'[q][i]] # "absent"
    BY <1>1, <1>6, <1>7
  <2> QED  BY <1>7, <1>8, <2>1, AttachmentsSent
<1> QED  BY <1>2, <1>4, <1>5, <1>9, CacheKept DEF SendMedia

(* It is sent once more, when a prompt was answered.                       *)
LEMMA SendMediaAnywaysStep ==
  ASSUME IndInv, NEW q \in Requests, SendMediaAnyways(q)
  PROVE  IndInv'
<1> DEFINE ref == uris[q]
<1>1. ref \in Seq(Uris) /\ carried[q] \in Seq(Keys \cup {None})  BY DEF IndInv, TypeOK
<1>2. /\ media_info' \in [Uris -> Keys \cup {None}]
      /\ Cached' \subseteq Cached \cup Stored
  BY <1>1, CacheReferenceKeeps DEF IndInv, SendMediaAnyways
<1>3. /\ Len(carried[q]) = Len(ref)
      /\ \A i \in 1..Len(ref) : content[ref[i]] # "absent"
  BY DEF IndInv, AttachmentsFit, SendMediaAnyways
<1>4. Carried(ref, carried[q]) \in Seq(Keys \cup {None})
  <2>1. \A i \in 1..Len(ref) : carried[q][i] \in Keys \cup {None}
    BY <1>1, <1>3, ElementOf
  <2> QED  BY <1>1, <2>1, CarriedType DEF IndInv
<1>5. TypeOK'
  BY <1>2, <1>4 DEF SendMediaAnyways, Goto, IndInv, TypeOK, storeVars, Stages
<1>6. \A p \in Requests : pc'[p] = "raw" => pc[p] = "raw" /\ uris'[p] = uris[p]
  BY DEF SendMediaAnyways, Goto, IndInv, TypeOK
<1>7. /\ uris'[q] = ref /\ carried'[q] = Carried(ref, carried[q])
      /\ pc' = [pc EXCEPT ![q] = "posting"]
      /\ \A p \in Requests \ {q} : uris'[p] = uris[p] /\ carried'[p] = carried[p]
  BY DEF SendMediaAnyways, Goto, IndInv, TypeOK
<1>8. UNCHANGED <<content, uploaded>>  BY DEF SendMediaAnyways
<1>9. AttachmentsFit' /\ SentWithKeys'
  <2>1. /\ uris'[q] \in Seq(Uris) /\ \E b : carried'[q] = Carried(uris'[q], b)
        /\ \A i \in 1..Len(uris'[q]) : content[uris'[q][i]] # "absent"
    BY <1>1, <1>3, <1>7
  <2> QED  BY <1>7, <1>8, <2>1, AttachmentsSent
<1> QED  BY <1>2, <1>5, <1>6, <1>9, CacheKept DEF SendMediaAnyways

-----------------------------------------------------------------------------
(* The steps that change the media repository or the store.                *)

(* New media: nothing that a client, a row or a request names changes.     *)
LEMMA FreshIsUnnamed ==
  ASSUME IndInv, NEW u \in Fresh
  PROVE  /\ u \in Uris /\ u \notin Received \cup uploaded \cup Stored
         /\ \A q \in Requests : pc[q] \in {"posting", "asking"} =>
              \A i \in 1..Len(uris[q]) : uris[q][i] # u
BY DEF Fresh, IndInv, NamedIsThere, AttachmentsFit

(* An upload is answered with a fresh URI and saves two rows.              *)
LEMMA UploadReturnsStep ==
  ASSUME IndInv, NEW q \in Requests, UploadReturns(q)
  PROVE  IndInv'
<1>1. PICK u \in Fresh : /\ content' = [content EXCEPT ![u] = "cipher"]
                         /\ upload_row' = upload_row \cup {u}
                         /\ SaveMedia(u, "own")
                         /\ uploaded' = uploaded \cup {u}
  BY DEF UploadReturns
<1>2. u \in Uris /\ u \notin Received \cup uploaded \cup Stored  BY FreshIsUnnamed
<1>3. media_row' = [media_row EXCEPT ![u] = "own"]  BY <1>1, <1>2 DEF SaveMedia
<1>4. /\ pc' = [pc EXCEPT ![q] = "done"] /\ result' = [result EXCEPT ![q] = "ok"]
      /\ UNCHANGED <<media_info, pan_clients, uris, keys, copies, carried>>
  BY DEF UploadReturns, Answer, Goto, mediaVars
<1>5. TypeOK'
  BY <1>1, <1>2, <1>3, <1>4 DEF IndInv, TypeOK, Stages, Results, Keys
<1>6. Stored' = Stored \cup {u} /\ Cached' = Cached
  BY <1>2, <1>3, <1>4, NoneAssumption DEF Stored, Cached, IndInv, TypeOK
<1>7. NamedIsThere'
  <2>1. \A w \in Uris : content'[w] = "absent" => content[w] = "absent" /\ w # u
    BY <1>1, <1>2 DEF IndInv, TypeOK
  <2>2. \A w \in Uris : content[w] # "absent" => content'[w] # "absent"
    BY <2>1
  <2>3. \A p \in Requests : \A i \in DOMAIN copies'[p] : content'[copies'[p][i]] # "absent"
    <3>1. \A p \in Requests : \A i \in DOMAIN copies[p] : copies[p][i] \in Uris
      BY DEF IndInv, TypeOK
    <3> QED  BY <1>4, <2>2, <3>1 DEF IndInv, NamedIsThere
  <2>4. \A p \in Requests : pc'[p] = "raw" => Len(uris'[p]) = 1 /\ content'[uris'[p][1]] # "absent"
    <3> SUFFICES ASSUME NEW p \in Requests, pc'[p] = "raw"
                 PROVE  Len(uris'[p]) = 1 /\ content'[uris'[p][1]] # "absent"
      OBVIOUS
    <3>1. pc[p] = "raw" /\ uris'[p] = uris[p]  BY <1>4 DEF IndInv, TypeOK
    <3>2. Len(uris[p]) = 1 /\ content[uris[p][1]] # "absent"
      BY <3>1 DEF IndInv, NamedIsThere
    <3>3. uris[p] \in Seq(Uris)  BY DEF IndInv, TypeOK
    <3>4. uris[p][1] \in Uris  BY <3>2, <3>3, ElementOf
    <3> QED  BY <2>2, <3>1, <3>2, <3>4
  <2> QED
    BY <1>1, <1>6, <2>1, <2>3, <2>4 DEF IndInv, NamedIsThere
<1>8. UploadsKeepKeys'  BY <1>1, <1>2, <1>3 DEF IndInv, TypeOK, UploadsKeepKeys
<1>9. CachedIsStored'  BY <1>6 DEF IndInv, CachedIsStored
<1>10. \A p \in Requests : pc'[p] \in {"posting", "asking"} => p # q /\ pc'[p] = pc[p]
  BY <1>4 DEF IndInv, TypeOK
<1>11. AttachmentsFit'
  <2>1. \A p \in Requests : \A i \in 1..Len(uris[p]) : uris[p][i] \in Uris
    <3>1. \A p \in Requests : uris[p] \in Seq(Uris)  BY DEF IndInv, TypeOK
    <3> QED  BY <3>1, ElementOf
  <2>2. \A w \in Uris : content[w] # "absent" => content'[w] # "absent"
    BY <1>1, <1>2 DEF IndInv, TypeOK
  <2> QED  BY <1>4, <1>10, <2>1, <2>2 DEF IndInv, AttachmentsFit
<1>12. SentWithKeys'
  <2> SUFFICES ASSUME NEW p \in Requests, pc'[p] = "posting", uris'[p][1] \in uploaded',
                      NEW i \in DOMAIN uris'[p], uris'[p][i] \in uploaded'
               PROVE  carried'[p][i] = "own"
    BY DEF SentWithKeys
  <2>1. pc[p] = "posting"  BY <1>10
  <2>2. uris[p] \in Seq(Uris)  BY DEF IndInv, TypeOK
  <2>3. i \in 1..Len(uris[p]) /\ 1 \in 1..Len(uris[p])  BY <1>4, <2>2
  <2>4. uris[p][i] # u /\ uris[p][1] # u  BY <2>1, <2>3, FreshIsUnnamed
  <2>5. uris[p][i] \in uploaded /\ uris[p][1] \in uploaded  BY <1>1, <1>4, <2>4
  <2> QED  BY <1>4, <2>1, <2>5 DEF IndInv, SentWithKeys
<1> QED  BY <1>5, <1>7, <1>8, <1>9, <1>11, <1>12 DEF IndInv

(* New media of which no keys are kept, with the copy it may be.           *)
LEMMA MediaAdded ==
  ASSUME IndInv, TypeOK', NEW u \in Fresh, NEW c \in {"cipher", "plain"},
         content' = [content EXCEPT ![u] = c],
         UNCHANGED <<media_row, uploaded>>, uploaded \subseteq upload_row',
         Cached' \subseteq Stored,
         \A q \in Requests : copies'[q] \in {copies[q], Append(copies[q], u)},
         \A q \in Requests : pc'[q] \in {"raw", "posting", "asking"} =>
           pc'[q] = pc[q] /\ uris'[q] = uris[q] /\ carried'[q] = carried[q]
  PROVE  IndInv'
<1>1. u \in Uris /\ u \notin Received \cup uploaded \cup Stored  BY FreshIsUnnamed
<1>2. /\ \A w \in Uris : content'[w] = "absent" => content[w] = "absent" /\ w # u
      /\ \A w \in Uris : content[w] # "absent" => content'[w] # "absent"
      /\ content'[u] # "absent"
  BY <1>1 DEF IndInv, TypeOK
<1>3. Stored' = Stored  BY DEF Stored
<1>4. \A q \in Requests : uris[q] \in Seq(Uris) /\ copies[q] \in Seq(Uris)
  BY DEF IndInv, TypeOK
<1>5. NamedIsThere'
  <2>1. ASSUME NEW q \in Requests, NEW i \in DOMAIN copies'[q]
        PROVE  content'[copies'[q][i]] # "absent"
    <3>1. CASE copies'[q] = copies[q]
      <4>1. i \in 1..Len(copies[q])  BY <1>4, <2>1, <3>1
      <4>2. copies[q][i] \in Uris  BY <1>4, <4>1, ElementOf
      <4>3. content[copies[q][i]] # "absent"  BY <2>1, <3>1 DEF IndInv, NamedIsThere
      <4> QED  BY <1>2, <3>1, <4>2, <4>3
    <3>2. CASE copies'[q] = Append(copies[q], u)
      <4>1. i \in 1..(Len(copies[q]) + 1)  BY <1>4, <2>1, <3>2
      <4>2. CASE i \in 1..Len(copies[q])
        <5>1. copies'[q][i] = copies[q][i]  BY <1>4, <3>2, <4>2
        <5>2. copies[q][i] \in Uris  BY <1>4, <4>2, ElementOf
        <5>3. i \in DOMAIN copies[q]  BY <1>4, <4>2
        <5>4. content[copies[q][i]] # "absent"  BY <5>3 DEF IndInv, NamedIsThere
        <5> QED  BY <1>2, <5>1, <5>2, <5>4
      <4>3. CASE i = Len(copies[q]) + 1
        <5>1. copies'[q][i] = u  BY <1>4, <3>2, <4>3
        <5> QED  BY <1>2, <5>1
      <4>4. Len(copies[q]) \in Nat  BY <1>4
      <4> QED  BY <4>1, <4>2, <4>3, <4>4
    <3> QED  BY <3>1, <3>2
  <2>2. ASSUME NEW q \in Requests, pc'[q] = "raw"
        PROVE  Len(uris'[q]) = 1 /\ content'[uris'[q][1]] # "absent"
    <3>1. Len(uris[q]) = 1 /\ content[uris[q][1]] # "absent"
      BY <2>2 DEF IndInv, NamedIsThere
    <3>2. uris[q][1] \in Uris  BY <1>4, <3>1, ElementOf
    <3> QED  BY <1>2, <2>2, <3>1, <3>2
  <2>3. \A w \in Uris : content'[w] = "absent" => w \notin Received \cup uploaded' \cup Stored'
    BY <1>2, <1>3 DEF IndInv, NamedIsThere
  <2> QED  BY <2>1, <2>2, <2>3 DEF NamedIsThere
<1>6. UploadsKeepKeys'  BY DEF IndInv, UploadsKeepKeys
<1>7. CachedIsStored'  BY <1>3 DEF CachedIsStored
<1>8. AttachmentsFit'
  <2>1. \A q \in Requests : \A i \in 1..Len(uris[q]) : uris[q][i] \in Uris
    BY <1>4, ElementOf
  <2> QED  BY <1>2, <2>1 DEF IndInv, AttachmentsFit
<1>9. SentWithKeys'  BY DEF IndInv, SentWithKeys
<1> QED  BY <1>5, <1>6, <1>7, <1>8, <1>9 DEF IndInv

(* The decrypted copy of an attachment is answered with a fresh URI.       *)
LEMMA ReuploadReturnsStep ==
  ASSUME IndInv, NEW q \in Requests, ReuploadReturns(q)
  PROVE  IndInv'
<1>1. PICK u \in Fresh : /\ content' = [content EXCEPT ![u] = "plain"]
                         /\ copies' = [copies EXCEPT ![q] = Append(@, u)]
  BY DEF ReuploadReturns
<1>2. u \in Uris  BY DEF Fresh
<1>3. PICK stage \in {"forwarding", "resolving"} : pc' = [pc EXCEPT ![q] = stage]
  BY DEF ReuploadReturns, Goto
<1>4. UNCHANGED <<storeVars, media_info, pan_clients, uploaded, uris, keys, carried, result>>
  BY DEF ReuploadReturns
<1>5. Append(copies[q], u) \in Seq(Uris)  BY <1>2 DEF IndInv, TypeOK
<1>6. TypeOK'
  BY <1>1, <1>2, <1>3, <1>4, <1>5 DEF IndInv, TypeOK, Stages, storeVars
<1>7. Cached' \subseteq Stored  BY <1>4 DEF IndInv, Cached, CachedIsStored
<1>8. \A p \in Requests : copies'[p] \in {copies[p], Append(copies[p], u)}
  BY <1>1 DEF IndInv, TypeOK
<1>9. \A p \in Requests : pc'[p] \in {"raw", "posting", "asking"} =>
        pc'[p] = pc[p] /\ uris'[p] = uris[p] /\ carried'[p] = carried[p]
  BY <1>3, <1>4 DEF IndInv, TypeOK
<1>10. uploaded \subseteq upload_row' /\ UNCHANGED <<media_row, uploaded>>
  BY <1>4 DEF IndInv, TypeOK, UploadsKeepKeys, storeVars
<1> QED  BY <1>1, <1>6, <1>7, <1>8, <1>9, <1>10, MediaAdded

(* An event that arrives brings its own keys: the row stays, the cache     *)
(* not.                                                                    *)
LEMMA StoreEventMediaStep ==
  ASSUME IndInv, NEW u \in Uris, NEW k \in Keys, StoreEventMedia(u, k)
  PROVE  IndInv'
<1>1. content[u] # "absent"  BY KnownIsThere DEF IndInv, StoreEventMedia
<1>2. /\ media_info' \in [Uris -> Keys \cup {None}]
      /\ Cached' \subseteq Cached \cup {u}
  BY PutInCacheKeeps DEF IndInv, TypeOK, StoreEventMedia
<1>3. media_row' = [media_row EXCEPT ![u] = IF u \in Stored THEN @ ELSE k]
  BY DEF StoreEventMedia, SaveMedia
<1>4. UNCHANGED <<content, upload_row, pan_clients, uploaded, requestVars>>
  BY DEF StoreEventMedia
<1>5. TypeOK'  BY <1>2, <1>3, <1>4 DEF IndInv, TypeOK, requestVars
<1>6. k # None  BY NoneAssumption DEF Keys
<1>7. Stored' = Stored \cup {u}  BY <1>3, <1>6 DEF Stored, IndInv, TypeOK
<1>8. NamedIsThere'  BY <1>1, <1>4, <1>7 DEF IndInv, NamedIsThere, requestVars
<1>9. UploadsKeepKeys'
  <2>1. \A w \in uploaded : w \in Stored /\ media_row[w] = "own"
    BY NoneAssumption DEF IndInv, TypeOK, UploadsKeepKeys, Stored
  <2> QED  BY <1>3, <1>4, <2>1 DEF IndInv, TypeOK, UploadsKeepKeys
<1>10. CachedIsStored'  BY <1>2, <1>7 DEF IndInv, CachedIsStored
<1>11. AttachmentsFit' /\ SentWithKeys'
  BY <1>4, AttachmentsKept DEF requestVars
<1> QED  BY <1>5, <1>8, <1>9, <1>10, <1>11 DEF IndInv

(* What a restart leaves: no request is under way, the cache comes from    *)
(* the table.                                                              *)
LEMMA Reloaded ==
  ASSUME IndInv, media_row' = media_row, Reload
  PROVE  /\ media_info' \in [Uris -> Keys \cup {None}]
         /\ Cached' \subseteq Stored
         /\ pc' \in [Requests -> {"idle", "done"}]
         /\ result' \in [Requests -> Results]
         /\ UNCHANGED <<pan_clients, uploaded, mediaVars>>
<1>1. PICK kept \in SUBSET Uris :
        /\ Fits(kept, {u \in Uris : media_row'[u] # None})
        /\ media_info' = [u \in Uris |-> IF u \in kept THEN media_row'[u] ELSE None]
  BY DEF Reload
<1>2. kept \subseteq Stored  BY <1>1 DEF Fits, Stored
<1>3. media_info' \in [Uris -> Keys \cup {None}]  BY <1>1 DEF IndInv, TypeOK
<1>4. Cached' \subseteq Stored  BY <1>1, <1>2 DEF Cached
<1>5. pc' \in [Requests -> {"idle", "done"}]  BY DEF Reload
<1>6. result' \in [Requests -> Results]  BY DEF Reload, IndInv, TypeOK, Results
<1> QED  BY <1>3, <1>4, <1>5, <1>6 DEF Reload

(* A restart: the cache is loaded from the table, the requests are gone.   *)
LEMMA RestartStep ==
  ASSUME IndInv, Restart
  PROVE  IndInv'
<1>1. UNCHANGED <<content, storeVars>> /\ Reload /\ media_row' = media_row
  BY DEF Restart, storeVars
<1>2. /\ media_info' \in [Uris -> Keys \cup {None}]
      /\ Cached' \subseteq Stored
      /\ pc' \in [Requests -> {"idle", "done"}]
      /\ result' \in [Requests -> Results]
      /\ UNCHANGED <<pan_clients, uploaded, mediaVars>>
  BY <1>1, Reloaded
<1>3. TypeOK'  BY <1>1, <1>2 DEF IndInv, TypeOK, Stages, storeVars, mediaVars
<1>4. AttachmentsFit' /\ SentWithKeys'  BY <1>2 DEF AttachmentsFit, SentWithKeys
<1>5. \A q \in Requests : pc'[q] # "raw"  BY <1>2
<1> QED  BY <1>1, <1>2, <1>3, <1>4, <1>5, CacheKept DEF mediaVars

(* A stop between the two rows of an upload.                               *)
LEMMA RestartInUploadStep ==
  ASSUME IndInv, NEW q \in Requests, RestartInUpload(q)
  PROVE  IndInv'
<1>1. PICK u \in Fresh : /\ content' = [content EXCEPT ![u] = "cipher"]
                         /\ upload_row' = upload_row \cup {u}
  BY DEF RestartInUpload
<1>2. Reload /\ media_row' = media_row  BY DEF RestartInUpload
<1>3. /\ media_info' \in [Uris -> Keys \cup {None}]
      /\ Cached' \subseteq Stored
      /\ pc' \in [Requests -> {"idle", "done"}]
      /\ result' \in [Requests -> Results]
      /\ UNCHANGED <<pan_clients, uploaded, mediaVars>>
  BY <1>2, Reloaded
<1>4. u \in Uris  BY DEF Fresh
<1>5. TypeOK'  BY <1>1, <1>2, <1>3, <1>4 DEF IndInv, TypeOK, Stages, mediaVars
<1>6. \A p \in Requests : pc'[p] \notin {"raw", "posting", "asking"}  BY <1>3
<1>7. uploaded \subseteq upload_row'  BY <1>1 DEF IndInv, UploadsKeepKeys
<1> QED  BY <1>1, <1>2, <1>3, <1>5, <1>6, <1>7, MediaAdded DEF mediaVars

-----------------------------------------------------------------------------
(* The invariant.                                                          *)

(* The steps of a request.                                                 *)
LEMMA RequestStep ==
  ASSUME IndInv, NEW q \in Requests, Request(q)
  PROVE  IndInv'
<1>1. CASE Local(q)  BY <1>1, LocalStep
<1>2. CASE UploadReturns(q)  BY <1>2, UploadReturnsStep
<1>3. CASE \E u \in Uris : DownloadRaw(q, u)  BY <1>3, DownloadRawStep
<1>4. CASE \E u \in Uris : Download(q, u)  BY <1>4, DownloadStep
<1>5. CASE Resolve(q)  BY <1>5, ResolveStep
<1>6. CASE ReuploadReturns(q)  BY <1>6, ReuploadReturnsStep
<1>7. CASE \E ref \in References : SendMedia(q, ref)  BY <1>7, SendMediaStep
<1>8. CASE SendMediaAnyways(q)  BY <1>8, SendMediaAnywaysStep
<1> QED
  BY <1>1, <1>2, <1>3, <1>4, <1>5, <1>6, <1>7, <1>8 DEF Request, Local

(* A step that changes nothing.                                            *)
LEMMA StutterStep ==
  ASSUME IndInv, UNCHANGED vars
  PROVE  IndInv'
<1> USE DEF IndInv, vars, sharedVars, storeVars, requestVars
<1>1. Stored' = Stored /\ Cached' = Cached  BY DEF Stored, Cached
<1>2. TypeOK' /\ NamedIsThere'  BY <1>1 DEF TypeOK, NamedIsThere
<1>3. UploadsKeepKeys' /\ CachedIsStored'  BY <1>1 DEF UploadsKeepKeys, CachedIsStored
<1>4. AttachmentsFit' /\ SentWithKeys'  BY DEF AttachmentsFit, SentWithKeys
<1> QED  BY <1>2, <1>3, <1>4

(* Every step keeps the invariant.                                         *)
LEMMA InvStep ==
  ASSUME IndInv, [Next]_vars
  PROVE  IndInv'
<1>1. CASE Login  BY <1>1, LoginStep
<1>2. CASE Restart  BY <1>2, RestartStep
<1>3. CASE \E q \in Requests : Request(q)  BY <1>3, RequestStep
<1>4. CASE \E q \in Requests : RestartInUpload(q)  BY <1>4, RestartInUploadStep
<1>5. CASE \E u \in Uris, k \in Keys : StoreEventMedia(u, k)
  BY <1>5, StoreEventMediaStep
<1>6. CASE UNCHANGED vars  BY <1>6, StutterStep
<1> QED  BY <1>1, <1>2, <1>3, <1>4, <1>5, <1>6 DEF Next

(* The repository, the tables, the cache and the messages under way agree  *)
(* in every reachable state.                                               *)
THEOREM Invariance == Spec => []IndInv
<1>1. Init => IndInv  BY InvInit
<1>2. IndInv /\ [Next]_vars => IndInv'  BY InvStep
<1> QED  BY <1>1, <1>2, PTL DEF Spec

(* Every variable keeps its type.                                          *)
THEOREM TypeCorrect == Spec => []TypeOK
<1>1. IndInv => TypeOK  BY DEF IndInv
<1> QED  BY <1>1, Invariance, PTL

(* An upload that was answered keeps both its rows and its own keys, for   *)
(* any number of events, evictions, restarts and other uploads.            *)
THEOREM KeysKept == Spec => []UploadsKeepKeys
<1>1. IndInv => UploadsKeepKeys  BY DEF IndInv
<1> QED  BY <1>1, Invariance, PTL

(* Whatever the size of the cache, it knows nothing the table does not.    *)
THEOREM CacheWithinTable == Spec => []CachedIsStored
<1>1. IndInv => CachedIsStored  BY DEF IndInv
<1> QED  BY <1>1, Invariance, PTL

(* An event that shows an upload carries the upload's keys, its            *)
(* thumbnail's included, the first and the second time it is sent.         *)
THEOREM KeysSent == Spec => []SentWithKeys
<1>1. IndInv => SentWithKeys  BY DEF IndInv
<1> QED  BY <1>1, Invariance, PTL

-----------------------------------------------------------------------------
(* Reading an upload.  The keys of a copy are those of the row, which no    *)
(* step changes once it is there, and a download is passed on only of what  *)
(* is not stored or while there is no client, of which uploads need one.    *)
Raw(q) == pc[q] = "raw" \/ result[q] = "cipher"
Copied(q) == pc[q] \in {"to_fetch", "to_decrypt"}

ReadableInv ==
  /\ uploaded # {} \/ (\E q \in Requests : pc[q] = "uploading") => pan_clients
  /\ \A q \in Requests :
       /\ result[q] = "cipher" => pc[q] = "done"
       /\ Raw(q) => uris[q][1] \in Uris \ uploaded /\ content[uris[q][1]] # "absent"
       /\ Copied(q) => Current(q) \in Stored /\ keys[q] = media_row[Current(q)]

(* What no step takes back: a client, a media, the keys in a row.  And only *)
(* an upload that returns adds to the uploads, a URI that nothing had.      *)
LEMMA SharedGrows ==
  ASSUME TypeOK, [Next]_vars
  PROVE  /\ pan_clients => pan_clients'
         /\ \A u \in Uris : content[u] # "absent" => content'[u] # "absent"
         /\ \A u \in Stored : u \in Stored' /\ media_row'[u] = media_row[u]
         /\ \/ uploaded' = uploaded
            \/ \E q \in Requests : pc[q] = "uploading" /\ uploaded' \subseteq uploaded \cup Fresh
<1> USE DEF TypeOK, Stored, Fresh, SaveMedia, storeVars, sharedVars
<1>1. CASE Login \/ Restart  BY <1>1 DEF Login, Restart, Reload
<1>2. ASSUME NEW q \in Requests, RestartInUpload(q)
      PROVE  /\ UNCHANGED <<pan_clients, media_row, uploaded>>
             /\ \A u \in Uris : content[u] # "absent" => content'[u] # "absent"
  BY <1>2 DEF RestartInUpload, Reload
<1>3. ASSUME NEW q \in Requests, UploadReturns(q)
      PROVE  /\ UNCHANGED pan_clients /\ pc[q] = "uploading"
             /\ uploaded' \subseteq uploaded \cup Fresh
             /\ \A u \in Uris : content[u] # "absent" => content'[u] # "absent"
             /\ \A u \in Stored : u \in Stored' /\ media_row'[u] = media_row[u]
  BY <1>3 DEF UploadReturns
<1>4. ASSUME NEW q \in Requests, ReuploadReturns(q)
      PROVE  /\ UNCHANGED <<pan_clients, media_row, uploaded>>
             /\ \A u \in Uris : content[u] # "absent" => content'[u] # "absent"
  BY <1>4 DEF ReuploadReturns
<1>5. ASSUME NEW q \in Requests, Request(q), ~UploadReturns(q), ~ReuploadReturns(q)
      PROVE  UNCHANGED <<pan_clients, content, media_row, uploaded>>
  BY <1>5 DEF Request, UploadWithoutClient, Upload, UploadFails, DownloadRaw, Download,
       RawReturns, DownloadReturns, Decrypt, Reference, SendMedia, ResolveUnknown, Resolve,
       FetchReturns, DecryptCopy, ReuploadFails, ForwardReturns, SendMediaReturns,
       SendMediaAnyways
<1>6. ASSUME NEW w \in Uris, NEW k \in Keys, StoreEventMedia(w, k)
      PROVE  /\ UNCHANGED <<pan_clients, content, uploaded>>
             /\ \A u \in Stored : u \in Stored' /\ media_row'[u] = media_row[u]
  BY <1>6, NoneAssumption DEF StoreEventMedia, Keys
<1>7. CASE UNCHANGED vars  BY <1>7 DEF vars
<1> QED  BY <1>1, <1>2, <1>3, <1>4, <1>5, <1>6, <1>7 DEF Next

(* What a step may do to a request: leave it, end it, begin or end a raw    *)
(* download, take keys for a copy, begin an upload, or go on to another     *)
(* stage, of which nothing is said here.                                   *)
Untouched(q) == /\ pc'[q] = pc[q] /\ result'[q] = result[q]
                /\ uris'[q] = uris[q] /\ copies'[q] = copies[q] /\ keys'[q] = keys[q]

GoesOn(q) == /\ pc[q] # "done" /\ result'[q] \in {result[q], "ok", "plain", "failed", "dropped"}
             /\ pc'[q] \notin {"raw", "to_fetch", "to_decrypt", "uploading"}

Fetched(q) == /\ pc[q] = "to_fetch" /\ pc'[q] = "to_decrypt" /\ result'[q] = result[q]
              /\ uris'[q] = uris[q] /\ copies'[q] = copies[q] /\ keys'[q] = keys[q]

(* Every step does one of these to a request.                              *)
LEMMA RequestChange ==
  ASSUME TypeOK, [Next]_vars, NEW p \in Requests
  PROVE  \/ Untouched(p) \/ GoesOn(p) \/ Fetched(p) \/ RawReturns(p) \/ Upload(p)
         \/ Resolve(p) \/ \E u \in Uris : DownloadRaw(p, u)
<1> USE DEF TypeOK, Goto, Answer, ForwardOriginal, sharedVars, mediaVars
<1>1. ASSUME NEW q \in Requests, q # p, Request(q)
      PROVE  Untouched(p)
  <2> USE DEF Untouched
  <2>1. CASE \/ UploadWithoutClient(q) \/ Upload(q) \/ UploadReturns(q) \/ UploadFails(q)
             \/ (\E u \in Uris : DownloadRaw(q, u) \/ Download(q, u))
             \/ RawReturns(q) \/ DownloadReturns(q) \/ Decrypt(q)
    BY <1>1, <2>1 DEF UploadWithoutClient, Upload, UploadReturns, UploadFails, DownloadRaw,
         Download, RawReturns, DownloadReturns, Decrypt
  <2>2. CASE \/ (\E ref \in References : Reference(q, ref)) \/ ResolveUnknown(q) \/ Resolve(q)
             \/ FetchReturns(q) \/ DecryptCopy(q) \/ ReuploadReturns(q) \/ ReuploadFails(q)
    BY <1>1, <2>2 DEF Reference, ResolveUnknown, Resolve, FetchReturns, DecryptCopy,
         ReuploadReturns, ReuploadFails
  <2>3. CASE \/ (\E ref \in References : SendMedia(q, ref)) \/ ForwardReturns(q)
             \/ SendMediaReturns(q) \/ SendMediaAnyways(q)
    BY <1>1, <2>3 DEF SendMedia, ForwardReturns, SendMediaReturns, SendMediaAnyways
  <2> QED  BY <1>1, <2>1, <2>2, <2>3 DEF Request
<1>2. CASE \/ UploadWithoutClient(p) \/ UploadReturns(p) \/ UploadFails(p)
           \/ (\E u \in Uris : Download(p, u)) \/ DownloadReturns(p) \/ Decrypt(p)
           \/ (\E ref \in References : Reference(p, ref) \/ SendMedia(p, ref))
  BY <1>2 DEF UploadWithoutClient, UploadReturns, UploadFails, Download, DownloadReturns,
       Decrypt, Reference, SendMedia, GoesOn
<1>3. CASE \/ ResolveUnknown(p) \/ DecryptCopy(p) \/ ReuploadReturns(p) \/ ReuploadFails(p)
           \/ ForwardReturns(p) \/ SendMediaReturns(p) \/ SendMediaAnyways(p)
  BY <1>3 DEF ResolveUnknown, DecryptCopy, ReuploadReturns, ReuploadFails, ForwardReturns,
       SendMediaReturns, SendMediaAnyways, GoesOn
<1>4. CASE FetchReturns(p)  BY <1>4 DEF FetchReturns, GoesOn, Fetched
<1>5. CASE Restart \/ \E q \in Requests : RestartInUpload(q)
  BY <1>5 DEF Restart, RestartInUpload, Reload, GoesOn, Untouched
<1>6. CASE \/ Login \/ (\E u \in Uris, k \in Keys : StoreEventMedia(u, k)) \/ UNCHANGED vars
  BY <1>6 DEF Login, StoreEventMedia, vars, requestVars, Untouched
<1> QED  BY <1>1, <1>2, <1>3, <1>4, <1>5, <1>6 DEF Next, Request

(* Every step keeps what reading an upload rests on.                       *)
LEMMA ReadableStep ==
  ASSUME IndInv, ReadableInv, [Next]_vars
  PROVE  ReadableInv'
<1>1. TypeOK /\ NamedIsThere /\ UploadsKeepKeys  BY DEF IndInv
<1>2. uploaded' # {} \/ (\E q \in Requests : pc'[q] = "uploading") => pan_clients'
  <2>1. ASSUME NEW q \in Requests, pc'[q] = "uploading"
        PROVE  pan_clients'
    <3>1. pc[q] = "uploading" \/ pan_clients
      BY <1>1, <2>1, RequestChange DEF Untouched, GoesOn, Fetched, RawReturns, Upload, Resolve,
         DownloadRaw, Goto, Answer, TypeOK
    <3> QED  BY <1>1, <3>1, SharedGrows DEF ReadableInv
  <2>2. uploaded' # {} => pan_clients'  BY <1>1, SharedGrows DEF ReadableInv
  <2> QED  BY <2>1, <2>2
<1>3. ASSUME NEW q \in Requests
      PROVE  /\ result'[q] = "cipher" => pc'[q] = "done"
             /\ Raw(q)' => uris'[q][1] \in Uris \ uploaded' /\ content'[uris'[q][1]] # "absent"
             /\ Copied(q)' => Current(q)' \in Stored' /\ keys'[q] = media_row'[Current(q)']
  <2>1. /\ result[q] = "cipher" => pc[q] = "done"
        /\ Raw(q) => uris[q][1] \in Uris \ uploaded /\ content[uris[q][1]] # "absent"
        /\ Copied(q) => Current(q) \in Stored /\ keys[q] = media_row[Current(q)]
    BY DEF ReadableInv
  <2>2. \A u \in Uris \ uploaded : content[u] # "absent" =>
          u \in Uris \ uploaded' /\ content'[u] # "absent"
    BY <1>1, SharedGrows DEF Fresh
  <2>3. \A u \in Stored : u \in Stored' /\ media_row'[u] = media_row[u]
    BY <1>1, SharedGrows
  <2>4. CASE Untouched(q)
    BY <2>1, <2>2, <2>3, <2>4 DEF Untouched, Raw, Copied, Current
  <2>5. CASE GoesOn(q)  BY <2>1, <2>5 DEF GoesOn, Raw, Copied
  <2>6. CASE Fetched(q)
    BY <2>1, <2>2, <2>3, <2>6 DEF Fetched, Raw, Copied, Current
  <2>7. CASE RawReturns(q)
    <3>1. pc[q] = "raw" /\ pc'[q] = "done" /\ uris'[q] = uris[q]
      BY <1>1, <2>7 DEF RawReturns, Answer, Goto, mediaVars, TypeOK
    <3> QED  BY <2>1, <2>2, <3>1 DEF Raw, Copied
  <2>8. CASE Upload(q)
    <3>1. pc[q] = "idle" /\ pc'[q] = "uploading" /\ result'[q] = result[q]
      BY <1>1, <2>8 DEF Upload, Goto, mediaVars, TypeOK
    <3> QED  BY <2>1, <3>1 DEF Raw, Copied
  <2>9. CASE Resolve(q)
    <3>1. /\ pc[q] = "resolving" /\ pc'[q] = "to_fetch" /\ result'[q] = result[q]
          /\ uris'[q] = uris[q] /\ copies'[q] = copies[q]
          /\ Current(q) \in Stored /\ keys'[q] = media_row[Current(q)]
      BY <1>1, <2>9 DEF Resolve, HasInfo, Goto, TypeOK
    <3> QED  BY <2>1, <2>3, <3>1 DEF Raw, Copied, Current
  <2>10. CASE \E u \in Uris : DownloadRaw(q, u)
    <3>1. PICK u \in Uris : DownloadRaw(q, u)  BY <2>10
    <3>2. /\ pc[q] = "idle" /\ pc'[q] = "raw" /\ result'[q] = result[q] /\ uris'[q][1] = u
          /\ u \in Known /\ (u \notin Stored \/ ~pan_clients)
      BY <1>1, <3>1 DEF DownloadRaw, Goto, TypeOK
    <3>3. content[u] # "absent"  BY <1>1, <3>2, KnownIsThere
    <3>4. u \notin uploaded
      <4>1. u \in uploaded => u \in Stored
        BY <1>1, NoneAssumption DEF UploadsKeepKeys, Stored
      <4> QED  BY <3>2, <4>1 DEF ReadableInv
    <3> QED  BY <2>1, <2>2, <3>2, <3>3, <3>4 DEF Raw, Copied
  <2> QED
    BY <1>1, <2>4, <2>5, <2>6, <2>7, <2>8, <2>9, <2>10, RequestChange
<1> QED  BY <1>2, <1>3 DEF ReadableInv

(* An upload is never handed back as ciphertext, and copied with its own    *)
(* keys, for any cache, any events and any restarts.                       *)
THEOREM Readable == Spec => []UploadsReadable
<1>1. Init => ReadableInv  BY DEF Init, ReadableInv, Raw, Copied
<1>2. IndInv /\ ReadableInv /\ [Next]_vars => ReadableInv'  BY ReadableStep
<1>3. IndInv /\ ReadableInv => UploadsReadable
  BY DEF IndInv, ReadableInv, UploadsKeepKeys, UploadsReadable, Raw, Copied
<1> QED  BY <1>1, <1>2, <1>3, Invariance, PTL DEF Spec

-----------------------------------------------------------------------------
(* Readable copies.  A request collects one copy after another and throws  *)
(* all of them away when one cannot be had.                                *)
Copying == {"resolving", "to_fetch", "to_decrypt", "reuploading"}

CopiesInv ==
  \A q \in Requests :
    /\ \A i \in 1..Len(copies[q]) : content[copies[q][i]] = "plain"
    /\ pc[q] = "idle" => copies[q] = <<>>
    /\ pc[q] \in Copying => Len(copies[q]) < Len(uris[q])
    /\ pc[q] = "forwarding" => copies[q] = <<>> \/ Len(copies[q]) = Len(uris[q])

(* What the media repository has is never changed.                         *)
LEMMA PlainStays ==
  ASSUME TypeOK, [Next]_vars, NEW u \in Uris, content[u] = "plain"
  PROVE  content'[u] = "plain"
<1>1. ASSUME NEW q \in Requests, UploadReturns(q) \/ ReuploadReturns(q) \/ RestartInUpload(q)
      PROVE  content'[u] = "plain"
  <2>1. \E w \in Fresh : \E c \in {"cipher", "plain"} : content' = [content EXCEPT ![w] = c]
    BY <1>1 DEF UploadReturns, ReuploadReturns, RestartInUpload
  <2> QED  BY <2>1 DEF Fresh, TypeOK
<1>2. ASSUME NEW q \in Requests, Request(q), ~UploadReturns(q), ~ReuploadReturns(q)
      PROVE  UNCHANGED content
  BY <1>2 DEF Request, UploadWithoutClient, Upload, UploadFails, DownloadRaw, Download,
       RawReturns, DownloadReturns, Decrypt, Reference, SendMedia, ResolveUnknown, Resolve,
       FetchReturns, DecryptCopy, ReuploadFails, ForwardReturns, SendMediaReturns,
       SendMediaAnyways, sharedVars
<1>3. ASSUME \/ Login \/ Restart \/ (\E w \in Uris, k \in Keys : StoreEventMedia(w, k))
             \/ UNCHANGED vars
      PROVE  UNCHANGED content
  BY <1>3 DEF Login, Restart, StoreEventMedia, vars, sharedVars
<1> QED  BY <1>1, <1>2, <1>3 DEF Next

(* Where a request's copies stand after a step that collects none.         *)
Keeps(q) ==
  /\ copies'[q] = copies[q]
  /\ \/ pc'[q] = pc[q] /\ uris'[q] = uris[q]
     \/ pc'[q] \notin Copying \cup {"idle", "forwarding"}
     \/ pc[q] \in Copying /\ pc'[q] \in Copying /\ uris'[q] = uris[q]

Begins(q) == /\ pc[q] = "idle" /\ pc'[q] = "resolving"
             /\ copies'[q] = copies[q] /\ Len(uris'[q]) \in {1, 2}

GivesUp(q) == pc'[q] = "forwarding" /\ copies'[q] = <<>>

(* One of these is what every step does to a request's copies, but for the *)
(* upload of a copy.                                                       *)
LEMMA CopiesKept ==
  ASSUME TypeOK, TypeOK', [Next]_vars, NEW p \in Requests, ~ReuploadReturns(p)
  PROVE  Keeps(p) \/ Begins(p) \/ GivesUp(p)
<1> USE DEF TypeOK, Goto, Answer, Keeps
<1>1. ASSUME NEW q \in Requests, q # p, Request(q)
      PROVE  Keeps(p)
  <2>1. CASE \/ UploadWithoutClient(q) \/ Upload(q) \/ UploadReturns(q) \/ UploadFails(q)
             \/ (\E u \in Uris : DownloadRaw(q, u) \/ Download(q, u))
             \/ RawReturns(q) \/ DownloadReturns(q) \/ Decrypt(q)
    BY <1>1, <2>1 DEF UploadWithoutClient, Upload, UploadReturns, UploadFails, DownloadRaw,
         Download, RawReturns, DownloadReturns, Decrypt, sharedVars, mediaVars
  <2>2. CASE \/ (\E ref \in References : Reference(q, ref)) \/ ResolveUnknown(q) \/ Resolve(q)
             \/ FetchReturns(q) \/ DecryptCopy(q) \/ ReuploadReturns(q) \/ ReuploadFails(q)
    BY <1>1, <2>2 DEF Reference, ResolveUnknown, Resolve, FetchReturns, DecryptCopy,
         ReuploadReturns, ReuploadFails, ForwardOriginal, sharedVars, mediaVars
  <2>3. CASE \/ (\E ref \in References : SendMedia(q, ref)) \/ ForwardReturns(q)
             \/ SendMediaReturns(q) \/ SendMediaAnyways(q)
    BY <1>1, <2>3 DEF SendMedia, ForwardReturns, SendMediaReturns, SendMediaAnyways,
         sharedVars, mediaVars
  <2> QED  BY <1>1, <2>1, <2>2, <2>3 DEF Request
<1>2. ASSUME \/ UploadWithoutClient(p) \/ Upload(p) \/ UploadReturns(p) \/ UploadFails(p)
             \/ (\E u \in Uris : DownloadRaw(p, u) \/ Download(p, u))
             \/ RawReturns(p) \/ DownloadReturns(p) \/ Decrypt(p)
             \/ (\E ref \in References : SendMedia(p, ref))
             \/ Resolve(p) \/ DecryptCopy(p) \/ ForwardReturns(p)
             \/ SendMediaReturns(p) \/ SendMediaAnyways(p)
      PROVE  Keeps(p)
  <2>1. CASE \/ UploadWithoutClient(p) \/ Upload(p) \/ UploadReturns(p) \/ UploadFails(p)
    BY <2>1 DEF UploadWithoutClient, Upload, UploadReturns, UploadFails, sharedVars,
         mediaVars, Copying
  <2>2. CASE \/ (\E u \in Uris : DownloadRaw(p, u) \/ Download(p, u))
             \/ RawReturns(p) \/ DownloadReturns(p) \/ Decrypt(p)
    BY <2>2 DEF DownloadRaw, Download, RawReturns, DownloadReturns, Decrypt, sharedVars,
         mediaVars, Copying
  <2>3. CASE Resolve(p) \/ DecryptCopy(p) \/ ForwardReturns(p)
    BY <2>3 DEF Resolve, DecryptCopy, ForwardReturns, sharedVars, mediaVars, Copying
  <2>4. CASE \/ (\E ref \in References : SendMedia(p, ref))
             \/ SendMediaReturns(p) \/ SendMediaAnyways(p)
    BY <2>4 DEF SendMedia, SendMediaReturns, SendMediaAnyways, sharedVars, mediaVars, Copying
  <2> QED  BY <1>2, <2>1, <2>2, <2>3, <2>4
<1>3. CASE ResolveUnknown(p) \/ FetchReturns(p) \/ ReuploadFails(p)
  BY <1>3 DEF ResolveUnknown, FetchReturns, ReuploadFails, ForwardOriginal, GivesUp, Copying
<1>4. ASSUME NEW ref \in References, Reference(p, ref)
      PROVE  Begins(p)
  BY <1>4, ReferenceUris DEF Reference, Begins
<1>5. ASSUME \/ Login \/ Restart \/ (\E q \in Requests : RestartInUpload(q))
             \/ (\E u \in Uris, k \in Keys : StoreEventMedia(u, k)) \/ UNCHANGED vars
      PROVE  Keeps(p)
  BY <1>5 DEF Login, Restart, RestartInUpload, Reload, StoreEventMedia, vars, requestVars,
       mediaVars, Copying
<1> QED  BY <1>1, <1>2, <1>3, <1>4, <1>5 DEF Next, Request

(* Every step keeps what is said of the copies.                            *)
LEMMA CopiesStep ==
  ASSUME TypeOK, TypeOK', CopiesInv, [Next]_vars
  PROVE  CopiesInv'
<1> SUFFICES ASSUME NEW q \in Requests
             PROVE  /\ \A i \in 1..Len(copies'[q]) : content'[copies'[q][i]] = "plain"
                    /\ pc'[q] = "idle" => copies'[q] = <<>>
                    /\ pc'[q] \in Copying => Len(copies'[q]) < Len(uris'[q])
                    /\ pc'[q] = "forwarding" =>
                         copies'[q] = <<>> \/ Len(copies'[q]) = Len(uris'[q])
  BY DEF CopiesInv
<1>1. /\ copies[q] \in Seq(Uris) /\ uris[q] \in Seq(Uris)
      /\ Len(copies[q]) \in Nat /\ Len(uris[q]) \in Nat
  BY DEF TypeOK
<1>2. \A i \in 1..Len(copies[q]) : content'[copies[q][i]] = "plain"
  <2> SUFFICES ASSUME NEW i \in 1..Len(copies[q])  PROVE content'[copies[q][i]] = "plain"
    OBVIOUS
  <2>1. copies[q][i] \in Uris  BY <1>1, ElementOf
  <2> QED  BY <2>1, PlainStays DEF CopiesInv
<1>3. CASE Keeps(q)  BY <1>2, <1>3 DEF CopiesInv, Keeps, Copying
<1>4. CASE Begins(q)
  <2>1. copies'[q] = <<>> /\ Len(copies'[q]) = 0  BY <1>4 DEF CopiesInv, Begins
  <2>2. pc'[q] = "resolving" /\ Len(uris'[q]) \in {1, 2}  BY <1>4 DEF Begins
  <2>3. 0 < Len(uris'[q])
    <3>1. \A n \in {1, 2} : 0 < n  OBVIOUS
    <3> QED  BY <2>2, <3>1
  <2>4. \A i \in 1..Len(copies'[q]) : FALSE  BY <2>1
  <2> QED  BY <2>1, <2>2, <2>3, <2>4
<1>5. CASE GivesUp(q)
  <2>1. Len(copies'[q]) = 0  BY <1>5 DEF GivesUp
  <2> QED  BY <1>5, <2>1 DEF GivesUp, Copying
<1>6. CASE ReuploadReturns(q)
  <2>1. PICK u \in Fresh : /\ content' = [content EXCEPT ![u] = "plain"]
                           /\ copies' = [copies EXCEPT ![q] = Append(@, u)]
    BY <1>6 DEF ReuploadReturns
  <2>2. /\ u \in Uris /\ content'[u] = "plain" /\ copies'[q] = Append(copies[q], u)
        /\ Len(copies'[q]) = Len(copies[q]) + 1 /\ uris'[q] = uris[q]
        /\ \A i \in 1..Len(copies'[q]) :
             \/ i \in 1..Len(copies[q]) /\ copies'[q][i] = copies[q][i]
             \/ copies'[q][i] = u
    BY <1>1, <1>6, <2>1 DEF ReuploadReturns, Fresh, TypeOK
  <2>3. Len(copies[q]) < Len(uris[q])  BY <1>6 DEF ReuploadReturns, CopiesInv, Copying
  <2>4. pc'[q] = IF Len(copies'[q]) = Len(uris'[q]) THEN "forwarding" ELSE "resolving"
    BY <1>6, <2>2 DEF ReuploadReturns, Goto, TypeOK
  <2> QED  BY <1>1, <1>2, <2>2, <2>3, <2>4 DEF Copying
<1> QED  BY <1>3, <1>4, <1>5, <1>6, CopiesKept

(* No copies, or a copy for each media, leave nothing to mix.              *)
LEMMA ForwardedIs ==
  ASSUME NEW S, NEW c \in Seq(S), NEW r \in Seq(S)
  PROVE  /\ c = <<>> => c \o SubSeq(r, Len(c) + 1, Len(r)) = r
         /\ Len(c) = Len(r) => c \o SubSeq(r, Len(c) + 1, Len(r)) = c
<1>1. c = <<>> => c \o SubSeq(r, Len(c) + 1, Len(r)) = r
  <2> HAVE c = <<>>
  <2>1. SubSeq(r, 1, Len(r)) = r  OBVIOUS
  <2> QED  BY <2>1
<1>2. Len(c) = Len(r) => c \o SubSeq(r, Len(c) + 1, Len(r)) = c
  <2> HAVE Len(c) = Len(r)
  <2>1. SubSeq(r, Len(c) + 1, Len(r)) = <<>>  OBVIOUS
  <2> QED  BY <2>1
<1> QED  BY <1>1, <1>2

(* A message or an avatar goes out as it came, or readable as a whole.     *)
THEOREM Wholly == Spec => []ForwardedWholly
<1>1. Init => CopiesInv  BY DEF Init, CopiesInv, Copying
<1>2. TypeOK /\ TypeOK' /\ CopiesInv /\ [Next]_vars => CopiesInv'  BY CopiesStep
<1>3. TypeOK /\ CopiesInv => ForwardedWholly
  <2> SUFFICES ASSUME TypeOK, CopiesInv, NEW q \in Requests, pc[q] = "forwarding"
               PROVE  \/ Forwarded(q) = uris[q]
                      \/ \A i \in DOMAIN uris[q] : content[Forwarded(q)[i]] = "plain"
    BY DEF ForwardedWholly
  <2>1. copies[q] \in Seq(Uris) /\ uris[q] \in Seq(Uris)  BY DEF TypeOK
  <2>2. CASE copies[q] = <<>>  BY <2>1, <2>2, ForwardedIs DEF Forwarded
  <2>3. CASE Len(copies[q]) = Len(uris[q])
    <3>1. Forwarded(q) = copies[q]  BY <2>1, <2>3, ForwardedIs DEF Forwarded
    <3>2. DOMAIN uris[q] = 1..Len(copies[q])  BY <2>1, <2>3
    <3> QED  BY <3>1, <3>2 DEF CopiesInv
  <2> QED  BY <2>2, <2>3 DEF CopiesInv
<1> QED  BY <1>1, <1>2, <1>3, TypeCorrect, PTL DEF Spec
=============================================================================
