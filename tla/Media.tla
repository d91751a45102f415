-------------------------------- MODULE Media --------------------------------
(***************************************************************************)
(* Encrypted attachments: ProxyDaemon.upload, download, profile and the    *)
(* media branches of send_message, over the two tables of PanStore and the *)
(* media cache the daemon shares with its clients.  A request is a         *)
(* coroutine; an action is what it does between two awaits.                *)
(*                                                                         *)
(* The keys of a media are "own", with which it was encrypted, or "other": *)
(* an event may name any media beside any keys.  The upload cache is left  *)
(* out: its rows never change, so a hit reads what a load would.           *)
(***************************************************************************)
EXTENDS Naturals, Sequences, FiniteSets

CONSTANTS Requests,
          Uris,       \* mxc URIs
          Received,   \* those of attachments others have sent
          MaxLoaded,  \* MAX_LOADED_MEDIA, the size of the cache
          None

ASSUME ReceivedAssumption == Received \subseteq Uris
ASSUME MaxLoadedAssumption == MaxLoaded \in Nat \ {0}
ASSUME NoneAssumption == None \notin Uris \cup {"own", "other"}

VARIABLES
  content,      \* what the homeserver's media repository holds
  upload_row,   \* the URIs that have a row in PanUploadInfo
  media_row,    \* the keys in PanMediaInfo, or None
  media_info,   \* the cache: keys, or None
  pan_clients,  \* is there a pan client?
  uploaded,     \* the URIs of uploads answered with success
  pc,           \* where a request's coroutine is suspended
  uris,         \* the media it is about, its thumbnail second
  keys,         \* the MediaInfo it decrypts with
  copies,       \* the decrypted copies that replace uris
  carried,      \* the keys put into an event of an encrypted room
  result        \* what the client got

storeVars   == <<upload_row, media_row>>
requestVars == <<pc, uris, keys, copies, carried, result>>
sharedVars  == <<content, storeVars, media_info, pan_clients, uploaded>>
mediaVars   == <<uris, keys, copies, carried>>
vars == <<sharedVars, requestVars>>

Keys == {"own", "other"}
Stages == {"idle", "uploading", "raw", "fetching", "decrypting",
           "resolving", "to_fetch", "to_decrypt", "reuploading", "forwarding",
           "posting", "asking", "done"}
Results == {"none", "ok", "plain", "cipher", "failed", "dropped"}

Init ==
  /\ content = [u \in Uris |-> IF u \in Received THEN "cipher" ELSE "absent"]
  /\ upload_row = {}
  /\ media_row = [u \in Uris |-> None]
  /\ media_info = [u \in Uris |-> None]
  /\ pan_clients = FALSE
  /\ uploaded = {}
  /\ pc = [q \in Requests |-> "idle"]
  /\ uris = [q \in Requests |-> <<>>]
  /\ keys = [q \in Requests |-> None]
  /\ copies = [q \in Requests |-> <<>>]
  /\ carried = [q \in Requests |-> <<>>]
  /\ result = [q \in Requests |-> "none"]

-----------------------------------------------------------------------------
Goto(q, stage) == pc' = [pc EXCEPT ![q] = stage]

(* The HTTP answer, and the mistake of taking the stage for it.             *)
AnswerSwapped(q, r) == Goto(q, r) /\ result' = [result EXCEPT ![q] = "done"]
Answer(q, r) == Goto(q, "done") /\ result' = [result EXCEPT ![q] = r]

Cached == {u \in Uris : media_info[u] # None}
Stored == {u \in Uris : media_row[u] # None}
Fresh == {u \in Uris : content[u] = "absent"}

(* The URIs a Matrix client has been told of.                              *)
Known == Received \cup uploaded
           \cup UNION {{copies[q][i] : i \in DOMAIN copies[q]} :
                         q \in {p \in Requests : result[p] = "ok"}}

(* A media message or an avatar, the message perhaps with a thumbnail.      *)
References == {<<u>> : u \in Known} \cup {<<u, v>> : u, v \in Known}

(* What a full cache of these may keep.  LRUCache evicts by order of use,   *)
(* which is abstracted.                                                    *)
Fits(kept, all) ==
  /\ kept \subseteq all /\ Cardinality(kept) <= MaxLoaded
  /\ kept = all \/ Cardinality(kept) = MaxLoaded

(* LRUCache.__setitem__ for each media of found, the last of which stays.   *)
Remember(found) ==
  \E kept \in SUBSET Uris :
    /\ Fits(kept, Cached \cup DOMAIN found)
    /\ DOMAIN found # {} => kept \cap DOMAIN found # {}
    /\ media_info' = [u \in Uris |-> IF u \notin kept THEN None
                                     ELSE IF u \in DOMAIN found THEN found[u]
                                     ELSE media_info[u]]

PutInCache(u, k) == Remember([w \in {u} |-> k])

(* INSERT ... ON CONFLICT DO NOTHING, and the mistake of replacing.         *)
SaveMediaReplacing(u, k) == media_row' = [media_row EXCEPT ![u] = k]
SaveMedia(u, k) ==
  media_row' = [media_row EXCEPT ![u] = IF u \in Stored THEN @ ELSE k]

(* Both rows are there: _get_upload_and_media_info returns them.            *)
HasInfo(u) == u \in upload_row /\ u \in Stored

(* What _load_decrypted_file takes: the cache's keys before the store's.    *)
KeysOf(u) == IF u \in Cached THEN media_info[u] ELSE media_row[u]

-----------------------------------------------------------------------------
(* Mistakes in the actions below: keys that are cached and not saved, keys  *)
(* that are sent as cached, copies kept after one failed.                  *)
StoreEventMediaInCache(u, k) ==
  /\ u \in Known
  /\ PutInCache(u, k)
  /\ UNCHANGED <<content, storeVars, pan_clients, uploaded, requestVars>>

CarriedFromCache(ref, before) ==
  [i \in 1..Len(ref) |-> IF HasInfo(ref[1]) /\ HasInfo(ref[i])
                           THEN KeysOf(ref[i]) ELSE before[i]]

ForwardOriginalAfterCopies(q) == Goto(q, "forwarding") /\ UNCHANGED copies

-----------------------------------------------------------------------------
(* A first client logs in.  None is ever removed.                           *)
Login ==
  /\ ~pan_clients
  /\ pan_clients' = TRUE
  /\ UNCHANGED <<content, storeVars, media_info, uploaded, requestVars>>

(* next(iter(pan_clients.values())) of an empty dictionary.                 *)
UploadWithoutClient(q) ==
  /\ pc[q] = "idle" /\ ~pan_clients
  /\ Answer(q, "failed")
  /\ UNCHANGED <<sharedVars, mediaVars>>

Upload(q) ==
  /\ pc[q] = "idle" /\ pan_clients
  /\ Goto(q, "uploading")
  /\ UNCHANGED <<sharedVars, mediaVars, result>>

(* The homeserver has stored the ciphertext: both rows are saved, and the   *)
(* client gets the URI.  The cache is not told.                             *)
UploadReturns(q) ==
  /\ pc[q] = "uploading"
  /\ \E u \in Fresh :
       /\ content' = [content EXCEPT ![u] = "cipher"]
       /\ upload_row' = upload_row \cup {u}
       /\ SaveMedia(u, "own")
       /\ uploaded' = uploaded \cup {u}
  /\ Answer(q, "ok")
  /\ UNCHANGED <<media_info, pan_clients, mediaVars>>

UploadFails(q) ==
  /\ pc[q] = "uploading"
  /\ Answer(q, "failed")
  /\ UNCHANGED <<sharedVars, mediaVars>>

-----------------------------------------------------------------------------
(* GET /media/download.  No keys, or no client to download with: the        *)
(* request is passed on and its answer is passed back.                      *)
DownloadRaw(q, u) ==
  /\ pc[q] = "idle" /\ u \in Known
  /\ \/ u \notin Cached \cup Stored /\ UNCHANGED media_info
     \/ u \in Cached /\ ~pan_clients /\ UNCHANGED media_info
     \/ u \in Stored \ Cached /\ ~pan_clients /\ PutInCache(u, media_row[u])
  /\ Goto(q, "raw")
  /\ uris' = [uris EXCEPT ![q] = <<u>>]
  /\ UNCHANGED <<content, storeVars, pan_clients, uploaded, keys, copies, carried, result>>

RawReturns(q) ==
  /\ pc[q] = "raw"
  /\ Answer(q, content[uris[q][1]]) \/ Answer(q, "failed")
  /\ UNCHANGED <<sharedVars, mediaVars>>

Download(q, u) ==
  /\ pc[q] = "idle" /\ u \in Known
  /\ u \in Cached \cup Stored /\ pan_clients
  /\ keys' = [keys EXCEPT ![q] = KeysOf(u)]
  /\ PutInCache(u, KeysOf(u))
  /\ Goto(q, "fetching")
  /\ uris' = [uris EXCEPT ![q] = <<u>>]
  /\ UNCHANGED <<content, storeVars, pan_clients, uploaded, copies, carried, result>>

(* The ciphertext goes to the process pool, or the homeserver's error to    *)
(* the client.                                                             *)
DownloadReturns(q) ==
  /\ pc[q] = "fetching"
  /\ \/ Goto(q, "decrypting") /\ UNCHANGED result
     \/ Answer(q, "failed")
  /\ UNCHANGED <<sharedVars, mediaVars>>

(* decrypt_attachment checks the hash: any other keys, or a media that is   *)
(* not encrypted, and it raises, which nothing catches.                     *)
Decrypts(q, u) == keys[q] = "own" /\ content[u] = "cipher"
Decrypt(q) ==
  /\ pc[q] = "decrypting"
  /\ Answer(q, IF Decrypts(q, uris[q][1]) THEN "plain" ELSE "failed")
  /\ UNCHANGED <<sharedVars, mediaVars>>

-----------------------------------------------------------------------------
(* PUT /profile/avatar_url, and a media message to a room that is not       *)
(* encrypted: others could not read the ciphertext, so a decrypted copy     *)
(* takes the place of each URI.                                            *)
Reference(q, ref) ==
  /\ pc[q] = "idle" /\ pan_clients
  /\ Goto(q, "resolving")
  /\ uris' = [uris EXCEPT ![q] = ref]
  /\ UNCHANGED <<sharedVars, keys, copies, carried, result>>

Current(q) == uris[q][Len(copies[q]) + 1]

(* NotDecryptedAvailableError: the request is forwarded as it came.         *)
ForwardOriginal(q) ==
  Goto(q, "forwarding") /\ copies' = [copies EXCEPT ![q] = <<>>]

ResolveUnknown(q) ==
  /\ pc[q] = "resolving" /\ ~HasInfo(Current(q))
  /\ ForwardOriginal(q)
  /\ UNCHANGED <<sharedVars, uris, keys, carried, result>>

(* A mistake: the keys are taken as a download takes them.                  *)
ResolveCached(q) ==
  /\ pc[q] = "resolving" /\ HasInfo(Current(q))
  /\ PutInCache(Current(q), KeysOf(Current(q)))
  /\ keys' = [keys EXCEPT ![q] = KeysOf(Current(q))]
  /\ Goto(q, "to_fetch")
  /\ UNCHANGED <<content, storeVars, pan_clients, uploaded, uris, copies, carried, result>>

(* The row's keys go into the cache, whatever it held, and are used.        *)
Resolve(q) ==
  /\ pc[q] = "resolving" /\ HasInfo(Current(q))
  /\ PutInCache(Current(q), media_row[Current(q)])
  /\ keys' = [keys EXCEPT ![q] = media_row[Current(q)]]
  /\ Goto(q, "to_fetch")
  /\ UNCHANGED <<content, storeVars, pan_clients, uploaded, uris, copies, carried, result>>

FetchReturns(q) ==
  /\ pc[q] = "to_fetch"
  /\ \/ Goto(q, "to_decrypt") /\ UNCHANGED <<copies, result>>
     \/ ForwardOriginal(q) /\ UNCHANGED result
     \/ Answer(q, "failed") /\ UNCHANGED copies
  /\ UNCHANGED <<sharedVars, uris, keys, carried>>

DecryptCopy(q) ==
  /\ pc[q] = "to_decrypt"
  /\ IF Decrypts(q, Current(q)) THEN Goto(q, "reuploading") /\ UNCHANGED result
                                ELSE Answer(q, "failed")
  /\ UNCHANGED <<sharedVars, mediaVars>>

(* The copy has no row of its own: it is not encrypted.                     *)
ReuploadReturns(q) ==
  /\ pc[q] = "reuploading"
  /\ \E u \in Fresh :
       /\ content' = [content EXCEPT ![u] = "plain"]
       /\ copies' = [copies EXCEPT ![q] = Append(@, u)]
  /\ Goto(q, IF Len(copies'[q]) = Len(uris[q]) THEN "forwarding" ELSE "resolving")
  /\ UNCHANGED <<storeVars, media_info, pan_clients, uploaded, uris, keys, carried, result>>

ReuploadFails(q) ==
  /\ pc[q] = "reuploading"
  /\ \/ ForwardOriginal(q) /\ UNCHANGED result
     \/ Answer(q, "failed") /\ UNCHANGED copies
  /\ UNCHANGED <<sharedVars, uris, keys, carried>>

(* The URIs that go to the homeserver.                                     *)
Forwarded(q) == copies[q] \o SubSeq(uris[q], Len(copies[q]) + 1, Len(uris[q]))

ForwardReturns(q) ==
  /\ pc[q] = "forwarding"
  /\ Answer(q, "ok") \/ Answer(q, "failed")
  /\ UNCHANGED <<sharedVars, mediaVars>>

-----------------------------------------------------------------------------
(* A media message to an encrypted room: the keys in the store go into the  *)
(* event; the thumbnail's only when the media's are there.  A second _send  *)
(* works on the content the first has changed.                             *)
Carried(ref, before) ==
  [i \in 1..Len(ref) |-> IF HasInfo(ref[1]) /\ HasInfo(ref[i])
                           THEN media_row[ref[i]] ELSE before[i]]

(* Both look-ups put what they find into the cache.                         *)
CacheReference(ref) ==
  Remember([u \in {ref[i] : i \in {j \in 1..Len(ref) : HasInfo(ref[1]) /\ HasInfo(ref[j])}}
              |-> media_row[u]])

SendMedia(q, ref) ==
  /\ pc[q] = "idle" /\ pan_clients
  /\ carried' = [carried EXCEPT ![q] = Carried(ref, [i \in 1..Len(ref) |-> None])]
  /\ CacheReference(ref)
  /\ Goto(q, "posting")
  /\ uris' = [uris EXCEPT ![q] = ref]
  /\ UNCHANGED <<content, storeVars, pan_clients, uploaded, keys, copies, result>>

SendMediaReturns(q) ==
  /\ pc[q] = "posting"
  /\ \/ Answer(q, "ok") \/ Answer(q, "failed")
     \/ Goto(q, "asking") /\ UNCHANGED result
  /\ UNCHANGED <<sharedVars, mediaVars>>

SendMediaAnyways(q) ==
  /\ pc[q] = "asking"
  /\ carried' = [carried EXCEPT ![q] = Carried(uris[q], @)]
  /\ CacheReference(uris[q])
  /\ Goto(q, "posting")
  /\ UNCHANGED <<content, storeVars, pan_clients, uploaded, uris, keys, copies, result>>

-----------------------------------------------------------------------------
(* store_event_media, store_thumbnail_cb: a decrypted event names a media   *)
(* and keys.  The cache takes them, the store only when it has none.        *)
StoreEventMedia(u, k) ==
  /\ u \in Known
  /\ PutInCache(u, k)
  /\ SaveMedia(u, k)
  /\ UNCHANGED <<content, upload_row, pan_clients, uploaded, requestVars>>

(* The daemon is started again: load_media_cache takes as many rows as fit, *)
(* the clients are restored, the requests' connections are gone.            *)
Reload ==
  /\ \E kept \in SUBSET Uris :
       /\ Fits(kept, {u \in Uris : media_row'[u] # None})
       /\ media_info' = [u \in Uris |-> IF u \in kept THEN media_row'[u] ELSE None]
  /\ pc' = [q \in Requests |-> IF pc[q] = "idle" THEN "idle" ELSE "done"]
  /\ result' = [q \in Requests |-> IF pc[q] \in {"idle", "done"} THEN result[q] ELSE "dropped"]
  /\ UNCHANGED <<pan_clients, uploaded, mediaVars>>

Restart == UNCHANGED <<content, storeVars>> /\ Reload

(* It stopped between save_upload and save_media.                           *)
RestartInUpload(q) ==
  /\ pc[q] = "uploading"
  /\ \E u \in Fresh : /\ content' = [content EXCEPT ![u] = "cipher"]
                      /\ upload_row' = upload_row \cup {u}
  /\ UNCHANGED media_row
  /\ Reload

Request(q) ==
  \/ UploadWithoutClient(q) \/ Upload(q) \/ UploadReturns(q) \/ UploadFails(q)
  \/ \E u \in Uris : DownloadRaw(q, u) \/ Download(q, u)
  \/ RawReturns(q) \/ DownloadReturns(q) \/ Decrypt(q)
  \/ \E ref \in References : Reference(q, ref) \/ SendMedia(q, ref)
  \/ ResolveUnknown(q) \/ Resolve(q) \/ FetchReturns(q) \/ DecryptCopy(q)
  \/ ReuploadReturns(q) \/ ReuploadFails(q) \/ ForwardReturns(q)
  \/ SendMediaReturns(q) \/ SendMediaAnyways(q)

Next ==
  \/ Login \/ Restart
  \/ \E q \in Requests : Request(q) \/ RestartInUpload(q)
  \/ \E u \in Uris, k \in Keys : StoreEventMedia(u, k)

Spec == Init /\ [][Next]_vars

-----------------------------------------------------------------------------
(* Every variable has its type.                                            *)
TypeOK ==
  /\ content \in [Uris -> {"absent", "cipher", "plain"}]
  /\ upload_row \subseteq Uris
  /\ media_row \in [Uris -> Keys \cup {None}]
  /\ media_info \in [Uris -> Keys \cup {None}]
  /\ pan_clients \in BOOLEAN
  /\ uploaded \subseteq Uris
  /\ pc \in [Requests -> Stages]
  /\ uris \in [Requests -> Seq(Uris)]
  /\ keys \in [Requests -> Keys \cup {None}]
  /\ copies \in [Requests -> Seq(Uris)]
  /\ carried \in [Requests -> Seq(Keys \cup {None})]
  /\ result \in [Requests -> Results]

(* An upload that was answered can be decrypted for good: whatever keys an  *)
(* event puts beside its URI, and through every restart, PanStore has both  *)
(* its rows, with the keys it was encrypted with.                           *)
UploadsKeepKeys == \A u \in uploaded : u \in upload_row /\ media_row[u] = "own"

(* The cache holds nothing a restart would lose: keys an event brought are  *)
(* in the store as well, though perhaps not the same ones.                  *)
CachedIsStored == Cached \subseteq Stored

(* What a client was told of, or has keys in the store, is in the media     *)
(* repository: no upload meets keys that an event brought before it.        *)
NamedIsThere ==
  /\ \A u \in Uris : content[u] = "absent" => u \notin Received \cup uploaded \cup Stored
  /\ \A q \in Requests : \A i \in DOMAIN copies[q] : content[copies[q][i]] # "absent"
  /\ \A q \in Requests : pc[q] = "raw" => /\ Len(uris[q]) = 1
                                          /\ content[uris[q][1]] # "absent"

(* An event of an encrypted room that shows an upload carries the keys it   *)
(* was encrypted with, and its thumbnail's, even when the cache has taken   *)
(* others from an event, or the user was asked in between.                  *)
SentWithKeys ==
  \A q \in Requests : pc[q] = "posting" /\ uris[q][1] \in uploaded =>
    \A i \in DOMAIN uris[q] : uris[q][i] \in uploaded => carried[q][i] = "own"

(* A message under way has a place for the keys of each media it names.     *)
AttachmentsFit ==
  \A q \in Requests : pc[q] \in {"posting", "asking"} =>
    /\ Len(carried[q]) = Len(uris[q])
    /\ \A i \in 1..Len(uris[q]) : content[uris[q][i]] # "absent"

(* Inductive: a URI that is named, its rows, a cache entry and a message    *)
(* under way never disagree about which came first.                        *)
IndInv == /\ TypeOK /\ NamedIsThere /\ AttachmentsFit
          /\ UploadsKeepKeys /\ CachedIsStored /\ SentWithKeys

(* What was uploaded is not given away unreadable: its ciphertext is never  *)
(* what a download brings, and a copy of it for others is made with its own *)
(* keys, however often the cache has evicted it, was filled anew after a    *)
(* restart or took other keys from an event in between.  (With those other  *)
(* keys a download fails until the cache has dropped them.)                 *)
UploadsReadable ==
  \A q \in Requests :
    /\ pc[q] = "raw" \/ result[q] = "cipher" => uris[q][1] \notin uploaded
    /\ pc[q] \in {"to_fetch", "to_decrypt"} /\ Current(q) \in uploaded => keys[q] = "own"

(* A request to a room that is not encrypted goes out as it came or with a  *)
(* readable copy of everything it refers to: a media that was decrypted and *)
(* a thumbnail that was not are not mixed.                                  *)
ForwardedWholly ==
  \A q \in Requests : pc[q] = "forwarding" =>
    \/ Forwarded(q) = uris[q]
    \/ \A i \in DOMAIN uris[q] : content[Forwarded(q)[i]] = "plain"
=============================================================================
