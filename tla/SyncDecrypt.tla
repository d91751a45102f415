------------------------------ MODULE SyncDecrypt ------------------------------
(***************************************************************************)
(* ProxyDaemon.sync and messages: a request of a Matrix client is          *)
(* forwarded with a sanitized filter, and the encrypted events of the body *)
(* that comes back are decrypted in place.  When a key is missing, the     *)
(* coroutine tries again after every sync of pan's own client until        *)
(* decryption_timeout.  Keys reach pan by either stream; pan may not know  *)
(* yet that a room is encrypted.                                           *)
(***************************************************************************)
EXTENDS Naturals

CONSTANTS Requests,
          Syncs,      \* the requests that are GET /sync, not /messages
          Events,     \* m.room.encrypted events, each of a Megolm session
          Malformed,  \* those that do not parse as Megolm events
          Rooms,
          RoomOf,     \* the room of an event
          SenderOf,   \* the device whose session it is of
          Filters     \* the filters clients send as JSON

(* A filter, as far as it concerns m.room.encrypted.  An entry of its lists *)
(* is this type, a wildcard that matches it ("m.room.*", "*") or another    *)
(* one.  "types" is missing or a list, perhaps an empty one; "not_types" is *)
(* how often it has each entry.  There is one such filter for the timelines *)
(* of rooms beside the one for everything.                                 *)
Pattern == {"m.room.encrypted", "wildcard", "other"}
Missing == {"missing"}
SubFilter == [types : (SUBSET Pattern) \cup {Missing}, not_types : [Pattern -> Nat]]
NoSubFilter == [types |-> Missing, not_types |-> [p \in Pattern |-> 0]]
NoFilter == [sub |-> NoSubFilter, timeline |-> NoSubFilter]
Filter == [sub : SubFilter, timeline : SubFilter]

ASSUME SyncsAssumption == Syncs \subseteq Requests
ASSUME MalformedAssumption == Malformed \subseteq Events
ASSUME FiltersAssumption == Filters \subseteq Filter
ASSUME RoomOfAssumption == RoomOf \in [Events -> Rooms]
ASSUME SenderOfAssumption == DOMAIN SenderOf = Events

VARIABLES
  pc,         \* where each request's coroutine is suspended
  asked,      \* the filter its client sent
  filter,     \* the filter it forwards
  body,       \* per event: absent, or what the body holds in its place
  left,       \* the rooms that the body has under "leave", not "join"
  to_device,  \* the keys in the to_device section of the body, once: an Olm
              \* message is decrypted a single time
  keys,       \* events whose session key pan's client holds
  stored,     \* the same on disk, MegolmInboundSessions
  drop_old_keys,  \* conf.drop_old_keys of this run of the daemon
  rooms       \* what pan's client knows of a room

held == <<keys, stored, drop_old_keys>>
filters == <<asked, filter>>
vars == <<pc, filters, body, left, to_device, held, rooms>>

Shown == {"absent", "encrypted", "decrypted", "unable"}
Knowledge == {"unknown", "plain", "encrypted"}

Init ==
  /\ pc = [q \in Requests |-> "idle"]
  /\ asked = [q \in Requests |-> NoFilter] /\ filter = asked
  /\ body = [q \in Requests |-> [e \in Events |-> "absent"]]
  /\ left = [q \in Requests |-> {}] /\ to_device = [q \in Requests |-> {}]
  /\ keys = {} /\ stored = {} /\ drop_old_keys \in BOOLEAN
  /\ rooms = [r \in Rooms |-> "unknown"]

-----------------------------------------------------------------------------
Goto(q, stage) == pc' = [pc EXCEPT ![q] = stage]

(* A mistake: another type of event is added to the list.                  *)
SanitizeSubfilterEncryption(f) ==
  [types     |-> IF f.types \in {Missing, {}} THEN f.types ELSE f.types \cup {"m.room.encryption"},
   not_types |-> [f.not_types EXCEPT !["m.room.encrypted"] = IF @ = 0 THEN 0 ELSE @ - 1]]

(* sanitize_subfilter: a list of types that has an entry gets this one, of  *)
(* the excluded types the first that is equal to it is removed.            *)
SanitizeSubfilter(f) ==
  [types     |-> IF f.types \in {Missing, {}} THEN f.types ELSE f.types \cup {"m.room.encrypted"},
   not_types |-> [f.not_types EXCEPT !["m.room.encrypted"] = IF @ = 0 THEN 0 ELSE @ - 1]]

SanitizeFilter(f) == [sub |-> SanitizeSubfilter(f.sub), timeline |-> SanitizeSubfilter(f.timeline)]

(* A request with no filter, or with the id of one, which is passed on.    *)
Forward(q) ==
  /\ pc[q] = "idle"
  /\ Goto(q, "forwarding")
  /\ UNCHANGED <<filters, body, left, to_device, held, rooms>>

ForwardFiltered(q) ==
  /\ pc[q] = "idle"
  /\ \E f \in Filters : /\ asked' = [asked EXCEPT ![q] = f]
                        /\ filter' = [filter EXCEPT ![q] = SanitizeFilter(f)]
  /\ Goto(q, "forwarding")
  /\ UNCHANGED <<body, left, to_device, held, rooms>>

(* The token is missing or unknown, a list in the filter is none, or the    *)
(* homeserver cannot be reached.                                           *)
Refuse(q) ==
  /\ pc[q] \in {"idle", "forwarding"}
  /\ Goto(q, "refused")
  /\ UNCHANGED <<filters, body, left, to_device, held, rooms>>

(* No status 200, or no JSON: nothing is decrypted.                        *)
PassOn(q) ==
  /\ pc[q] = "forwarding"
  /\ Goto(q, "passed_on")
  /\ UNCHANGED <<filters, body, left, to_device, held, rooms>>

(* The body of a response: encrypted events, and if it is a sync also keys, *)
(* and rooms that the user has left.                                       *)
ReceiveBody(q) ==
  /\ pc[q] = "forwarding"
  /\ \E B \in SUBSET Events, K \in SUBSET Events, R \in SUBSET Rooms :
       /\ q \notin Syncs => K = {} /\ R = {}
       /\ body' = [body EXCEPT ![q] = [e \in Events |-> IF e \in B THEN "encrypted" ELSE "absent"]]
       /\ to_device' = [to_device EXCEPT ![q] = K]
       /\ left' = [left EXCEPT ![q] = R]
  /\ Goto(q, "decrypting")
  /\ UNCHANGED <<filters, held, rooms>>

-----------------------------------------------------------------------------
(* decrypt_body: one pass over the body is one step.                       *)

(* A session is added to the store in memory and saved.  When old keys are *)
(* dropped, the one added last is the only one of its room and sender: the *)
(* dictionary is cleared, the rows are deleted.                            *)
Siblings(K) == {e \in Events : \E k \in K : RoomOf[e] = RoomOf[k] /\ SenderOf[e] = SenderOf[k]}

(* The sessions that are added last, for each order the keys K may have.   *)
Added(K) ==
  IF drop_old_keys
  THEN {L \in SUBSET K : /\ Siblings(L) = Siblings(K)
                         /\ \A e \in L : Siblings({e}) \cap L = {e}}
  ELSE {K}

Without(sessions, K) == IF drop_old_keys THEN sessions \ Siblings(K) ELSE sessions

(* A mistake: the rows of the older sessions stay.                         *)
AddAndSaveKeeping(K) ==
  /\ \E last \in Added(K) : /\ keys' = Without(keys, K) \cup last
                            /\ stored' = stored \cup last
  /\ UNCHANGED drop_old_keys

AddAndSave(K) ==
  /\ \E last \in Added(K) : /\ keys' = Without(keys, K) \cup last
                            /\ stored' = Without(stored, K) \cup last
  /\ UNCHANGED drop_old_keys

HandleToDevice(q) ==
  /\ AddAndSave(to_device[q])
  /\ to_device' = [to_device EXCEPT ![q] = {}]

(* Mistakes in what follows: a room pan has not joined yet is skipped; a   *)
(* pass works on the body as it came; the timer is only watched while the  *)
(* coroutine waits for a sync.                                             *)
ToDecryptKnown(q) ==
  {e \in Events \ Malformed :
     /\ body[q][e] = "encrypted"
     /\ q \in Syncs => RoomOf[e] \notin left[q] /\ rooms[RoomOf[e]] = "encrypted"}

DecryptRaisesAfresh(q) ==
  /\ pc[q] = "decrypting"
  /\ HandleToDevice(q)
  /\ \E S \in SUBSET keys' :
       body' = [body EXCEPT ![q] = [e \in Events |-> IF @[e] = "absent" THEN @[e]
                                     ELSE IF e \in S THEN "decrypted" ELSE "encrypted"]]
  /\ Goto(q, "waiting")
  /\ UNCHANGED <<filters, left, rooms>>

DecryptTimeoutWhileWaiting(q) ==
  /\ pc[q] = "waiting"
  /\ body' = [body EXCEPT ![q] = [e \in Events |-> IF @[e] = "encrypted" THEN "unable" ELSE @[e]]]
  /\ Goto(q, "done")
  /\ UNCHANGED <<filters, left, to_device, held, rooms>>

(* The events of a pass: decrypt_sync_body goes through the joined rooms    *)
(* and skips those it believes to be unencrypted, decrypt_messages_body     *)
(* goes through all; whatever is no Megolm event stays as it is, and so     *)
(* does what a pass before this one replaced.                              *)
ToDecrypt(q) ==
  {e \in Events \ Malformed :
     /\ body[q][e] = "encrypted"
     /\ q \in Syncs => RoomOf[e] \notin left[q] /\ rooms[RoomOf[e]] # "plain"}

Replace(q, S, shown) ==
  [body EXCEPT ![q] = [e \in Events |-> IF e \in S THEN shown ELSE body[q][e]]]

(* Every event could be decrypted: the body is returned.                   *)
DecryptAll(q) ==
  /\ pc[q] = "decrypting"
  /\ HandleToDevice(q)
  /\ ToDecrypt(q) \subseteq keys'
  /\ body' = Replace(q, ToDecrypt(q), "decrypted")
  /\ Goto(q, "done")
  /\ UNCHANGED <<filters, left, rooms>>

(* EncryptionError: the events before the one that raised are decrypted    *)
(* already; wait for pan's next sync.                                      *)
DecryptRaises(q) ==
  /\ pc[q] = "decrypting"
  /\ HandleToDevice(q)
  /\ ~(ToDecrypt(q) \subseteq keys')
  /\ \E S \in SUBSET (ToDecrypt(q) \cap keys') : body' = Replace(q, S, "decrypted")
  /\ Goto(q, "waiting")
  /\ UNCHANGED <<filters, left, rooms>>

(* decryption_timeout: a last pass, in which every event that still cannot *)
(* be decrypted is replaced.                                               *)
DecryptTimeout(q) ==
  /\ pc[q] \in {"decrypting", "waiting"}
  /\ HandleToDevice(q)
  /\ body' = [body EXCEPT ![q] = [e \in Events |->
                IF e \notin ToDecrypt(q) THEN @[e]
                ELSE IF e \in keys' THEN "decrypted" ELSE "unable"]]
  /\ Goto(q, "done")
  /\ UNCHANGED <<filters, left, rooms>>

-----------------------------------------------------------------------------
(* A sync of pan's own client brings keys and rooms and wakes everyone.    *)
MayBecome(old, new) ==
  \/ new = old
  \/ old = "unknown" /\ new # "unknown"
  \/ old = "plain" /\ new = "encrypted"

PanSync ==
  /\ \E K \in SUBSET Events : AddAndSave(K)
  /\ \E known \in [Rooms -> Knowledge] :
       /\ \A r \in Rooms : MayBecome(rooms[r], known[r])
       /\ rooms' = known
  /\ pc' = [q \in Requests |-> IF pc[q] = "waiting" THEN "decrypting" ELSE pc[q]]
  /\ UNCHANGED <<filters, body, left, to_device>>

(* The process ends, and starts with the sessions on disk; the option may  *)
(* have been changed.  The client sees its connection close.               *)
Restart ==
  /\ keys' = stored /\ drop_old_keys' \in BOOLEAN
  /\ rooms' = [r \in Rooms |-> "unknown"]
  /\ pc' = [q \in Requests |-> IF pc[q] \in {"forwarding", "decrypting", "waiting"}
                               THEN "refused" ELSE pc[q]]
  /\ UNCHANGED <<filters, body, left, to_device, stored>>

Coroutine(q) ==
  \/ Forward(q) \/ ForwardFiltered(q) \/ Refuse(q) \/ PassOn(q) \/ ReceiveBody(q)
  \/ DecryptAll(q) \/ DecryptRaises(q) \/ DecryptTimeout(q)

Next == (\E q \in Requests : Coroutine(q)) \/ PanSync \/ Restart

Spec == Init /\ [][Next]_vars

(* The homeserver answers or the connection fails, and the timer fires     *)
(* however often pan's syncs start the coroutine anew.                     *)
FairSpec == /\ Spec
            /\ \A q \in Requests :
                 /\ WF_vars(PassOn(q) \/ ReceiveBody(q) \/ (pc[q] = "forwarding" /\ Refuse(q)))
                 /\ WF_vars(DecryptTimeout(q))

-----------------------------------------------------------------------------
(* Properties.                                                             *)

(* Every variable keeps its type.                                         *)
TypeOK ==
  /\ pc \in [Requests -> {"idle", "forwarding", "decrypting", "waiting",
                          "done", "refused", "passed_on"}]
  /\ asked \in [Requests -> Filter] /\ filter \in [Requests -> Filter]
  /\ body \in [Requests -> [Events -> Shown]]
  /\ left \in [Requests -> SUBSET Rooms] /\ to_device \in [Requests -> SUBSET Events]
  /\ keys \subseteq Events /\ stored \subseteq Events /\ drop_old_keys \in BOOLEAN
  /\ rooms \in [Rooms -> Knowledge]

(* What a filter keeps from coming, as Matrix defines it.                  *)
Matching == {"m.room.encrypted", "wildcard"}
DropsEncrypted(f) == \/ f.types # Missing /\ f.types \cap Matching = {}
                     \/ \E p \in Matching : f.not_types[p] > 0

(* Filters that keep encrypted events from coming also when sanitized,     *)
(* against "Make sure that a filter isn't filtering encrypted messages".   *)
SlipsThrough(f) == \/ f.types = {}
                   \/ f.not_types["wildcard"] > 0
                   \/ f.not_types["m.room.encrypted"] > 1

(* A response leaves with all that pan could give: an event is "unable to  *)
(* decrypt" only if its key is still missing when the response leaves,     *)
(* whatever stream, restart or pass over the body the key came with or was *)
(* dropped by.  It is left encrypted only if it is no Megolm event or, in  *)
(* a sync, of a room that is left or that pan's own stream has as          *)
(* unencrypted.  And the filter that went out keeps encrypted events from  *)
(* coming only if the client's list of types is empty, or excludes them by *)
(* a wildcard or twice.                                                    *)
Finishes(q) == pc[q] # "done" /\ pc'[q] = "done"

NothingGivenUp ==
  [][\A q \in Requests : Finishes(q) =>
       /\ DropsEncrypted(filter[q].sub) => SlipsThrough(asked[q].sub)
       /\ DropsEncrypted(filter[q].timeline) => SlipsThrough(asked[q].timeline)
       /\ \A e \in Events :
            /\ body'[q][e] = "unable" => e \notin keys'
            /\ body'[q][e] = "encrypted"
                 => \/ e \in Malformed
                    \/ q \in Syncs /\ (RoomOf[e] \in left[q] \/ rooms[RoomOf[e]] = "plain")]_vars

(* A later pass over the same body never undoes an earlier one.            *)
DecryptedStays ==
  [][\A q \in Requests, e \in Events :
       body[q][e] \in {"decrypted", "unable"} => body'[q][e] = body[q][e]]_vars

(* A request that was forwarded is answered, also when pan never syncs     *)
(* again or syncs without end.                                             *)
EveryBodyReturned ==
  \A q \in Requests : pc[q] = "forwarding" ~> pc[q] \in {"done", "passed_on", "refused"}

(* A restart finds the keys pan could decrypt with before it: whatever     *)
(* arrives by either stream, with old keys dropped or not and the option   *)
(* switched between two runs, memory and disk drop the same sessions.      *)
StoreAgrees == keys = stored
=============================================================================
