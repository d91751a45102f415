-------------------------- MODULE SyncDecryptProofs --------------------------
(***************************************************************************)
(* What SyncDecrypt guarantees for any number of requests, events, keys    *)
(* and rooms, any filters, and with old keys dropped or not.               *)
(***************************************************************************)
EXTENDS SyncDecrypt, TLAPS

-----------------------------------------------------------------------------
(* The sessions a pass adds.                                               *)

(* A session is among its own siblings, and being siblings is an           *)
(* equivalence.                                                            *)
LEMMA SiblingsOfOne ==
  ASSUME NEW e \in Events, NEW k \in Events
  PROVE  /\ k \in Siblings({e}) <=> RoomOf[k] = RoomOf[e] /\ SenderOf[k] = SenderOf[e]
         /\ k \in Siblings({e}) => Siblings({k}) = Siblings({e})
         /\ e \in Siblings({e})
BY DEF Siblings

(* Whatever keys a to_device section or a sync brings, some order of them  *)
(* exists: adding and saving them never blocks the coroutine.              *)
THEOREM AddingNeverBlocks ==
  ASSUME NEW K \in SUBSET Events
  PROVE  Added(K) # {}
<1>1. CASE ~drop_old_keys  BY <1>1 DEF Added
<1>2. CASE drop_old_keys
  <2> DEFINE last(k) == CHOOSE e \in K : e \in Siblings({k})
             L == {last(k) : k \in K}
  <2>1. \A k \in K : last(k) \in K /\ last(k) \in Siblings({k})
    <3> TAKE k \in K
    <3>1. \E e \in K : e \in Siblings({k})  BY SiblingsOfOne
    <3> QED  BY <3>1
  <2>2. L \subseteq K /\ \A k \in K : last(k) \in L  BY <2>1
  <2>3. \A j, k \in K : j \in Siblings({k}) => last(j) = last(k)
    BY SiblingsOfOne
  <2>4. \A k \in K : RoomOf[last(k)] = RoomOf[k] /\ SenderOf[last(k)] = SenderOf[k]
    BY <2>1, SiblingsOfOne
  <2>5. ASSUME NEW e \in L
        PROVE  Siblings({e}) \cap L = {e}
    <3>1. PICK j \in K : e = last(j)  OBVIOUS
    <3>2. e \in K  BY <2>2
    <3> HIDE DEF last
    <3>3. ASSUME NEW x \in Siblings({e}) \cap L
          PROVE  x = e
      <4>1. PICK k \in K : x = last(k)  BY <3>3
      <4>2. x \in K  BY <2>2, <3>3
      <4>3. RoomOf[k] = RoomOf[j] /\ SenderOf[k] = SenderOf[j]
        BY <2>4, <3>1, <3>2, <3>3, <4>1, <4>2, SiblingsOfOne
      <4>4. k \in Siblings({j})  BY <4>3, SiblingsOfOne
      <4> QED  BY <2>3, <3>1, <4>1, <4>4
    <3>4. e \in Siblings({e})  BY <3>2, SiblingsOfOne
    <3> QED  BY <3>3, <3>4
  <2> HIDE DEF last
  <2>6. Siblings(L) = Siblings(K)  BY <2>2, <2>4 DEF Siblings
  <2>7. L \in Added(K)  BY <1>2, <2>2, <2>5, <2>6 DEF Added
  <2> QED  BY <2>7
<1> QED  BY <1>1, <1>2

(* KeyDroppingSqliteStore: of the sessions that a device has in a room,    *)
(* exactly one is left in memory once one of them was added, one of those  *)
(* that came, whatever was there before.                                   *)
THEOREM OneSessionLeft ==
  ASSUME drop_old_keys, NEW K \in SUBSET Events, AddAndSave(K), NEW k \in K
  PROVE  \E e \in K : keys' \cap Siblings({k}) = {e}
<1>1. PICK last \in Added(K) : keys' = (keys \ Siblings(K)) \cup last
  BY DEF AddAndSave, Without
<1>2. /\ last \subseteq K /\ Siblings(last) = Siblings(K)
      /\ \A e \in last : Siblings({e}) \cap last = {e}
  BY DEF Added
<1>3. k \in Siblings(last)  BY <1>2 DEF Siblings
<1>4. PICK e \in last : RoomOf[k] = RoomOf[e] /\ SenderOf[k] = SenderOf[e]
  BY <1>3 DEF Siblings
<1>5. e \in Events /\ k \in Events /\ Siblings({k}) = Siblings({e})
  BY <1>2, <1>4, SiblingsOfOne
<1>6. Siblings({k}) \subseteq Siblings(K)  BY DEF Siblings
<1>7. keys' \cap Siblings({k}) = last \cap Siblings({e})  BY <1>1, <1>5, <1>6
<1> QED  BY <1>2, <1>7

-----------------------------------------------------------------------------
(* What sanitizing achieves.                                               *)

(* sanitize_subfilter: whatever lists a client sends, what is sanitized     *)
(* keeps encrypted events from coming exactly if its list of types was      *)
(* empty or it excluded them by a wildcard or more than once; all others    *)
(* let them pass, also those that named other types or excluded this one.   *)
THEOREM SanitizedSubfilter ==
  ASSUME NEW f \in SubFilter
  PROVE  /\ SanitizeSubfilter(f) \in SubFilter
         /\ DropsEncrypted(SanitizeSubfilter(f)) <=> SlipsThrough(f)
<1> DEFINE g == SanitizeSubfilter(f)
<1>1. /\ f.types \in (SUBSET Pattern) \cup {Missing} /\ f.not_types \in [Pattern -> Nat]
      /\ "m.room.encrypted" \in Pattern /\ "wildcard" \in Pattern
  BY DEF SubFilter, Pattern
<1>2. /\ g.types = IF f.types \in {Missing, {}} THEN f.types
                   ELSE f.types \cup {"m.room.encrypted"}
      /\ g.types \in (SUBSET Pattern) \cup {Missing}
  BY <1>1 DEF SanitizeSubfilter
<1>3. /\ g.not_types \in [Pattern -> Nat]
      /\ g.not_types["wildcard"] = f.not_types["wildcard"]
      /\ g.not_types["m.room.encrypted"] > 0 <=> f.not_types["m.room.encrypted"] > 1
  BY <1>1 DEF SanitizeSubfilter
<1>4. g.types # Missing /\ g.types \cap Matching = {} <=> f.types = {}
  <2>1. CASE f.types = Missing  BY <1>2, <2>1 DEF Missing
  <2>2. CASE f.types = {}  BY <1>2, <2>2 DEF Missing
  <2>3. CASE f.types \notin {Missing, {}}  BY <1>2, <2>3 DEF Matching
  <2> QED  BY <2>1, <2>2, <2>3
<1>5. g \in SubFilter
  BY <1>2, <1>3 DEF SanitizeSubfilter, SubFilter
<1> HIDE DEF g
<1>6. DropsEncrypted(g) <=> SlipsThrough(f)
  BY <1>3, <1>4 DEF DropsEncrypted, SlipsThrough, Matching
<1> QED  BY <1>5, <1>6 DEF g

-----------------------------------------------------------------------------
(* The inductive invariant.                                                *)

(* A filter that went out keeps encrypted events from coming exactly when   *)
(* the client's slips through in the same place.                           *)
FiltersPass ==
  \A q \in Requests :
    /\ DropsEncrypted(filter[q].sub) <=> SlipsThrough(asked[q].sub)
    /\ DropsEncrypted(filter[q].timeline) <=> SlipsThrough(asked[q].timeline)

(* Nothing is in a body before it is received, and nothing in it is given  *)
(* up before it is returned.                                               *)
NotYetGivenUp ==
  \A q \in Requests, e \in Events :
    /\ pc[q] \in {"idle", "forwarding"} => body[q][e] = "absent"
    /\ pc[q] \in {"decrypting", "waiting"} => body[q][e] # "unable"

IInv == TypeOK /\ FiltersPass /\ NotYetGivenUp /\ StoreAgrees

(* Adding sessions keeps memory and disk together.                         *)
LEMMA AddAndSaveKeeps ==
  ASSUME TypeOK, StoreAgrees, NEW K \in SUBSET Events, AddAndSave(K)
  PROVE  keys' \subseteq Events /\ keys' = stored' /\ drop_old_keys' = drop_old_keys
<1>1. \A last \in Added(K) : last \subseteq Events  BY DEF Added
<1> QED  BY <1>1 DEF TypeOK, StoreAgrees, AddAndSave, Without

(* The same of a whole filter: both of its parts are sanitized.            *)
LEMMA SanitizedFilter ==
  ASSUME NEW f \in Filters
  PROVE  /\ f \in Filter /\ SanitizeFilter(f) \in Filter
         /\ DropsEncrypted(SanitizeFilter(f).sub) <=> SlipsThrough(f.sub)
         /\ DropsEncrypted(SanitizeFilter(f).timeline) <=> SlipsThrough(f.timeline)
<1>1. f \in Filter /\ f.sub \in SubFilter /\ f.timeline \in SubFilter
  BY FiltersAssumption DEF Filter
<1>2. /\ SanitizeFilter(f).sub = SanitizeSubfilter(f.sub)
      /\ SanitizeFilter(f).timeline = SanitizeSubfilter(f.timeline)
  BY DEF SanitizeFilter
<1>3. SanitizeFilter(f) \in Filter
  BY <1>1, SanitizedSubfilter DEF SanitizeFilter, Filter
<1> QED  BY <1>1, <1>2, <1>3, SanitizedSubfilter

(* The steps of a request before it has a body.                            *)
LEMMA RequestStep ==
  ASSUME IInv, NEW q \in Requests,
         Forward(q) \/ ForwardFiltered(q) \/ Refuse(q) \/ PassOn(q) \/ ReceiveBody(q)
  PROVE  IInv'
<1> USE DEF IInv, TypeOK, StoreAgrees, FiltersPass, NotYetGivenUp, Goto, held, filters
<1>1. CASE Forward(q) \/ Refuse(q) \/ PassOn(q)
  <2>1. /\ UNCHANGED <<filters, body, left, to_device, held, rooms>>
        /\ pc[q] \in {"idle", "forwarding"}
        /\ \E s \in {"forwarding", "refused", "passed_on"} : pc' = [pc EXCEPT ![q] = s]
    BY <1>1 DEF Forward, Refuse, PassOn
  <2> QED  BY <2>1
<1>2. CASE ForwardFiltered(q)
  <2>1. PICK f \in Filters : /\ asked' = [asked EXCEPT ![q] = f]
                             /\ filter' = [filter EXCEPT ![q] = SanitizeFilter(f)]
    BY <1>2 DEF ForwardFiltered
  <2>2. TypeOK' /\ StoreAgrees' /\ NotYetGivenUp'
    BY <1>2, <2>1, SanitizedFilter DEF ForwardFiltered
  <2>3. FiltersPass'
    <3>1. asked'[q] = f /\ filter'[q] = SanitizeFilter(f)  BY <2>1
    <3>2. \A p \in Requests \ {q} : asked'[p] = asked[p] /\ filter'[p] = filter[p]  BY <2>1
    <3> QED  BY <3>1, <3>2, SanitizedFilter
  <2> QED  BY <2>2, <2>3
<1>3. CASE ReceiveBody(q)  BY <1>3 DEF ReceiveBody, Shown
<1> QED  BY <1>1, <1>2, <1>3

(* A pass over the body: what it replaces was encrypted.                   *)
LEMMA PassStep ==
  ASSUME IInv, NEW q \in Requests, DecryptAll(q) \/ DecryptRaises(q) \/ DecryptTimeout(q)
  PROVE  IInv'
<1>1. HandleToDevice(q)  BY DEF DecryptAll, DecryptRaises, DecryptTimeout
<1>2. /\ keys' \subseteq Events /\ keys' = stored' /\ drop_old_keys' = drop_old_keys
      /\ to_device' \in [Requests -> SUBSET Events]
  BY <1>1, AddAndSaveKeeps DEF HandleToDevice, IInv, TypeOK
<1>3. /\ UNCHANGED <<asked, filter, left, rooms>>
      /\ \E s \in {"done", "waiting"} : pc' = [pc EXCEPT ![q] = s]
  BY DEF DecryptAll, DecryptRaises, DecryptTimeout, Goto, filters
<1>4. PICK b \in [Events -> Shown] : body' = [body EXCEPT ![q] = b]
  BY DEF DecryptAll, DecryptRaises, DecryptTimeout, Replace, IInv, TypeOK, Shown
<1>5. TypeOK'  BY <1>2, <1>3, <1>4 DEF IInv, TypeOK
<1>6. FiltersPass' /\ StoreAgrees'  BY <1>2, <1>3 DEF IInv, FiltersPass, StoreAgrees
<1>7. NotYetGivenUp'
  <2>1. CASE DecryptRaises(q)
    BY <2>1 DEF DecryptRaises, Replace, Goto, IInv, TypeOK, NotYetGivenUp
  <2>2. CASE DecryptAll(q) \/ DecryptTimeout(q)
    BY <1>4, <2>2 DEF DecryptAll, DecryptTimeout, Goto, IInv, TypeOK, NotYetGivenUp
  <2> QED  BY <2>1, <2>2
<1> QED  BY <1>5, <1>6, <1>7 DEF IInv

(* A sync of pan's own client, a restart, and a step that changes nothing. *)
LEMMA OtherStep ==
  ASSUME IInv, PanSync \/ Restart \/ UNCHANGED vars
  PROVE  IInv'
<1>1. CASE PanSync
  <2>1. keys' \subseteq Events /\ keys' = stored' /\ drop_old_keys' = drop_old_keys
    BY <1>1, AddAndSaveKeeps DEF PanSync, IInv
  <2> QED
    BY <1>1, <2>1 DEF PanSync, IInv, TypeOK, StoreAgrees, FiltersPass, NotYetGivenUp, filters
<1>2. CASE Restart
  BY <1>2 DEF Restart, IInv, TypeOK, StoreAgrees, FiltersPass, NotYetGivenUp, Knowledge,
              filters
<1>3. CASE UNCHANGED vars
  BY <1>3 DEF vars, held, filters, IInv, TypeOK, StoreAgrees, FiltersPass, NotYetGivenUp
<1> QED  BY <1>1, <1>2, <1>3

(* The invariant holds in every behaviour.                                 *)
THEOREM Invariance == Spec => []IInv
<1>1. ASSUME Init
      PROVE  IInv
  <2>1. NoFilter.sub = NoSubFilter /\ NoFilter.timeline = NoSubFilter  BY DEF NoFilter
  <2>2. NoFilter \in Filter
    <3> DEFINE none == [p \in Pattern |-> 0]
    <3>1. none \in [Pattern -> Nat] /\ Missing \in (SUBSET Pattern) \cup {Missing}  OBVIOUS
    <3>2. NoSubFilter = [types |-> Missing, not_types |-> none]  BY DEF NoSubFilter
    <3> HIDE DEF none
    <3>3. NoSubFilter \in SubFilter  BY <3>1, <3>2 DEF SubFilter
    <3> QED  BY <3>3 DEF NoFilter, Filter
  <2>3. ~DropsEncrypted(NoSubFilter) /\ ~SlipsThrough(NoSubFilter)
    BY DEF NoSubFilter, DropsEncrypted, SlipsThrough, Missing, Matching, Pattern
  <2>4. \A q \in Requests : asked[q] = NoFilter /\ filter[q] = NoFilter
    BY <1>1 DEF Init
  <2>5. FiltersPass  BY <2>1, <2>3, <2>4 DEF FiltersPass
  <2> QED
    BY <1>1, <2>2, <2>5 DEF Init, IInv, TypeOK, StoreAgrees, NotYetGivenUp, Shown, Knowledge
<1>2. IInv /\ [Next]_vars => IInv'
  BY RequestStep, PassStep, OtherStep DEF Next, Coroutine
<1> QED  BY <1>1, <1>2, PTL DEF Spec

-----------------------------------------------------------------------------
(* What it implies.                                                        *)

(* Every variable keeps its type.                                          *)
THEOREM TypeCorrect == Spec => []TypeOK
<1>1. IInv => TypeOK  BY DEF IInv
<1> QED  BY <1>1, Invariance, PTL

(* A restart finds exactly the sessions that were in memory.               *)
THEOREM MemoryIsDisk == Spec => []StoreAgrees
<1>1. IInv => StoreAgrees  BY DEF IInv
<1> QED  BY <1>1, Invariance, PTL

(* A response leaves with an event given up only if its key is missing, and *)
(* encrypted only if it is malformed or, in a sync, of a room that is left  *)
(* or believed to be unencrypted; encrypted events are kept from coming     *)
(* only by filters that slip through.                                      *)
THEOREM GivenUp == Spec => NothingGivenUp
<1>1. ASSUME IInv, [Next]_vars, NEW q \in Requests, Finishes(q)
      PROVE  /\ DropsEncrypted(filter[q].sub) => SlipsThrough(asked[q].sub)
             /\ DropsEncrypted(filter[q].timeline) => SlipsThrough(asked[q].timeline)
             /\ \A e \in Events :
                  /\ body'[q][e] = "unable" => e \notin keys'
                  /\ body'[q][e] = "encrypted"
                       => \/ e \in Malformed
                          \/ q \in Syncs /\ (RoomOf[e] \in left[q] \/ rooms[RoomOf[e]] = "plain")
  <2>1. DecryptAll(q) \/ DecryptTimeout(q)
    BY <1>1 DEF Finishes, IInv, TypeOK, Next, Coroutine, Forward, ForwardFiltered, Refuse, PassOn,
         ReceiveBody, DecryptAll, DecryptRaises, DecryptTimeout, PanSync, Restart, Goto, vars
  <2>2. pc[q] \in {"decrypting", "waiting"}  BY <2>1 DEF DecryptAll, DecryptTimeout
  <2>3. \A e \in Events : body[q][e] # "unable"  BY <1>1, <2>2 DEF IInv, NotYetGivenUp
  <2>4. CASE DecryptAll(q)
    BY <1>1, <2>3, <2>4 DEF DecryptAll, Replace, ToDecrypt, IInv, TypeOK, FiltersPass
  <2>5. CASE DecryptTimeout(q)
    BY <1>1, <2>3, <2>5 DEF DecryptTimeout, ToDecrypt, IInv, TypeOK, FiltersPass
  <2> QED  BY <2>1, <2>4, <2>5
<1>2. IInv /\ [Next]_vars =>
        [\A q \in Requests : Finishes(q) =>
           /\ DropsEncrypted(filter[q].sub) => SlipsThrough(asked[q].sub)
           /\ DropsEncrypted(filter[q].timeline) => SlipsThrough(asked[q].timeline)
           /\ \A e \in Events :
                /\ body'[q][e] = "unable" => e \notin keys'
                /\ body'[q][e] = "encrypted"
                     => \/ e \in Malformed
                        \/ q \in Syncs /\ (RoomOf[e] \in left[q] \/ rooms[RoomOf[e]] = "plain")]_vars
  BY <1>1
<1> QED  BY <1>2, Invariance, PTL DEF Spec, NothingGivenUp

(* No pass over a body undoes what an earlier one put into it.             *)
THEOREM PassesKeep == Spec => DecryptedStays
<1>1. ASSUME IInv, [Next]_vars, NEW q \in Requests, NEW e \in Events,
             body[q][e] \in {"decrypted", "unable"}
      PROVE  body'[q][e] = body[q][e]
  <2>1. ASSUME NEW p \in Requests, ReceiveBody(p)
        PROVE  p # q
    BY <1>1, <2>1 DEF ReceiveBody, IInv, NotYetGivenUp
  <2>2. ASSUME NEW p \in Requests, ReceiveBody(p)
        PROVE  body'[q][e] = body[q][e]
    <3>1. PICK b : body' = [body EXCEPT ![p] = b]  BY <2>2 DEF ReceiveBody
    <3>2. p # q  BY <2>1, <2>2
    <3> QED  BY <1>1, <3>1, <3>2 DEF IInv, TypeOK
  <2>3. ASSUME NEW p \in Requests, DecryptAll(p) \/ DecryptRaises(p) \/ DecryptTimeout(p)
        PROVE  body'[q][e] = body[q][e]
    BY <1>1, <2>3 DEF DecryptAll, DecryptRaises, DecryptTimeout, Replace, ToDecrypt, IInv, TypeOK
  <2>4. ASSUME \/ \E p \in Requests : Forward(p) \/ ForwardFiltered(p) \/ Refuse(p) \/ PassOn(p)
               \/ PanSync \/ Restart \/ UNCHANGED vars
        PROVE  UNCHANGED body
    BY <2>4 DEF Forward, ForwardFiltered, Refuse, PassOn, PanSync, Restart, vars
  <2> QED  BY <1>1, <2>2, <2>3, <2>4 DEF Next, Coroutine
<1>2. IInv /\ [Next]_vars =>
        [\A q \in Requests, e \in Events :
           body[q][e] \in {"decrypted", "unable"} => body'[q][e] = body[q][e]]_vars
  BY <1>1
<1> QED  BY <1>2, Invariance, PTL DEF Spec, DecryptedStays
=============================================================================
