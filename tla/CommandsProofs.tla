---------------------------- MODULE CommandsProofs ----------------------------
(***************************************************************************)
(* What Commands guarantees for any users and devices, any number of       *)
(* commands and of changes nobody commanded: types, one answer per         *)
(* command, and a device list that follows the store.                      *)
(***************************************************************************)
EXTENDS Commands, FiniteSetTheorems, FunctionTheorems, TLAPS

-----------------------------------------------------------------------------
(* Sequences, and the elements of a sequence that are in a set.            *)

(* The head of a sequence and what is left of it, place by place.          *)
LEMMA TailAt ==
  ASSUME NEW S, NEW s \in Seq(S), s # <<>>
  PROVE  /\ Head(s) \in S /\ Head(s) = s[1] /\ 1 \in 1..Len(s) /\ Tail(s) \in Seq(S)
         /\ Len(s) \in Nat /\ Len(Tail(s)) = Len(s) - 1
         /\ \A i \in 1..Len(Tail(s)) : i + 1 \in 2..Len(s) /\ Tail(s)[i] = s[i + 1]
         /\ \A j \in 2..Len(s) : j - 1 \in 1..Len(Tail(s)) /\ Tail(s)[j - 1] = s[j]
OBVIOUS

(* An append leaves the old places as they are and adds one.               *)
LEMMA AppendAt ==
  ASSUME NEW S, NEW s \in Seq(S), NEW e \in S
  PROVE  /\ Append(s, e) \in Seq(S) /\ Len(s) \in Nat /\ Len(Append(s, e)) = Len(s) + 1
         /\ \A i \in 1..Len(s) : Append(s, e)[i] = s[i]
         /\ Append(s, e)[Len(s) + 1] = e
OBVIOUS

(* What RouteDevice adds to the queue, one message at a time.              *)
LEMMA ConcatIsAppend ==
  ASSUME NEW S, NEW s \in Seq(S), NEW d \in S, NEW e \in S
  PROVE  /\ s \o <<d>> \o <<e>> = Append(Append(s, d), e)
         /\ s \o <<>> \o <<e>> = Append(s, e)
OBVIOUS

(* The places of a sequence that hold a member of G.                       *)
Places(s, G) == {i \in 1..Len(s) : s[i] \in G}

(* A sequence has finitely many places.                                    *)
LEMMA PlacesFinite ==
  ASSUME NEW S, NEW s \in Seq(S), NEW G
  PROVE  IsFiniteSet(Places(s, G)) /\ Cardinality(Places(s, G)) \in Nat
<1>1. IsFiniteSet(1..Len(s))
  <2>1. Len(s) \in Int  OBVIOUS
  <2> QED  BY <2>1, FS_Interval
<1>2. Places(s, G) \in SUBSET (1..Len(s))  BY DEF Places
<1> QED  BY <1>1, <1>2, FS_Subset, FS_CardinalityType

(* An append adds one to the count when its element is in the set.         *)
LEMMA CountAppend ==
  ASSUME NEW S, NEW s \in Seq(S), NEW e \in S, NEW G
  PROVE  Cardinality(Places(Append(s, e), G)) =
           Cardinality(Places(s, G)) + (IF e \in G THEN 1 ELSE 0)
<1>1. CASE e \in G
  <2>1. Places(Append(s, e), G) = Places(s, G) \cup {Len(s) + 1}
    BY <1>1, AppendAt DEF Places
  <2>2. Len(s) + 1 \notin Places(s, G)  BY AppendAt DEF Places
  <2> QED  BY <1>1, <2>1, <2>2, PlacesFinite, FS_AddElement
<1>2. CASE e \notin G
  <2>1. Places(Append(s, e), G) = Places(s, G)  BY <1>2, AppendAt DEF Places
  <2> QED  BY <1>2, <2>1, PlacesFinite
<1> QED  BY <1>1, <1>2

(* Taking the head takes one from the count when the head is in the set.   *)
LEMMA CountTail ==
  ASSUME NEW S, NEW s \in Seq(S), s # <<>>, NEW G
  PROVE  Cardinality(Places(s, G)) =
           Cardinality(Places(Tail(s), G)) + (IF Head(s) \in G THEN 1 ELSE 0)
<1> DEFINE P == Places(s, G) \ {1}
           Q == Places(Tail(s), G)
           f == [i \in Q |-> i + 1]
<1>1. /\ \A i \in Q : i + 1 \in P /\ i \in Nat
      /\ \A j \in P : j - 1 \in Q /\ j \in Nat
  BY TailAt DEF Places
<1>2. f \in Bijection(Q, P)
  <2>1. f \in [Q -> P]  BY <1>1
  <2>2. \A i, j \in Q : f[i] = f[j] => i = j  BY <1>1
  <2>3. \A j \in P : \E i \in Q : f[i] = j  BY <1>1
  <2> QED  BY <2>1, <2>2, <2>3, Fun_IsInj, Fun_IsSurj DEF Bijection, Injection, Surjection
<1>3. IsFiniteSet(Q) /\ Cardinality(Q) \in Nat  BY TailAt, PlacesFinite
<1>4. Cardinality(P) = Cardinality(Q)
  BY <1>2, <1>3, FS_Bijection DEF ExistsBijection
<1>5. IsFiniteSet(Places(s, G)) /\ Cardinality(Places(s, G)) \in Nat  BY PlacesFinite
<1>6. 1 \in Places(s, G) <=> Head(s) \in G  BY TailAt DEF Places
<1> HIDE DEF P, Q
<1>7. Cardinality(P) = IF 1 \in Places(s, G) THEN Cardinality(Places(s, G)) - 1
                       ELSE Cardinality(Places(s, G))
  BY <1>5, FS_RemoveElement DEF P
<1> QED  BY <1>3, <1>4, <1>5, <1>6, <1>7 DEF Q

-----------------------------------------------------------------------------
(* The messages to the UI thread.                                          *)

Codes == {"m.ok", "m.os_error", "m.unknown_client", "m.unknown_device"}
Shown == Trust \cup {"absent"}

(* The answers to command i, and command i.                                *)
Answering(i) == {m \in PanMessage : m.type = "response" /\ m.id = i}
Asking(i) == {m \in Command : m.id = i}

Carries(m, u, d) == m.type = "devices" /\ m.user = u /\ d \in DOMAIN m.devices

(* A response answers its own command and carries no device.               *)
LEMMA ResponseIs ==
  ASSUME NEW id \in Ids, NEW u \in Users, NEW code \in Codes
  PROVE  /\ Response(id, u, code) \in PanMessage
         /\ \A i \in Ids : Response(id, u, code) \in Answering(i) <=> i = id
         /\ \A v, d : ~Carries(Response(id, u, code), v, d)
BY DEF Response, PanMessage, Answering, Codes, Carries

(* An update answers no command and carries the devices it shows.          *)
LEMMA UpdateIs ==
  ASSUME NEW u \in PanUsers, NEW S \in SUBSET Devices, NEW f \in [S -> Shown]
  PROVE  /\ Update(u, f) \in PanMessage
         /\ \A i : Update(u, f) \notin Answering(i)
         /\ \A v, d : Carries(Update(u, f), v, d) <=> v = u /\ d \in S
         /\ Update(u, f).devices = f
BY DEF Update, PanMessage, Answering, Carries, Shown

OneUpdate(u, d, v) == Update(u, [x \in {d} |-> v])

(* The update of a single device, as a device command sends it.            *)
LEMMA UpdateOfOne ==
  ASSUME NEW u \in PanUsers, NEW d \in Devices, NEW v \in Shown
  PROVE  /\ OneUpdate(u, d, v) \in PanMessage
         /\ \A i : OneUpdate(u, d, v) \notin Answering(i)
         /\ \A w, x : Carries(OneUpdate(u, d, v), w, x) <=> w = u /\ x = d
         /\ OneUpdate(u, d, v).devices[d] = v
<1> DEFINE f == [x \in {d} |-> v]
<1>1. {d} \in SUBSET Devices  OBVIOUS
<1>2. f \in [{d} -> Shown] /\ f[d] = v  OBVIOUS
<1> HIDE DEF f
<1>3. /\ Update(u, f) \in PanMessage
      /\ \A i : Update(u, f) \notin Answering(i)
      /\ \A w, x : Carries(Update(u, f), w, x) <=> w = u /\ x \in {d}
      /\ Update(u, f).devices = f
  BY <1>1, <1>2, UpdateIs
<1>4. OneUpdate(u, d, v) = Update(u, f)  BY DEF OneUpdate, f
<1> QED  BY <1>2, <1>3, <1>4

(* What the messages from the clients to the UI thread hold.               *)
LEMMA MessageIs ==
  ASSUME NEW m \in PanMessage
  PROVE  /\ m.type \in {"response", "devices"}
         /\ m.type = "response" => m.id \in Ids
         /\ m.type = "devices" => /\ m.user \in PanUsers
                                  /\ DOMAIN m.devices \subseteq Devices
                                  /\ \A d \in DOMAIN m.devices : m.devices[d] \in Shown
BY DEF PanMessage, Shown

(* What the commands to the router hold.                                   *)
LEMMA CommandIs ==
  ASSUME NEW m \in Command
  PROVE  /\ m.id \in Ids /\ m.user \in Users /\ m.device \in Devices
         /\ m.kind \in DeviceKinds \cup {"keys"}
         /\ \A i : m \in Asking(i) <=> m.id = i
BY DEF Command, Asking

(* No command has the id of no command.                                    *)
LEMMA NoCommandIs ==
  /\ NoCommand.id \notin Ids
  /\ NoCommand \notin Command
BY BoundsAssumption DEF NoCommand, Ids, Command

-----------------------------------------------------------------------------
(* Type correctness.                                                       *)

(* The router has a command in hand exactly while it waits for the         *)
(* executor.                                                               *)
CurrentInv == /\ router = "working" => current \in Command
              /\ router # "working" => current = NoCommand

TypeInv == TypeOK /\ CurrentInv

(* A device command gives a level of trust that the UI can show.           *)
LEMMA NewTrustType ==
  ASSUME NEW kind, NEW t \in Shown
  PROVE  NewTrust(kind, t) \in Shown
BY DEF NewTrust, Shown, Trust

(* The steps of the UI thread.                                             *)
LEMMA UIType ==
  ASSUME TypeInv, User \/ ShowUpdate \/ EmitResponse
  PROVE  TypeInv'
<1> USE DEF TypeInv, TypeOK, CurrentInv, storeVars, uiVars
<1>1. ASSUME NEW k \in DeviceKinds \cup {"keys"}, NEW u \in Users, NEW d \in Devices, Issue(k, u, d)
      PROVE  TypeInv'
  <2> DEFINE c == [id |-> message_id, kind |-> k, user |-> u, device |-> d]
  <2>1. c \in Command /\ message_id + 1 \in 0..MaxCommands
    BY <1>1, BoundsAssumption DEF Issue, Command, Ids
  <2>2. ui_queue' = Append(ui_queue, c)  BY <1>1 DEF Issue
  <2>3. ui_queue' \in Seq(Command)  BY <2>1, <2>2, AppendAt
  <2> QED  BY <1>1, <2>1, <2>3 DEF Issue
<1>2. CASE ShowUpdate
  <2>1. pan_queue' \in Seq(PanMessage) /\ Head(pan_queue) \in PanMessage
    BY <1>2, TailAt DEF ShowUpdate
  <2> DEFINE m == Head(pan_queue)
             l == [d \in Devices |-> IF d \in DOMAIN m.devices THEN m.devices[d]
                                       ELSE device_list[m.user][d]]
  <2>2. /\ m.user \in PanUsers /\ \A d \in DOMAIN m.devices : m.devices[d] \in Shown
    BY <1>2, <2>1, MessageIs DEF ShowUpdate
  <2>3. l \in [Devices -> Shown]  BY <2>2 DEF Shown
  <2>4. device_list' = [device_list EXCEPT ![m.user] = l]  BY <1>2 DEF ShowUpdate
  <2> HIDE DEF l, m
  <2>5. device_list' \in [PanUsers -> [Devices -> Shown]]  BY <2>3, <2>4 DEF Shown
  <2> QED  BY <1>2, <2>1, <2>5 DEF ShowUpdate, Shown
<1>3. CASE EmitResponse
  <2>1. pan_queue' \in Seq(PanMessage) /\ Head(pan_queue).id \in Ids
    BY <1>3, TailAt, MessageIs DEF EmitResponse
  <2> QED  BY <1>3, <2>1 DEF EmitResponse
<1> QED  BY <1>1, <1>2, <1>3 DEF User

(* What a device command leaves behind: a decision that changes nothing is *)
(* answered only, one that does is reported first.                         *)
RoutedTo(u, d, new) ==
  LET up == OneUpdate(u, d, IF d \in deleted[u] THEN "absent" ELSE new)
      r == Response(Head(ui_queue).id, u, "m.ok")
  IN /\ trust' = [trust EXCEPT ![u][d] = new]
     /\ \/ /\ new = trust[u][d]
           /\ unreported' = unreported
           /\ pan_queue' = Append(pan_queue, r)
        \/ /\ new # trust[u][d]
           /\ unreported' = [unreported EXCEPT ![u] = @ \ {d}]
           /\ pan_queue' = Append(Append(pan_queue, up), r)

(* A device command routed by the router is one of the steps above.        *)
LEMMA DeviceStep ==
  ASSUME TypeInv, RouteDevice
  PROVE  \E u \in PanUsers, d \in Devices, new \in Shown : RoutedTo(u, d, new)
<1> USE DEF TypeInv, TypeOK
<1> DEFINE m == Head(ui_queue)
           u == m.user
           d == m.device
           new == NewTrust(m.kind, trust[u][d])
           up == OneUpdate(u, d, IF d \in deleted[u] THEN "absent" ELSE new)
           r == Response(m.id, u, "m.ok")
<1>1. m \in Command  BY TailAt DEF RouteDevice, NextCommand
<1>2. m.id \in Ids /\ d \in Devices /\ u \in PanUsers  BY <1>1, CommandIs DEF RouteDevice
<1>3. new \in Shown
  <2>1. trust[u][d] \in Shown  BY <1>2 DEF Shown
  <2> QED  BY <2>1, NewTrustType
<1>4. up \in PanMessage
  <2>1. (IF d \in deleted[u] THEN "absent" ELSE new) \in Shown  BY <1>3 DEF Shown
  <2> HIDE DEF u, d, new
  <2> QED  BY <1>2, <2>1, UpdateOfOne
<1>5. r \in PanMessage  BY <1>2, PanUsersAssumption, ResponseIs DEF Codes
<1>6. /\ trust' = [trust EXCEPT ![u][d] = new]
      /\ new = trust[u][d] => /\ unreported' = unreported
                              /\ pan_queue' = pan_queue \o <<>> \o <<r>>
      /\ new # trust[u][d] => /\ unreported' = [unreported EXCEPT ![u] = @ \ {d}]
                              /\ pan_queue' = pan_queue \o <<up>> \o <<r>>
  BY DEF RouteDevice, OneUpdate
<1> HIDE DEF m, u, d, new, up, r
<1>7. /\ pan_queue \o <<>> \o <<r>> = Append(pan_queue, r)
      /\ pan_queue \o <<up>> \o <<r>> = Append(Append(pan_queue, up), r)
  BY <1>4, <1>5, ConcatIsAppend
<1>8. RoutedTo(u, d, new)  BY <1>6, <1>7 DEF RoutedTo, up, r, m
<1> QED  BY <1>2, <1>3, <1>8

(* The steps of the router.                                                *)
LEMMA RouterType ==
  ASSUME TypeInv, Router
  PROVE  TypeInv'
<1> USE DEF TypeInv, TypeOK, CurrentInv, storeVars, uiVars
<1>1. CASE NextCommand
  <2> DEFINE m == Head(ui_queue)
  <2>1. m \in Command /\ ui_queue' \in Seq(Command)  BY <1>1, TailAt DEF NextCommand
  <2>2. m.id \in Ids /\ m.user \in Users /\ m.device \in Devices  BY <2>1, CommandIs
  <2> HIDE DEF m
  <2>3. CASE RouteUnknownUser
    <3>1. Response(m.id, m.user, "m.unknown_client") \in PanMessage  BY <2>2, ResponseIs DEF Codes
    <3>2. pan_queue' \in Seq(PanMessage)  BY <2>3, <3>1, AppendAt DEF RouteUnknownUser, m
    <3> QED  BY <2>1, <2>3, <3>2 DEF RouteUnknownUser, NextCommand
  <2>4. CASE RouteUnknownDevice
    <3>1. Response(m.id, m.user, "m.unknown_device") \in PanMessage  BY <2>2, ResponseIs DEF Codes
    <3>2. pan_queue' \in Seq(PanMessage)  BY <2>4, <3>1, AppendAt DEF RouteUnknownDevice, m
    <3> QED  BY <2>1, <2>4, <3>2 DEF RouteUnknownDevice
  <2>5. CASE RouteDevice
    <3>1. PICK u \in PanUsers, d \in Devices, new \in Shown : RoutedTo(u, d, new)
      BY <2>5, DeviceStep
    <3> DEFINE up == OneUpdate(u, d, IF d \in deleted[u] THEN "absent" ELSE new)
               r == Response(Head(ui_queue).id, u, "m.ok")
    <3>2. up \in PanMessage
      <4>1. (IF d \in deleted[u] THEN "absent" ELSE new) \in Shown  BY DEF Shown
      <4> QED  BY <4>1, UpdateOfOne
    <3>3. r \in PanMessage  BY <2>2, PanUsersAssumption, ResponseIs DEF Codes, m
    <3> HIDE DEF up, r
    <3>4. pan_queue' = Append(pan_queue, r) \/ pan_queue' = Append(Append(pan_queue, up), r)
      BY <3>1 DEF RoutedTo, up, r
    <3>5. pan_queue' \in Seq(PanMessage)
      <4>1. /\ Append(pan_queue, r) \in Seq(PanMessage)
            /\ Append(pan_queue, up) \in Seq(PanMessage)
        BY <3>2, <3>3, AppendAt
      <4>2. Append(Append(pan_queue, up), r) \in Seq(PanMessage)  BY <3>3, <4>1, AppendAt
      <4> QED  BY <3>4, <4>1, <4>2
    <3>6. trust' \in [PanUsers -> [Devices -> Shown]]  BY <3>1 DEF RoutedTo, Shown
    <3>7. unreported' \in [PanUsers -> SUBSET Devices]
      <4>1. CASE unreported' = unreported  BY <4>1
      <4>2. CASE unreported' = [unreported EXCEPT ![u] = @ \ {d}]  BY <4>2
      <4> QED  BY <3>1, <4>1, <4>2 DEF RoutedTo
    <3> QED  BY <2>1, <2>5, <3>5, <3>6, <3>7 DEF RouteDevice, Shown
  <2>6. CASE RouteKeys  BY <2>1, <2>6 DEF RouteKeys, m
  <2>7. ~FinishKeys  BY <1>1 DEF NextCommand, FinishKeys
  <2> QED  BY <2>3, <2>4, <2>5, <2>6, <2>7 DEF Router
<1>2. CASE FinishKeys
  <2>1. PICK code \in {"m.ok", "m.os_error"} :
          pan_queue' = Append(pan_queue, Response(current.id, current.user, code))
    BY <1>2 DEF FinishKeys
  <2>2. Response(current.id, current.user, code) \in PanMessage
    BY <1>2, CommandIs, ResponseIs DEF FinishKeys, Codes
  <2>3. pan_queue' \in Seq(PanMessage)  BY <2>1, <2>2, AppendAt
  <2> QED  BY <1>2, <2>3 DEF FinishKeys
<1> QED
  BY <1>1, <1>2 DEF Router, RouteUnknownUser, RouteUnknownDevice, RouteDevice, RouteKeys

(* The steps of the store and of the coroutines that send updates.         *)
LEMMA StoreType ==
  ASSUME TypeInv, Store \/ Updates
  PROVE  TypeInv'
<1> USE BoundsAssumption DEF TypeInv, TypeOK, CurrentInv, storeVars, uiVars
<1>1. ASSUME NEW u \in PanUsers, NEW d \in Devices, KeysQuery(u, d)
      PROVE  TypeInv'
  <2>1. trust' \in [PanUsers -> [Devices -> Shown]] /\ deleted' \in [PanUsers -> SUBSET Devices]
    <3>1. CASE trust' = [trust EXCEPT ![u][d] = "unset"] /\ UNCHANGED deleted
      BY <3>1 DEF Shown, Trust
    <3>2. CASE deleted' = [deleted EXCEPT ![u] = @ \cup {d}] /\ UNCHANGED trust
      BY <3>2 DEF Shown, Trust
    <3> QED  BY <1>1, <3>1, <3>2 DEF KeysQuery
  <2>2. owed' \in [PanUsers -> SUBSET SUBSET Devices] /\ changes' \in 0..MaxChanges
    BY <1>1 DEF KeysQuery
  <2> QED  BY <1>1, <2>1, <2>2 DEF KeysQuery, Shown
<1>2. ASSUME NEW u \in PanUsers, NEW S \in SUBSET Devices, IgnoreDevices(u, S)
      PROVE  TypeInv'
  <2>1. trust' \in [PanUsers -> [Devices -> Shown]]
    BY <1>2 DEF IgnoreDevices, Shown, Trust
  <2>2. /\ owed' \in [PanUsers -> SUBSET SUBSET Devices] /\ changes' \in 0..MaxChanges
        /\ unreported' \in [PanUsers -> SUBSET Devices]
    <3>1. CASE owed' = [owed EXCEPT ![u] = @ \cup {S}] /\ UNCHANGED unreported
      BY <1>2, <3>1 DEF IgnoreDevices
    <3>2. CASE unreported' = [unreported EXCEPT ![u] = @ \cup S] /\ UNCHANGED owed
      BY <1>2, <3>2 DEF IgnoreDevices
    <3> QED  BY <1>2, <3>1, <3>2 DEF IgnoreDevices
  <2> QED  BY <1>2, <2>1, <2>2 DEF IgnoreDevices, Shown
<1>3. ASSUME NEW u \in PanUsers, NEW S \in owed[u], SendUpdate(u, S)
      PROVE  TypeInv'
  <2>1. S \in SUBSET Devices  OBVIOUS
  <2>2. [d \in S |-> View(u, d)] \in [S -> Shown]  BY <2>1 DEF View, Shown
  <2>3. pan_queue' \in Seq(PanMessage)
    <3> DEFINE f == [d \in S |-> View(u, d)]
               e == Update(u, f)
    <3>1. e \in PanMessage  BY <2>1, <2>2, UpdateIs
    <3>2. pan_queue' = Append(pan_queue, e)  BY <1>3 DEF SendUpdate
    <3> HIDE DEF e
    <3> QED  BY <3>1, <3>2, AppendAt
  <2>4. /\ owed' \in [PanUsers -> SUBSET SUBSET Devices]
        /\ unreported' \in [PanUsers -> SUBSET Devices]
    BY <1>3 DEF SendUpdate
  <2> QED  BY <1>3, <2>3, <2>4 DEF SendUpdate
<1> QED  BY <1>1, <1>2, <1>3 DEF Store, Updates

(* The types hold in every reachable state.                                *)
LEMMA TypeInvariance == Spec => []TypeInv
<1>1. Init => TypeInv
  BY BoundsAssumption DEF Init, TypeInv, TypeOK, CurrentInv
<1>2. TypeInv /\ [Next]_vars => TypeInv'
  <2> SUFFICES ASSUME TypeInv, [Next]_vars PROVE TypeInv'
    OBVIOUS
  <2>1. CASE UNCHANGED vars
    BY <2>1 DEF vars, TypeInv, TypeOK, CurrentInv
  <2> QED  BY <2>1, UIType, RouterType, StoreType DEF Next
<1> QED  BY <1>1, <1>2, PTL DEF Spec

(* Every variable of the two threads keeps its type.                       *)
THEOREM TypeCorrect == Spec => []TypeOK
<1>1. TypeInv => TypeOK  BY DEF TypeInv
<1> QED  BY <1>1, TypeInvariance, PTL

-----------------------------------------------------------------------------
(* One answer per command.                                                 *)

Answers(i) == Cardinality(Places(pan_queue, Answering(i)))
Questions(i) == Cardinality(Places(ui_queue, Asking(i)))
InHand(i) == IF current.id = i THEN 1 ELSE 0

(* A command that was issued is in exactly one place: queued, in the       *)
(* router's hand, answered in the queue to the UI thread, or answered on   *)
(* the bus.                                                                *)
AnswersInv ==
  \A i \in Ids : responses[i] + Answers(i) + Questions(i) + InHand(i)
                 = IF i < message_id THEN 1 ELSE 0

(* The counts are numbers.                                                 *)
LEMMA CountsAre ==
  ASSUME TypeInv, NEW i
  PROVE  Answers(i) \in Nat /\ Questions(i) \in Nat /\ InHand(i) \in {0, 1}
BY PlacesFinite DEF TypeInv, TypeOK, Answers, Questions, InHand

(* The places AnsweredOnce counts are the ones counted here.               *)
LEMMA CountsSame ==
  ASSUME TypeInv, NEW i \in Ids
  PROVE  /\ Places(pan_queue, Answering(i)) =
              {j \in 1..Len(pan_queue) : pan_queue[j].type = "response" /\ pan_queue[j].id = i}
         /\ Places(ui_queue, Asking(i)) = {j \in 1..Len(ui_queue) : ui_queue[j].id = i}
BY DEF TypeInv, TypeOK, Places, Answering, Asking

(* Issuing a command puts one question under a fresh id.                   *)
LEMMA IssueAnswers ==
  ASSUME TypeInv, AnswersInv, NEW k \in DeviceKinds \cup {"keys"}, NEW u \in Users,
         NEW d \in Devices, Issue(k, u, d)
  PROVE  AnswersInv'
<1> USE DEF TypeInv, TypeOK
<1> DEFINE c == [id |-> message_id, kind |-> k, user |-> u, device |-> d]
<1>1. c \in Command /\ c.id = message_id  BY BoundsAssumption DEF Issue, Command, Ids
<1>2. ui_queue' = Append(ui_queue, c) /\ message_id' = message_id + 1  BY DEF Issue
<1> HIDE DEF c
<1>3. ASSUME NEW i \in Ids
      PROVE  Questions(i)' = Questions(i) + (IF i = message_id THEN 1 ELSE 0)
  BY <1>1, <1>2, CountAppend, CommandIs DEF Questions
<1>4. ASSUME NEW i \in Ids
      PROVE  Answers(i)' = Answers(i) /\ InHand(i)' = InHand(i) /\ responses' = responses
  BY DEF Issue, Answers, InHand, storeVars, uiVars
<1>5. ASSUME NEW i \in Ids
      PROVE  responses'[i] + Answers(i)' + Questions(i)' + InHand(i)'
               = IF i < message_id' THEN 1 ELSE 0
  <2>1. responses[i] + Answers(i) + Questions(i) + InHand(i) = IF i < message_id THEN 1 ELSE 0
    BY DEF AnswersInv
  <2>2. /\ responses[i] \in Nat /\ Answers(i) \in Nat /\ Questions(i) \in Nat
        /\ InHand(i) \in {0, 1} /\ i \in Int /\ message_id \in Int
    BY CountsAre DEF Ids
  <2> QED  BY <1>2, <1>3, <1>4, <2>1, <2>2
<1> QED  BY <1>5 DEF AnswersInv

(* The UI thread turns an answer in the queue into one on the bus.         *)
LEMMA UIAnswers ==
  ASSUME TypeInv, AnswersInv, ShowUpdate \/ EmitResponse
  PROVE  AnswersInv'
<1> USE DEF TypeInv, TypeOK
<1> DEFINE m == Head(pan_queue)
<1>1. pan_queue # <<>> /\ pan_queue' = Tail(pan_queue) /\ m \in PanMessage
  BY TailAt DEF ShowUpdate, EmitResponse
<1>2. m.type = "response" => m.id \in Ids  BY <1>1, MessageIs
<1>3. /\ message_id' = message_id /\ ui_queue' = ui_queue /\ current' = current
      /\ \/ m.type = "devices" /\ responses' = responses
         \/ m.type = "response" /\ responses' = [responses EXCEPT ![m.id] = @ + 1]
  BY DEF ShowUpdate, EmitResponse
<1> HIDE DEF m
<1>4. ASSUME NEW i \in Ids
      PROVE  responses'[i] + Answers(i)' + Questions(i)' + InHand(i)'
               = IF i < message_id' THEN 1 ELSE 0
  <2>1. responses[i] + Answers(i) + Questions(i) + InHand(i) = IF i < message_id THEN 1 ELSE 0
    BY DEF AnswersInv
  <2>2. /\ responses[i] \in Nat /\ Answers(i) \in Nat /\ Questions(i) \in Nat
        /\ InHand(i) \in {0, 1}
    BY CountsAre
  <2>3. Answers(i) = Cardinality(Places(pan_queue', Answering(i)))
                       + (IF m \in Answering(i) THEN 1 ELSE 0)
    BY <1>1, CountTail DEF Answers, m
  <2>4. Cardinality(Places(pan_queue', Answering(i))) \in Nat
    BY <1>1, TailAt, PlacesFinite
  <2>5. m \in Answering(i) <=> m.type = "response" /\ m.id = i  BY <1>1 DEF Answering
  <2>6. Questions(i)' = Questions(i) /\ InHand(i)' = InHand(i)  BY <1>3 DEF Questions, InHand
  <2>7. Answers(i)' = Cardinality(Places(pan_queue', Answering(i)))  BY DEF Answers
  <2>8. CASE m.type = "devices"  BY <1>3, <2>1, <2>2, <2>3, <2>4, <2>5, <2>6, <2>7, <2>8
  <2>9. CASE m.type = "response"
    <3>1. responses'[i] = responses[i] + (IF m.id = i THEN 1 ELSE 0)
      BY <1>2, <1>3, <2>2, <2>9
    <3> QED  BY <1>3, <2>1, <2>2, <2>3, <2>4, <2>5, <2>6, <2>7, <2>9, <3>1
  <2> QED  BY <1>3, <2>8, <2>9
<1> QED  BY <1>4 DEF AnswersInv

(* A step that takes a question and gives one answer, or none and keeps    *)
(* the question in hand.                                                   *)
LEMMA Taken ==
  ASSUME TypeInv, AnswersInv, NextCommand,
         message_id' = message_id, responses' = responses, current = NoCommand,
         \A i \in Ids : Answers(i)' + InHand(i)'
                          = Answers(i) + (IF Head(ui_queue).id = i THEN 1 ELSE 0),
         \A i \in Ids : Answers(i)' \in Nat
  PROVE  AnswersInv'
<1> USE DEF TypeInv, TypeOK
<1>1. ui_queue # <<>> /\ ui_queue' = Tail(ui_queue) /\ Head(ui_queue) \in Command
  BY TailAt DEF NextCommand
<1>2. ASSUME NEW i \in Ids
      PROVE  responses'[i] + Answers(i)' + Questions(i)' + InHand(i)'
               = IF i < message_id' THEN 1 ELSE 0
  <2>1. responses[i] + Answers(i) + Questions(i) + InHand(i) = IF i < message_id THEN 1 ELSE 0
    BY DEF AnswersInv
  <2>2. responses[i] \in Nat /\ Answers(i) \in Nat /\ Questions(i) \in Nat
    BY CountsAre
  <2>3. InHand(i) = 0  BY NoCommandIs DEF InHand
  <2>4. Questions(i) = Cardinality(Places(ui_queue', Asking(i)))
                         + (IF Head(ui_queue).id = i THEN 1 ELSE 0)
    BY <1>1, CountTail, CommandIs DEF Questions
  <2>5. Cardinality(Places(ui_queue', Asking(i))) \in Nat  BY <1>1, TailAt, PlacesFinite
  <2>6. Questions(i)' = Cardinality(Places(ui_queue', Asking(i)))  BY DEF Questions
  <2>7. InHand(i)' \in {0, 1}  BY DEF InHand
  <2>8. /\ Answers(i)' + InHand(i)' = Answers(i) + (IF Head(ui_queue).id = i THEN 1 ELSE 0)
        /\ Answers(i)' \in Nat
    OBVIOUS
  <2>9. responses'[i] = responses[i] /\ message_id' = message_id  OBVIOUS
  <2> DEFINE Q == Cardinality(Places(ui_queue', Asking(i)))
             h == IF Head(ui_queue).id = i THEN 1 ELSE 0
  <2>10. Q \in Nat /\ h \in {0, 1} /\ Questions(i) = Q + h /\ Questions(i)' = Q
         /\ Answers(i)' + InHand(i)' = Answers(i) + h
    BY <2>4, <2>5, <2>6, <2>8
  <2> HIDE DEF TypeInv, TypeOK, Q, h
  <2>11. responses[i] + Answers(i)' + Q + InHand(i)' = responses[i] + Answers(i) + (Q + h) + 0
    <3>1. \A r, x, y, z, v, w \in Int : y + z = x + w => r + y + v + z = r + x + (v + w) + 0
      OBVIOUS
    <3>2. /\ responses[i] \in Int /\ Answers(i) \in Int /\ Answers(i)' \in Int
          /\ InHand(i)' \in Int /\ Q \in Int /\ h \in Int
      BY <2>2, <2>7, <2>8, <2>10
    <3> QED  BY <2>10, <3>1, <3>2
  <2> QED  BY <2>1, <2>3, <2>9, <2>10, <2>11
<1> QED  BY <1>2 DEF AnswersInv

(* One answer appended to a queue counts once.                             *)
LEMMA OneAnswer ==
  ASSUME NEW q \in Seq(PanMessage), NEW id \in Ids, NEW u \in Users, NEW code \in Codes,
         NEW i \in Ids
  PROVE  Cardinality(Places(Append(q, Response(id, u, code)), Answering(i)))
           = Cardinality(Places(q, Answering(i))) + (IF id = i THEN 1 ELSE 0)
BY ResponseIs, CountAppend

(* The router takes one question and gives one answer, at once or when the *)
(* executor is done.                                                       *)
LEMMA RouterAnswers ==
  ASSUME TypeInv, AnswersInv, Router, TypeInv'
  PROVE  AnswersInv'
<1> USE DEF TypeInv, TypeOK, CurrentInv
<1>1. CASE NextCommand
  <2> DEFINE m == Head(ui_queue)
  <2>1. m \in Command  BY <1>1, TailAt DEF NextCommand
  <2>2. m.id \in Ids /\ m.user \in Users /\ m.device \in Devices  BY <2>1, CommandIs
  <2>3. current = NoCommand  BY <1>1 DEF NextCommand
  <2>4. \A i \in Ids : Answers(i)' \in Nat  BY PlacesFinite DEF Answers
  <2>5. \A i \in Ids : InHand(i) = 0  BY <2>3, NoCommandIs DEF InHand
  <2> HIDE DEF m
  <2>6. CASE RouteUnknownUser \/ RouteUnknownDevice
    <3>1. PICK code \in Codes : pan_queue' = Append(pan_queue, Response(m.id, m.user, code))
      BY <2>6 DEF RouteUnknownUser, RouteUnknownDevice, m, Codes
    <3>2. ASSUME NEW i \in Ids
          PROVE  Answers(i)' = Answers(i) + (IF m.id = i THEN 1 ELSE 0)
      BY <2>2, <3>1, OneAnswer DEF Answers
    <3>3. message_id' = message_id /\ responses' = responses /\ current' = current
      BY <2>6 DEF RouteUnknownUser, RouteUnknownDevice, uiVars
    <3>4. \A i \in Ids : InHand(i)' = 0  BY <2>5, <3>3 DEF InHand
    <3> QED  BY <1>1, <2>3, <2>4, <3>2, <3>3, <3>4, Taken DEF m
  <2>7. CASE RouteDevice
    <3>1. PICK u \in PanUsers, d \in Devices, new \in Shown : RoutedTo(u, d, new)
      BY <2>7, DeviceStep
    <3> DEFINE v == IF d \in deleted[u] THEN "absent" ELSE new
               up == OneUpdate(u, d, v)
    <3>2. up \in PanMessage /\ \A i : up \notin Answering(i)
      <4>1. v \in Shown  BY DEF Shown
      <4> HIDE DEF v
      <4> QED  BY <4>1, UpdateOfOne
    <3>3. \/ pan_queue' = Append(pan_queue, Response(m.id, u, "m.ok"))
          \/ pan_queue' = Append(Append(pan_queue, up), Response(m.id, u, "m.ok"))
      BY <3>1 DEF RoutedTo, m
    <3> HIDE DEF up
    <3>4. ASSUME NEW i \in Ids
          PROVE  Answers(i)' = Answers(i) + (IF m.id = i THEN 1 ELSE 0)
      <4>1. Append(pan_queue, up) \in Seq(PanMessage)  BY <3>2, AppendAt
      <4>2. Cardinality(Places(Append(pan_queue, up), Answering(i))) = Answers(i)
        BY <3>2, CountAppend, CountsAre DEF Answers
      <4>3. u \in Users /\ "m.ok" \in Codes  BY PanUsersAssumption DEF Codes
      <4>4. CASE pan_queue' = Append(pan_queue, Response(m.id, u, "m.ok"))
        BY <2>2, <4>3, <4>4, OneAnswer DEF Answers
      <4>5. CASE pan_queue' = Append(Append(pan_queue, up), Response(m.id, u, "m.ok"))
        <5> DEFINE q == Append(pan_queue, up)
        <5>1. q \in Seq(PanMessage) /\ Cardinality(Places(q, Answering(i))) = Answers(i)
          BY <4>1, <4>2
        <5>2. pan_queue' = Append(q, Response(m.id, u, "m.ok"))  BY <4>5
        <5> HIDE DEF q, TypeInv, TypeOK, CurrentInv
        <5>3. Cardinality(Places(Append(q, Response(m.id, u, "m.ok")), Answering(i)))
                = Cardinality(Places(q, Answering(i))) + (IF m.id = i THEN 1 ELSE 0)
          BY <2>2, <4>3, <5>1, OneAnswer
        <5> QED  BY <5>1, <5>2, <5>3 DEF Answers
      <4> QED  BY <3>3, <4>4, <4>5
    <3>5. message_id' = message_id /\ responses' = responses /\ current' = current
      BY <2>7 DEF RouteDevice, uiVars
    <3>6. \A i \in Ids : InHand(i)' = 0  BY <2>5, <3>5 DEF InHand
    <3> QED  BY <1>1, <2>3, <2>4, <3>4, <3>5, <3>6, Taken DEF m
  <2>8. CASE RouteKeys
    <3>1. /\ message_id' = message_id /\ responses' = responses /\ current' = m
          /\ pan_queue' = pan_queue
      BY <2>8 DEF RouteKeys, uiVars, m
    <3>2. \A i \in Ids : Answers(i)' = Answers(i) /\ InHand(i)' = IF m.id = i THEN 1 ELSE 0
      BY <3>1 DEF Answers, InHand
    <3> QED  BY <1>1, <2>3, <2>4, <3>1, <3>2, Taken DEF m
  <2>9. ~FinishKeys  BY <1>1 DEF NextCommand, FinishKeys
  <2> QED  BY <2>6, <2>7, <2>8, <2>9 DEF Router
<1>2. CASE FinishKeys
  <2>1. PICK code \in Codes :
          pan_queue' = Append(pan_queue, Response(current.id, current.user, code))
    BY <1>2 DEF FinishKeys, Codes
  <2>2. current.id \in Ids /\ current.user \in Users  BY <1>2, CommandIs DEF FinishKeys
  <2>3. /\ current' = NoCommand /\ message_id' = message_id /\ responses' = responses
        /\ ui_queue' = ui_queue
    BY <1>2 DEF FinishKeys, uiVars
  <2>4. ASSUME NEW i \in Ids
        PROVE  /\ Answers(i)' = Answers(i) + InHand(i) /\ InHand(i)' = 0
               /\ Questions(i)' = Questions(i)
    BY <2>1, <2>2, <2>3, OneAnswer, NoCommandIs DEF Answers, InHand, Questions
  <2>5. \A i \in Ids : /\ responses[i] \in Nat /\ Answers(i) \in Nat /\ Questions(i) \in Nat
                       /\ InHand(i) \in {0, 1}
    BY CountsAre
  <2>6. ASSUME NEW i \in Ids
        PROVE  responses'[i] + Answers(i)' + Questions(i)' + InHand(i)'
                 = IF i < message_id' THEN 1 ELSE 0
    <3>1. responses[i] + Answers(i) + Questions(i) + InHand(i) = IF i < message_id THEN 1 ELSE 0
      BY DEF AnswersInv
    <3>2. /\ responses[i] \in Nat /\ Answers(i) \in Nat /\ Questions(i) \in Nat
          /\ InHand(i) \in {0, 1}
      BY <2>5
    <3> HIDE DEF TypeInv, TypeOK, CurrentInv
    <3>3. responses[i] + (Answers(i) + InHand(i)) + Questions(i) + 0
            = responses[i] + Answers(i) + Questions(i) + InHand(i)
      BY <3>2
    <3>4. responses'[i] = responses[i] /\ message_id' = message_id  BY <2>3
    <3> QED  BY <2>4, <3>1, <3>3, <3>4
  <2> QED  BY <2>6 DEF AnswersInv
<1> QED
  BY <1>1, <1>2 DEF Router, RouteUnknownUser, RouteUnknownDevice, RouteDevice, RouteKeys

(* The changes of the store and their updates answer nothing.              *)
LEMMA StoreAnswers ==
  ASSUME TypeInv, AnswersInv, Store \/ Updates
  PROVE  AnswersInv'
<1> USE DEF TypeInv, TypeOK
<1>1. /\ message_id' = message_id /\ responses' = responses /\ current' = current
      /\ ui_queue' = ui_queue
  BY DEF Store, Updates, KeysQuery, IgnoreDevices, SendUpdate, uiVars
<1>2. ASSUME NEW i \in Ids PROVE Answers(i)' = Answers(i)
  <2>1. CASE Store
    <3>1. pan_queue' = pan_queue  BY <2>1 DEF Store, KeysQuery, IgnoreDevices
    <3> QED  BY <3>1 DEF Answers
  <2>2. ASSUME NEW u \in PanUsers, NEW S \in owed[u], SendUpdate(u, S)
        PROVE  Answers(i)' = Answers(i)
    <3> DEFINE f == [d \in S |-> View(u, d)]
    <3>1. S \in SUBSET Devices  OBVIOUS
    <3>2. f \in [S -> Shown]  BY <3>1 DEF View, Shown
    <3>3. pan_queue' = Append(pan_queue, Update(u, f))  BY <2>2 DEF SendUpdate
    <3> HIDE DEF f
    <3>4. Update(u, f) \in PanMessage /\ Update(u, f) \notin Answering(i)
      BY <3>1, <3>2, UpdateIs
    <3> QED  BY <3>3, <3>4, CountAppend, CountsAre DEF Answers
  <2> QED  BY <2>1, <2>2 DEF Updates
<1>3. \A i \in Ids : Questions(i)' = Questions(i) /\ InHand(i)' = InHand(i)
  BY <1>1 DEF Questions, InHand
<1> QED  BY <1>1, <1>2, <1>3 DEF AnswersInv

(* In the beginning nothing is queued.                                     *)
LEMMA InitAnswers ==
  ASSUME Init
  PROVE  AnswersInv
<1>1. \A i : Places(pan_queue, Answering(i)) = {} /\ Places(ui_queue, Asking(i)) = {}
  BY DEF Init, Places
<1>2. \A i : Answers(i) = 0 /\ Questions(i) = 0  BY <1>1, FS_EmptySet DEF Answers, Questions
<1>3. \A i \in Ids : InHand(i) = 0  BY NoCommandIs DEF Init, InHand
<1>4. \A i \in Ids : responses[i] = 0 /\ ~(i < message_id)  BY BoundsAssumption DEF Init, Ids
<1> QED  BY <1>2, <1>3, <1>4 DEF AnswersInv

(* Each command is answered at most once, under the id its caller was      *)
(* given, and until then it is in exactly one place.                       *)
THEOREM Answered == Spec => []AnsweredOnce
<1>1. Init => AnswersInv  BY InitAnswers
<1>2. TypeInv /\ TypeInv' /\ AnswersInv /\ [Next]_vars => AnswersInv'
  <2> SUFFICES ASSUME TypeInv, TypeInv', AnswersInv, [Next]_vars PROVE AnswersInv'
    OBVIOUS
  <2>1. CASE UNCHANGED vars
    BY <2>1 DEF vars, AnswersInv, Answers, Questions, InHand
  <2>2. CASE User  BY <2>2, IssueAnswers DEF User
  <2> QED  BY <2>1, <2>2, UIAnswers, RouterAnswers, StoreAnswers DEF Next
<1>3. TypeInv /\ AnswersInv => AnsweredOnce
  BY CountsSame DEF AnswersInv, AnsweredOnce, Answers, Questions, InHand
<1> QED  BY <1>1, <1>2, <1>3, TypeInvariance, PTL DEF Spec

-----------------------------------------------------------------------------
(* The device list follows the store.                                      *)

(* v is what the UI thread shows of device d of user u after the messages  *)
(* of s, when it shows x before: what the last message that carries the    *)
(* device says of it.                                                      *)
WillShow(s, x, u, d, v) ==
  \/ v = x /\ \A j \in 1..Len(s) : ~Carries(s[j], u, d)
  \/ \E i \in 1..Len(s) : /\ Carries(s[i], u, d)
                          /\ v = s[i].devices[d]
                          /\ \A j \in 1..Len(s) : Carries(s[j], u, d) => j <= i

(* Every device has such a v, and unless an update is owed or the device   *)
(* was ignored silently it is the state of the store.                      *)
Converging(u, d) ==
  \E v : /\ WillShow(pan_queue, device_list[u][d], u, d, v)
         /\ d \notin (UNION owed[u]) \cup unreported[u] => v = View(u, d)

ConvergesInv == \A u \in PanUsers, d \in Devices : Converging(u, d)

(* A message that says nothing of the device leaves what will be shown.    *)
LEMMA ShowsAppend ==
  ASSUME NEW S, NEW s \in Seq(S), NEW e \in S, NEW x, NEW u, NEW d, NEW v,
         WillShow(s, x, u, d, v), ~Carries(e, u, d)
  PROVE  WillShow(Append(s, e), x, u, d, v)
<1> DEFINE t == Append(s, e)
<1>1. /\ Len(s) \in Nat /\ Len(t) = Len(s) + 1
      /\ \A i \in 1..Len(s) : t[i] = s[i] /\ i \in 1..Len(t)
      /\ t[Len(s) + 1] = e
  BY AppendAt
<1> HIDE DEF t
<1>2. \A j \in 1..Len(t) : Carries(t[j], u, d) => j \in 1..Len(s) /\ Carries(s[j], u, d)
  <2> SUFFICES ASSUME NEW j \in 1..Len(t), Carries(t[j], u, d)
               PROVE  j \in 1..Len(s) /\ Carries(s[j], u, d)
    OBVIOUS
  <2>1. j # Len(s) + 1  BY <1>1
  <2>2. j \in 1..Len(s)  BY <1>1, <2>1
  <2> QED  BY <1>1, <2>2
<1>3. CASE v = x /\ \A j \in 1..Len(s) : ~Carries(s[j], u, d)
  BY <1>2, <1>3 DEF WillShow, t
<1>4. ASSUME NEW i \in 1..Len(s), Carries(s[i], u, d), v = s[i].devices[d],
             \A j \in 1..Len(s) : Carries(s[j], u, d) => j <= i
      PROVE  WillShow(t, x, u, d, v)
  <2>1. i \in 1..Len(t) /\ Carries(t[i], u, d) /\ v = t[i].devices[d]  BY <1>1, <1>4
  <2>2. \A j \in 1..Len(t) : Carries(t[j], u, d) => j <= i  BY <1>2, <1>4
  <2> QED  BY <2>1, <2>2 DEF WillShow
<1> QED  BY <1>3, <1>4 DEF WillShow, t

(* One that carries it decides what will be shown.                         *)
LEMMA ShowsLast ==
  ASSUME NEW S, NEW s \in Seq(S), NEW e \in S, NEW x, NEW u, NEW d, Carries(e, u, d)
  PROVE  WillShow(Append(s, e), x, u, d, e.devices[d])
<1> DEFINE t == Append(s, e)
<1>1. Len(s) \in Nat /\ Len(t) = Len(s) + 1 /\ t[Len(s) + 1] = e  BY AppendAt
<1> HIDE DEF t
<1>2. Len(s) + 1 \in 1..Len(t) /\ \A j \in 1..Len(t) : j <= Len(s) + 1  BY <1>1
<1>3. WillShow(t, x, u, d, e.devices[d])  BY <1>1, <1>2 DEF WillShow
<1> QED  BY <1>3 DEF t

(* Showing the first message changes what is shown, not what will be.      *)
LEMMA ShowsTail ==
  ASSUME NEW S, NEW s \in Seq(S), s # <<>>, NEW x, NEW u, NEW d, NEW v,
         WillShow(s, x, u, d, v)
  PROVE  WillShow(Tail(s), IF Carries(Head(s), u, d) THEN Head(s).devices[d] ELSE x, u, d, v)
<1> DEFINE t == Tail(s)
           y == IF Carries(Head(s), u, d) THEN Head(s).devices[d] ELSE x
<1>1. /\ Head(s) = s[1] /\ 1 \in 1..Len(s) /\ Len(s) \in Nat /\ Len(t) = Len(s) - 1
      /\ \A i \in 1..Len(t) : i + 1 \in 1..Len(s) /\ t[i] = s[i + 1]
      /\ \A j \in 2..Len(s) : j - 1 \in 1..Len(t) /\ t[j - 1] = s[j]
  BY TailAt
<1> HIDE DEF t
<1>2. CASE v = x /\ \A j \in 1..Len(s) : ~Carries(s[j], u, d)
  <2>1. y = x  BY <1>1, <1>2
  <2>2. \A j \in 1..Len(t) : ~Carries(t[j], u, d)  BY <1>1, <1>2
  <2> HIDE DEF y
  <2>3. WillShow(t, y, u, d, v)  BY <1>2, <2>1, <2>2 DEF WillShow
  <2> QED  BY <2>3 DEF t, y
<1>3. ASSUME NEW i \in 1..Len(s), Carries(s[i], u, d), v = s[i].devices[d],
             \A j \in 1..Len(s) : Carries(s[j], u, d) => j <= i
      PROVE  WillShow(t, y, u, d, v)
  <2>1. CASE i = 1
    <3>1. y = v  BY <1>1, <1>3, <2>1
    <3>2. \A j \in 1..Len(t) : ~Carries(t[j], u, d)
      <4> SUFFICES ASSUME NEW j \in 1..Len(t), Carries(t[j], u, d) PROVE FALSE
        OBVIOUS
      <4>1. j + 1 \in 1..Len(s) /\ Carries(s[j + 1], u, d)  BY <1>1
      <4>2. j + 1 <= i  BY <1>3, <4>1
      <4> QED  BY <2>1, <4>2
    <3> HIDE DEF y
    <3> QED  BY <3>1, <3>2 DEF WillShow
  <2>2. CASE i # 1
    <3>1. i - 1 \in 1..Len(t) /\ t[i - 1] = s[i]
      <4>1. i \in 2..Len(s)  BY <1>1, <2>2
      <4> QED  BY <1>1, <4>1
    <3>2. Carries(t[i - 1], u, d) /\ v = t[i - 1].devices[d]  BY <1>3, <3>1
    <3>3. \A j \in 1..Len(t) : Carries(t[j], u, d) => j <= i - 1
      <4> SUFFICES ASSUME NEW j \in 1..Len(t), Carries(t[j], u, d) PROVE j <= i - 1
        OBVIOUS
      <4>1. j + 1 \in 1..Len(s) /\ Carries(s[j + 1], u, d)  BY <1>1
      <4>2. j + 1 <= i  BY <1>3, <4>1
      <4> QED  BY <1>1, <4>2
    <3> HIDE DEF y
    <3> QED  BY <3>1, <3>2, <3>3 DEF WillShow
  <2> QED  BY <2>1, <2>2
<1> QED  BY <1>2, <1>3 DEF WillShow, t

(* What will be shown, as DeviceListConverges computes it.                 *)
LEMMA ShowsNext ==
  ASSUME TypeInv, NEW u \in PanUsers, NEW d \in Devices, NEW v,
         WillShow(pan_queue, device_list[u][d], u, d, v)
  PROVE  ShownNext(u, d) = v
<1>1. Carrying(u, d) = {i \in 1..Len(pan_queue) : Carries(pan_queue[i], u, d)}
  BY DEF Carrying, Carries
<1>2. CASE v = device_list[u][d] /\ \A j \in 1..Len(pan_queue) : ~Carries(pan_queue[j], u, d)
  <2>1. Carrying(u, d) = {}  BY <1>1, <1>2
  <2> QED  BY <1>2, <2>1 DEF ShownNext
<1>3. ASSUME NEW i \in 1..Len(pan_queue), Carries(pan_queue[i], u, d),
             v = pan_queue[i].devices[d],
             \A j \in 1..Len(pan_queue) : Carries(pan_queue[j], u, d) => j <= i
      PROVE  ShownNext(u, d) = v
  <2> DEFINE c == CHOOSE k \in Carrying(u, d) : \A j \in Carrying(u, d) : j <= k
  <2>1. i \in Carrying(u, d) /\ \A j \in Carrying(u, d) : j <= i  BY <1>1, <1>3
  <2>2. c \in Carrying(u, d) /\ \A j \in Carrying(u, d) : j <= c  BY <2>1
  <2>3. Carrying(u, d) \subseteq Int  BY <1>1
  <2>4. c <= i /\ i <= c /\ c \in Int /\ i \in Int  BY <2>1, <2>2, <2>3
  <2> HIDE DEF c
  <2>5. c = i  BY <2>4
  <2>6. ShownNext(u, d) = pan_queue[c].devices[d]  BY <2>1 DEF ShownNext, c
  <2> QED  BY <1>3, <2>5, <2>6
<1> QED  BY <1>2, <1>3 DEF WillShow

(* The UI thread shows what it was to show.                                *)
LEMMA UIConverges ==
  ASSUME TypeInv, ConvergesInv, ShowUpdate \/ EmitResponse
  PROVE  ConvergesInv'
<1> USE DEF TypeInv, TypeOK
<1> DEFINE m == Head(pan_queue)
<1>1. pan_queue # <<>> /\ pan_queue' = Tail(pan_queue) /\ m \in PanMessage
  BY TailAt DEF ShowUpdate, EmitResponse
<1>2. UNCHANGED <<trust, deleted, owed, unreported>>
  BY DEF ShowUpdate, EmitResponse, storeVars
<1>3. ASSUME NEW u \in PanUsers, NEW d \in Devices
      PROVE  device_list'[u][d] = IF Carries(m, u, d) THEN m.devices[d] ELSE device_list[u][d]
  <2>1. CASE EmitResponse
    <3>1. ~Carries(m, u, d) /\ device_list' = device_list
      BY <2>1 DEF EmitResponse, Carries
    <3> QED  BY <3>1
  <2>2. CASE ShowUpdate
    <3> DEFINE l == [e \in Devices |-> IF e \in DOMAIN m.devices THEN m.devices[e]
                                         ELSE device_list[m.user][e]]
    <3>1. m.type = "devices" /\ device_list' = [device_list EXCEPT ![m.user] = l]
      BY <2>2 DEF ShowUpdate
    <3>2. m.user \in PanUsers  BY <1>1, <3>1, MessageIs
    <3>3. l[d] = IF d \in DOMAIN m.devices THEN m.devices[d] ELSE device_list[m.user][d]
      OBVIOUS
    <3> HIDE DEF l, m
    <3> QED  BY <3>1, <3>2, <3>3 DEF Carries
  <2> QED  BY <2>1, <2>2
<1> HIDE DEF m
<1>4. ASSUME NEW u \in PanUsers, NEW d \in Devices
      PROVE  Converging(u, d)'
  <2>1. Converging(u, d)  BY DEF ConvergesInv
  <2>2. PICK v : /\ WillShow(pan_queue, device_list[u][d], u, d, v)
                 /\ d \notin (UNION owed[u]) \cup unreported[u] => v = View(u, d)
    BY <2>1 DEF Converging
  <2>3. WillShow(pan_queue', device_list'[u][d], u, d, v)
    BY <1>1, <1>3, <2>2, ShowsTail DEF m
  <2>4. View(u, d)' = View(u, d)  BY <1>2 DEF View
  <2> QED  BY <1>2, <2>2, <2>3, <2>4 DEF Converging
<1> QED  BY <1>4 DEF ConvergesInv

(* A step that says nothing of a device, and neither changes nor settles   *)
(* it, or leaves it unsettled.                                             *)
LEMMA Untouched ==
  ASSUME TypeInv, ConvergesInv, NEW u \in PanUsers, NEW d \in Devices,
         device_list' = device_list,
         \/ pan_queue' = pan_queue
         \/ \E e \in PanMessage : ~Carries(e, u, d) /\ pan_queue' = Append(pan_queue, e),
         d \notin (UNION owed'[u]) \cup unreported'[u] =>
           /\ d \notin (UNION owed[u]) \cup unreported[u]
           /\ View(u, d)' = View(u, d)
  PROVE  Converging(u, d)'
<1>1. Converging(u, d)  BY DEF ConvergesInv
<1>2. PICK v : /\ WillShow(pan_queue, device_list[u][d], u, d, v)
               /\ d \notin (UNION owed[u]) \cup unreported[u] => v = View(u, d)
  BY <1>1 DEF Converging
<1>3. WillShow(pan_queue', device_list[u][d], u, d, v)
  <2>1. pan_queue \in Seq(PanMessage)  BY DEF TypeInv, TypeOK
  <2>2. CASE pan_queue' = pan_queue  BY <1>2, <2>2
  <2>3. ASSUME NEW e \in PanMessage, ~Carries(e, u, d), pan_queue' = Append(pan_queue, e)
        PROVE  WillShow(pan_queue', device_list[u][d], u, d, v)
    <3>1. WillShow(Append(pan_queue, e), device_list[u][d], u, d, v)
      BY <1>2, <2>1, <2>3, ShowsAppend
    <3> QED  BY <2>3, <3>1
  <2> QED  BY <2>2, <2>3
<1> QED  BY <1>2, <1>3 DEF Converging

(* The router reports what a command changed before it answers.            *)
LEMMA RouterConverges ==
  ASSUME TypeInv, ConvergesInv, Router
  PROVE  ConvergesInv'
<1> USE DEF TypeInv, TypeOK, CurrentInv
<1> SUFFICES ASSUME NEW w \in PanUsers, NEW e \in Devices PROVE Converging(w, e)'
  BY DEF ConvergesInv
<1>1. device_list' = device_list
  BY DEF Router, RouteUnknownUser, RouteUnknownDevice, RouteDevice, RouteKeys, FinishKeys, uiVars
<1>2. CASE FinishKeys
  <2>1. PICK code \in Codes :
          pan_queue' = Append(pan_queue, Response(current.id, current.user, code))
    BY <1>2 DEF FinishKeys, Codes
  <2>2. current.id \in Ids /\ current.user \in Users  BY <1>2, CommandIs DEF FinishKeys
  <2>3. /\ Response(current.id, current.user, code) \in PanMessage
        /\ ~Carries(Response(current.id, current.user, code), w, e)
    BY <2>2, ResponseIs
  <2>4. UNCHANGED <<trust, deleted, owed, unreported>>  BY <1>2 DEF FinishKeys, storeVars
  <2>5. View(w, e)' = View(w, e)  BY <2>4 DEF View
  <2> QED  BY <1>1, <2>1, <2>3, <2>4, <2>5, Untouched
<1>3. CASE RouteKeys
  <2>1. UNCHANGED <<trust, deleted, owed, unreported, pan_queue>>
    BY <1>3 DEF RouteKeys, storeVars
  <2>2. View(w, e)' = View(w, e)  BY <2>1 DEF View
  <2> QED  BY <1>1, <2>1, <2>2, Untouched
<1>4. CASE NextCommand /\ ~RouteKeys
  <2> DEFINE m == Head(ui_queue)
  <2>1. m \in Command  BY <1>4, TailAt DEF NextCommand
  <2>2. m.id \in Ids /\ m.user \in Users /\ m.device \in Devices  BY <2>1, CommandIs
  <2> HIDE DEF m
  <2>3. CASE RouteUnknownUser \/ RouteUnknownDevice
    <3>1. PICK code \in Codes : pan_queue' = Append(pan_queue, Response(m.id, m.user, code))
      BY <2>3 DEF RouteUnknownUser, RouteUnknownDevice, m, Codes
    <3>2. /\ Response(m.id, m.user, code) \in PanMessage
          /\ ~Carries(Response(m.id, m.user, code), w, e)
      BY <2>2, ResponseIs
    <3>3. UNCHANGED <<trust, deleted, owed, unreported>>
      BY <2>3 DEF RouteUnknownUser, RouteUnknownDevice, storeVars
    <3>4. View(w, e)' = View(w, e)  BY <3>3 DEF View
    <3> QED  BY <1>1, <3>1, <3>2, <3>3, <3>4, Untouched
  <2>4. CASE RouteDevice
    <3>1. PICK u \in PanUsers, d \in Devices, new \in Shown : RoutedTo(u, d, new)
      BY <2>4, DeviceStep
    <3> DEFINE v == IF d \in deleted[u] THEN "absent" ELSE new
               up == OneUpdate(u, d, v)
               r == Response(m.id, u, "m.ok")
    <3>2. /\ up \in PanMessage /\ up.devices[d] = v
          /\ \A x, y : Carries(up, x, y) <=> x = u /\ y = d
      <4>1. v \in Shown  BY DEF Shown
      <4> HIDE DEF v
      <4> QED  BY <4>1, UpdateOfOne
    <3>3. r \in PanMessage /\ ~Carries(r, w, e)
      BY <2>2, PanUsersAssumption, ResponseIs DEF Codes
    <3>4. owed' = owed /\ deleted' = deleted  BY <2>4 DEF RouteDevice
    <3>5. trust' = [trust EXCEPT ![u][d] = new]  BY <3>1 DEF RoutedTo
    <3>6. w # u \/ e # d => View(w, e)' = View(w, e)  BY <3>4, <3>5 DEF View
    <3>7. View(u, d)' = v  BY <3>4, <3>5 DEF View
    <3>8. CASE /\ new = trust[u][d] /\ unreported' = unreported
               /\ pan_queue' = Append(pan_queue, r)
      <4>1. View(u, d) = v  BY <3>8 DEF View
      <4>2. View(w, e)' = View(w, e)  BY <3>6, <3>7, <4>1
      <4> HIDE DEF r
      <4> QED  BY <1>1, <3>3, <3>4, <3>8, <4>2, Untouched
    <3>9. CASE /\ unreported' = [unreported EXCEPT ![u] = @ \ {d}]
               /\ pan_queue' = Append(Append(pan_queue, up), r)
      <4> DEFINE q == Append(pan_queue, up)
      <4>1. q \in Seq(PanMessage)  BY <3>2, AppendAt
      <4>2. CASE w = u /\ e = d
        <5>1. WillShow(q, device_list[u][d], u, d, v)
          <6>1. Carries(up, u, d) /\ pan_queue \in Seq(PanMessage)  BY <3>2
          <6> HIDE DEF up, v
          <6>2. WillShow(q, device_list[u][d], u, d, up.devices[d])  BY <3>2, <6>1, ShowsLast
          <6> QED  BY <3>2, <6>2
        <5> HIDE DEF q, r
        <5>2. WillShow(Append(q, r), device_list[u][d], u, d, v)
          BY <3>3, <4>1, <4>2, <5>1, ShowsAppend
        <5>3. WillShow(pan_queue', device_list'[u][d], u, d, v)
          BY <1>1, <3>9, <5>2 DEF q
        <5> QED  BY <3>7, <4>2, <5>3 DEF Converging
      <4>3. CASE w # u \/ e # d
        <5>1. Converging(w, e)  BY DEF ConvergesInv
        <5>2. PICK x : /\ WillShow(pan_queue, device_list[w][e], w, e, x)
                       /\ e \notin (UNION owed[w]) \cup unreported[w] => x = View(w, e)
          BY <5>1 DEF Converging
        <5>3. ~Carries(up, w, e)  BY <3>2, <4>3
        <5> HIDE DEF up, r
        <5>4. WillShow(q, device_list[w][e], w, e, x)
          BY <3>2, <5>2, <5>3, ShowsAppend
        <5> HIDE DEF q
        <5>5. WillShow(Append(q, r), device_list[w][e], w, e, x)
          BY <3>3, <4>1, <5>4, ShowsAppend
        <5>6. WillShow(pan_queue', device_list'[w][e], w, e, x)
          BY <1>1, <3>9, <5>5 DEF q
        <5>7. e \in unreported[w] => e \in unreported'[w]  BY <3>9, <4>3
        <5> QED  BY <3>4, <3>6, <4>3, <5>2, <5>6, <5>7 DEF Converging
      <4> QED  BY <4>2, <4>3
    <3> QED  BY <3>1, <3>8, <3>9 DEF RoutedTo, OneUpdate, m
  <2>5. ~FinishKeys  BY <1>4 DEF NextCommand, FinishKeys
  <2> QED  BY <1>4, <2>3, <2>4, <2>5 DEF Router
<1> QED
  BY <1>2, <1>3, <1>4 DEF Router, RouteUnknownUser, RouteUnknownDevice, RouteDevice, RouteKeys

(* What changes without a command is owed an update, or was silent; an     *)
(* update carries the devices as they are when it is sent.                 *)
LEMMA StoreConverges ==
  ASSUME TypeInv, ConvergesInv, Store \/ Updates
  PROVE  ConvergesInv'
<1> USE DEF TypeInv, TypeOK
<1> SUFFICES ASSUME NEW w \in PanUsers, NEW e \in Devices PROVE Converging(w, e)'
  BY DEF ConvergesInv
<1>1. device_list' = device_list
  BY DEF Store, Updates, KeysQuery, IgnoreDevices, SendUpdate, uiVars
<1>2. ASSUME NEW u \in PanUsers, NEW d \in Devices, KeysQuery(u, d)
      PROVE  Converging(w, e)'
  <2>1. pan_queue' = pan_queue /\ unreported' = unreported  BY <1>2 DEF KeysQuery
  <2>2. owed' = [owed EXCEPT ![u] = @ \cup {{d}}]  BY <1>2 DEF KeysQuery
  <2>3. w # u \/ e # d => View(w, e)' = View(w, e)
    <3>1. CASE trust' = [trust EXCEPT ![u][d] = "unset"] /\ UNCHANGED deleted
      BY <3>1 DEF View
    <3>2. CASE deleted' = [deleted EXCEPT ![u] = @ \cup {d}] /\ UNCHANGED trust
      BY <3>2 DEF View
    <3> QED  BY <1>2, <3>1, <3>2 DEF KeysQuery
  <2>4. w = u /\ e = d => e \in UNION owed'[w]  BY <2>2
  <2>5. e \in UNION owed[w] => e \in UNION owed'[w]  BY <2>2
  <2> QED  BY <1>1, <2>1, <2>3, <2>4, <2>5, Untouched
<1>3. ASSUME NEW u \in PanUsers, NEW S \in SUBSET Devices, IgnoreDevices(u, S)
      PROVE  Converging(w, e)'
  <2>1. pan_queue' = pan_queue /\ deleted' = deleted  BY <1>3 DEF IgnoreDevices
  <2>2. w # u \/ e \notin S => View(w, e)' = View(w, e)
    <3> DEFINE t == [d \in Devices |-> IF d \in S THEN "ignored" ELSE trust[u][d]]
    <3>1. trust' = [trust EXCEPT ![u] = t]  BY <1>3 DEF IgnoreDevices
    <3>2. e \notin S => t[e] = trust[u][e]  OBVIOUS
    <3> HIDE DEF t
    <3> QED  BY <2>1, <3>1, <3>2 DEF View
  <2>3. CASE owed' = [owed EXCEPT ![u] = @ \cup {S}] /\ UNCHANGED unreported
    <3>1. w = u /\ e \in S => e \in UNION owed'[w]  BY <2>3
    <3>2. e \in UNION owed[w] => e \in UNION owed'[w]  BY <2>3
    <3> QED  BY <1>1, <2>1, <2>2, <2>3, <3>1, <3>2, Untouched
  <2>4. CASE unreported' = [unreported EXCEPT ![u] = @ \cup S] /\ UNCHANGED owed
    <3>1. w = u /\ e \in S => e \in unreported'[w]  BY <2>4
    <3>2. e \in unreported[w] => e \in unreported'[w]  BY <2>4
    <3> QED  BY <1>1, <2>1, <2>2, <2>4, <3>1, <3>2, Untouched
  <2> QED  BY <1>3, <2>3, <2>4 DEF IgnoreDevices
<1>4. ASSUME NEW u \in PanUsers, NEW S \in owed[u], SendUpdate(u, S)
      PROVE  Converging(w, e)'
  <2> DEFINE f == [d \in S |-> View(u, d)]
             m == Update(u, f)
  <2>1. S \in SUBSET Devices  OBVIOUS
  <2>2. f \in [S -> Shown]  BY <2>1 DEF View, Shown
  <2>3. e \in S => f[e] = View(u, e)  OBVIOUS
  <2>4. /\ pan_queue' = Append(pan_queue, m)
        /\ owed' = [owed EXCEPT ![u] = @ \ {S}]
        /\ unreported' = [unreported EXCEPT ![u] = @ \ S]
        /\ UNCHANGED <<trust, deleted>>
    BY <1>4 DEF SendUpdate
  <2>5. View(w, e)' = View(w, e)  BY <2>4 DEF View
  <2> HIDE DEF f
  <2>6. /\ m \in PanMessage /\ m.devices = f
        /\ \A x, y : Carries(m, x, y) <=> x = u /\ y \in S
    BY <2>1, <2>2, UpdateIs
  <2> HIDE DEF m
  <2>7. CASE w = u /\ e \in S
    <3>1. WillShow(Append(pan_queue, m), device_list[w][e], w, e, m.devices[e])
      BY <2>6, <2>7, ShowsLast
    <3>2. m.devices[e] = View(w, e)  BY <2>3, <2>6, <2>7
    <3> QED  BY <1>1, <2>4, <2>5, <3>1, <3>2 DEF Converging
  <2>8. CASE w # u \/ e \notin S
    <3>1. ~Carries(m, w, e)  BY <2>6, <2>8
    <3>2. e \in unreported[w] => e \in unreported'[w]  BY <2>4, <2>8
    <3>3. e \in UNION owed[w] => e \in UNION owed'[w]  BY <2>4, <2>8
    <3> QED  BY <1>1, <2>4, <2>5, <2>6, <3>1, <3>2, <3>3, Untouched
  <2> QED  BY <2>7, <2>8
<1> QED  BY <1>2, <1>3, <1>4 DEF Store, Updates

(* Unless an update is owed or the device was ignored silently, the last   *)
(* message under way to the UI thread says of a device what the store      *)
(* says, and the list itself does when no message is under way.            *)
THEOREM Converges == Spec => []DeviceListConverges
<1>1. Init => ConvergesInv
  <2> SUFFICES ASSUME Init, NEW u \in PanUsers, NEW d \in Devices PROVE Converging(u, d)
    BY DEF ConvergesInv
  <2>1. WillShow(pan_queue, device_list[u][d], u, d, "absent")  BY DEF Init, WillShow
  <2>2. View(u, d) = "absent"  BY DEF Init, View
  <2> QED  BY <2>1, <2>2 DEF Converging
<1>2. TypeInv /\ ConvergesInv /\ [Next]_vars => ConvergesInv'
  <2> SUFFICES ASSUME TypeInv, ConvergesInv, [Next]_vars PROVE ConvergesInv'
    OBVIOUS
  <2>1. CASE UNCHANGED vars \/ User
    <3>1. UNCHANGED <<pan_queue, device_list, trust, deleted, owed, unreported>>
      BY <2>1 DEF vars, User, Issue, storeVars, uiVars
    <3> SUFFICES ASSUME NEW u \in PanUsers, NEW d \in Devices PROVE Converging(u, d)'
      BY DEF ConvergesInv
    <3>2. View(u, d)' = View(u, d)  BY <3>1 DEF View
    <3> QED  BY <3>1, <3>2, Untouched
  <2> QED  BY <2>1, UIConverges, RouterConverges, StoreConverges DEF Next
<1>3. TypeInv /\ ConvergesInv => DeviceListConverges
  <2> SUFFICES ASSUME TypeInv, ConvergesInv, NEW u \in PanUsers, NEW d \in Devices,
                      d \notin (UNION owed[u]) \cup unreported[u]
               PROVE  ShownNext(u, d) = View(u, d)
    BY DEF DeviceListConverges
  <2>1. Converging(u, d)  BY DEF ConvergesInv
  <2>2. PICK v : WillShow(pan_queue, device_list[u][d], u, d, v) /\ v = View(u, d)
    BY <2>1 DEF Converging
  <2> QED  BY <2>2, ShowsNext
<1> QED  BY <1>1, <1>2, <1>3, TypeInvariance, PTL DEF Spec
=============================================================================
