-------------------------- MODULE VerificationProofs --------------------------
(***************************************************************************)
(* What Verification guarantees for any number of transactions and of      *)
(* commands: types, at most one answer per command, and a UI thread that   *)
(* hears of every verification that was not lost in a way that is named.   *)
(***************************************************************************)
EXTENDS Verification, FiniteSetTheorems, FunctionTheorems, WellFoundedInduction, TLAPS

-----------------------------------------------------------------------------
(* Numbers, sequences, and the elements of a sequence that are in a set.   *)

(* A set of numbers has a least one, since < is well founded on them.     *)
LEMMA LeastOf ==
  ASSUME NEW T, T \subseteq Nat, T # {}
  PROVE  \E x \in T : \A y \in T : x <= y
<1> DEFINE R == OpToRel(<, Nat)
<1>1. IsWellFoundedOn(R, Nat)  BY NatLessThanWellFounded
<1>2. \A x, y \in Nat : <<y, x>> \in R <=> y < x  BY DEF OpToRel
<1> HIDE DEF R
<1>3. PICK x \in T : \A y \in T : ~ (<<y, x>> \in R)  BY <1>1, WFMin
<1>4. ASSUME NEW y \in T PROVE x <= y
  <2>1. ~ (y < x) /\ x \in Nat /\ y \in Nat  BY <1>2, <1>3
  <2> QED  BY <2>1
<1> QED  BY <1>4

(* ... and one of numbers up to n has a greatest one.                      *)
LEMMA GreatestOf ==
  ASSUME NEW n \in Nat, NEW T, T \subseteq 1..n, T # {}
  PROVE  \E x \in T : \A y \in T : y <= x
<1> DEFINE U == {n - x : x \in T}
<1>1. U \subseteq Nat /\ U # {}
  <2>1. \A x \in T : n - x \in Nat  OBVIOUS
  <2> QED  BY <2>1
<1>2. PICK u \in U : \A y \in U : u <= y  BY <1>1, LeastOf
<1>3. PICK x \in T : u = n - x  BY <1>2
<1>4. \A y \in T : n - x <= n - y  BY <1>2, <1>3
<1>5. \A y \in T : y <= x  BY <1>4
<1> QED  BY <1>5

(* What the head and the tail of a sequence are, place by place.           *)
LEMMA TailAt ==
  ASSUME NEW S, NEW s \in Seq(S), s # <<>>
  PROVE  /\ Head(s) \in S /\ Head(s) = s[1] /\ 1 \in 1..Len(s) /\ Tail(s) \in Seq(S)
         /\ Len(s) \in Nat /\ Len(Tail(s)) = Len(s) - 1
         /\ \A i \in 1..Len(Tail(s)) : i + 1 \in 2..Len(s) /\ Tail(s)[i] = s[i + 1]
         /\ \A j \in 2..Len(s) : j - 1 \in 1..Len(Tail(s)) /\ Tail(s)[j - 1] = s[j]
OBVIOUS

(* What a sequence is after an append, place by place.                     *)
LEMMA AppendAt ==
  ASSUME NEW S, NEW s \in Seq(S), NEW e \in S
  PROVE  /\ Append(s, e) \in Seq(S) /\ Len(s) \in Nat /\ Len(Append(s, e)) = Len(s) + 1
         /\ \A i \in 1..Len(s) : Append(s, e)[i] = s[i]
         /\ Append(s, e)[Len(s) + 1] = e
OBVIOUS

(* Two messages at once are one after the other.                           *)
LEMMA ConcatIsAppend ==
  ASSUME NEW S, NEW s \in Seq(S), NEW d \in S, NEW e \in S
  PROVE  /\ s \o <<d, e>> = Append(Append(s, d), e)
         /\ s \o <<e>> = Append(s, e)
OBVIOUS

(* The places of a sequence that hold a member of G.                       *)
Places(s, G) == {i \in 1..Len(s) : s[i] \in G}

(* ... are finitely many.                                                  *)
LEMMA PlacesFinite ==
  ASSUME NEW S, NEW s \in Seq(S), NEW G
  PROVE  IsFiniteSet(Places(s, G)) /\ Cardinality(Places(s, G)) \in Nat
<1>1. IsFiniteSet(1..Len(s))
  <2>1. Len(s) \in Int  OBVIOUS
  <2> QED  BY <2>1, FS_Interval
<1>2. Places(s, G) \in SUBSET (1..Len(s))  BY DEF Places
<1> QED  BY <1>1, <1>2, FS_Subset, FS_CardinalityType

(* An append adds at most one,                                             *)
LEMMA CountAppend ==
  ASSUME NEW S, NEW s \in Seq(S), NEW e \in S, NEW G
  PROVE  Cardinality(Places(Append(s, e), G)) =
           Cardinality(Places(s, G)) + (IF e \in G THEN 1 ELSE 0)
<1>1. CASE e \in G
  <2>1. Places(Append(s, e), G) = Places(s, G) \cup {Len(s) + 1}
    BY <1>1, AppendAt DEF Places
  <2>2. Len(s) + 1 \notin Places(s, G)  BY AppendAt DEF Places
  <2> QED  BY <1>1, <2>1, <2>2, PlacesFinite, FS_AddElement
<1>2. CASE e \notin G
  <2>1. Places(Append(s, e), G) = Places(s, G)  BY <1>2, AppendAt DEF Places
  <2> QED  BY <1>2, <2>1, PlacesFinite
<1> QED  BY <1>1, <1>2

(* and a tail loses at most one.                                           *)
LEMMA CountTail ==
  ASSUME NEW S, NEW s \in Seq(S), s # <<>>, NEW G
  PROVE  Cardinality(Places(s, G)) =
           Cardinality(Places(Tail(s), G)) + (IF Head(s) \in G THEN 1 ELSE 0)
<1> DEFINE P == Places(s, G) \ {1}
           Q == Places(Tail(s), G)
           f == [i \in Q |-> i + 1]
<1>1. /\ \A i \in Q : i + 1 \in P /\ i \in Nat
      /\ \A j \in P : j - 1 \in Q /\ j \in Nat
  BY TailAt DEF Places
<1>2. f \in Bijection(Q, P)
  <2>1. f \in [Q -> P]  BY <1>1
  <2>2. \A i, j \in Q : f[i] = f[j] => i = j  BY <1>1
  <2>3. \A j \in P : \E i \in Q : f[i] = j  BY <1>1
  <2> QED  BY <2>1, <2>2, <2>3, Fun_IsInj, Fun_IsSurj DEF Bijection, Injection, Surjection
<1>3. IsFiniteSet(Q) /\ Cardinality(Q) \in Nat  BY TailAt, PlacesFinite
<1>4. Cardinality(P) = Cardinality(Q)
  BY <1>2, <1>3, FS_Bijection DEF ExistsBijection
<1>5. IsFiniteSet(Places(s, G)) /\ Cardinality(Places(s, G)) \in Nat  BY PlacesFinite
<1>6. 1 \in Places(s, G) <=> Head(s) \in G  BY TailAt DEF Places
<1> HIDE DEF P, Q
<1>7. Cardinality(P) = IF 1 \in Places(s, G) THEN Cardinality(Places(s, G)) - 1
                       ELSE Cardinality(Places(s, G))
  BY <1>5, FS_RemoveElement DEF P
<1> QED  BY <1>3, <1>4, <1>5, <1>6, <1>7 DEF Q

-----------------------------------------------------------------------------
(* Type correctness.                                                       *)

Command == [id : Ids, kind : Kinds]

(* The messages to the UI thread: an update never says "not verified", a   *)
(* response always answers a command, a SasDone signal only sometimes.     *)
Message ==
  [type : {"devices"}, verified : {TRUE}]
    \cup [type : {"response"}, id : Ids, code : {"m.ok", "m.error", "m.connection_error"}]
    \cup [type : {"sas_done"}, sas : Transactions, id : Ids \cup {NoId}]

(* The router has a command and a transaction in hand exactly while its    *)
(* handler awaits the homeserver.                                          *)
CurrentInv ==
  /\ router \in Awaits => current \in Ids /\ sas \in Transactions
  /\ router \notin Awaits => current = NoId /\ sas = None

TypeInv ==
  /\ TypeOK
  /\ pan_queue \in Seq(Message) /\ ui_queue \in Seq(Command)
  /\ CurrentInv

(* No command has the id of no command.                                    *)
LEMMA NoIdIs == NoId \notin Ids /\ Ids \subseteq Nat
BY MaxCommandsAssumption DEF NoId, Ids

(* get_active_sas returns a transaction or nothing.                        *)
LEMMA ActiveType ==
  ASSUME TypeInv
  PROVE  ActiveSas \in Transactions \cup {None}
<1>1. CASE Active = {}  BY <1>1 DEF ActiveSas
<1>2. CASE Active # {}
  <2> DEFINE c == CHOOSE i \in Active : \A j \in Active : j <= i
  <2>1. Len(created) \in Nat /\ created \in Seq(Transactions)  BY DEF TypeInv, TypeOK
  <2>2. Active \subseteq 1..Len(created)  BY DEF Active
  <2>3. \E i \in Active : \A j \in Active : j <= i  BY <1>2, <2>1, <2>2, GreatestOf
  <2>4. c \in Active  BY <2>3
  <2> HIDE DEF c
  <2>5. created[c] \in Transactions  BY <2>1, <2>2, <2>4
  <2> QED  BY <1>2, <2>5 DEF ActiveSas, c
<1> QED  BY <1>1, <1>2

(* The messages that are sent.                                             *)
LEMMA MessagesAre ==
  /\ Update \in Message /\ Update.type = "devices"
  /\ \A code \in {"m.ok", "m.error", "m.connection_error"}, i \in Ids :
       LET m == [type |-> "response", id |-> i, code |-> code] IN
         m \in Message /\ m.type = "response" /\ m.id = i
  /\ \A t \in Transactions, i \in Ids \cup {NoId} :
       /\ SasDone(t, i) \in Message /\ SasDone(t, i).type = "sas_done"
       /\ SasDone(t, i).id = i /\ SasDone(t, i).sas = t
BY DEF Update, SasDone, Message

(* What a message of the queue is.                                         *)
LEMMA MessageIs ==
  ASSUME NEW m \in Message
  PROVE  /\ m.type \in {"devices", "response", "sas_done"}
         /\ m.type = "devices" => m.verified = TRUE
         /\ m.type # "devices" => m.id \in Ids \cup {NoId}
         /\ m.type = "sas_done" => m.sas \in Transactions
BY DEF Message

(* The queue to the UI thread after a step: one message or two are added.  *)
Adds1(m) == m \in Message /\ pan_queue' = Append(pan_queue, m)
Adds2(m, n) == m \in Message /\ n \in Message
                 /\ pan_queue' = Append(Append(pan_queue, m), n)

(* ... and keeps its type.                                                 *)
LEMMA AddsType ==
  ASSUME TypeInv
  PROVE  /\ \A m : Adds1(m) => pan_queue' \in Seq(Message)
         /\ \A m, n : Adds2(m, n) => pan_queue' \in Seq(Message)
<1>1. ASSUME NEW m, Adds1(m) PROVE pan_queue' \in Seq(Message)
  BY <1>1, AppendAt DEF TypeInv, Adds1
<1>2. ASSUME NEW m, NEW n, Adds2(m, n) PROVE pan_queue' \in Seq(Message)
  <2>1. m \in Message /\ n \in Message /\ pan_queue' = Append(Append(pan_queue, m), n)
    BY <1>2 DEF Adds2
  <2>2. Append(pan_queue, m) \in Seq(Message)  BY <2>1, AppendAt DEF TypeInv
  <2> QED  BY <2>1, <2>2, AppendAt
<1> QED  BY <1>1, <1>2

(* The messages of a queue of messages have a tag.                         *)
LEMMA TagsAre ==
  ASSUME NEW q \in Seq(Message)
  PROVE  \A i \in 1..Len(q) : q[i].type \in {"devices", "response", "sas_done"}
<1> SUFFICES ASSUME NEW i \in 1..Len(q) PROVE q[i].type \in {"devices", "response", "sas_done"}
  OBVIOUS
<1>1. q[i] \in Message  OBVIOUS
<1> QED  BY <1>1, MessageIs

(* What the router adds, step by step.                                     *)
LEMMA RouterAdds ==
  ASSUME TypeInv
  PROVE  /\ RejectSas => /\ Head(ui_queue).id \in Ids
                         /\ Adds1([type |-> "response", id |-> Head(ui_queue).id,
                                   code |-> "m.error"])
         /\ SendFails => current \in Ids /\ Adds1(Response("m.connection_error"))
         /\ SendReturns => current \in Ids /\ Adds1(Response("m.ok"))
         /\ ConfirmReturns => /\ current \in Ids /\ sas \in Transactions
                              /\ ~Verified(sas) => Adds1(Response("m.ok"))
                              /\ Verified(sas) => Adds2(Update, SasDone(sas, current))
<1> USE DEF TypeInv, TypeOK, CurrentInv
<1>1. ASSUME RejectSas
      PROVE  /\ Head(ui_queue).id \in Ids
             /\ Adds1([type |-> "response", id |-> Head(ui_queue).id, code |-> "m.error"])
  <2>1. Head(ui_queue) \in Command  BY <1>1, TailAt DEF RejectSas, Receive
  <2>2. Head(ui_queue).id \in Ids  BY <2>1 DEF Command
  <2> QED  BY <1>1, <2>2, MessagesAre DEF RejectSas, Adds1
<1>2. ASSUME SendFails
      PROVE  current \in Ids /\ Adds1(Response("m.connection_error"))
  BY <1>2, MessagesAre DEF SendFails, Adds1, Response
<1>3. ASSUME SendReturns
      PROVE  current \in Ids /\ Adds1(Response("m.ok"))
  BY <1>3, MessagesAre DEF SendReturns, Adds1, Response, Awaits
<1>4. ASSUME ConfirmReturns
      PROVE  /\ current \in Ids /\ sas \in Transactions
             /\ ~Verified(sas) => Adds1(Response("m.ok"))
             /\ Verified(sas) => Adds2(Update, SasDone(sas, current))
  <2>1. current \in Ids /\ sas \in Transactions  BY <1>4 DEF ConfirmReturns, Awaits
  <2>2. Response("m.ok") \in Message /\ Update \in Message /\ SasDone(sas, current) \in Message
    BY <2>1, MessagesAre DEF Response
  <2>3. pan_queue' = IF Verified(sas) THEN pan_queue \o <<Update, SasDone(sas, current)>>
                       ELSE pan_queue \o <<Response("m.ok")>>
    BY <1>4 DEF ConfirmReturns
  <2>4. pan_queue \o <<Update, SasDone(sas, current)>>
          = Append(Append(pan_queue, Update), SasDone(sas, current))
    BY <2>2, ConcatIsAppend
  <2>5. pan_queue \o <<Response("m.ok")>> = Append(pan_queue, Response("m.ok"))
    BY <2>2, ConcatIsAppend
  <2> QED  BY <2>1, <2>2, <2>3, <2>4, <2>5 DEF Adds1, Adds2
<1> QED  BY <1>1, <1>2, <1>3, <1>4

(* What key_verification_cb adds when it sees both confirmations.          *)
LEMMA MacAdds ==
  ASSUME TypeInv, NEW t \in Transactions, ReceiveMac(t), t \in sas_accepted
  PROVE  Adds2(SasDone(t, NoId), Update)
<1>1. SasDone(t, NoId) \in Message /\ Update \in Message  BY MessagesAre
<1>2. pan_queue \o <<SasDone(t, NoId), Update>> = Append(Append(pan_queue, SasDone(t, NoId)), Update)
  BY <1>1, ConcatIsAppend DEF TypeInv
<1> QED  BY <1>1, <1>2 DEF Adds2, ReceiveMac

(* The steps of the UI thread.                                             *)
LEMMA UIType ==
  ASSUME TypeInv, ShowMessage \/ \E k \in Kinds : Issue(k)
  PROVE  TypeInv'
<1> USE DEF TypeInv, TypeOK, CurrentInv, sasVars, routerVars, uiVars
<1>1. ASSUME NEW k \in Kinds, Issue(k) PROVE TypeInv'
  <2> DEFINE c == [id |-> message_id, kind |-> k]
  <2>1. c \in Command /\ message_id + 1 \in 0..MaxCommands
    BY <1>1, MaxCommandsAssumption DEF Issue, Command, Ids
  <2>2. ui_queue' = Append(ui_queue, c)  BY <1>1 DEF Issue
  <2>3. ui_queue' \in Seq(Command)  BY <2>1, <2>2, AppendAt
  <2> QED  BY <1>1, <2>1, <2>3 DEF Issue
<1>2. CASE ShowMessage
  <2> DEFINE m == Head(pan_queue)
  <2>1. pan_queue' \in Seq(Message) /\ m \in Message  BY <1>2, TailAt DEF ShowMessage
  <2>2. /\ m.type \in {"devices", "response", "sas_done"}
        /\ m.type = "devices" => m.verified = TRUE
        /\ m.type # "devices" => m.id \in Ids \cup {NoId}
        /\ m.type = "sas_done" => m.sas \in Transactions
    BY <2>1, MessageIs
  <2>3. /\ device_list' = IF m.type = "devices" THEN m.verified ELSE device_list
        /\ answers' = IF m.type # "devices" /\ m.id # NoId
                         THEN [answers EXCEPT ![m.id] = @ + 1] ELSE answers
        /\ sas_done' = IF m.type = "sas_done" THEN [sas_done EXCEPT ![m.sas] = @ + 1]
                         ELSE sas_done
    BY <1>2 DEF ShowMessage
  <2> HIDE DEF m
  <2>4. device_list' \in BOOLEAN  BY <2>2, <2>3
  <2>5. answers' \in [Ids -> Nat]  BY <2>2, <2>3
  <2>6. sas_done' \in [Transactions -> Nat]  BY <2>2, <2>3
  <2>7. \A i \in 1..Len(pan_queue') : pan_queue'[i].type \in {"devices", "response", "sas_done"}
    BY <2>1, TagsAre
  <2> QED  BY <1>2, <2>1, <2>4, <2>5, <2>6, <2>7 DEF ShowMessage
<1> QED  BY <1>1, <1>2

(* The steps of the router up to an await, and those that end it.          *)
LEMMA RouterType ==
  ASSUME TypeInv, Router
  PROVE  TypeInv'
<1> USE DEF TypeInv, TypeOK, CurrentInv, sasVars, routerVars, uiVars
<1> DEFINE h == Head(ui_queue)
<1>1. ui_queue # <<>> => h \in Command /\ h.id \in Ids /\ Tail(ui_queue) \in Seq(Command)
  <2> SUFFICES ASSUME ui_queue # <<>>
               PROVE  h \in Command /\ h.id \in Ids /\ Tail(ui_queue) \in Seq(Command)
    OBVIOUS
  <2>1. h \in Command /\ Tail(ui_queue) \in Seq(Command)  BY TailAt
  <2> QED  BY <2>1 DEF Command
<1>2. ActiveSas \in Transactions \cup {None}  BY ActiveType
<1> HIDE DEF h
<1>3. ASSUME NEW t \in Transactions, StartSas(t) PROVE TypeInv'
  <2>1. created' \in Seq(Transactions)  BY <1>3, AppendAt DEF StartSas
  <2>2. state' \in [Transactions -> States]  BY <1>3 DEF StartSas, States
  <2>3. ui_queue' \in Seq(Command) /\ current' \in Ids /\ sas' = t /\ router' = "starting"
    BY <1>1, <1>3 DEF StartSas, Receive, Await, h
  <2> QED  BY <1>3, <2>1, <2>2, <2>3 DEF StartSas, Awaits
<1>4. CASE RejectSas
  <2>1. pan_queue' \in Seq(Message)  BY <1>4, RouterAdds, AddsType
  <2>2. ui_queue' \in Seq(Command)  BY <1>1, <1>4 DEF RejectSas, Receive
  <2>3. \A i \in 1..Len(pan_queue') : pan_queue'[i].type \in {"devices", "response", "sas_done"}
    BY <2>1, TagsAre
  <2> QED  BY <1>4, <2>1, <2>2, <2>3 DEF RejectSas
<1>5. CASE AcceptSas
  <2>1. ActiveSas \in Transactions  BY <1>2, <1>5 DEF AcceptSas
  <2>2. state' \in [Transactions -> States]  BY <1>5, <2>1 DEF AcceptSas, States
  <2>3. ui_queue' \in Seq(Command) /\ current' \in Ids /\ sas' = ActiveSas /\ router' = "accepting"
    BY <1>1, <1>5 DEF AcceptSas, Receive, Await, h
  <2> QED  BY <1>5, <2>1, <2>2, <2>3 DEF AcceptSas, Awaits
<1>6. CASE ConfirmSas
  <2>1. ActiveSas \in Transactions  BY <1>2, <1>6 DEF ConfirmSas
  <2>2. sas_accepted' \subseteq Transactions /\ verified' \in BOOLEAN
    BY <1>6, <2>1 DEF ConfirmSas
  <2>3. ui_queue' \in Seq(Command) /\ current' \in Ids /\ sas' = ActiveSas /\ router' = "confirming"
    BY <1>1, <1>6 DEF ConfirmSas, Receive, Await, h
  <2> QED  BY <1>6, <2>1, <2>2, <2>3 DEF ConfirmSas, Awaits
<1>7. CASE ConfirmTooEarly
  <2>1. ui_queue' \in Seq(Command)  BY <1>1, <1>7 DEF ConfirmTooEarly, Receive
  <2>2. router = "waiting" /\ router' = "dead"  BY <1>7 DEF ConfirmTooEarly, Receive
  <2> QED  BY <1>7, <2>1, <2>2 DEF ConfirmTooEarly, Awaits
<1>8. CASE CancelSas
  <2>1. ActiveSas \in Transactions  BY <1>2, <1>8 DEF CancelSas
  <2>2. state' \in [Transactions -> States]  BY <1>8, <2>1 DEF CancelSas, States
  <2>3. ui_queue' \in Seq(Command) /\ current' \in Ids /\ sas' = ActiveSas /\ router' = "cancelling"
    BY <1>1, <1>8 DEF CancelSas, Receive, Await, h
  <2> QED  BY <1>8, <2>1, <2>2, <2>3 DEF CancelSas, Awaits
<1>9. CASE SendFails \/ SendReturns \/ ConfirmReturns
  <2>1. pan_queue' \in Seq(Message)  BY <1>9, RouterAdds, AddsType
  <2>2. \A i \in 1..Len(pan_queue') : pan_queue'[i].type \in {"devices", "response", "sas_done"}
    BY <2>1, TagsAre
  <2>3. router' = "waiting" /\ current' = NoId /\ sas' = None
    BY <1>9 DEF SendFails, SendReturns, ConfirmReturns, Answered
  <2>4. unreported' \in BOOLEAN  BY <1>9 DEF SendFails, SendReturns, ConfirmReturns
  <2>5. lost' \subseteq Transactions
    BY <1>9 DEF SendFails, SendReturns, ConfirmReturns
  <2>6. UNCHANGED <<state, sas_accepted, created, verified, message_id, ui_queue, uiVars>>
    BY <1>9 DEF SendFails, SendReturns, ConfirmReturns
  <2> QED  BY <2>1, <2>2, <2>3, <2>4, <2>5, <2>6 DEF Awaits
<1> QED  BY <1>3, <1>4, <1>5, <1>6, <1>7, <1>8, <1>9 DEF Router

(* The steps of the background sync.                                       *)
LEMMA SyncType ==
  ASSUME TypeInv, Sync
  PROVE  TypeInv'
<1> USE DEF TypeInv, TypeOK, CurrentInv, sasVars, routerVars, uiVars
<1>1. ASSUME NEW t \in Transactions, ReceiveStart(t) PROVE TypeInv'
  <2>1. state' \in [Transactions -> States]  BY <1>1 DEF ReceiveStart, States
  <2>2. created' \in Seq(Transactions)  BY <1>1, AppendAt DEF ReceiveStart
  <2>3. unreported' \in BOOLEAN  BY <1>1 DEF ReceiveStart
  <2> QED  BY <1>1, <2>1, <2>2, <2>3 DEF ReceiveStart
<1>2. ASSUME NEW t \in Transactions, ReceiveAccept(t) \/ ReceiveKey(t) \/ ReceiveCancel(t)
      PROVE  TypeInv'
  <2>1. state' \in [Transactions -> States]
    BY <1>2 DEF ReceiveAccept, ReceiveKey, ReceiveCancel, States
  <2>2. /\ UNCHANGED <<sas_accepted, created, lost, verified, routerVars, message_id, ui_queue,
                       pan_queue, uiVars>>
        /\ unreported' \in BOOLEAN
    BY <1>2 DEF ReceiveAccept, ReceiveKey, ReceiveCancel
  <2> QED  BY <2>1, <2>2
<1>3. ASSUME NEW t \in Transactions, ReceiveMac(t) PROVE TypeInv'
  <2>1. state' \in [Transactions -> States]  BY <1>3 DEF ReceiveMac, States
  <2>2. CASE t \in sas_accepted
    <3>1. pan_queue' \in Seq(Message)  BY <1>3, <2>2, MacAdds, AddsType
    <3>2. \A i \in 1..Len(pan_queue') : pan_queue'[i].type \in {"devices", "response", "sas_done"}
      BY <3>1, TagsAre
    <3> QED  BY <1>3, <2>1, <2>2, <3>1, <3>2 DEF ReceiveMac
  <2>3. CASE t \notin sas_accepted  BY <1>3, <2>1, <2>3 DEF ReceiveMac
  <2> QED  BY <2>2, <2>3
<1> QED  BY <1>1, <1>2, <1>3 DEF Sync

(* The types are invariant.                                                *)
LEMMA TypeInvariance == Spec => []TypeInv
<1>1. Init => TypeInv
  <2> SUFFICES ASSUME Init PROVE TypeInv
    OBVIOUS
  <2>1. TypeOK
    <3>1. Len(<<>>) = 0  OBVIOUS
    <3>2. message_id \in 0..MaxCommands  BY MaxCommandsAssumption DEF Init
    <3>3. answers \in [Ids -> Nat] /\ sas_done \in [Transactions -> Nat]  BY DEF Init
    <3>4. \A i \in 1..Len(pan_queue) :
            pan_queue[i].type \in {"devices", "response", "sas_done"}
      BY <3>1 DEF Init
    <3>5. state \in [Transactions -> States] /\ created \in Seq(Transactions)  BY DEF Init, States
    <3> QED  BY <3>2, <3>3, <3>4, <3>5 DEF Init, TypeOK
  <2>2. pan_queue \in Seq(Message) /\ ui_queue \in Seq(Command)  BY DEF Init
  <2>3. CurrentInv  BY DEF Init, CurrentInv, Awaits
  <2> QED  BY <2>1, <2>2, <2>3 DEF TypeInv
<1>2. TypeInv /\ [Next]_vars => TypeInv'
  <2> SUFFICES ASSUME TypeInv, [Next]_vars PROVE TypeInv'
    OBVIOUS
  <2>1. CASE UNCHANGED vars
    BY <2>1 DEF vars, TypeInv, TypeOK, CurrentInv, sasVars, routerVars, uiVars
  <2> QED  BY <2>1, UIType, RouterType, SyncType DEF Next
<1> QED  BY <1>1, <1>2, PTL DEF Spec

(* Every variable keeps its type.                                          *)
THEOREM TypeCorrect == Spec => []TypeOK
<1>1. TypeInv => TypeOK  BY DEF TypeInv
<1> QED  BY <1>1, TypeInvariance, PTL

-----------------------------------------------------------------------------
(* What the user is told and what the device store says.                   *)

(* The same without operators as parameters.                               *)
UpdateQueued == \E i \in 1..Len(pan_queue) : pan_queue[i].type = "devices"
DoneQueued(t) == \E i \in 1..Len(pan_queue) : pan_queue[i].type = "sas_done" /\ pan_queue[i].sas = t
Confirmed(t) == verified /\ t \in sas_accepted /\ state[t] \in {"mac_received", "canceled"}

Reported == verified /\ ~unreported =>
              device_list \/ UpdateQueued \/ (router = "confirming" /\ Verified(sas))

(* A transaction both sides confirmed made the device verified, and no     *)
(* other is reported as done.                                              *)
ReportedInv ==
  /\ Reported
  /\ \A t \in Transactions : Verified(t) => verified
  /\ \A t \in Transactions : sas_done[t] > 0 \/ DoneQueued(t) => Confirmed(t)

(* What an append to the queue does to the two questions.                  *)
LEMMA AddsAre ==
  ASSUME TypeInv
  PROVE  /\ \A m : Adds1(m) /\ m.type = "response" =>
              /\ UpdateQueued' <=> UpdateQueued
              /\ \A t : DoneQueued(t)' <=> DoneQueued(t)
         /\ \A m, n : Adds2(m, n) /\ "devices" \in {m.type, n.type} => UpdateQueued'
         /\ \A m, n, t : Adds2(m, n) /\ DoneQueued(t)' =>
              \/ DoneQueued(t)
              \/ m.type = "sas_done" /\ m.sas = t
              \/ n.type = "sas_done" /\ n.sas = t
<1> USE DEF TypeInv
<1>1. ASSUME NEW m, Adds1(m), m.type = "response"
      PROVE  /\ UpdateQueued' <=> UpdateQueued
             /\ \A t : DoneQueued(t)' <=> DoneQueued(t)
  <2>1. /\ Len(pan_queue) \in Nat /\ Len(pan_queue') = Len(pan_queue) + 1
        /\ \A i \in 1..Len(pan_queue) : pan_queue'[i] = pan_queue[i]
        /\ pan_queue'[Len(pan_queue) + 1] = m
    BY <1>1, AppendAt DEF Adds1
  <2>2. \A i \in 1..Len(pan_queue') : i \in 1..Len(pan_queue) \/ pan_queue'[i].type = "response"
    BY <1>1, <2>1
  <2>3. \A i \in 1..Len(pan_queue) : i \in 1..Len(pan_queue')  BY <2>1
  <2> QED  BY <2>1, <2>2, <2>3 DEF UpdateQueued, DoneQueued
<1>2. ASSUME NEW m, NEW n, Adds2(m, n)
      PROVE  /\ "devices" \in {m.type, n.type} => UpdateQueued'
             /\ \A t : DoneQueued(t)' => \/ DoneQueued(t)
                                         \/ m.type = "sas_done" /\ m.sas = t
                                         \/ n.type = "sas_done" /\ n.sas = t
  <2> DEFINE q == Append(pan_queue, m)
  <2>1. m \in Message /\ n \in Message /\ pan_queue' = Append(q, n)  BY <1>2 DEF Adds2
  <2>2. /\ q \in Seq(Message) /\ Len(pan_queue) \in Nat /\ Len(q) = Len(pan_queue) + 1
        /\ \A i \in 1..Len(pan_queue) : q[i] = pan_queue[i]
        /\ q[Len(pan_queue) + 1] = m
    BY <2>1, AppendAt
  <2> HIDE DEF q
  <2>3. /\ Len(pan_queue') = Len(q) + 1
        /\ \A i \in 1..Len(q) : pan_queue'[i] = q[i]
        /\ pan_queue'[Len(q) + 1] = n
    BY <2>1, <2>2, AppendAt
  <2>4. /\ pan_queue'[Len(pan_queue) + 1] = m /\ pan_queue'[Len(pan_queue) + 2] = n
        /\ Len(pan_queue) + 1 \in 1..Len(pan_queue') /\ Len(pan_queue) + 2 \in 1..Len(pan_queue')
    BY <2>2, <2>3
  <2>5. ASSUME NEW i \in 1..Len(pan_queue')
        PROVE  \/ i \in 1..Len(pan_queue) /\ pan_queue'[i] = pan_queue[i]
               \/ pan_queue'[i] \in {m, n}
    <3>1. \/ i \in 1..Len(pan_queue) \/ i = Len(pan_queue) + 1 \/ i = Len(pan_queue) + 2
      BY <2>2, <2>3
    <3>2. CASE i \in 1..Len(pan_queue)
      <4>1. i \in 1..Len(q)  BY <2>2, <3>2
      <4> QED  BY <2>2, <2>3, <3>2, <4>1
    <3> QED  BY <2>4, <3>1, <3>2
  <2>6. "devices" \in {m.type, n.type} => UpdateQueued'  BY <2>4 DEF UpdateQueued
  <2>7. ASSUME NEW t, DoneQueued(t)'
        PROVE  \/ DoneQueued(t)
               \/ m.type = "sas_done" /\ m.sas = t
               \/ n.type = "sas_done" /\ n.sas = t
    BY <2>5, <2>7 DEF DoneQueued
  <2> QED  BY <2>6, <2>7
<1> QED  BY <1>1, <1>2

(* The UI thread takes one message: what it said is shown now.             *)
LEMMA UIReports ==
  ASSUME TypeInv, ReportedInv, ShowMessage
  PROVE  ReportedInv'
<1> USE DEF TypeInv, TypeOK
<1> DEFINE m == Head(pan_queue)
<1>1. /\ pan_queue # <<>> /\ pan_queue' = Tail(pan_queue) /\ m \in Message
      /\ Len(pan_queue) \in Nat
      /\ 1 \in 1..Len(pan_queue) /\ m = pan_queue[1]
      /\ \A i \in 1..Len(pan_queue') : i + 1 \in 1..Len(pan_queue) /\ pan_queue'[i] = pan_queue[i + 1]
      /\ \A j \in 2..Len(pan_queue) : j - 1 \in 1..Len(pan_queue') /\ pan_queue'[j - 1] = pan_queue[j]
  BY TailAt DEF ShowMessage
<1>2. /\ m.type = "devices" => m.verified = TRUE
      /\ m.type = "sas_done" => m.sas \in Transactions
  BY <1>1, MessageIs
<1>3. /\ device_list' = IF m.type = "devices" THEN m.verified ELSE device_list
      /\ sas_done' = IF m.type = "sas_done" THEN [sas_done EXCEPT ![m.sas] = @ + 1]
                        ELSE sas_done
      /\ UNCHANGED <<state, sas_accepted, verified, router, sas, unreported>>
  BY DEF ShowMessage, sasVars, routerVars
<1> HIDE DEF m
<1>4. UpdateQueued => m.type = "devices" \/ UpdateQueued'
  <2> SUFFICES ASSUME NEW i \in 1..Len(pan_queue), pan_queue[i].type = "devices"
               PROVE  m.type = "devices" \/ UpdateQueued'
    BY DEF UpdateQueued
  <2>1. CASE i = 1  BY <1>1, <2>1
  <2>2. CASE i # 1
    <3>1. i \in 2..Len(pan_queue)  BY <1>1, <2>2
    <3>2. i - 1 \in 1..Len(pan_queue') /\ pan_queue'[i - 1] = pan_queue[i]  BY <1>1, <3>1
    <3> QED  BY <3>2 DEF UpdateQueued
  <2> QED  BY <2>1, <2>2
<1>5. ASSUME NEW t \in Transactions, sas_done'[t] > 0 \/ DoneQueued(t)'
      PROVE  sas_done[t] > 0 \/ DoneQueued(t)
  <2>1. CASE DoneQueued(t)'  BY <1>1, <2>1 DEF DoneQueued
  <2>2. CASE sas_done'[t] > 0 /\ ~(sas_done[t] > 0)
    <3>1. m.type = "sas_done" /\ m.sas = t  BY <1>2, <1>3, <2>2
    <3> QED  BY <1>1, <3>1 DEF DoneQueued
  <2> QED  BY <1>5, <2>1, <2>2
<1>6. /\ Reported' /\ \A t \in Transactions : Verified(t)' => verified'
  <2>1. device_list => device_list'  BY <1>2, <1>3
  <2>2. m.type = "devices" => device_list'  BY <1>2, <1>3
  <2>3. \A t : Verified(t)' <=> Verified(t)  BY <1>3 DEF Verified
  <2>4. Verified(sas)' <=> Verified(sas)  BY <1>3 DEF Verified
  <2> QED  BY <1>3, <1>4, <2>1, <2>2, <2>3, <2>4 DEF ReportedInv, Reported
<1>7. \A t \in Transactions : sas_done'[t] > 0 \/ DoneQueued(t)' => Confirmed(t)'
  BY <1>3, <1>5 DEF ReportedInv, Confirmed
<1> QED  BY <1>6, <1>7 DEF ReportedInv

\* A step that neither reports nor undoes what was reported.
Keeping ==
  /\ UNCHANGED <<device_list, sas_done>>
  /\ UpdateQueued' <=> UpdateQueued
  /\ \A t \in Transactions : DoneQueued(t)' <=> DoneQueued(t)
  /\ verified => verified'
  /\ sas_accepted \subseteq sas_accepted'
  /\ \A t \in Transactions : Confirmed(t) => state'[t] \in {"mac_received", "canceled"}
  /\ \A t \in Transactions : Verified(t)' => verified'
  /\ \/ ~verified' \/ unreported'
     \/ verified /\ ~unreported /\ ~(router = "confirming" /\ Verified(sas))
     \/ router' = "confirming" /\ Verified(sas)'

(* Such a step keeps the invariant.                                        *)
LEMMA Kept ==
  ASSUME ReportedInv, Keeping
  PROVE  ReportedInv'
<1>1. Reported'  BY DEF ReportedInv, Reported, Keeping
<1>2. \A t \in Transactions : sas_done'[t] > 0 \/ DoneQueued(t)' => Confirmed(t)'
  BY DEF ReportedInv, Confirmed, Keeping
<1>3. \A t \in Transactions : Verified(t)' => verified'  BY DEF Keeping
<1> QED  BY <1>1, <1>2, <1>3 DEF ReportedInv

(* The router's handlers up to their await.                                *)
LEMMA HandlersReport ==
  ASSUME TypeInv, ReportedInv,
         \/ \E t \in Transactions : StartSas(t)
         \/ AcceptSas \/ ConfirmSas \/ ConfirmTooEarly \/ CancelSas
  PROVE  ReportedInv'
<1> USE DEF TypeInv, TypeOK, sasVars, routerVars, uiVars
<1>1. /\ router = "waiting" /\ UNCHANGED <<device_list, answers, sas_done, unreported, pan_queue>>
  BY DEF StartSas, AcceptSas, ConfirmSas, ConfirmTooEarly, CancelSas, Receive
<1>2. (UpdateQueued' <=> UpdateQueued) /\ \A t : DoneQueued(t)' <=> DoneQueued(t)
  BY <1>1 DEF UpdateQueued, DoneQueued
<1>3. ASSUME NEW t \in Transactions, StartSas(t) PROVE ReportedInv'
  <2>1. state' = [state EXCEPT ![t] = "started"] /\ state[t] = "none"
        /\ UNCHANGED <<verified, sas_accepted>>
    BY <1>3 DEF StartSas
  <2>2. \A s \in Transactions : Confirmed(s) => state'[s] \in {"mac_received", "canceled"}
    BY <2>1 DEF Confirmed
  <2>3. \A s \in Transactions : Verified(s)' => verified'
    BY <2>1 DEF ReportedInv, Verified
  <2>9. Keeping  BY <1>1, <1>2, <2>1, <2>2, <2>3 DEF Keeping
  <2> QED  BY <2>9, Kept
<1>4. CASE AcceptSas
  <2>1. /\ state' = [state EXCEPT ![ActiveSas] = "accepted"] /\ state[ActiveSas] = "started"
        /\ UNCHANGED <<verified, sas_accepted>>
    BY <1>4 DEF AcceptSas, AcceptOutOfOrder
  <2>2. \A s \in Transactions : Confirmed(s) => state'[s] \in {"mac_received", "canceled"}
    BY <2>1 DEF Confirmed
  <2>3. \A s \in Transactions : Verified(s)' => verified'
    BY <2>1 DEF ReportedInv, Verified
  <2>9. Keeping  BY <1>1, <1>2, <2>1, <2>2, <2>3 DEF Keeping
  <2> QED  BY <2>9, Kept
<1>5. CASE ConfirmSas
  <2> DEFINE t == ActiveSas
  <2>1. t \in Transactions  BY <1>5, ActiveType DEF ConfirmSas
  <2>2. /\ sas_accepted' = sas_accepted \cup {t} /\ verified' = (verified \/ state[t] = "mac_received")
        /\ state' = state /\ router' = "confirming" /\ sas' = t
    BY <1>5 DEF ConfirmSas, Await
  <2> HIDE DEF t
  <2>3. \A s \in Transactions : Confirmed(s) => state'[s] \in {"mac_received", "canceled"}
    BY <2>2 DEF Confirmed
  <2>4. \A s \in Transactions : Verified(s)' => verified'
    BY <2>2 DEF ReportedInv, Verified
  <2>5. verified' /\ ~verified => router' = "confirming" /\ Verified(sas)'
    BY <2>2 DEF Verified
  <2>9. Keeping  BY <1>1, <1>2, <2>2, <2>3, <2>4, <2>5 DEF Keeping
  <2> QED  BY <2>9, Kept
<1>6. CASE ConfirmTooEarly
  <2>1. UNCHANGED <<state, verified, sas_accepted>>  BY <1>6 DEF ConfirmTooEarly
  <2>2. \A s \in Transactions : Confirmed(s) => state'[s] \in {"mac_received", "canceled"}
    BY <2>1 DEF Confirmed
  <2>3. \A s \in Transactions : Verified(s)' => verified'
    BY <2>1 DEF ReportedInv, Verified
  <2>9. Keeping  BY <1>1, <1>2, <2>1, <2>2, <2>3 DEF Keeping
  <2> QED  BY <2>9, Kept
<1>7. CASE CancelSas
  <2>1. /\ state' = [state EXCEPT ![ActiveSas] = "canceled"]
        /\ UNCHANGED <<verified, sas_accepted>>
    BY <1>7 DEF CancelSas
  <2>2. \A s \in Transactions : Confirmed(s) => state'[s] \in {"mac_received", "canceled"}
    BY <2>1 DEF Confirmed
  <2>3. \A s \in Transactions : Verified(s)' => verified'
    BY <2>1 DEF ReportedInv, Verified
  <2>9. Keeping  BY <1>1, <1>2, <2>1, <2>2, <2>3 DEF Keeping
  <2> QED  BY <2>9, Kept
<1> QED  BY <1>3, <1>4, <1>5, <1>6, <1>7

(* ... and after it.                                                       *)
LEMMA AnswersReport ==
  ASSUME TypeInv, ReportedInv, RejectSas \/ SendFails \/ SendReturns \/ ConfirmReturns
  PROVE  ReportedInv'
<1> USE DEF TypeInv, TypeOK, sasVars, routerVars, uiVars
<1>1. UNCHANGED <<state, sas_accepted, verified, device_list, answers, sas_done>>
  BY DEF RejectSas, SendFails, SendReturns, ConfirmReturns
<1>2. /\ \A s \in Transactions : Confirmed(s) => state'[s] \in {"mac_received", "canceled"}
      /\ \A s \in Transactions : Verified(s)' => verified'
  BY <1>1 DEF ReportedInv, Confirmed, Verified
<1>3. ASSUME NEW m, Adds1(m), m.type = "response",
             \/ router # "confirming" /\ UNCHANGED unreported
             \/ ~Verified(sas) /\ (unreported => unreported')
             \/ unreported'
      PROVE  ReportedInv'
  <2>1. (UpdateQueued' <=> UpdateQueued) /\ \A t : DoneQueued(t)' <=> DoneQueued(t)
    BY <1>3, AddsAre
  <2>9. Keeping  BY <1>1, <1>2, <1>3, <2>1 DEF Keeping
  <2> QED  BY <2>9, Kept
<1>4. CASE RejectSas
  <2>1. router # "confirming" /\ UNCHANGED unreported  BY <1>4 DEF RejectSas, Receive
  <2> QED  BY <1>3, <1>4, <2>1, RouterAdds, MessagesAre
<1>5. CASE SendFails
  <2>1. unreported' = (unreported \/ (router = "confirming" /\ Verified(sas)))
    BY <1>5 DEF SendFails
  <2>2. Response("m.connection_error").type = "response"  BY DEF Response
  <2>3. CASE router = "confirming" /\ Verified(sas)  BY <1>3, <1>5, <2>1, <2>2, <2>3, RouterAdds
  <2>4. CASE ~Verified(sas)  BY <1>3, <1>5, <2>1, <2>2, <2>4, RouterAdds
  <2>5. CASE router # "confirming"
    <3>1. UNCHANGED unreported  BY <2>1, <2>5
    <3> QED  BY <1>3, <1>5, <2>2, <2>5, <3>1, RouterAdds
  <2> QED  BY <2>3, <2>4, <2>5
<1>6. CASE SendReturns
  <2>1. router # "confirming" /\ UNCHANGED unreported  BY <1>6 DEF SendReturns
  <2>2. Response("m.ok").type = "response"  BY DEF Response
  <2> QED  BY <1>3, <1>6, <2>1, <2>2, RouterAdds
<1>7. CASE ConfirmReturns /\ ~Verified(sas)
  <2>1. unreported => unreported'  BY <1>7 DEF ConfirmReturns
  <2>2. Response("m.ok").type = "response"  BY DEF Response
  <2> QED  BY <1>3, <1>7, <2>1, <2>2, RouterAdds
<1>8. CASE ConfirmReturns /\ Verified(sas)
  <2>1. /\ sas \in Transactions /\ current \in Ids /\ Adds2(Update, SasDone(sas, current))
    BY <1>8, RouterAdds
  <2>2. /\ Update.type = "devices"
        /\ SasDone(sas, current).type = "sas_done" /\ SasDone(sas, current).sas = sas
    BY <2>1, MessagesAre
  <2>3. UpdateQueued'  BY <2>1, <2>2, AddsAre
  <2>4. \A t \in Transactions : DoneQueued(t)' => DoneQueued(t) \/ t = sas
    BY <2>1, <2>2, AddsAre
  <2>5. Confirmed(sas)  BY <1>8, <2>1 DEF ReportedInv, Confirmed, Verified
  <2>6. \A t \in Transactions : sas_done'[t] > 0 \/ DoneQueued(t)' => Confirmed(t)'
    BY <1>1, <2>4, <2>5 DEF ReportedInv, Confirmed
  <2> QED  BY <1>2, <2>3, <2>6 DEF ReportedInv, Reported
<1> QED  BY <1>4, <1>5, <1>6, <1>7, <1>8

(* The other side's messages.                                              *)
LEMMA SyncReports ==
  ASSUME TypeInv, ReportedInv, NEW t \in Transactions,
         \/ ReceiveStart(t) \/ ReceiveAccept(t) \/ ReceiveKey(t)
         \/ ReceiveMac(t) \/ ReceiveCancel(t)
  PROVE  ReportedInv'
<1> USE DEF TypeInv, TypeOK, CurrentInv, sasVars, routerVars, uiVars
<1>1. UNCHANGED <<device_list, answers, sas_done, sas_accepted, router, sas>>
  BY DEF ReceiveStart, ReceiveAccept, ReceiveKey, ReceiveMac, ReceiveCancel
<1>2. ASSUME pan_queue' = pan_queue
      PROVE  (UpdateQueued' <=> UpdateQueued) /\ \A s : DoneQueued(s)' <=> DoneQueued(s)
  BY <1>2 DEF UpdateQueued, DoneQueued
<1>3. CASE ReceiveStart(t)
  <2>1. /\ pan_queue' = pan_queue /\ verified' = verified /\ state[t] = "none"
        /\ state' = [s \in Transactions |-> IF s = t THEN "started"
                                             ELSE IF s = ActiveSas THEN "canceled" ELSE state[s]]
        /\ unreported' = (unreported \/ (router = "confirming" /\ sas = ActiveSas /\ Verified(sas)))
    BY <1>3 DEF ReceiveStart
  <2>2. \A s \in Transactions : Confirmed(s) => state'[s] \in {"mac_received", "canceled"}
    BY <2>1 DEF Confirmed
  <2>3. \A s \in Transactions : Verified(s)' => verified'
    BY <1>1, <2>1 DEF ReportedInv, Verified
  <2>4. router = "confirming" /\ Verified(sas) /\ ~unreported' => Verified(sas)'
    <3> SUFFICES ASSUME router = "confirming", Verified(sas), ~unreported' PROVE Verified(sas)'
      OBVIOUS
    <3>1. sas \in Transactions /\ sas # ActiveSas /\ sas # t
      BY <2>1 DEF Awaits, Verified
    <3> QED  BY <1>1, <2>1, <3>1 DEF Verified
  <2>9. Keeping  BY <1>1, <1>2, <2>1, <2>2, <2>3, <2>4 DEF Keeping
  <2> QED  BY <2>9, Kept
<1>4. CASE ReceiveAccept(t) \/ ReceiveKey(t)
  <2>1. PICK n \in {"accepted", "key_received"} : state' = [state EXCEPT ![t] = n]
    BY <1>4 DEF ReceiveAccept, ReceiveKey
  <2>2. /\ pan_queue' = pan_queue /\ verified' = verified /\ unreported' = unreported
        /\ state[t] \in {"started", "accepted"}
    BY <1>4 DEF ReceiveAccept, ReceiveKey
  <2>3. \A s \in Transactions : Confirmed(s) => state'[s] \in {"mac_received", "canceled"}
    BY <2>1, <2>2 DEF Confirmed
  <2>4. \A s \in Transactions : Verified(s)' => verified'
    BY <1>1, <2>1, <2>2 DEF ReportedInv, Verified
  <2>5. router = "confirming" /\ Verified(sas) => Verified(sas)'
    BY <1>1, <2>1, <2>2 DEF Awaits, Verified
  <2>9. Keeping  BY <1>1, <1>2, <2>2, <2>3, <2>4, <2>5 DEF Keeping
  <2> QED  BY <2>9, Kept
<1>5. CASE ReceiveMac(t) /\ t \notin sas_accepted
  <2>1. /\ state[t] = "key_received" /\ state' = [state EXCEPT ![t] = "mac_received"]
        /\ pan_queue' = pan_queue /\ verified' = verified /\ unreported' = unreported
    BY <1>5 DEF ReceiveMac
  <2>2. \A s \in Transactions : Confirmed(s) => state'[s] \in {"mac_received", "canceled"}
    BY <2>1 DEF Confirmed
  <2>3. \A s \in Transactions : Verified(s)' => verified'
    BY <1>1, <1>5, <2>1 DEF ReportedInv, Verified
  <2>4. router = "confirming" /\ Verified(sas) => Verified(sas)'
    BY <1>1, <2>1 DEF Awaits, Verified
  <2>9. Keeping  BY <1>1, <1>2, <2>1, <2>2, <2>3, <2>4 DEF Keeping
  <2> QED  BY <2>9, Kept
<1>6. CASE ReceiveMac(t) /\ t \in sas_accepted
  <2>1. /\ state' = [state EXCEPT ![t] = "mac_received"] /\ verified' = TRUE
        /\ Adds2(SasDone(t, NoId), Update)
    BY <1>6, MacAdds DEF ReceiveMac
  <2>2. /\ Update.type = "devices"
        /\ SasDone(t, NoId).type = "sas_done" /\ SasDone(t, NoId).sas = t
    BY MessagesAre
  <2>3. UpdateQueued'  BY <2>1, <2>2, AddsAre
  <2>4. \A s \in Transactions : DoneQueued(s)' => DoneQueued(s) \/ s = t
    BY <2>1, <2>2, AddsAre
  <2>5. Confirmed(t)'  BY <1>1, <1>6, <2>1 DEF Confirmed
  <2>6. \A s \in Transactions : Confirmed(s) => Confirmed(s)'
    BY <1>1, <2>1 DEF Confirmed
  <2>7. \A s \in Transactions : sas_done'[s] > 0 \/ DoneQueued(s)' => Confirmed(s)'
    BY <1>1, <2>4, <2>5, <2>6 DEF ReportedInv
  <2> QED  BY <2>1, <2>3, <2>7 DEF ReportedInv, Reported
<1>7. CASE ReceiveCancel(t)
  <2>1. /\ pan_queue' = pan_queue /\ verified' = verified
        /\ state' = [state EXCEPT ![t] = "canceled"]
        /\ unreported' = (unreported \/ (router = "confirming" /\ sas = t /\ Verified(t)))
    BY <1>7 DEF ReceiveCancel
  <2>2. \A s \in Transactions : Confirmed(s) => state'[s] \in {"mac_received", "canceled"}
    BY <2>1 DEF Confirmed
  <2>3. \A s \in Transactions : Verified(s)' => verified'
    BY <1>1, <2>1 DEF ReportedInv, Verified
  <2>4. router = "confirming" /\ Verified(sas) /\ ~unreported' => Verified(sas)'
    <3> SUFFICES ASSUME router = "confirming", Verified(sas), ~unreported' PROVE Verified(sas)'
      OBVIOUS
    <3>1. sas \in Transactions /\ sas # t  BY <2>1 DEF Awaits
    <3> QED  BY <1>1, <2>1, <3>1 DEF Verified
  <2>9. Keeping  BY <1>1, <1>2, <2>1, <2>2, <2>3, <2>4 DEF Keeping
  <2> QED  BY <2>9, Kept
<1> QED  BY <1>3, <1>4, <1>5, <1>6, <1>7

(* The user hears that the device is verified, unless the confirmation     *)
(* that completed it was lost in one of the three ways named; and only     *)
(* what both sides confirmed is reported as done.                          *)
THEOREM Reports == Spec => []VerifiedIsReported
<1>1. Init => ReportedInv
  <2> SUFFICES ASSUME Init PROVE ReportedInv
    OBVIOUS
  <2>1. Len(<<>>) = 0  OBVIOUS
  <2> QED  BY <2>1 DEF Init, ReportedInv, Reported, Verified, Confirmed, DoneQueued
<1>2. TypeInv /\ ReportedInv /\ [Next]_vars => ReportedInv'
  <2> SUFFICES ASSUME TypeInv, ReportedInv, [Next]_vars PROVE ReportedInv'
    OBVIOUS
  <2>1. CASE UNCHANGED vars \/ \E k \in Kinds : Issue(k)
    <3>1. UNCHANGED <<state, sas_accepted, verified, router, sas, device_list, sas_done,
                      pan_queue, unreported>>
      BY <2>1 DEF vars, Issue, sasVars, routerVars, uiVars
    <3> QED
      BY <3>1 DEF ReportedInv, Reported, UpdateQueued, DoneQueued, Confirmed, Verified
  <2> QED  BY <2>1, UIReports, HandlersReport, AnswersReport, SyncReports DEF Next, Router, Sync
<1>3. ReportedInv => VerifiedIsReported
  BY DEF ReportedInv, Reported, UpdateQueued, DoneQueued, Confirmed, VerifiedIsReported, Queued
<1> QED  BY <1>1, <1>2, <1>3, TypeInvariance, PTL DEF Spec

-----------------------------------------------------------------------------
(* At most one answer per command.                                         *)

AnswersTo(i) == {m \in Message : m.type # "devices" /\ m.id = i}
Asking(i) == {m \in Command : m.id = i}

Answers(i) == Cardinality(Places(pan_queue, AnswersTo(i)))
Questions(i) == Cardinality(Places(ui_queue, Asking(i)))
InHand(i) == IF current = i THEN 1 ELSE 0

(* A command that was issued is in at most one place: queued, in the       *)
(* router's hand, answered in the queue to the UI thread, or answered on   *)
(* the bus.  (None, when it ended the router task.)                        *)
Whereabouts(i) == answers[i] + Answers(i) + Questions(i) + InHand(i)
AnswersInv == \A i \in Ids : Whereabouts(i) <= IF i < message_id THEN 1 ELSE 0

(* The counts are numbers.                                                 *)
LEMMA CountsAre ==
  ASSUME TypeInv, NEW i \in Ids
  PROVE  /\ answers[i] \in Nat /\ Answers(i) \in Nat /\ Questions(i) \in Nat
         /\ InHand(i) \in {0, 1} /\ i \in Nat /\ message_id \in Nat
<1>1. Answers(i) \in Nat  BY PlacesFinite DEF TypeInv, Answers
<1>2. Questions(i) \in Nat  BY PlacesFinite DEF TypeInv, Questions
<1>3. answers[i] \in Nat /\ message_id \in Nat
  BY MaxCommandsAssumption DEF TypeInv, TypeOK
<1> QED  BY <1>1, <1>2, <1>3, NoIdIs DEF InHand

(* ... also after a step.                                                  *)
LEMMA CountsAfter ==
  ASSUME TypeInv', NEW i \in Ids
  PROVE  /\ answers'[i] \in Nat /\ Answers(i)' \in Nat /\ Questions(i)' \in Nat
         /\ InHand(i)' \in {0, 1}
<1>1. Answers(i)' \in Nat  BY PlacesFinite DEF TypeInv, Answers
<1>2. Questions(i)' \in Nat  BY PlacesFinite DEF TypeInv, Questions
<1>3. answers'[i] \in Nat  BY DEF TypeInv, TypeOK
<1> QED  BY <1>1, <1>2, <1>3 DEF InHand

(* A command that is queued counts.                                        *)
LEMMA QueuedCounts ==
  ASSUME TypeInv, NEW i \in Ids, \E j \in 1..Len(ui_queue) : ui_queue[j].id = i
  PROVE  Questions(i) >= 1
<1>1. PICK j \in 1..Len(ui_queue) : ui_queue[j].id = i  OBVIOUS
<1>2. ui_queue[j] \in Command  BY DEF TypeInv
<1>3. j \in Places(ui_queue, Asking(i))  BY <1>1, <1>2 DEF Places, Asking
<1>4. IsFiniteSet(Places(ui_queue, Asking(i))) /\ Questions(i) \in Nat
  BY PlacesFinite DEF TypeInv, Questions
<1>5. Questions(i) # 0  BY <1>3, <1>4, FS_EmptySet DEF Questions
<1> QED  BY <1>4, <1>5

(* What a message added to the queue, or two, does to the count.           *)
LEMMA AddsCount ==
  ASSUME TypeInv, NEW i \in Ids
  PROVE  /\ \A m : Adds1(m) => Answers(i)' = Answers(i) + (IF m \in AnswersTo(i) THEN 1 ELSE 0)
         /\ \A m, n : Adds2(m, n) =>
              Answers(i)' = Answers(i) + (IF m \in AnswersTo(i) THEN 1 ELSE 0)
                              + (IF n \in AnswersTo(i) THEN 1 ELSE 0)
<1>1. ASSUME NEW m, Adds1(m)
      PROVE  Answers(i)' = Answers(i) + (IF m \in AnswersTo(i) THEN 1 ELSE 0)
  BY <1>1, CountAppend DEF TypeInv, Adds1, Answers
<1>2. ASSUME NEW m, NEW n, Adds2(m, n)
      PROVE  Answers(i)' = Answers(i) + (IF m \in AnswersTo(i) THEN 1 ELSE 0)
                             + (IF n \in AnswersTo(i) THEN 1 ELSE 0)
  <2> DEFINE q == Append(pan_queue, m)
  <2>1. m \in Message /\ n \in Message /\ pan_queue' = Append(q, n)  BY <1>2 DEF Adds2
  <2>2. q \in Seq(Message)  BY <2>1, AppendAt DEF TypeInv
  <2>3. Cardinality(Places(q, AnswersTo(i))) = Answers(i) + (IF m \in AnswersTo(i) THEN 1 ELSE 0)
    BY <2>1, CountAppend DEF TypeInv, Answers
  <2> HIDE DEF q
  <2>4. Cardinality(Places(Append(q, n), AnswersTo(i)))
          = Cardinality(Places(q, AnswersTo(i))) + (IF n \in AnswersTo(i) THEN 1 ELSE 0)
    BY <2>1, <2>2, CountAppend
  <2>5. Answers(i)' = Cardinality(Places(Append(q, n), AnswersTo(i)))  BY <2>1 DEF Answers
  <2> QED  BY <2>3, <2>4, <2>5
<1> QED  BY <1>1, <1>2

(* No step but Issue makes a command appear in one more place.             *)
LEMMA NoMore ==
  ASSUME AnswersInv, message_id' = message_id,
         \A i \in Ids : Whereabouts(i)' <= Whereabouts(i),
         \A i \in Ids : Whereabouts(i)' \in Nat /\ Whereabouts(i) \in Nat
  PROVE  AnswersInv'
<1> SUFFICES ASSUME NEW i \in Ids
             PROVE  Whereabouts(i)' <= IF i < message_id' THEN 1 ELSE 0
  BY DEF AnswersInv
<1>1. Whereabouts(i) <= IF i < message_id THEN 1 ELSE 0  BY DEF AnswersInv
<1> QED  BY <1>1

(* The whereabouts are numbers.                                            *)
LEMMA WhereaboutsAre ==
  /\ TypeInv => \A i \in Ids : Whereabouts(i) \in Nat
  /\ TypeInv' => \A i \in Ids : Whereabouts(i)' \in Nat
BY CountsAre, CountsAfter DEF Whereabouts

(* A command is issued under a fresh id.                                   *)
LEMMA IssueAnswers ==
  ASSUME TypeInv, AnswersInv, NEW k \in Kinds, Issue(k)
  PROVE  AnswersInv'
<1> DEFINE c == [id |-> message_id, kind |-> k]
<1>1. c \in Command /\ c.id = message_id
  BY MaxCommandsAssumption DEF TypeInv, TypeOK, Issue, Command, Ids
<1>2. /\ ui_queue' = Append(ui_queue, c) /\ message_id' = message_id + 1
      /\ UNCHANGED <<answers, pan_queue, current>>
  BY DEF Issue, routerVars, uiVars
<1> HIDE DEF c
<1> SUFFICES ASSUME NEW i \in Ids
             PROVE  Whereabouts(i)' <= IF i < message_id' THEN 1 ELSE 0
  BY DEF AnswersInv
<1>3. Questions(i)' = Questions(i) + (IF i = message_id THEN 1 ELSE 0)
  <2>1. c \in Asking(i) <=> i = message_id  BY <1>1 DEF Asking
  <2> QED  BY <1>1, <1>2, <2>1, CountAppend DEF TypeInv, Questions
<1>4. Answers(i)' = Answers(i) /\ InHand(i)' = InHand(i) /\ answers' = answers
  BY <1>2 DEF Answers, InHand
<1>5. Whereabouts(i) <= IF i < message_id THEN 1 ELSE 0  BY DEF AnswersInv
<1>6. Whereabouts(i)' = Whereabouts(i) + (IF i = message_id THEN 1 ELSE 0)
  BY <1>3, <1>4, CountsAre DEF Whereabouts
<1>7. Whereabouts(i) \in Nat /\ i \in Nat /\ message_id \in Nat  BY CountsAre, WhereaboutsAre
<1> QED  BY <1>2, <1>5, <1>6, <1>7

(* The UI thread turns an answer in the queue into one on the bus.         *)
LEMMA ShowAnswers ==
  ASSUME TypeInv, TypeInv', AnswersInv, ShowMessage
  PROVE  AnswersInv'
<1> DEFINE m == Head(pan_queue)
<1>1. pan_queue # <<>> /\ pan_queue' = Tail(pan_queue) /\ m \in Message
  BY TailAt DEF TypeInv, ShowMessage
<1>2. /\ UNCHANGED <<message_id, ui_queue, current>>
      /\ answers' = IF m.type # "devices" /\ m.id # NoId
                       THEN [answers EXCEPT ![m.id] = @ + 1] ELSE answers
  BY DEF ShowMessage, routerVars
<1>3. m.type # "devices" => m.id \in Ids \cup {NoId}  BY <1>1, MessageIs
<1>4. ASSUME NEW i \in Ids PROVE Whereabouts(i)' = Whereabouts(i)
  <2>1. Answers(i) = Cardinality(Places(Tail(pan_queue), AnswersTo(i)))
                       + (IF m \in AnswersTo(i) THEN 1 ELSE 0)
    BY <1>1, CountTail DEF TypeInv, Answers
  <2>2. Answers(i)' = Cardinality(Places(Tail(pan_queue), AnswersTo(i)))  BY <1>1 DEF Answers
  <2>3. m \in AnswersTo(i) <=> m.type # "devices" /\ m.id = i  BY <1>1 DEF AnswersTo
  <2> HIDE DEF m
  <2>4. answers'[i] = answers[i] + (IF m \in AnswersTo(i) THEN 1 ELSE 0)
    <3>1. answers \in [Ids -> Nat]  BY DEF TypeInv, TypeOK
    <3> QED  BY <1>2, <1>3, <2>3, <3>1, NoIdIs
  <2>5. Questions(i)' = Questions(i) /\ InHand(i)' = InHand(i)  BY <1>2 DEF Questions, InHand
  <2>6. /\ answers[i] \in Nat /\ Answers(i) \in Nat /\ Answers(i)' \in Nat
        /\ Questions(i) \in Nat /\ InHand(i) \in {0, 1}
    BY CountsAre, CountsAfter
  <2> QED  BY <2>1, <2>2, <2>4, <2>5, <2>6 DEF Whereabouts
<1>5. \A i \in Ids : Whereabouts(i) \in Nat /\ Whereabouts(i)' \in Nat  BY WhereaboutsAre
<1> QED  BY <1>2, <1>4, <1>5, NoMore

(* The router takes a command: into its hand, or straight to an answer.    *)
LEMMA TakeAnswers ==
  ASSUME TypeInv, TypeInv', AnswersInv,
         \/ \E t \in Transactions : StartSas(t)
         \/ RejectSas \/ AcceptSas \/ ConfirmSas \/ ConfirmTooEarly \/ CancelSas
  PROVE  AnswersInv'
<1> DEFINE h == Head(ui_queue)
<1>1. /\ ui_queue # <<>> /\ ui_queue' = Tail(ui_queue) /\ router = "waiting"
      /\ UNCHANGED <<message_id, answers>>
  BY DEF StartSas, RejectSas, AcceptSas, ConfirmSas, ConfirmTooEarly, CancelSas, Receive, uiVars
<1>2. h \in Command  BY <1>1, TailAt DEF TypeInv
<1>3. current = NoId  BY <1>1 DEF TypeInv, CurrentInv, Awaits
<1> HIDE DEF h
<1>4. ASSUME NEW i \in Ids
      PROVE  Answers(i)' + InHand(i)' <= Answers(i) + (IF h.id = i THEN 1 ELSE 0)
  <2>1. Answers(i) \in Nat /\ Answers(i)' \in Nat  BY CountsAre, CountsAfter
  <2>2. CASE RejectSas
    <3> DEFINE r == [type |-> "response", id |-> h.id, code |-> "m.error"]
    <3>1. Adds1(r)  BY <2>2, RouterAdds DEF h
    <3>2. r \in AnswersTo(i) => h.id = i  BY DEF AnswersTo
    <3>3. InHand(i)' = 0
      <4>1. current' = NoId  BY <1>3, <2>2 DEF RejectSas, routerVars
      <4> QED  BY <4>1, NoIdIs DEF InHand
    <3> HIDE DEF r
    <3>4. Answers(i)' = Answers(i) + (IF r \in AnswersTo(i) THEN 1 ELSE 0)
      BY <3>1, AddsCount
    <3> QED  BY <2>1, <3>2, <3>3, <3>4
  <2>3. CASE ~RejectSas
    <3>1. pan_queue' = pan_queue /\ current' \in {h.id, NoId}
      BY <1>3, <2>3 DEF StartSas, AcceptSas, ConfirmSas, ConfirmTooEarly, CancelSas, Await, h
    <3>2. Answers(i)' = Answers(i)  BY <3>1 DEF Answers
    <3>3. InHand(i)' <= IF h.id = i THEN 1 ELSE 0  BY <3>1, NoIdIs DEF InHand
    <3>4. InHand(i)' \in {0, 1}  BY DEF InHand
    <3> QED  BY <2>1, <3>2, <3>3, <3>4
  <2> QED  BY <2>2, <2>3
<1>5. ASSUME NEW i \in Ids PROVE Whereabouts(i)' <= Whereabouts(i)
  <2>1. Questions(i) = Questions(i)' + (IF h.id = i THEN 1 ELSE 0)
    <3>1. h \in Asking(i) <=> h.id = i  BY <1>2 DEF Asking
    <3> QED  BY <1>1, <3>1, CountTail DEF TypeInv, Questions, h
  <2>2. InHand(i) = 0  BY <1>3, NoIdIs DEF InHand
  <2>3. /\ answers[i] \in Nat /\ Answers(i) \in Nat /\ Questions(i) \in Nat
        /\ Answers(i)' \in Nat /\ Questions(i)' \in Nat /\ InHand(i)' \in {0, 1}
    BY CountsAre, CountsAfter
  <2>4. answers' = answers  BY <1>1
  <2>5. Answers(i)' + InHand(i)' <= Answers(i) + (IF h.id = i THEN 1 ELSE 0)  BY <1>4
  <2>6. CASE h.id = i  BY <2>1, <2>2, <2>3, <2>4, <2>5, <2>6 DEF Whereabouts
  <2>7. CASE h.id # i  BY <2>1, <2>2, <2>3, <2>4, <2>5, <2>7 DEF Whereabouts
  <2> QED  BY <2>6, <2>7
<1>6. \A i \in Ids : Whereabouts(i) \in Nat /\ Whereabouts(i)' \in Nat  BY WhereaboutsAre
<1> QED  BY <1>1, <1>5, <1>6, NoMore

(* ... and answers the one in its hand, with one message that counts.      *)
LEMMA ReturnAnswers ==
  ASSUME TypeInv, TypeInv', AnswersInv, SendFails \/ SendReturns \/ ConfirmReturns
  PROVE  AnswersInv'
<1>1. UNCHANGED <<message_id, answers, ui_queue>> /\ current' = NoId
  BY DEF SendFails, SendReturns, ConfirmReturns, Answered, uiVars
<1>2. current \in Ids  BY RouterAdds
<1>3. ASSUME NEW i \in Ids PROVE Answers(i)' = Answers(i) + InHand(i)
  <2>1. Answers(i) \in Nat  BY CountsAre
  <2>2. ASSUME NEW code, Adds1(Response(code)) PROVE Answers(i)' = Answers(i) + InHand(i)
    <3>1. Response(code) \in AnswersTo(i) <=> current = i
      BY <2>2 DEF AnswersTo, Adds1, Response
    <3>2. Answers(i)' = Answers(i) + (IF Response(code) \in AnswersTo(i) THEN 1 ELSE 0)
      BY <2>2, AddsCount
    <3> QED  BY <3>1, <3>2 DEF InHand
  <2>3. CASE ConfirmReturns /\ Verified(sas)
    <3>1. sas \in Transactions /\ Adds2(Update, SasDone(sas, current))  BY <2>3, RouterAdds
    <3>2. Update \notin AnswersTo(i)  BY MessagesAre DEF AnswersTo
    <3>3. SasDone(sas, current) \in AnswersTo(i) <=> current = i
      BY <1>2, <3>1, MessagesAre DEF AnswersTo
    <3>4. Answers(i)' = Answers(i) + (IF Update \in AnswersTo(i) THEN 1 ELSE 0)
                          + (IF SasDone(sas, current) \in AnswersTo(i) THEN 1 ELSE 0)
      BY <3>1, AddsCount
    <3> QED  BY <2>1, <3>2, <3>3, <3>4 DEF InHand
  <2> QED  BY <2>2, <2>3, RouterAdds
<1>4. ASSUME NEW i \in Ids PROVE Whereabouts(i)' = Whereabouts(i)
  <2>1. Questions(i)' = Questions(i)  BY <1>1 DEF Questions
  <2>2. InHand(i)' = 0  BY <1>1, NoIdIs DEF InHand
  <2>3. /\ answers[i] \in Nat /\ Answers(i) \in Nat /\ Questions(i) \in Nat
        /\ InHand(i) \in {0, 1}
    BY CountsAre
  <2> QED  BY <1>1, <1>3, <2>1, <2>2, <2>3 DEF Whereabouts
<1>5. \A i \in Ids : Whereabouts(i) \in Nat /\ Whereabouts(i)' \in Nat  BY WhereaboutsAre
<1> QED  BY <1>1, <1>4, <1>5, NoMore

(* The background sync answers no command: its SasDone has no id.          *)
LEMMA SyncAnswers ==
  ASSUME TypeInv, TypeInv', AnswersInv, NEW t \in Transactions,
         \/ ReceiveStart(t) \/ ReceiveAccept(t) \/ ReceiveKey(t)
         \/ ReceiveMac(t) \/ ReceiveCancel(t)
  PROVE  AnswersInv'
<1>1. UNCHANGED <<message_id, answers, ui_queue, current>>
  BY DEF ReceiveStart, ReceiveAccept, ReceiveKey, ReceiveMac, ReceiveCancel, routerVars, uiVars
<1>2. ASSUME NEW i \in Ids PROVE Answers(i)' = Answers(i)
  <2>1. CASE pan_queue' = pan_queue  BY <2>1 DEF Answers
  <2>2. CASE ReceiveMac(t) /\ t \in sas_accepted
    <3>1. Adds2(SasDone(t, NoId), Update)  BY <2>2, MacAdds
    <3>2. Update \notin AnswersTo(i) /\ SasDone(t, NoId) \notin AnswersTo(i)
      <4>1. SasDone(t, NoId).id = NoId /\ NoId # i  BY NoIdIs DEF SasDone
      <4> QED  BY <4>1, MessagesAre DEF AnswersTo
    <3>3. Answers(i)' = Answers(i) + (IF SasDone(t, NoId) \in AnswersTo(i) THEN 1 ELSE 0)
                          + (IF Update \in AnswersTo(i) THEN 1 ELSE 0)
      BY <3>1, AddsCount
    <3>4. Answers(i) \in Nat  BY CountsAre
    <3> QED  BY <3>2, <3>3, <3>4
  <2> QED
    BY <2>1, <2>2 DEF ReceiveStart, ReceiveAccept, ReceiveKey, ReceiveMac, ReceiveCancel
<1>3. \A i \in Ids : Whereabouts(i)' = Whereabouts(i)
  BY <1>1, <1>2 DEF Whereabouts, Questions, InHand
<1>4. \A i \in Ids : Whereabouts(i) \in Nat /\ Whereabouts(i)' \in Nat  BY WhereaboutsAre
<1> QED  BY <1>1, <1>3, <1>4, NoMore

(* A command gets at most one answer, a response or the SasDone signal of  *)
(* the confirmation that completed the verification, and none while it is  *)
(* still queued.                                                           *)
THEOREM AnsweredAtMostOnce == Spec => []CommandAnsweredOnce
<1>1. Init => AnswersInv
  <2> SUFFICES ASSUME Init, NEW i \in Ids PROVE Whereabouts(i) <= IF i < message_id THEN 1 ELSE 0
    BY DEF AnswersInv
  <2>1. Places(pan_queue, AnswersTo(i)) = {} /\ Places(ui_queue, Asking(i)) = {}
    BY DEF Init, Places
  <2>2. Answers(i) = 0 /\ Questions(i) = 0  BY <2>1, FS_EmptySet DEF Answers, Questions
  <2>3. InHand(i) = 0  BY NoIdIs DEF Init, InHand
  <2>4. answers[i] = 0 /\ message_id = 0 /\ i \in Nat  BY NoIdIs DEF Init
  <2> QED  BY <2>2, <2>3, <2>4 DEF Whereabouts
<1>2. TypeInv /\ TypeInv' /\ AnswersInv /\ [Next]_vars => AnswersInv'
  <2> SUFFICES ASSUME TypeInv, TypeInv', AnswersInv, [Next]_vars PROVE AnswersInv'
    OBVIOUS
  <2>1. CASE UNCHANGED vars
    BY <2>1 DEF vars, AnswersInv, Whereabouts, Answers, Questions, InHand, routerVars, uiVars
  <2> QED
    BY <2>1, IssueAnswers, ShowAnswers, TakeAnswers, ReturnAnswers, SyncAnswers
    DEF Next, Router, Sync
<1>3. TypeInv /\ AnswersInv => CommandAnsweredOnce
  <2> SUFFICES ASSUME TypeInv, AnswersInv, NEW i \in Ids
               PROVE  answers[i] + Cardinality(Answering(i)) + (IF current = i THEN 1 ELSE 0)
                        <= (IF \E j \in 1..Len(ui_queue) : ui_queue[j].id = i THEN 0 ELSE 1)
    BY DEF CommandAnsweredOnce
  <2>1. Answering(i) = Places(pan_queue, AnswersTo(i))
    BY DEF TypeInv, Answering, Places, AnswersTo
  <2>2. Cardinality(Answering(i)) = Answers(i)  BY <2>1 DEF Answers
  <2>3. Whereabouts(i) <= 1
    <3>1. Whereabouts(i) <= IF i < message_id THEN 1 ELSE 0  BY DEF AnswersInv
    <3> QED  BY <3>1, WhereaboutsAre
  <2>4. /\ answers[i] \in Nat /\ Answers(i) \in Nat /\ Questions(i) \in Nat
        /\ InHand(i) \in {0, 1}
    BY CountsAre
  <2>5. (\E j \in 1..Len(ui_queue) : ui_queue[j].id = i) => Questions(i) >= 1
    BY QueuedCounts
  <2> QED  BY <2>2, <2>3, <2>4, <2>5 DEF Whereabouts, InHand
<1> QED  BY <1>1, <1>2, <1>3, TypeInvariance, PTL DEF Spec
=============================================================================
