----------------------------- MODULE HistoryProofs -----------------------------
(***************************************************************************)
(* What History guarantees for any rooms, events, limits, batches and      *)
(* faults: types; no message behind the saved sync token is lost but by    *)
(* the faults that are named; the token is saved after the events.         *)
(***************************************************************************)
EXTENDS History, FiniteSetTheorems, FunctionTheorems, SequenceTheorems,
        WellFoundedInduction, TLAPS

-----------------------------------------------------------------------------
(* Numbers, sequences and sets.                                            *)

(* A set of numbers has a least one, since < is well founded on them.     *)
LEMMA LeastOf ==
  ASSUME NEW T, T \subseteq Nat, T # {}
  PROVE  \E x \in T : \A y \in T : x <= y
<1> DEFINE R == OpToRel(<, Nat)
<1>1. IsWellFoundedOn(R, Nat)  BY NatLessThanWellFounded
<1>2. \A x, y \in Nat : <<y, x>> \in R <=> y < x  BY DEF OpToRel
<1> HIDE DEF R
<1>3. PICK x \in T : \A y \in T : ~ (<<y, x>> \in R)  BY <1>1, WFMin
<1>4. ASSUME NEW y \in T PROVE x <= y
  <2>1. ~ (y < x) /\ x \in Nat /\ y \in Nat  BY <1>2, <1>3
  <2> QED  BY <2>1
<1> QED  BY <1>4

(* ... and one of numbers up to n has a greatest one.                      *)
LEMMA GreatestOf ==
  ASSUME NEW n \in Nat, NEW T, T \subseteq 1..n, T # {}
  PROVE  \E x \in T : \A y \in T : y <= x
<1> DEFINE U == {n - x : x \in T}
<1>1. U \subseteq Nat /\ U # {}
  <2>1. \A x \in T : n - x \in Nat  OBVIOUS
  <2> QED  BY <2>1
<1>2. PICK u \in U : \A y \in U : u <= y  BY <1>1, LeastOf
<1>3. PICK x \in T : u = n - x  BY <1>2
<1>4. \A y \in T : n - x <= n - y  BY <1>2, <1>3
<1>5. \A y \in T : y <= x  BY <1>4
<1> QED  BY <1>5

(* The head and the tail of a sequence, and what is in them.               *)
LEMMA TailIs ==
  ASSUME NEW S, NEW s \in Seq(S), s # <<>>
  PROVE  /\ Head(s) \in S /\ Tail(s) \in Seq(S) /\ Head(s) = s[1] /\ 1 \in 1..Len(s)
         /\ Len(s) \in Nat /\ Len(Tail(s)) = Len(s) - 1
         /\ \A i \in 1..Len(Tail(s)) : i + 1 \in 2..Len(s) /\ Tail(s)[i] = s[i + 1]
         /\ Range(s) = {Head(s)} \cup Range(Tail(s))
<1>1. /\ Head(s) \in S /\ Head(s) = s[1] /\ 1 \in 1..Len(s) /\ Tail(s) \in Seq(S)
      /\ Len(s) \in Nat /\ Len(Tail(s)) = Len(s) - 1
      /\ \A i \in 1..Len(Tail(s)) : i + 1 \in 2..Len(s) /\ Tail(s)[i] = s[i + 1]
      /\ \A j \in 2..Len(s) : j - 1 \in 1..Len(Tail(s)) /\ Tail(s)[j - 1] = s[j]
  OBVIOUS
<1>2. DOMAIN s = 1..Len(s) /\ DOMAIN Tail(s) = 1..Len(Tail(s)) /\ 2..Len(s) \subseteq 1..Len(s)
  BY <1>1
<1>3. {Head(s)} \cup Range(Tail(s)) \subseteq Range(s)  BY <1>1, <1>2 DEF Range
<1>4. ASSUME NEW i \in 1..Len(s) PROVE s[i] \in {Head(s)} \cup Range(Tail(s))
  <2>1. CASE i = 1  BY <1>1, <2>1
  <2>2. CASE i # 1
    <3>1. i \in 2..Len(s)  BY <1>1, <2>2
    <3> QED  BY <1>1, <1>2, <3>1 DEF Range
  <2> QED  BY <2>1, <2>2
<1>5. Range(s) \subseteq {Head(s)} \cup Range(Tail(s))  BY <1>2, <1>4 DEF Range
<1> QED  BY <1>1, <1>3, <1>5

(* An append adds its element, at the end.                                 *)
LEMMA AppendIs ==
  ASSUME NEW S, NEW s \in Seq(S), NEW e \in S
  PROVE  /\ Append(s, e) \in Seq(S) /\ Len(s) \in Nat /\ Len(Append(s, e)) = Len(s) + 1
         /\ \A i \in 1..Len(s) : Append(s, e)[i] = s[i]
         /\ Append(s, e)[Len(s) + 1] = e
         /\ Range(Append(s, e)) = Range(s) \cup {e}
<1> DEFINE t == Append(s, e)
<1>1. /\ t \in Seq(S) /\ Len(s) \in Nat /\ Len(t) = Len(s) + 1 /\ t[Len(s) + 1] = e
      /\ \A i \in 1..Len(s) : i \in 1..Len(t) /\ t[i] = s[i]
  OBVIOUS
<1> HIDE DEF t
<1>2. DOMAIN s = 1..Len(s) /\ DOMAIN t = 1..Len(t)  BY <1>1
<1>3. Len(s) + 1 \in 1..Len(t)  BY <1>1
<1>4. Range(s) \cup {e} \subseteq Range(t)  BY <1>1, <1>2, <1>3 DEF Range
<1>5. ASSUME NEW i \in 1..Len(t) PROVE t[i] \in Range(s) \cup {e}
  <2>1. i \in 1..Len(s) \/ i = Len(s) + 1  BY <1>1
  <2> QED  BY <1>1, <1>2, <2>1 DEF Range
<1>6. Range(t) \subseteq Range(s) \cup {e}  BY <1>2, <1>5 DEF Range
<1>7. Range(t) = Range(s) \cup {e}  BY <1>4, <1>6
<1> QED  BY <1>1, <1>7 DEF t

(* What two sequences hold, one after the other.                           *)
LEMMA JoinIs ==
  ASSUME NEW S, NEW a \in Seq(S), NEW b \in Seq(S)
  PROVE  a \o b \in Seq(S) /\ Range(a \o b) = Range(a) \cup Range(b)
<1> DEFINE t == a \o b
<1>1. /\ t \in Seq(S) /\ Len(t) = Len(a) + Len(b) /\ Len(a) \in Nat /\ Len(b) \in Nat
      /\ \A i \in 1..Len(a) + Len(b) : t[i] = IF i <= Len(a) THEN a[i] ELSE b[i - Len(a)]
  BY ConcatProperties
<1> HIDE DEF t
<1>2. DOMAIN a = 1..Len(a) /\ DOMAIN b = 1..Len(b)  OBVIOUS
<1>3. DOMAIN t = 1..Len(t)  BY <1>1
<1>4. ASSUME NEW i \in 1..Len(t) PROVE t[i] \in Range(a) \cup Range(b)
  <2>1. CASE i <= Len(a)
    <3>1. i \in 1..Len(a) /\ t[i] = a[i]  BY <1>1, <2>1
    <3> QED  BY <1>2, <3>1 DEF Range
  <2>2. CASE ~(i <= Len(a))
    <3>1. i - Len(a) \in 1..Len(b) /\ t[i] = b[i - Len(a)]  BY <1>1, <2>2
    <3> QED  BY <1>2, <3>1 DEF Range
  <2> QED  BY <2>1, <2>2
<1>5. ASSUME NEW i \in 1..Len(a) PROVE a[i] \in Range(t)
  <2>1. i \in 1..Len(t) /\ t[i] = a[i]  BY <1>1
  <2> QED  BY <1>3, <2>1 DEF Range
<1>6. ASSUME NEW i \in 1..Len(b) PROVE b[i] \in Range(t)
  <2>1. /\ i + Len(a) \in 1..Len(t) /\ ~(i + Len(a) <= Len(a))
        /\ i + Len(a) - Len(a) = i
    BY <1>1
  <2>2. t[i + Len(a)] = b[i]  BY <1>1, <2>1
  <2> QED  BY <1>3, <2>1, <2>2 DEF Range
<1>7. Range(t) = Range(a) \cup Range(b)
  BY <1>2, <1>3, <1>4, <1>5, <1>6 DEF Range
<1> QED  BY <1>1, <1>7 DEF t

(* A finite set put in some order: the sequence holds every element.       *)
LEMMA OrderIs ==
  ASSUME NEW S, IsFiniteSet(S), NEW o \in SetToSeqs(S)
  PROVE  o \in Seq(S) /\ Range(o) = S
<1> DEFINE D == 1..Cardinality(S)
<1>1. o \in [D -> S] /\ \A i, j \in D : i # j => o[i] # o[j]  BY DEF SetToSeqs
<1>2. Cardinality(S) \in Nat  BY FS_CardinalityType
<1>3. Cardinality(D) = Cardinality(S) /\ IsFiniteSet(D)
  <2>1. 1 \in Int /\ Cardinality(S) \in Int  BY <1>2
  <2>2. Cardinality(D) = IF 1 > Cardinality(S) THEN 0 ELSE Cardinality(S) - 1 + 1
    BY <2>1, FS_Interval
  <2> QED  BY <1>2, <2>1, <2>2, FS_Interval
<1> HIDE DEF D
<1>4. o \in Injection(D, S)  BY <1>1 DEF Injection, IsInjective
<1>5. o \in Surjection(D, S)  BY <1>3, <1>4, FS_Injection
<1>6. \A y \in S : \E x \in D : o[x] = y  BY <1>5 DEF Surjection
<1>7. Range(o) = S  BY <1>1, <1>6 DEF Range
<1>8. o \in Seq(S)
  <2>1. o \in [1..Cardinality(S) -> S]  BY <1>1 DEF D
  <2> QED  BY <1>2, <2>1
<1> QED  BY <1>7, <1>8

(* The last m events of a set: some, if it has any, and no other is later. *)
LEMMA LastOfIs ==
  ASSUME NEW m \in Nat \ {0}, NEW n \in Nat, NEW E, E \subseteq 1..n
  PROVE  /\ LastOf(m, E) \subseteq E
         /\ E # {} => LastOf(m, E) # {}
         /\ \A e \in E \ LastOf(m, E), d \in LastOf(m, E) : e < d
<1> DEFINE Later(e) == {f \in E : f > e}
<1>1. IsFiniteSet(E)
  <2>1. 1 \in Int /\ n \in Int /\ E \in SUBSET (1..n)  OBVIOUS
  <2> QED  BY <2>1, FS_Interval, FS_Subset
<1>2. \A e \in E : IsFiniteSet(Later(e)) /\ Cardinality(Later(e)) \in Nat
  <2>1. \A e \in E : Later(e) \in SUBSET E  OBVIOUS
  <2> QED  BY <1>1, <2>1, FS_Subset, FS_CardinalityType
<1>3. LastOf(m, E) = {e \in E : Cardinality(Later(e)) < m}  BY DEF LastOf
<1> HIDE DEF Later
<1>4. ASSUME E # {} PROVE LastOf(m, E) # {}
  <2>1. PICK x \in E : \A y \in E : y <= x  BY <1>4, GreatestOf
  <2>2. Later(x) = {}
    <3>1. \A y \in E : ~ (y > x)  BY <2>1
    <3> QED  BY <3>1 DEF Later
  <2>3. Cardinality(Later(x)) < m  BY <2>2, FS_EmptySet
  <2> QED  BY <1>3, <2>3
<1>5. ASSUME NEW e \in E \ LastOf(m, E), NEW d \in LastOf(m, E), ~(e < d)
      PROVE  FALSE
  <2>0. d \in E /\ e \in 1..n  BY <1>3
  <2>1. e \in Nat /\ d \in Nat /\ d \in E /\ d <= e  BY <1>5, <2>0
  <2>2. Later(e) \in SUBSET Later(d)
    <3>1. \A f \in E : f > e => f > d  BY <2>1
    <3> QED  BY <3>1 DEF Later
  <2>3. Cardinality(Later(e)) <= Cardinality(Later(d))  BY <1>2, <2>1, <2>2, FS_Subset
  <2>4. Cardinality(Later(d)) < m /\ ~(Cardinality(Later(e)) < m)  BY <1>3
  <2> QED  BY <1>2, <2>1, <2>3, <2>4
<1> QED  BY <1>3, <1>4, <1>5

(* The oldest event of a set is in it.                                     *)
LEMMA OldestIs ==
  ASSUME NEW n \in Nat, NEW E, E \subseteq 1..n, E # {}
  PROVE  Oldest(E) \in E /\ \A f \in E : Oldest(E) <= f
<1>1. \E x \in E : \A y \in E : x <= y
  <2>1. E \subseteq Nat  OBVIOUS
  <2> QED  BY <2>1, LeastOf
<1> QED  BY <1>1 DEF Oldest

-----------------------------------------------------------------------------
(* Types.  Each part says of some of the variables what the others rely on:*)
(* how far positions go, who holds a task, whose write is under way.       *)

TasksTo(n) == [room : Rooms, token : 0 .. n]
ItemsTo(n) == [room : Rooms, event : 1 .. n]
AnswersTo(n) == [chunk : SUBSET (1 .. n), end : 0 .. n]
WritesTo(n) == [by : {"sync", "fetcher"}, items : SUBSET ItemsTo(n)]

Clock == /\ timeline \in Seq(Rooms) /\ token \in Nat /\ next_batch \in Nat
         /\ token <= next_batch /\ next_batch <= Newest /\ Newest <= MaxEvents

SyncInv == /\ synced \in BOOLEAN /\ sync \in {"idle", "received", "writing", "written"}
           /\ last_sync_token \in {NoToken, token}
           /\ sync = "idle" => next_batch = token
           /\ limited \subseteq TasksTo(next_batch) /\ IsFiniteSet(limited)

Hand == IF fetcher = "waiting" THEN in_hand = {}
                               ELSE \E t \in TasksTo(token) : in_hand = {t}

FetchInv == /\ tasks \subseteq TasksTo(token) /\ IsFiniteSet(tasks)
            /\ fetch_queue \in Seq(TasksTo(token))
            /\ fetcher \in {"waiting", "fetching", "writing", "written", "dead"}
            /\ Hand /\ response \subseteq AnswersTo(token)

IndexInv == /\ stored \subseteq searchable /\ searchable \subseteq ItemsTo(Newest)
            /\ event_queue \subseteq ItemsTo(next_batch)
            /\ writes \in Seq(WritesTo(next_batch))

\* A loop waits for its write, and has one at a time.
Writers == /\ \A i, j \in 1 .. Len(writes) : writes[i].by = writes[j].by => i = j
           /\ \A i \in 1 .. Len(writes) : /\ writes[i].by = "sync" => sync = "writing"
                                          /\ writes[i].by = "fetcher" => fetcher = "writing"

Counts == lost \subseteq 1 .. Newest /\ faults \in 0 .. MaxFaults

TypeInv == Clock /\ SyncInv /\ FetchInv /\ IndexInv /\ Writers /\ Counts

(* A bound on positions may be raised.                                     *)
LEMMA Raise ==
  ASSUME NEW n \in Nat, NEW m \in Nat, n <= m
  PROVE  /\ TasksTo(n) \subseteq TasksTo(m) /\ ItemsTo(n) \subseteq ItemsTo(m)
         /\ AnswersTo(n) \subseteq AnswersTo(m)
         /\ Seq(TasksTo(n)) \subseteq Seq(TasksTo(m))
         /\ Seq(WritesTo(n)) \subseteq Seq(WritesTo(m))
<1>1. 0 .. n \subseteq 0 .. m /\ 1 .. n \subseteq 1 .. m  OBVIOUS
<1>2. TasksTo(n) \subseteq TasksTo(m)  BY <1>1 DEF TasksTo
<1>3. ItemsTo(n) \subseteq ItemsTo(m)  BY <1>1 DEF ItemsTo
<1>4. AnswersTo(n) \subseteq AnswersTo(m)  BY <1>1 DEF AnswersTo
<1>5. WritesTo(n) \subseteq WritesTo(m)  BY <1>3 DEF WritesTo
<1>6. \A s \in Seq(TasksTo(n)) : s \in Seq(TasksTo(m))  BY <1>2
<1>7. \A s \in Seq(WritesTo(n)) : s \in Seq(WritesTo(m))  BY <1>5
<1> QED  BY <1>2, <1>3, <1>4, <1>6, <1>7

(* The types the module states follow.                                     *)
LEMMA TypesHold == TypeInv => TypeOK
<1> SUFFICES ASSUME TypeInv PROVE TypeOK
  OBVIOUS
<1>1. Newest \in Nat /\ MaxEvents \in Nat /\ Newest <= MaxEvents /\ next_batch <= MaxEvents
      /\ token <= MaxEvents /\ token \in Nat /\ next_batch \in Nat
  BY EventsAssumption DEF TypeInv, Clock, Newest
<1>2. /\ TasksTo(token) \subseteq TasksTo(MaxEvents)
      /\ TasksTo(next_batch) \subseteq TasksTo(MaxEvents)
      /\ Seq(TasksTo(token)) \subseteq Seq(TasksTo(MaxEvents))
      /\ ItemsTo(Newest) \subseteq ItemsTo(MaxEvents)
      /\ ItemsTo(next_batch) \subseteq ItemsTo(MaxEvents)
  BY <1>1, Raise
<1>3. Tasks = TasksTo(MaxEvents) /\ Items = ItemsTo(MaxEvents)
  BY DEF Tasks, TasksTo, Items, ItemsTo
<1>4. in_hand \subseteq TasksTo(token) /\ Cardinality(in_hand) = (IF fetcher = "waiting" THEN 0 ELSE 1)
  BY FS_EmptySet, FS_Singleton DEF TypeInv, FetchInv, Hand
<1>5. timeline \in Seq(Rooms) /\ token \in 0 .. MaxEvents /\ next_batch \in 0 .. MaxEvents
      /\ token <= next_batch
  BY <1>1 DEF TypeInv, Clock
<1>6. lost \subseteq 1 .. MaxEvents /\ faults \in 0 .. MaxFaults
  BY <1>1 DEF TypeInv, Counts
<1>7. last_sync_token \in 0 .. MaxEvents \cup {NoToken}  BY <1>5 DEF TypeInv, SyncInv
<1>8. tasks \subseteq Tasks /\ limited \subseteq Tasks /\ in_hand \subseteq Tasks
      /\ fetch_queue \in Seq(Tasks)
  BY <1>2, <1>3, <1>4 DEF TypeInv, SyncInv, FetchInv
<1>9. stored \subseteq Items /\ searchable \subseteq Items /\ event_queue \subseteq Items
  BY <1>2, <1>3 DEF TypeInv, IndexInv
<1> QED  BY <1>1, <1>4, <1>5, <1>6, <1>7, <1>8, <1>9 DEF TypeInv, SyncInv, FetchInv, TypeOK

(* The initial state.                                                      *)
LEMMA TypeInit == Init => TypeInv
<1> SUFFICES ASSUME Init PROVE TypeInv
  OBVIOUS
<1>1. <<>> \in Seq(Rooms) /\ <<>> \in Seq(TasksTo(0)) /\ <<>> \in Seq(WritesTo(0)) /\ Len(<<>>) = 0
  OBVIOUS
<1>2. 1 .. Len(<<>>) = {}  BY <1>1
<1>3. Clock  BY <1>1, EventsAssumption DEF Init, Clock, Newest
<1>4. SyncInv  BY FS_EmptySet DEF Init, SyncInv
<1>5. FetchInv  BY <1>1, FS_EmptySet DEF Init, FetchInv, Hand
<1>6. IndexInv  BY <1>1 DEF Init, IndexInv
<1>7. Writers  BY <1>2 DEF Init, Writers
<1>8. Counts  BY SizesAssumption DEF Init, Counts
<1> QED  BY <1>3, <1>4, <1>5, <1>6, <1>7, <1>8 DEF TypeInv

-----------------------------------------------------------------------------
(* What the actions with a nested definition do, in terms of their own.    *)

(* A new event is the newest, the others stay where they are.              *)
LEMMA NewEventIs ==
  ASSUME Clock, NEW r \in Rooms, NewEvent(r)
  PROVE  /\ timeline' \in Seq(Rooms) /\ Newest \in Nat /\ Newest' = Newest + 1
         /\ Newest' <= MaxEvents
         /\ \A e \in 1 .. Newest : timeline'[e] = timeline[e]
BY EventsAssumption DEF Clock, NewEvent, Newest

(* The positions there are.                                                *)
LEMMA Positions ==
  ASSUME Clock
  PROVE  /\ Newest \in Nat /\ token \in Nat /\ next_batch \in Nat
         /\ token <= next_batch /\ next_batch <= Newest /\ token <= Newest
         /\ \A r : EventsOf(r) \subseteq 1 .. Newest
         /\ \A e \in 1 .. Newest : timeline[e] \in Rooms /\ e \in EventsOf(timeline[e])
         /\ 0 .. token \subseteq 0 .. next_batch /\ 1 .. token \subseteq 1 .. Newest
         /\ 1 .. next_batch \subseteq 1 .. Newest
<1>1. /\ Newest \in Nat /\ token \in Nat /\ next_batch \in Nat
      /\ token <= next_batch /\ next_batch <= Newest
  BY DEF Clock, Newest
<1>2. \A e \in 1 .. Newest : timeline[e] \in Rooms  BY DEF Clock, Newest
<1> QED  BY <1>1, <1>2 DEF EventsOf

(* The answer of room_messages: the last events of the room up to the      *)
(* token, with none left out before its end.                               *)
LEMMA AnswerIs ==
  ASSUME Clock, NEW t \in TasksTo(token)
  PROVE  LET a == Answer(t) IN
         /\ a \in AnswersTo(token)
         /\ a.chunk \subseteq EventsOf(t.room) /\ \A e \in a.chunk : e <= t.token
         /\ a.chunk = {} => \A e \in EventsOf(t.room) : ~(e <= t.token)
         /\ a.chunk # {} =>
              /\ a.end + 1 \in a.chunk /\ a.end <= t.token /\ \A e \in a.chunk : a.end < e
              /\ \A e \in EventsOf(t.room) : a.end < e /\ e <= t.token => e \in a.chunk
<1> DEFINE E == {e \in EventsOf(t.room) : e <= t.token}
           chunk == LastOf(BatchSize, E)
           end == IF chunk = {} THEN 0 ELSE Oldest(chunk) - 1
<1>1. E \subseteq 1 .. Newest /\ Newest \in Nat /\ token \in Nat /\ t.token \in 0 .. token
      /\ E \subseteq 1 .. token
  BY Positions DEF TasksTo
<1>2. Answer(t) = [chunk |-> chunk, end |-> end]  BY DEF Answer
<1>3. \A e \in EventsOf(t.room) : e <= t.token <=> e \in E  OBVIOUS
<1>4. E \subseteq EventsOf(t.room) /\ \A e \in E : e <= t.token  OBVIOUS
<1>5. EventsOf(t.room) \subseteq 1 .. Newest  BY Positions
<1> HIDE DEF E
<1>6. /\ chunk \subseteq E /\ (E # {} => chunk # {})
      /\ \A e \in E \ chunk, d \in chunk : e < d
  BY <1>1, LastOfIs, SizesAssumption
<1> HIDE DEF chunk
<1>7. chunk # {} => Oldest(chunk) \in chunk /\ \A f \in chunk : Oldest(chunk) <= f
  <2>1. chunk \subseteq 1 .. Newest  BY <1>1, <1>6
  <2> QED  BY <1>1, <2>1, OldestIs
<1>8. chunk # {} => /\ end \in 0 .. token /\ end + 1 = Oldest(chunk) /\ end <= t.token
                    /\ \A e \in chunk : end < e
  <2> SUFFICES ASSUME chunk # {} PROVE /\ end \in 0 .. token /\ end + 1 = Oldest(chunk)
                                       /\ end <= t.token /\ \A e \in chunk : end < e
    OBVIOUS
  <2>1. Oldest(chunk) \in 1 .. token /\ Oldest(chunk) <= t.token  BY <1>1, <1>4, <1>6, <1>7
  <2>2. end = Oldest(chunk) - 1  OBVIOUS
  <2>3. \A e \in chunk : e \in Nat /\ Oldest(chunk) <= e  BY <1>1, <1>6, <1>7
  <2> HIDE DEF end
  <2> QED  BY <1>1, <2>1, <2>2, <2>3
<1>9. chunk # {} => \A e \in EventsOf(t.room) : end < e /\ e <= t.token => e \in chunk
  <2> SUFFICES ASSUME chunk # {}, NEW e \in EventsOf(t.room), end < e, e <= t.token, e \notin chunk
               PROVE  FALSE
    OBVIOUS
  <2>1. e \in E \ chunk  BY <1>3
  <2>2. e < Oldest(chunk) /\ e \in Nat  BY <1>5, <1>6, <1>7, <2>1
  <2>3. end + 1 = Oldest(chunk) /\ end \in Nat  BY <1>8, <1>1
  <2> HIDE DEF end
  <2> QED  BY <2>2, <2>3
<1>10. end \in 0 .. token  BY <1>1, <1>8
<1> HIDE DEF end
<1>11. Answer(t) \in AnswersTo(token)  BY <1>1, <1>2, <1>6, <1>10 DEF AnswersTo
<1>12. chunk = {} => \A e \in EventsOf(t.room) : ~(e <= t.token)  BY <1>3, <1>6
<1>13. chunk # {} => end + 1 \in chunk  BY <1>7, <1>8
<1>14. chunk \subseteq EventsOf(t.room) /\ \A e \in chunk : e <= t.token  BY <1>4, <1>6
<1>15. Answer(t).chunk = chunk /\ Answer(t).end = end  BY <1>2
<1> QED  BY <1>8, <1>9, <1>11, <1>12, <1>13, <1>14, <1>15

\* What the next response of a sync has of a room, and what it delivers.
Fresh(r) == {e \in EventsOf(r) : e > next_batch}
Delivered(r) == LastOf(Limit, Fresh(r))
CutOff == {r \in Rooms : Delivered(r) # Fresh(r)}

(* A sync response in these terms.                                         *)
LEMMA SyncReturnsIs ==
  ASSUME SyncReturns
  PROVE  /\ sync = "idle" /\ sync' = "received" /\ next_batch' = Newest /\ synced' = TRUE
         /\ limited' = {Task(r, Oldest(Delivered(r)) - 1) : r \in CutOff}
         /\ event_queue' = event_queue \cup
              UNION {{Filed(r, e) : e \in Delivered(r) \cap Messages} : r \in Rooms}
         /\ UNCHANGED <<homeserver, disk, last_sync_token, writes, fetching, lost, faults>>
BY DEF SyncReturns, Fresh, Delivered, CutOff

(* What is delivered are the newest of the fresh events.                   *)
LEMMA DeliveredIs ==
  ASSUME Clock, NEW r
  PROVE  /\ Delivered(r) \subseteq Fresh(r) /\ Fresh(r) \subseteq EventsOf(r)
         /\ Fresh(r) \subseteq 1 .. Newest
         /\ \A e \in Fresh(r) : e > next_batch
         /\ \A e \in Fresh(r) \ Delivered(r), d \in Delivered(r) : e < d
         /\ Delivered(r) # Fresh(r) =>
              /\ Oldest(Delivered(r)) \in Delivered(r) /\ Oldest(Delivered(r)) \in 1 .. Newest
              /\ \A e \in Delivered(r) : Oldest(Delivered(r)) <= e
<1>1. Fresh(r) \subseteq EventsOf(r) /\ Fresh(r) \subseteq 1 .. Newest /\ Newest \in Nat
      /\ \A e \in Fresh(r) : e > next_batch
  BY Positions DEF Fresh
<1>2. /\ LastOf(Limit, Fresh(r)) \subseteq Fresh(r)
      /\ Fresh(r) # {} => LastOf(Limit, Fresh(r)) # {}
      /\ \A e \in Fresh(r) \ LastOf(Limit, Fresh(r)), d \in LastOf(Limit, Fresh(r)) : e < d
  BY <1>1, LastOfIs, SizesAssumption
<1>3. /\ Delivered(r) \subseteq Fresh(r)
      /\ Fresh(r) # {} => Delivered(r) # {}
      /\ \A e \in Fresh(r) \ Delivered(r), d \in Delivered(r) : e < d
  BY <1>2 DEF Delivered
<1>4. ASSUME Delivered(r) # Fresh(r)
      PROVE  /\ Oldest(Delivered(r)) \in Delivered(r) /\ Oldest(Delivered(r)) \in 1 .. Newest
             /\ \A e \in Delivered(r) : Oldest(Delivered(r)) <= e
  <2> DEFINE D == Delivered(r)
  <2>1. D \subseteq 1 .. Newest /\ D # {}  BY <1>1, <1>3, <1>4
  <2> HIDE DEF D
  <2>2. Oldest(D) \in D /\ \A e \in D : Oldest(D) <= e  BY <1>1, <2>1, OldestIs
  <2>3. Oldest(D) \in 1 .. Newest  BY <2>1, <2>2
  <2> QED  BY <2>2, <2>3 DEF D
<1> QED  BY <1>1, <1>3, <1>4

(* Finitely many rooms are cut off: each has an event.                     *)
LEMMA CutOffFinite ==
  ASSUME Clock
  PROVE  IsFiniteSet({Task(r, Oldest(Delivered(r)) - 1) : r \in CutOff})
<1> DEFINE F == {e \in 1 .. Newest : timeline[e] \in CutOff}
           T == {Task(r, Oldest(Delivered(r)) - 1) : r \in CutOff}
           f == [e \in F |-> Task(timeline[e], Oldest(Delivered(timeline[e])) - 1)]
<1>1. IsFiniteSet(F)
  <2>1. 1 \in Int /\ Newest \in Int /\ F \in SUBSET (1 .. Newest)  BY Positions
  <2> QED  BY <2>1, FS_Interval, FS_Subset
<1>2. \A r \in CutOff : \E e \in F : timeline[e] = r
  <2> SUFFICES ASSUME NEW r \in CutOff PROVE \E e \in F : timeline[e] = r
    OBVIOUS
  <2>1. Oldest(Delivered(r)) \in EventsOf(r)  BY DeliveredIs DEF CutOff
  <2> QED  BY <2>1 DEF EventsOf
<1>3. f \in [F -> T]  OBVIOUS
<1>4. \A t \in T : \E e \in F : f[e] = t
  <2> SUFFICES ASSUME NEW r \in CutOff
               PROVE  \E e \in F : f[e] = Task(r, Oldest(Delivered(r)) - 1)
    OBVIOUS
  <2>1. PICK e \in F : timeline[e] = r  BY <1>2
  <2> QED  BY <2>1
<1> HIDE DEF f, T, F
<1>5. f \in Surjection(F, T)  BY <1>3, <1>4 DEF Surjection
<1>6. IsFiniteSet(T)  BY <1>1, <1>5, FS_Surjection
<1> QED  BY <1>6 DEF T

(* The tasks for the rooms that were cut off.                              *)
LEMMA LimitedIs ==
  ASSUME Clock, SyncReturns
  PROVE  limited' \subseteq TasksTo(Newest) /\ IsFiniteSet(limited')
<1>1. limited' = {Task(r, Oldest(Delivered(r)) - 1) : r \in CutOff}  BY SyncReturnsIs
<1>2. ASSUME NEW r \in CutOff PROVE Task(r, Oldest(Delivered(r)) - 1) \in TasksTo(Newest)
  <2>1. Oldest(Delivered(r)) \in 1 .. Newest /\ r \in Rooms /\ Newest \in Nat
    BY DeliveredIs, Positions DEF CutOff
  <2>2. Oldest(Delivered(r)) - 1 \in 0 .. Newest  BY <2>1
  <2> QED  BY <2>1, <2>2 DEF Task, TasksTo
<1> QED  BY <1>1, <1>2, CutOffFinite

\* What the three kinds of restart have in common.
Restarted(saved, rows, indexed) ==
  /\ Crash(saved, rows, indexed)
  /\ saved \in Nat /\ token <= saved /\ saved <= next_batch
  /\ rows \subseteq TasksTo(saved) /\ IsFiniteSet(rows)
  /\ stored \subseteq indexed /\ indexed \subseteq ItemsTo(Newest)

(* Each restart finds some saved token, rows and index.                    *)
LEMMA RestartIs ==
  ASSUME TypeInv, Restart \/ RestartInSave \/ RestartInWrite
  PROVE  \E saved, rows, indexed : Restarted(saved, rows, indexed)
<1>1. /\ Newest \in Nat /\ token \in Nat /\ next_batch \in Nat
      /\ token <= next_batch /\ next_batch <= Newest
      /\ TasksTo(token) \subseteq TasksTo(next_batch)
      /\ ItemsTo(next_batch) \subseteq ItemsTo(Newest)
  BY Positions, Raise DEF TypeInv
<1>2. /\ tasks \subseteq TasksTo(token) /\ IsFiniteSet(tasks)
      /\ limited \subseteq TasksTo(next_batch) /\ IsFiniteSet(limited)
      /\ stored \subseteq searchable /\ searchable \subseteq ItemsTo(Newest)
      /\ writes \in Seq(WritesTo(next_batch))
  BY DEF TypeInv, SyncInv, FetchInv, IndexInv
<1>3. CASE Restart
  <2>1. Restarted(token, tasks, searchable)  BY <1>1, <1>2, <1>3 DEF Restart, Restarted
  <2> QED  BY <2>1
<1>4. CASE RestartInSave
  <2>1. PICK some \in SUBSET limited : Crash(next_batch, tasks \cup some, searchable)
    BY <1>4 DEF RestartInSave
  <2>2. IsFiniteSet(tasks \cup some)  BY <1>2, FS_Subset, FS_Union
  <2>3. Restarted(next_batch, tasks \cup some, searchable)
    BY <1>1, <1>2, <2>1, <2>2 DEF Restarted
  <2> QED  BY <2>3
<1>5. CASE RestartInWrite
  <2>1. Head(writes) \in WritesTo(next_batch)  BY <1>2, <1>5, TailIs DEF RestartInWrite
  <2>2. Head(writes).items \subseteq ItemsTo(Newest)  BY <1>1, <2>1 DEF WritesTo
  <2>3. Restarted(token, tasks, searchable \cup Head(writes).items)
    BY <1>1, <1>2, <1>5, <2>2 DEF RestartInWrite, Restarted
  <2> QED  BY <2>3
<1> QED  BY <1>3, <1>4, <1>5

(* Whose writes there are, in terms of the states of the two loops.        *)
LEMMA WritersAre ==
  ASSUME TypeInv, NEW i \in 1 .. Len(writes)
  PROVE  /\ writes[i].by = "sync" => sync = "writing"
         /\ writes[i].by = "fetcher" => fetcher = "writing"
         /\ writes[i].by \in {"sync", "fetcher"}
         /\ \A j \in 1 .. Len(writes) : writes[i].by = writes[j].by => i = j
<1>1. writes \in Seq(WritesTo(next_batch))  BY DEF TypeInv, IndexInv
<1>2. writes[i] \in WritesTo(next_batch)  BY <1>1
<1>3. writes[i].by \in {"sync", "fetcher"}  BY <1>2 DEF WritesTo
<1>4. /\ \A k, j \in 1 .. Len(writes) : writes[k].by = writes[j].by => k = j
      /\ \A k \in 1 .. Len(writes) : /\ writes[k].by = "sync" => sync = "writing"
                                     /\ writes[k].by = "fetcher" => fetcher = "writing"
  BY DEF TypeInv, Writers
<1>5. \A j \in 1 .. Len(writes) : writes[i].by = writes[j].by => i = j  BY <1>4
<1>6. /\ writes[i].by = "sync" => sync = "writing"
      /\ writes[i].by = "fetcher" => fetcher = "writing"
  BY <1>4
<1> QED  BY <1>3, <1>5, <1>6

(* What a round of fetcher_loop keeps, whichever answer it works on.       *)
LEMMA ProcessTyped ==
  ASSUME TypeInv, fetcher = "fetching", NEW t \in TasksTo(token), in_hand = {t},
         NEW a \in AnswersTo(token), NEW q \in Seq(TasksTo(token)), Process(t, a, q),
         token' = token, next_batch' = next_batch
  PROVE  /\ tasks' \subseteq TasksTo(token) /\ IsFiniteSet(tasks')
         /\ fetch_queue' \in Seq(TasksTo(token))
         /\ fetcher' \in {"waiting", "writing"} /\ Hand'
         /\ event_queue' \subseteq ItemsTo(next_batch)
         /\ writes' \in Seq(WritesTo(next_batch))
         /\ \A i, j \in 1 .. Len(writes') : writes'[i].by = writes'[j].by => i = j
         /\ \A i \in 1 .. Len(writes') : /\ writes'[i].by = "sync" => sync = "writing"
                                         /\ writes'[i].by = "fetcher" => fetcher' = "writing"
<1> DEFINE added == event_queue \cup {Filed(t.room, e) : e \in a.chunk \cap Messages}
           next == Task(t.room, a.end)
<1>1. /\ tasks \subseteq TasksTo(token) /\ IsFiniteSet(tasks) /\ token \in Nat
      /\ event_queue \subseteq ItemsTo(next_batch) /\ writes \in Seq(WritesTo(next_batch))
  BY Positions DEF TypeInv, FetchInv, IndexInv
<1>2. next \in TasksTo(token)  BY DEF Task, TasksTo, AnswersTo
<1>3. added \subseteq ItemsTo(next_batch)
  <2>1. t.room \in Rooms /\ \A e \in a.chunk : e \in 1 .. next_batch
    BY Positions DEF TypeInv, TasksTo, AnswersTo
  <2>2. \A e \in a.chunk : Filed(t.room, e) \in ItemsTo(next_batch)
    BY <2>1 DEF Filed, ItemsTo
  <2> QED  BY <1>1, <2>2
<1>4. \A i, j \in 1 .. Len(writes) : writes[i].by = writes[j].by => i = j
  BY DEF TypeInv, Writers
<1>5. \A i \in 1 .. Len(writes) : writes[i].by = "sync" /\ sync = "writing"
  BY WritersAre
<1>6. IsFiniteSet(tasks \ {t}) /\ IsFiniteSet((tasks \ {t}) \cup {next})
  BY <1>1, FS_RemoveElement, FS_AddElement
<1> HIDE DEF added, next
<1>7. CASE a.chunk = {} /\ AtStart(t) /\ fetch_queue' = q
  BY <1>1, <1>4, <1>5, <1>6, <1>7 DEF AtStart, index, Hand
<1>8. CASE event_queue' = added /\ Continue(t, a, q)
  <2>1. /\ tasks' = (tasks \ {t}) \cup {next} /\ fetch_queue' = Append(q, next)
        /\ fetcher' = "waiting" /\ in_hand' = {} /\ writes' = writes
    BY <1>8 DEF Continue, next
  <2>2. fetch_queue' \in Seq(TasksTo(token))  BY <1>2, <2>1, AppendIs
  <2> QED  BY <1>1, <1>2, <1>3, <1>4, <1>5, <1>6, <1>8, <2>1, <2>2 DEF Hand
<1>9. CASE /\ writes' = Append(writes, [by |-> "fetcher", items |-> added])
           /\ event_queue' = {} /\ fetcher' = "writing" /\ fetch_queue' = q
           /\ UNCHANGED <<tasks, in_hand>>
  <2> DEFINE w == [by |-> "fetcher", items |-> added]
  <2>1. w \in WritesTo(next_batch) /\ w.by = "fetcher"  BY <1>3 DEF WritesTo
  <2> HIDE DEF w
  <2>2. writes' = Append(writes, w)  BY <1>9 DEF w
  <2>3. /\ writes' \in Seq(WritesTo(next_batch)) /\ Len(writes) \in Nat
        /\ Len(writes') = Len(writes) + 1
        /\ \A i \in 1 .. Len(writes) : writes'[i] = writes[i]
        /\ writes'[Len(writes) + 1] = w
    BY <1>1, <2>1, <2>2, AppendIs
  <2>4. \A i \in 1 .. Len(writes') : i \in 1 .. Len(writes) \/ i = Len(writes) + 1
    BY <2>3
  <2>5. \A i \in 1 .. Len(writes') : IF i \in 1 .. Len(writes)
                                     THEN writes'[i].by = "sync" /\ writes'[i] = writes[i]
                                     ELSE writes'[i].by = "fetcher" /\ i = Len(writes) + 1
    BY <1>5, <2>1, <2>3, <2>4
  <2>6. ASSUME NEW i \in 1 .. Len(writes'), NEW j \in 1 .. Len(writes'),
               writes'[i].by = writes'[j].by
        PROVE  i = j
    <3>1. i \in 1 .. Len(writes) <=> j \in 1 .. Len(writes)  BY <2>5, <2>6
    <3> QED  BY <1>4, <2>5, <2>6, <3>1
  <2>7. \A i \in 1 .. Len(writes') : writes'[i].by = "sync" => sync = "writing"
    BY <1>5, <2>5
  <2>8. Hand'  BY <1>9 DEF Hand
  <2> QED  BY <1>1, <1>9, <2>3, <2>6, <2>7, <2>8
<1> QED  BY <1>7, <1>8, <1>9 DEF Process, added

-----------------------------------------------------------------------------
(* Every step keeps the types.                                             *)

(* A fetch that returns, or fails, as a round with some answer.            *)
LEMMA FetchIs ==
  ASSUME TypeInv, FetchReturns \/ FetchFails
  PROVE  \/ /\ FetchFails /\ response = {} /\ fetcher' = "dead"
            /\ \E t \in TasksTo(token) : in_hand = {t} /\ fetch_queue' = Append(fetch_queue, t)
            /\ UNCHANGED <<tasks, in_hand, index, response>>
         \/ \E t \in TasksTo(token), a \in AnswersTo(token), q \in Seq(TasksTo(token)) :
              /\ in_hand = {t} /\ fetcher = "fetching" /\ Process(t, a, q)
              /\ \/ FetchReturns /\ a = Answer(t) /\ q = fetch_queue /\ response' = {a}
                 \/ /\ FetchFails /\ a \in response /\ q = Append(fetch_queue, t)
                    /\ response' = response
<1>1. PICK t \in TasksTo(token) : in_hand = {t}
  BY DEF TypeInv, FetchInv, Hand, FetchReturns, FetchFails
<1>2. fetch_queue \in Seq(TasksTo(token)) /\ Append(fetch_queue, t) \in Seq(TasksTo(token))
  BY AppendIs DEF TypeInv, FetchInv
<1>3. CASE FetchReturns
  <2>1. Answer(t) \in AnswersTo(token)  BY AnswerIs DEF TypeInv
  <2>2. /\ fetcher = "fetching" /\ Process(t, Answer(t), fetch_queue)
        /\ response' = {Answer(t)}
    BY <1>1, <1>3 DEF FetchReturns
  <2> QED  BY <1>1, <1>2, <1>3, <2>1, <2>2
<1>4. CASE FetchFails
  <2>0. fetcher = "fetching" /\ response' = response  BY <1>4 DEF FetchFails
  <2>1. CASE /\ response = {} /\ fetcher' = "dead" /\ fetch_queue' = Append(fetch_queue, t)
             /\ UNCHANGED <<tasks, in_hand, index>>
    BY <1>1, <1>4, <2>0, <2>1
  <2>2. CASE \E a \in response : Process(t, a, Append(fetch_queue, t))
    <3>1. PICK a \in response : Process(t, a, Append(fetch_queue, t))  BY <2>2
    <3>2. a \in AnswersTo(token)  BY DEF TypeInv, FetchInv
    <3> QED  BY <1>1, <1>2, <1>4, <2>0, <3>1, <3>2
  <2>3. \/ /\ response = {} /\ fetcher' = "dead" /\ fetch_queue' = Append(fetch_queue, t)
           /\ UNCHANGED <<tasks, in_hand, index>>
        \/ \E a \in response : Process(t, a, Append(fetch_queue, t))
    BY <1>1, <1>4 DEF FetchFails
  <2> QED  BY <2>1, <2>2, <2>3
<1> QED  BY <1>3, <1>4

(* The parts of the types, for steps that leave their variables alone.     *)
LEMMA ClockKept ==
  ASSUME Clock, UNCHANGED <<timeline, token, next_batch>>
  PROVE  Clock'
BY DEF Clock, Newest

(* The sync loop's part.                                                   *)
LEMMA SyncKept ==
  ASSUME SyncInv, UNCHANGED <<syncing, token>>
  PROVE  SyncInv'
BY DEF SyncInv, syncing

(* fetcher_loop's part.                                                    *)
LEMMA FetchKept ==
  ASSUME FetchInv, UNCHANGED <<fetching, tasks, token>>
  PROVE  FetchInv'
BY DEF FetchInv, Hand, fetching

(* The index's part.                                                       *)
LEMMA IndexKept ==
  ASSUME IndexInv, UNCHANGED <<index, stored, searchable, timeline, next_batch>>
  PROVE  IndexInv'
BY DEF IndexInv, Newest, index

(* Who waits for a write.                                                  *)
LEMMA WritersKept ==
  ASSUME Writers, UNCHANGED <<writes, sync, fetcher>>
  PROVE  Writers'
BY DEF Writers

(* The variables of the properties.                                        *)
LEMMA CountsKept ==
  ASSUME Counts, UNCHANGED <<lost, faults, timeline>>
  PROVE  Counts'
BY DEF Counts, Newest

(* A write that returns.                                                   *)
LEMMA WriteTyped ==
  ASSUME TypeInv, WriteReturns
  PROVE  TypeInv'
<1>1. /\ UNCHANGED <<timeline, token, next_batch, tasks, synced, last_sync_token, limited>>
      /\ UNCHANGED <<event_queue, fetch_queue, in_hand, response, lost, faults>>
      /\ writes' = Tail(writes) /\ writes # <<>>
      /\ stored' = stored \cup Head(writes).items
      /\ searchable' = searchable \cup Head(writes).items
      /\ IF Head(writes).by = "sync"
         THEN sync' = "written" /\ UNCHANGED fetcher
         ELSE fetcher' = "written" /\ UNCHANGED sync
  BY DEF WriteReturns, homeserver
<1>2. Clock'  BY <1>1, ClockKept DEF TypeInv
<1>3. Counts'  BY <1>1, CountsKept DEF TypeInv
<1>4. writes \in Seq(WritesTo(next_batch))  BY DEF TypeInv, IndexInv
<1>5. /\ Head(writes) \in WritesTo(next_batch) /\ Head(writes) = writes[1] /\ 1 \in 1 .. Len(writes)
      /\ writes' \in Seq(WritesTo(next_batch))
      /\ Len(writes) \in Nat /\ Len(writes') = Len(writes) - 1
      /\ \A i \in 1 .. Len(writes') : i + 1 \in 2 .. Len(writes) /\ writes'[i] = writes[i + 1]
  BY <1>1, <1>4, TailIs
<1>6. ItemsTo(next_batch) \subseteq ItemsTo(Newest)  BY Positions, Raise DEF TypeInv
<1>7. Newest' = Newest  BY <1>1 DEF Newest
<1>8. IndexInv'
  <2>1. Head(writes).items \subseteq ItemsTo(Newest)  BY <1>5, <1>6 DEF WritesTo
  <2> QED  BY <1>1, <1>5, <1>7, <2>1 DEF TypeInv, IndexInv
<1>9. SyncInv'
  BY <1>1 DEF TypeInv, SyncInv
<1>10. Head(writes).by \in {"sync", "fetcher"}  BY <1>5 DEF WritesTo
<1>11. Head(writes).by = "fetcher" => fetcher = "writing"  BY <1>5 DEF TypeInv, Writers
<1>12. FetchInv'
  BY <1>1, <1>10, <1>11 DEF TypeInv, FetchInv, Hand
<1>13. Writers'
  <2> SUFFICES /\ \A i, j \in 1 .. Len(writes') : writes'[i].by = writes'[j].by => i = j
               /\ \A i \in 1 .. Len(writes') : /\ writes'[i].by = "sync" => sync' = "writing"
                                               /\ writes'[i].by = "fetcher" => fetcher' = "writing"
    BY DEF Writers
  <2>1. ASSUME NEW i \in 1 .. Len(writes'), NEW j \in 1 .. Len(writes'),
               writes'[i].by = writes'[j].by
        PROVE  i = j
    <3>1. i + 1 \in 1 .. Len(writes) /\ j + 1 \in 1 .. Len(writes)  BY <1>5
    <3>2. i + 1 = j + 1  BY <1>5, <2>1, <3>1 DEF TypeInv, Writers
    <3> QED  BY <1>5, <3>2
  <2>2. ASSUME NEW i \in 1 .. Len(writes') PROVE writes'[i].by # Head(writes).by
    <3>1. i + 1 \in 1 .. Len(writes) /\ i + 1 # 1  BY <1>5
    <3> QED  BY <1>5, <3>1 DEF TypeInv, Writers
  <2>3. ASSUME NEW i \in 1 .. Len(writes')
        PROVE  /\ writes'[i].by = "sync" => sync = "writing"
               /\ writes'[i].by = "fetcher" => fetcher = "writing"
    <3>1. i + 1 \in 1 .. Len(writes)  BY <1>5
    <3> QED  BY <1>5, <3>1, WritersAre
  <2> QED  BY <1>1, <1>10, <2>1, <2>2, <2>3
<1> QED  BY <1>2, <1>3, <1>8, <1>9, <1>12, <1>13 DEF TypeInv

(* The steps of the sync loop.                                             *)
LEMMA SyncTyped ==
  ASSUME TypeInv, SyncLoop
  PROVE  TypeInv'
<1>0. /\ Newest \in Nat /\ token \in Nat /\ next_batch \in Nat
      /\ token <= next_batch /\ next_batch <= Newest
      /\ TasksTo(token) \subseteq TasksTo(next_batch)
      /\ AnswersTo(token) \subseteq AnswersTo(next_batch)
      /\ Seq(TasksTo(token)) \subseteq Seq(TasksTo(next_batch))
      /\ ItemsTo(next_batch) \subseteq ItemsTo(Newest)
      /\ Seq(WritesTo(next_batch)) \subseteq Seq(WritesTo(Newest))
  BY Positions, Raise DEF TypeInv
<1>1. CASE SyncReturns
  <2>1. /\ sync = "idle" /\ sync' = "received" /\ next_batch' = Newest /\ synced' = TRUE
        /\ event_queue' = event_queue \cup
              UNION {{Filed(r, e) : e \in Delivered(r) \cap Messages} : r \in Rooms}
        /\ UNCHANGED <<homeserver, disk, last_sync_token, writes, fetching, lost, faults>>
    BY <1>1, SyncReturnsIs
  <2>2. limited' \subseteq TasksTo(Newest) /\ IsFiniteSet(limited')
    BY <1>1, LimitedIs DEF TypeInv
  <2>3. Newest' = Newest  BY <2>1 DEF homeserver, Newest
  <2>4. Clock'
    <3>1. Newest <= Newest /\ token <= Newest  BY <1>0
    <3> QED  BY <1>0, <2>1, <2>3, <3>1 DEF TypeInv, Clock, homeserver, disk
  <2>5. SyncInv'  BY <2>1, <2>2 DEF TypeInv, SyncInv, disk
  <2>6. FetchInv'  BY <2>1, FetchKept DEF TypeInv, disk
  <2>7. IndexInv'
    <3>1. ASSUME NEW r \in Rooms, NEW e \in Delivered(r) PROVE Filed(r, e) \in ItemsTo(Newest)
      <4>1. e \in 1 .. Newest  BY DeliveredIs DEF TypeInv
      <4> QED  BY <4>1 DEF Filed, ItemsTo
    <3>2. event_queue' \subseteq ItemsTo(Newest)
      BY <1>0, <2>1, <3>1 DEF TypeInv, IndexInv
    <3> QED  BY <1>0, <2>1, <2>3, <3>2 DEF TypeInv, IndexInv, disk
  <2>8. Writers'
    <3>1. \A i \in 1 .. Len(writes) : writes[i].by # "sync"  BY <2>1, WritersAre
    <3> QED  BY <2>1, <3>1 DEF TypeInv, Writers, fetching
  <2>9. Counts'  BY <2>1, CountsKept DEF TypeInv, homeserver
  <2> QED  BY <2>4, <2>5, <2>6, <2>7, <2>8, <2>9 DEF TypeInv
<1>2. CASE SyncCommits
  <2>1. /\ sync = "received" /\ sync' = "writing" /\ event_queue' = {}
        /\ writes' = Append(writes, [by |-> "sync", items |-> event_queue])
        /\ UNCHANGED <<timeline, disk, next_batch, synced, last_sync_token, limited, fetching>>
        /\ UNCHANGED <<lost, faults>>
    BY <1>2 DEF SyncCommits, Commit, homeserver
  <2> DEFINE w == [by |-> "sync", items |-> event_queue]
  <2>2. w \in WritesTo(next_batch) /\ w.by = "sync"
    BY DEF WritesTo, TypeInv, IndexInv
  <2> HIDE DEF w
  <2>3. writes' = Append(writes, w) /\ writes \in Seq(WritesTo(next_batch))
    BY <2>1 DEF w, TypeInv, IndexInv
  <2>4. /\ writes' \in Seq(WritesTo(next_batch)) /\ Len(writes) \in Nat
        /\ Len(writes') = Len(writes) + 1
        /\ \A i \in 1 .. Len(writes) : writes'[i] = writes[i]
        /\ writes'[Len(writes) + 1] = w
    BY <2>2, <2>3, AppendIs
  <2>5. \A i \in 1 .. Len(writes') : i \in 1 .. Len(writes) \/ i = Len(writes) + 1
    BY <2>4
  <2>6. \A i \in 1 .. Len(writes) : /\ writes[i].by # "sync"
                                    /\ writes[i].by = "fetcher" => fetcher = "writing"
    BY <2>1, WritersAre
  <2>7. ASSUME NEW i \in 1 .. Len(writes'), NEW j \in 1 .. Len(writes'),
               writes'[i].by = writes'[j].by
        PROVE  i = j
    <3>1. CASE i \in 1 .. Len(writes) /\ j \in 1 .. Len(writes)
      BY <2>4, <2>7, <3>1 DEF TypeInv, Writers
    <3>2. CASE ~(i \in 1 .. Len(writes) /\ j \in 1 .. Len(writes))
      <4>1. i \in 1 .. Len(writes) => writes'[i].by # "sync"  BY <2>4, <2>6
      <4>2. j \in 1 .. Len(writes) => writes'[j].by # "sync"  BY <2>4, <2>6
      <4>3. i = Len(writes) + 1 => writes'[i].by = "sync"  BY <2>2, <2>4
      <4>4. j = Len(writes) + 1 => writes'[j].by = "sync"  BY <2>2, <2>4
      <4> QED  BY <2>5, <2>7, <3>2, <4>1, <4>2, <4>3, <4>4
    <3> QED  BY <3>1, <3>2
  <2>8. ASSUME NEW i \in 1 .. Len(writes')
        PROVE  /\ writes'[i].by = "sync" => sync' = "writing"
               /\ writes'[i].by = "fetcher" => fetcher' = "writing"
    <3>1. CASE i \in 1 .. Len(writes)  BY <2>1, <2>4, <2>6, <3>1 DEF fetching
    <3>2. CASE i = Len(writes) + 1  BY <2>1, <2>2, <2>4, <3>2
    <3> QED  BY <2>5, <3>1, <3>2
  <2>9. Writers'  BY <2>7, <2>8 DEF Writers
  <2>10. Clock'  BY <2>1, ClockKept DEF TypeInv, disk
  <2>11. SyncInv'  BY <2>1 DEF TypeInv, SyncInv, disk
  <2>12. FetchInv'  BY <2>1, FetchKept DEF TypeInv, disk
  <2>13. IndexInv'  BY <2>1, <2>4 DEF TypeInv, IndexInv, Newest, disk
  <2>14. Counts'  BY <2>1, CountsKept DEF TypeInv
  <2> QED  BY <2>9, <2>10, <2>11, <2>12, <2>13, <2>14 DEF TypeInv
<1>3. CASE SyncUnchanged
  <2>1. /\ sync' = "idle" /\ limited' = {} /\ last_sync_token = next_batch /\ Committed
        /\ UNCHANGED <<timeline, disk, next_batch, synced, last_sync_token, index, fetching>>
        /\ UNCHANGED <<lost, faults>>
    BY <1>3 DEF SyncUnchanged, homeserver
  <2>2. next_batch = token
    <3>1. next_batch \in 0 .. MaxEvents  BY <1>0, EventsAssumption DEF TypeInv, Clock
    <3> QED  BY <2>1, <3>1, NoTokenAssumption DEF TypeInv, SyncInv
  <2>3. Writers'
    <3>1. \A i \in 1 .. Len(writes) : writes[i].by # "sync"
      BY <2>1, WritersAre DEF Committed
    <3> QED  BY <2>1, <3>1 DEF TypeInv, Writers, index, fetching
  <2>4. Clock'  BY <2>1, ClockKept DEF TypeInv, disk
  <2>5. SyncInv'  BY <2>1, <2>2, FS_EmptySet DEF TypeInv, SyncInv, disk
  <2>6. FetchInv'  BY <2>1, FetchKept DEF TypeInv, disk
  <2>7. IndexInv'  BY <2>1, IndexKept DEF TypeInv, disk
  <2>8. Counts'  BY <2>1, CountsKept DEF TypeInv
  <2> QED  BY <2>3, <2>4, <2>5, <2>6, <2>7, <2>8 DEF TypeInv
<1>4. CASE SyncSaves
  <2>1. /\ sync' = "idle" /\ limited' = {} /\ Committed
        /\ last_sync_token' = next_batch /\ token' = next_batch /\ tasks' = tasks \cup limited
        /\ UNCHANGED <<timeline, stored, searchable, next_batch, synced, index, fetcher>>
        /\ UNCHANGED <<in_hand, response, lost, faults>>
    BY <1>4 DEF SyncSaves, homeserver
  <2>2. PICK order \in SetToSeqs(limited) : fetch_queue' = fetch_queue \o order
    BY <1>4 DEF SyncSaves
  <2>3. limited \subseteq TasksTo(next_batch) /\ IsFiniteSet(limited)
    BY DEF TypeInv, SyncInv
  <2>4. order \in Seq(TasksTo(next_batch))
    <3>1. order \in Seq(limited)  BY <2>3, OrderIs
    <3> QED  BY <2>3, <3>1
  <2>5. fetch_queue \in Seq(TasksTo(next_batch))  BY <1>0 DEF TypeInv, FetchInv
  <2>6. fetch_queue' \in Seq(TasksTo(next_batch))  BY <2>2, <2>4, <2>5, JoinIs
  <2>7. IsFiniteSet(tasks')  BY <2>1, <2>3, FS_Union DEF TypeInv, FetchInv
  <2>8. Hand'  BY <1>0, <2>1 DEF TypeInv, FetchInv, Hand
  <2>9. FetchInv'
    BY <1>0, <2>1, <2>3, <2>6, <2>7, <2>8 DEF TypeInv, FetchInv
  <2>10. Writers'
    <3>1. \A i \in 1 .. Len(writes) : writes[i].by # "sync"
      BY <2>1, WritersAre DEF Committed
    <3> QED  BY <2>1, <3>1 DEF TypeInv, Writers, index
  <2>11. Clock'
    <3>1. next_batch <= next_batch  BY <1>0
    <3> QED  BY <1>0, <2>1, <3>1 DEF TypeInv, Clock, Newest
  <2>12. SyncInv'  BY <2>1, FS_EmptySet DEF TypeInv, SyncInv
  <2>13. IndexInv'  BY <2>1, IndexKept DEF TypeInv
  <2>14. Counts'  BY <2>1, CountsKept DEF TypeInv
  <2> QED  BY <2>9, <2>10, <2>11, <2>12, <2>13, <2>14 DEF TypeInv
<1> QED  BY <1>1, <1>2, <1>3, <1>4 DEF SyncLoop

(* The steps of fetcher_loop, and a request of it that fails.              *)
LEMMA FetcherTyped ==
  ASSUME TypeInv, Fetcher \/ FetchRefused \/ FetchFails
  PROVE  TypeInv'
<1>0. /\ fetch_queue \in Seq(TasksTo(token)) /\ tasks \subseteq TasksTo(token)
      /\ IsFiniteSet(tasks) /\ Hand
      /\ Newest \in Nat /\ lost \subseteq 1 .. Newest
  BY Positions DEF TypeInv, FetchInv, Counts
<1>1. CASE TakeTask
  <2>1. /\ fetcher = "waiting" /\ fetch_queue # <<>>
        /\ in_hand' = {Head(fetch_queue)} /\ fetch_queue' = Tail(fetch_queue)
        /\ fetcher' = "fetching"
        /\ UNCHANGED <<timeline, disk, syncing, index, response, lost, faults>>
    BY <1>1 DEF TakeTask, homeserver
  <2>2. Head(fetch_queue) \in TasksTo(token) /\ fetch_queue' \in Seq(TasksTo(token))
    BY <1>0, <2>1, TailIs
  <2>3. Hand'  BY <2>1, <2>2 DEF Hand, disk
  <2>4. FetchInv'  BY <2>1, <2>2, <2>3 DEF TypeInv, FetchInv, disk
  <2>5. Writers'
    <3>1. \A i \in 1 .. Len(writes) : writes[i].by # "fetcher"  BY <2>1, WritersAre
    <3> QED  BY <2>1, <3>1 DEF TypeInv, Writers, index, syncing
  <2>6. Clock'  BY <2>1, ClockKept DEF TypeInv, disk, syncing
  <2>7. SyncInv'  BY <2>1, SyncKept DEF TypeInv, disk
  <2>8. IndexInv'  BY <2>1, IndexKept DEF TypeInv, disk, syncing
  <2>9. Counts'  BY <2>1, CountsKept DEF TypeInv
  <2> QED  BY <2>4, <2>5, <2>6, <2>7, <2>8, <2>9 DEF TypeInv
<1>2. CASE DropTask
  <2> DEFINE t == Head(fetch_queue)
  <2>1. /\ fetch_queue # <<>> /\ fetch_queue' = Tail(fetch_queue) /\ tasks' = tasks \ {t}
        /\ lost' = lost \cup {e \in EventsOf(t.room) : e <= t.token}
        /\ UNCHANGED <<timeline, token, stored, searchable, syncing, index, fetcher>>
        /\ UNCHANGED <<in_hand, response, faults>>
    BY <1>2 DEF DropTask, homeserver
  <2>2. fetch_queue' \in Seq(TasksTo(token))  BY <1>0, <2>1, TailIs
  <2>3. IsFiniteSet(tasks')  BY <1>0, <2>1, FS_RemoveElement
  <2> HIDE DEF t
  <2>4. FetchInv'  BY <1>0, <2>1, <2>2, <2>3 DEF TypeInv, FetchInv, Hand
  <2>5. Counts'
    <3>1. EventsOf(t.room) \subseteq 1 .. Newest  BY Positions DEF TypeInv
    <3>2. lost' \subseteq 1 .. Newest  BY <1>0, <2>1, <3>1
    <3> QED  BY <2>1, <3>2 DEF TypeInv, Counts, Newest
  <2>6. Clock'  BY <2>1, ClockKept DEF TypeInv, syncing
  <2>7. SyncInv'  BY <2>1, SyncKept DEF TypeInv
  <2>8. IndexInv'  BY <2>1, IndexKept DEF TypeInv, syncing
  <2>9. Writers'  BY <2>1, WritersKept DEF TypeInv, index, syncing
  <2> QED  BY <2>4, <2>5, <2>6, <2>7, <2>8, <2>9 DEF TypeInv
<1>3. CASE FetcherDone
  <2>1. /\ fetcher = "written" /\ tasks' = tasks \ in_hand
        /\ fetcher' = "waiting" /\ in_hand' = {}
        /\ UNCHANGED <<timeline, token, stored, searchable, syncing, index, fetch_queue>>
        /\ UNCHANGED <<response, lost, faults>>
    BY <1>3 DEF FetcherDone, homeserver
  <2>2. IsFiniteSet(tasks')  BY <1>0, <2>1, FS_Subset
  <2>3. FetchInv'  BY <1>0, <2>1, <2>2 DEF TypeInv, FetchInv, Hand
  <2>4. Writers'
    <3>1. \A i \in 1 .. Len(writes) : writes[i].by # "fetcher"  BY <2>1, WritersAre
    <3> QED  BY <2>1, <3>1 DEF TypeInv, Writers, index, syncing
  <2>5. Clock'  BY <2>1, ClockKept DEF TypeInv, syncing
  <2>6. SyncInv'  BY <2>1, SyncKept DEF TypeInv
  <2>7. IndexInv'  BY <2>1, IndexKept DEF TypeInv, syncing
  <2>8. Counts'  BY <2>1, CountsKept DEF TypeInv
  <2> QED  BY <2>3, <2>4, <2>5, <2>6, <2>7, <2>8 DEF TypeInv
<1>4. CASE FetchRefused
  <2>1. /\ fetcher = "fetching" /\ fetcher' = "dead" /\ faults < MaxFaults
        /\ faults' = faults + 1
        /\ UNCHANGED <<timeline, disk, syncing, index, fetch_queue, in_hand, response, lost>>
    BY <1>4 DEF FetchRefused, homeserver
  <2>2. FetchInv'  BY <1>0, <2>1 DEF TypeInv, FetchInv, Hand, disk
  <2>3. Writers'
    <3>1. \A i \in 1 .. Len(writes) : writes[i].by # "fetcher"  BY <2>1, WritersAre
    <3> QED  BY <2>1, <3>1 DEF TypeInv, Writers, index, syncing
  <2>4. faults' \in 0 .. MaxFaults  BY <2>1, SizesAssumption DEF TypeInv, Counts
  <2>5. Counts'  BY <2>1, <2>4 DEF TypeInv, Counts, Newest
  <2>6. Clock'  BY <2>1, ClockKept DEF TypeInv, disk, syncing
  <2>7. SyncInv'  BY <2>1, SyncKept DEF TypeInv, disk
  <2>8. IndexInv'  BY <2>1, IndexKept DEF TypeInv, disk, syncing
  <2> QED  BY <2>2, <2>3, <2>5, <2>6, <2>7, <2>8 DEF TypeInv
<1>5. CASE FetchReturns \/ FetchFails
  <2>1. /\ fetcher = "fetching"
        /\ UNCHANGED <<timeline, token, stored, searchable, syncing, lost>>
        /\ faults' \in 0 .. MaxFaults
    <3>1. CASE FetchReturns  BY <3>1 DEF FetchReturns, homeserver, TypeInv, Counts
    <3>2. CASE FetchFails
      BY <3>2, SizesAssumption DEF FetchFails, homeserver, TypeInv, Counts
    <3> QED  BY <1>5, <3>1, <3>2
  <2>2. Newest' = Newest  BY <2>1 DEF Newest
  <2>3. Clock'  BY <2>1, ClockKept DEF TypeInv, syncing
  <2>4. SyncInv'  BY <2>1, SyncKept DEF TypeInv
  <2>5. Counts'  BY <2>1, <2>2 DEF TypeInv, Counts
  <2>6. CASE /\ fetcher' = "dead"
             /\ \E t \in TasksTo(token) : in_hand = {t} /\ fetch_queue' = Append(fetch_queue, t)
             /\ UNCHANGED <<tasks, in_hand, index, response>>
    <3>1. fetch_queue' \in Seq(TasksTo(token))  BY <1>0, <2>6, AppendIs
    <3>2. FetchInv'  BY <1>0, <2>1, <2>6, <3>1 DEF TypeInv, FetchInv, Hand
    <3>3. IndexInv'  BY <2>1, <2>6, IndexKept DEF TypeInv, syncing
    <3>4. Writers'
      <4>1. \A i \in 1 .. Len(writes) : writes[i].by # "fetcher"  BY <2>1, WritersAre
      <4> QED  BY <2>1, <2>6, <4>1 DEF TypeInv, Writers, index, syncing
    <3> QED  BY <2>3, <2>4, <2>5, <3>2, <3>3, <3>4 DEF TypeInv
  <2>7. ASSUME NEW t \in TasksTo(token), NEW a \in AnswersTo(token),
               NEW q \in Seq(TasksTo(token)), in_hand = {t}, Process(t, a, q),
               response' \subseteq AnswersTo(token)
        PROVE  TypeInv'
    <3>1. token' = token /\ next_batch' = next_batch /\ sync' = sync  BY <2>1 DEF syncing
    <3>2. /\ tasks' \subseteq TasksTo(token) /\ IsFiniteSet(tasks')
          /\ fetch_queue' \in Seq(TasksTo(token))
          /\ fetcher' \in {"waiting", "writing"} /\ Hand'
          /\ event_queue' \subseteq ItemsTo(next_batch)
          /\ writes' \in Seq(WritesTo(next_batch))
          /\ \A i, j \in 1 .. Len(writes') : writes'[i].by = writes'[j].by => i = j
          /\ \A i \in 1 .. Len(writes') : /\ writes'[i].by = "sync" => sync = "writing"
                                          /\ writes'[i].by = "fetcher" => fetcher' = "writing"
      BY <2>1, <2>7, <3>1, ProcessTyped
    <3>3. FetchInv'  BY <2>7, <3>1, <3>2 DEF FetchInv
    <3>4. IndexInv'  BY <2>1, <2>2, <3>1, <3>2 DEF TypeInv, IndexInv
    <3>5. Writers'  BY <3>1, <3>2 DEF Writers
    <3> QED  BY <2>3, <2>4, <2>5, <3>3, <3>4, <3>5 DEF TypeInv
  <2>8. response \subseteq AnswersTo(token)  BY DEF TypeInv, FetchInv
  <2> QED  BY <1>5, <2>6, <2>7, <2>8, FetchIs
<1> QED  BY <1>1, <1>2, <1>3, <1>4, <1>5 DEF Fetcher

(* A restart.                                                              *)
LEMMA RestartTyped ==
  ASSUME TypeInv, NEW saved, NEW rows, NEW indexed, Restarted(saved, rows, indexed)
  PROVE  TypeInv'
<1>1. /\ faults < MaxFaults /\ faults' = faults + 1
      /\ token' = saved /\ tasks' = rows /\ searchable' = indexed
      /\ next_batch' = saved /\ synced' = FALSE /\ last_sync_token' = NoToken
      /\ sync' = "idle" /\ limited' = {} /\ event_queue' = {} /\ writes' = <<>>
      /\ fetcher' = "waiting" /\ in_hand' = {} /\ response' = {}
      /\ timeline' = timeline /\ stored' = stored
  BY DEF Restarted, Crash, homeserver
<1>2. /\ saved \in Nat /\ token <= saved /\ saved <= next_batch
      /\ rows \subseteq TasksTo(saved) /\ IsFiniteSet(rows)
      /\ stored \subseteq indexed /\ indexed \subseteq ItemsTo(Newest)
  BY DEF Restarted
<1>3. PICK order \in SetToSeqs(rows) : fetch_queue' = order  BY DEF Restarted, Crash
<1>4. fetch_queue' \in Seq(TasksTo(saved))
  <2>1. fetch_queue' \in Seq(rows)  BY <1>2, <1>3, OrderIs
  <2> QED  BY <1>2, <2>1
<1>5. Newest' = Newest /\ Newest \in Nat /\ next_batch \in Nat /\ next_batch <= Newest
  BY <1>1, Positions DEF TypeInv, Newest
<1>6. Clock'
  <2>1. saved <= saved /\ saved <= Newest  BY <1>2, <1>5
  <2> QED  BY <1>1, <1>2, <1>5, <2>1 DEF TypeInv, Clock
<1>7. SyncInv'  BY <1>1, FS_EmptySet DEF SyncInv
<1>8. FetchInv'  BY <1>1, <1>2, <1>4 DEF FetchInv, Hand
<1>9. <<>> \in Seq(WritesTo(saved)) /\ Len(<<>>) = 0  OBVIOUS
<1>10. IndexInv'  BY <1>1, <1>2, <1>5, <1>9 DEF IndexInv
<1>11. Writers'
  <2>1. 1 .. Len(<<>>) = {}  BY <1>9
  <2> QED  BY <1>1, <2>1 DEF Writers
<1>12. Counts'
  <2>1. lost' \subseteq 1 .. Newest  BY DEF TypeInv, Counts, Restarted, Crash
  <2>2. faults' \in 0 .. MaxFaults  BY <1>1, SizesAssumption DEF TypeInv, Counts
  <2> QED  BY <1>5, <2>1, <2>2 DEF Counts
<1> QED  BY <1>6, <1>7, <1>8, <1>10, <1>11, <1>12 DEF TypeInv

(* Every step keeps the types.                                             *)
LEMMA TypeStep == TypeInv /\ [Next]_vars => TypeInv'
<1> SUFFICES ASSUME TypeInv, [Next]_vars PROVE TypeInv'
  OBVIOUS
<1>1. ASSUME NEW r \in Rooms, NewEvent(r) PROVE TypeInv'
  <2>1. UNCHANGED <<disk, syncing, index, fetching, lost, faults>>  BY <1>1 DEF NewEvent
  <2>2. /\ timeline' \in Seq(Rooms) /\ Newest \in Nat /\ Newest' = Newest + 1
        /\ Newest' <= MaxEvents
    BY <1>1, NewEventIs DEF TypeInv
  <2>3. ItemsTo(Newest) \subseteq ItemsTo(Newest')
    <3>1. Newest + 1 \in Nat /\ Newest <= Newest + 1  BY <2>2
    <3> QED  BY <2>2, <3>1, Raise
  <2>4. Clock'
    <3>1. next_batch <= Newest + 1  BY <2>2, Positions DEF TypeInv
    <3> QED  BY <2>1, <2>2, <3>1 DEF TypeInv, Clock, disk, syncing
  <2>5. IndexInv'  BY <2>1, <2>3 DEF TypeInv, IndexInv, disk, syncing, index
  <2>6. Counts'
    <3>1. 1 .. Newest \subseteq 1 .. Newest'  BY <2>2
    <3> QED  BY <2>1, <3>1 DEF TypeInv, Counts
  <2>7. SyncInv'  BY <2>1, SyncKept DEF TypeInv, disk
  <2>8. FetchInv'  BY <2>1, FetchKept DEF TypeInv, disk
  <2>9. Writers'  BY <2>1, WritersKept DEF TypeInv, index, syncing, fetching
  <2> QED  BY <2>4, <2>5, <2>6, <2>7, <2>8, <2>9 DEF TypeInv
<1>2. CASE SyncLoop  BY <1>2, SyncTyped
<1>3. CASE WriteReturns  BY <1>3, WriteTyped
<1>4. CASE Fetcher \/ FetchRefused \/ FetchFails  BY <1>4, FetcherTyped
<1>5. CASE Restart \/ RestartInSave \/ RestartInWrite  BY <1>5, RestartIs, RestartTyped
<1>6. CASE UNCHANGED vars
  <2>1. Clock' /\ SyncInv' /\ FetchInv' /\ IndexInv' /\ Writers' /\ Counts'
    BY <1>6, ClockKept, SyncKept, FetchKept, IndexKept, WritersKept, CountsKept
       DEF TypeInv, vars, homeserver, disk, syncing, index, fetching
  <2> QED  BY <2>1 DEF TypeInv
<1> QED  BY <1>1, <1>2, <1>3, <1>4, <1>5, <1>6 DEF Next, Fault

(* Every variable has its type, and the loops' states agree with what they *)
(* hold.                                                                   *)
THEOREM TypeCorrect == Spec => []TypeOK
BY TypeInit, TypeStep, TypesHold, PTL DEF Spec

-----------------------------------------------------------------------------
(* Where the messages are.                                                 *)

Queued == event_queue \cup UNION {w.items : w \in Range(writes)}

\* Events that are stored, or will be when the queue is written.
Known == {e \in 1 .. Newest : Filed(timeline[e], e) \in stored \cup Queued}

\* A fetch going back from t would bring e: no event in between will stop it,
\* not even one that is still to be written.
Open(tl, t, e, K) == /\ t.room = tl[e] /\ e <= t.token
                     /\ \A f \in e + 1 .. t.token : tl[f] = t.room => f \notin K

Covered(tl, e, K, T, L) == e \in K \cup L \/ \E t \in T : Open(tl, t, e, K)

\* The tasks that are still to be fetched.  One that fetcher_loop keeps while
\* it writes brings nothing any more.
Fetched == Range(fetch_queue) \cup
             (IF fetcher \in {"writing", "written"} THEN {} ELSE in_hand)

\* Events the saved token is not past are queued by the sync loop only, and
\* it waits for the write.
Ahead == \A i \in event_queue : i.event > token => sync = "received"

\* After a restart events may be stored ahead of the token.
Overtake ==
  \A e \in next_batch + 1 .. Newest, f \in 1 .. Newest :
    e < f /\ Filed(timeline[e], f) \in stored => e \in lost

\* The answer that a failed fetch goes on with brings nothing new.
Seen == \A a \in response : a.chunk \cap Messages \subseteq Known

\* The response that is being handled adds the tasks in limited.
Cover ==
  /\ \A e \in Messages : e <= token => Covered(timeline, e, Known, Fetched, lost)
  /\ \A e \in Messages : token < e /\ e <= next_batch =>
       Covered(timeline, e, Known, Fetched \cup limited, lost)

IInv == TypeInv /\ Ahead /\ Overtake /\ Seen /\ Cover

(* Messages are positions.                                                 *)
LEMMA MessagesAre == \A e \in Messages : e \in Nat /\ e >= 1
BY EventsAssumption

(* What is covered stays so with more tasks, more known, more lost, as     *)
(* long as nothing becomes known that a task has still to pass.            *)
LEMMA CoveredMore ==
  ASSUME NEW tl, NEW e, NEW K, NEW T, NEW L, NEW T2, NEW L2,
         Covered(tl, e, K, T, L), T \subseteq T2, L \subseteq L2
  PROVE  Covered(tl, e, K, T2, L2)
BY DEF Covered

(* The tasks there are, and where the queued items are.                    *)
LEMMA PlacesAre ==
  ASSUME TypeInv
  PROVE  /\ Fetched \subseteq TasksTo(token) /\ limited \subseteq TasksTo(next_batch)
         /\ Fetched \subseteq TasksTo(next_batch)
         /\ Queued \subseteq ItemsTo(next_batch) /\ stored \subseteq ItemsTo(Newest)
         /\ Known \subseteq 1 .. Newest
<1>1. fetch_queue \in Seq(TasksTo(token)) /\ in_hand \subseteq TasksTo(token)
  BY DEF TypeInv, FetchInv, Hand
<1>2. Range(fetch_queue) \subseteq TasksTo(token)
  <2>1. DOMAIN fetch_queue = 1 .. Len(fetch_queue)
        /\ \A i \in 1 .. Len(fetch_queue) : fetch_queue[i] \in TasksTo(token)
    BY <1>1
  <2> QED  BY <2>1 DEF Range
<1>3. Fetched \subseteq TasksTo(token)  BY <1>1, <1>2 DEF Fetched
<1>4. TasksTo(token) \subseteq TasksTo(next_batch)  BY Positions, Raise DEF TypeInv
<1>5. Queued \subseteq ItemsTo(next_batch)
  <2>1. writes \in Seq(WritesTo(next_batch)) /\ event_queue \subseteq ItemsTo(next_batch)
    BY DEF TypeInv, IndexInv
  <2>2. DOMAIN writes = 1 .. Len(writes) /\ \A i \in 1 .. Len(writes) : writes[i] \in WritesTo(next_batch)
    BY <2>1
  <2>3. \A w \in Range(writes) : w.items \subseteq ItemsTo(next_batch)
    BY <2>2 DEF Range, WritesTo
  <2> QED  BY <2>1, <2>3 DEF Queued
<1>6. stored \subseteq ItemsTo(Newest) /\ limited \subseteq TasksTo(next_batch)
  BY DEF TypeInv, IndexInv, SyncInv
<1> QED  BY <1>3, <1>4, <1>5, <1>6 DEF Known

(* A task a fetch of which would bring e reaches it, by the rule the       *)
(* module states.                                                          *)
LEMMA OpenReaches ==
  ASSUME NEW t, NEW e, Open(timeline, t, e, Known)
  PROVE  Reaches(t, e)
BY DEF Open, Reaches, Known, EventsOf

(* A message that is known can be found, or is on its way.                 *)
LEMMA KnownIs ==
  ASSUME TypeInv, NEW e \in Known
  PROVE  Indexed(e) \/ Written(Filed(timeline[e], e))
BY DEF TypeInv, IndexInv, Known, Queued, Indexed, Written

(* The invariant implies what the module promises.                         *)
LEMMA CoverGives == IInv => NothingLost
<1> SUFFICES ASSUME IInv, NEW e \in Messages \cap 1 .. token
             PROVE  OnDisk(e, tasks) \/ InMemory(e) \/ e \in lost
  BY DEF NothingLost
<1>1. Covered(timeline, e, Known, Fetched, lost)
  <2>1. e <= token  BY Positions DEF IInv, TypeInv
  <2> QED  BY <2>1 DEF IInv, Cover
<1>2. CASE e \in Known  BY <1>2, KnownIs DEF IInv, OnDisk, InMemory
<1>3. CASE e \in lost  BY <1>3
<1>4. ASSUME NEW t \in Fetched, Open(timeline, t, e, Known) PROVE InMemory(e)
  <2>1. Reaches(t, e)  BY <1>4, OpenReaches
  <2> QED  BY <2>1 DEF InMemory, Fetched
<1> QED  BY <1>1, <1>2, <1>3, <1>4 DEF Covered

(* Nothing is known, covered or behind a token in the beginning.           *)
LEMMA InvInit == Init => IInv
<1> SUFFICES ASSUME Init PROVE IInv
  OBVIOUS
<1>1. TypeInv  BY TypeInit
<1>2. token = 0 /\ next_batch = 0 /\ Newest = 0  BY DEF Init, Newest
<1>3. Ahead /\ Seen  BY DEF Init, Ahead, Seen
<1>4. 1 .. Newest = {}  BY <1>2
<1>5. Overtake  BY <1>4 DEF Overtake
<1>6. Cover
  <2>1. \A e \in Messages : ~(e <= 0)  BY MessagesAre
  <2> QED  BY <1>2, <2>1 DEF Cover
<1> QED  BY <1>1, <1>3, <1>5, <1>6 DEF IInv

(* The queue becomes a write, with more events perhaps.                    *)
LEMMA QueuedMore ==
  ASSUME TypeInv, NEW w \in WritesTo(next_batch), writes' = Append(writes, w),
         event_queue' = {}, event_queue \subseteq w.items
  PROVE  Queued' = Queued \cup w.items
<1>1. Range(writes') = Range(writes) \cup {w}
  BY AppendIs DEF TypeInv, IndexInv
<1> QED  BY <1>1 DEF Queued

(* A step that leaves the events and their places alone.                   *)
LEMMA CoverKept ==
  ASSUME IInv, UNCHANGED <<timeline, token, next_batch, stored, limited>>,
         Known \subseteq Known', Known' \subseteq Known, Fetched \subseteq Fetched', lost \subseteq lost'
  PROVE  Cover'
<1>1. Known' = Known  OBVIOUS
<1>2. ASSUME NEW e \in Messages, e <= token
      PROVE  Covered(timeline, e, Known, Fetched', lost')
  BY <1>2, CoveredMore DEF IInv, Cover
<1>3. ASSUME NEW e \in Messages, token < e /\ e <= next_batch
      PROVE  Covered(timeline, e, Known, Fetched' \cup limited, lost')
  <2>1. Covered(timeline, e, Known, Fetched \cup limited, lost)  BY <1>3 DEF IInv, Cover
  <2>2. Fetched \cup limited \subseteq Fetched' \cup limited  OBVIOUS
  <2> QED  BY <2>1, <2>2, CoveredMore
<1> QED  BY <1>1, <1>2, <1>3 DEF Cover

(* A new event is known to no one yet, and to come after every task.       *)
LEMMA NewEventStep ==
  ASSUME IInv, NEW r \in Rooms, NewEvent(r)
  PROVE  Ahead' /\ Overtake' /\ Seen' /\ Cover'
<1>1. UNCHANGED <<disk, syncing, index, fetching, lost, faults>>  BY DEF NewEvent
<1>2. /\ Newest \in Nat /\ Newest' = Newest + 1
      /\ \A e \in 1 .. Newest : timeline'[e] = timeline[e]
  BY NewEventIs DEF IInv, TypeInv
<1>3. /\ Fetched \subseteq TasksTo(next_batch) /\ limited \subseteq TasksTo(next_batch)
      /\ Queued \subseteq ItemsTo(next_batch) /\ stored \subseteq ItemsTo(Newest)
      /\ next_batch \in Nat /\ token \in Nat /\ token <= next_batch /\ next_batch <= Newest
  BY PlacesAre, Positions DEF IInv, TypeInv
<1>4. Queued' = Queued /\ Fetched' = Fetched
  BY <1>1 DEF Queued, Fetched, index, fetching
<1>5. \A i \in stored \cup Queued : i.event \in 1 .. Newest
  <2>1. ItemsTo(next_batch) \subseteq ItemsTo(Newest)  BY <1>2, <1>3, Raise
  <2>2. stored \cup Queued \subseteq ItemsTo(Newest)  BY <1>3, <2>1
  <2>3. \A i \in ItemsTo(Newest) : i.event \in 1 .. Newest  BY DEF ItemsTo
  <2> QED  BY <2>2, <2>3
<1>6. Known' = Known
  <2>1. \A x : Filed(x, Newest + 1) \notin stored \cup Queued
    <3>1. Newest + 1 \notin 1 .. Newest  BY <1>2
    <3> QED  BY <1>5, <3>1 DEF Filed
  <2>2. \A e \in 1 .. Newest' : e \in 1 .. Newest \/ e = Newest + 1  BY <1>2
  <2>3. 1 .. Newest \subseteq 1 .. Newest'  BY <1>2
  <2>4. stored' \cup Queued' = stored \cup Queued  BY <1>1, <1>4 DEF disk
  <2> QED  BY <1>2, <2>1, <2>2, <2>3, <2>4 DEF Known
<1>7. Ahead'  BY <1>1 DEF IInv, Ahead, index, disk, syncing
<1>8. Seen'  BY <1>1, <1>6 DEF IInv, Seen, fetching
<1>9. Overtake'
  <2> SUFFICES ASSUME NEW e \in next_batch + 1 .. Newest', NEW f \in 1 .. Newest', e < f,
                      Filed(timeline'[e], f) \in stored
               PROVE  e \in lost
    BY <1>1 DEF Overtake, disk, syncing
  <2>1. f \in 1 .. Newest  BY <1>5 DEF Filed
  <2>2. e \in next_batch + 1 .. Newest /\ e \in 1 .. Newest  BY <1>2, <1>3, <2>1
  <2> QED  BY <1>2, <2>1, <2>2 DEF IInv, Overtake
<1>10. ASSUME NEW e \in Messages, e <= next_batch, NEW T, T \subseteq TasksTo(next_batch),
              Covered(timeline, e, Known, T, lost)
       PROVE  Covered(timeline', e, Known, T, lost)
  <2>1. e \in 1 .. Newest  BY <1>2, <1>3, <1>10, MessagesAre
  <2>2. ASSUME NEW t \in T, Open(timeline, t, e, Known) PROVE Open(timeline', t, e, Known)
    <3>1. t.token \in 0 .. next_batch  BY <1>10 DEF TasksTo
    <3>2. \A f \in e + 1 .. t.token : f \in 1 .. Newest  BY <1>2, <1>3, <2>1, <3>1
    <3> QED  BY <1>2, <2>1, <2>2, <3>2 DEF Open
  <2> QED  BY <1>10, <2>2 DEF Covered
<1>11. Cover'
  <2>1. ASSUME NEW e \in Messages, e <= token
        PROVE  Covered(timeline', e, Known, Fetched, lost)
    <3>1. e <= next_batch  BY <1>3, <2>1, MessagesAre
    <3> QED  BY <1>3, <1>10, <2>1, <3>1 DEF IInv, Cover
  <2>2. ASSUME NEW e \in Messages, token < e, e <= next_batch
        PROVE  Covered(timeline', e, Known, Fetched \cup limited, lost)
    <3>1. Fetched \cup limited \subseteq TasksTo(next_batch)  BY <1>3
    <3> QED  BY <1>10, <2>2, <3>1 DEF IInv, Cover
  <2> QED  BY <1>1, <1>4, <1>6, <2>1, <2>2 DEF Cover, disk, syncing
<1> QED  BY <1>7, <1>8, <1>9, <1>11

(* A write that returns moves its events to the store.                     *)
LEMMA WriteStep ==
  ASSUME IInv, WriteReturns
  PROVE  Ahead' /\ Overtake' /\ Seen' /\ Cover'
<1>1. /\ UNCHANGED <<timeline, token, next_batch, tasks, synced, last_sync_token, limited>>
      /\ UNCHANGED <<event_queue, fetch_queue, in_hand, response, lost, faults>>
      /\ writes' = Tail(writes) /\ writes # <<>>
      /\ stored' = stored \cup Head(writes).items
      /\ IF Head(writes).by = "sync"
         THEN sync' = "written" /\ UNCHANGED fetcher
         ELSE fetcher' = "written" /\ UNCHANGED sync
  BY DEF WriteReturns, homeserver
<1>2. writes \in Seq(WritesTo(next_batch))  BY DEF IInv, TypeInv, IndexInv
<1>3. /\ Head(writes) \in WritesTo(next_batch) /\ Head(writes) = writes[1] /\ 1 \in 1 .. Len(writes)
      /\ Range(writes) = {Head(writes)} \cup Range(writes')
  BY <1>1, <1>2, TailIs
<1>4. stored' \cup Queued' = stored \cup Queued
  BY <1>1, <1>3 DEF Queued
<1>5. Newest' = Newest  BY <1>1 DEF Newest
<1>6. Known' = Known  BY <1>1, <1>4, <1>5 DEF Known
<1>7. Fetched' = Fetched
  <2>1. Head(writes).by = "fetcher" => fetcher = "writing"  BY <1>3, WritersAre DEF IInv
  <2>2. Head(writes).by \in {"sync", "fetcher"}  BY <1>3, WritersAre DEF IInv
  <2>3. fetcher' \in {"writing", "written"} <=> fetcher \in {"writing", "written"}
    BY <1>1, <2>1, <2>2
  <2> QED  BY <1>1, <2>3 DEF Fetched
<1>8. Ahead'
  <2>1. Head(writes).by = "sync" => sync = "writing"  BY <1>3, WritersAre DEF IInv
  <2>2. sync = "received" => sync' = "received"  BY <1>1, <2>1
  <2> QED  BY <1>1, <2>2 DEF IInv, Ahead
<1>9. Overtake'
  <2> SUFFICES ASSUME NEW e \in next_batch + 1 .. Newest, NEW f \in 1 .. Newest, e < f,
                      Filed(timeline[e], f) \in stored'
               PROVE  e \in lost
    BY <1>1, <1>5 DEF Overtake
  <2>1. Filed(timeline[e], f) \notin Head(writes).items
    <3>1. \A i \in Head(writes).items : i.event \in 1 .. next_batch
      BY <1>3 DEF WritesTo, ItemsTo
    <3>2. f \notin 1 .. next_batch  BY Positions DEF IInv, TypeInv
    <3> QED  BY <3>1, <3>2 DEF Filed
  <2> QED  BY <1>1, <2>1 DEF IInv, Overtake
<1>10. Seen'  BY <1>1, <1>6 DEF IInv, Seen
<1>11. Cover'  BY <1>1, <1>6, <1>7 DEF IInv, Cover
<1> QED  BY <1>8, <1>9, <1>10, <1>11

(* What a response adds to what is known are events it delivers.           *)
LEMMA SyncKnown ==
  ASSUME TypeInv, SyncReturns
  PROVE  /\ Known \subseteq Known' /\ Known' \subseteq 1 .. Newest
         /\ \A f \in Known' \ Known : f \in Delivered(timeline[f])
         /\ \A r \in Rooms : Delivered(r) \cap Messages \subseteq Known'
<1>1. /\ event_queue' = event_queue \cup
              UNION {{Filed(r, e) : e \in Delivered(r) \cap Messages} : r \in Rooms}
      /\ UNCHANGED <<homeserver, disk, writes>>
  BY SyncReturnsIs
<1>2. Newest' = Newest /\ timeline' = timeline /\ stored' = stored
  BY <1>1 DEF homeserver, disk, Newest
<1>3. Queued' = Queued \cup UNION {{Filed(r, e) : e \in Delivered(r) \cap Messages} : r \in Rooms}
  BY <1>1 DEF Queued
<1>4. Known \subseteq Known' /\ Known' \subseteq 1 .. Newest
  BY <1>2, <1>3 DEF Known
<1>5. ASSUME NEW f \in Known', f \notin Known PROVE f \in Delivered(timeline[f])
  <2>1. Filed(timeline[f], f) \in UNION {{Filed(r, e) : e \in Delivered(r) \cap Messages} : r \in Rooms}
    BY <1>2, <1>3, <1>5 DEF Known
  <2>2. PICK r \in Rooms : \E e \in Delivered(r) : Filed(timeline[f], f) = Filed(r, e)
    BY <2>1
  <2> QED  BY <2>2 DEF Filed
<1>6. ASSUME NEW r \in Rooms, NEW e \in Delivered(r) \cap Messages PROVE e \in Known'
  <2>1. e \in EventsOf(r)  BY DeliveredIs DEF TypeInv
  <2>2. e \in 1 .. Newest /\ timeline[e] = r  BY <2>1 DEF EventsOf
  <2>3. Filed(r, e) \in Queued'  BY <1>3
  <2> QED  BY <1>2, <2>2, <2>3 DEF Known
<1> QED  BY <1>4, <1>5, <1>6

(* A response: what it does not deliver is reached by the task for the     *)
(* room, unless an event is stored in between, which a restart has named.  *)
LEMMA ResponseStep ==
  ASSUME IInv, SyncReturns
  PROVE  Ahead' /\ Overtake' /\ Seen' /\ Cover'
<1>1. /\ sync = "idle" /\ sync' = "received" /\ next_batch' = Newest
      /\ limited' = {Task(r, Oldest(Delivered(r)) - 1) : r \in CutOff}
      /\ UNCHANGED <<homeserver, disk, last_sync_token, writes, fetching, lost, faults>>
  BY SyncReturnsIs
<1>2. UNCHANGED <<timeline, token, stored, lost, response>> /\ Newest' = Newest /\ Fetched' = Fetched
  BY <1>1 DEF homeserver, disk, fetching, Newest, Fetched
<1>3. next_batch = token  BY <1>1 DEF IInv, TypeInv, SyncInv
<1>4. /\ Newest \in Nat /\ token \in Nat /\ token <= Newest
      /\ Fetched \subseteq TasksTo(token)
      /\ Queued \subseteq ItemsTo(token)
  BY <1>3, PlacesAre, Positions DEF IInv, TypeInv
<1>5. /\ Known \subseteq Known' /\ Known' \subseteq 1 .. Newest
      /\ \A f \in Known' \ Known : f \in Delivered(timeline[f])
      /\ \A r \in Rooms : Delivered(r) \cap Messages \subseteq Known'
  BY SyncKnown DEF IInv
<1>6. \A f \in Known' \ Known : f > token
  BY <1>3, <1>5, DeliveredIs DEF IInv, TypeInv
<1>7. Ahead'  BY <1>1 DEF Ahead
<1>8. Overtake'
  <2>1. \A e \in Newest + 1 .. Newest : FALSE  BY <1>4
  <2> QED  BY <1>1, <1>2, <2>1 DEF Overtake
<1>9. Seen'  BY <1>2, <1>5 DEF IInv, Seen
<1>10. ASSUME NEW e \in Messages, e <= token
       PROVE  Covered(timeline, e, Known', Fetched, lost)
  <2>1. Covered(timeline, e, Known, Fetched, lost)  BY <1>10 DEF IInv, Cover
  <2>2. ASSUME NEW t \in Fetched, Open(timeline, t, e, Known) PROVE Open(timeline, t, e, Known')
    <3>1. t.token \in 0 .. token  BY <1>4 DEF TasksTo
    <3>2. \A f \in e + 1 .. t.token : ~(f > token)  BY <1>4, <1>10, <3>1, MessagesAre
    <3> QED  BY <1>6, <2>2, <3>2 DEF Open
  <2> QED  BY <1>5, <2>1, <2>2 DEF Covered
<1>11. ASSUME NEW e \in Messages, token < e, e <= Newest
       PROVE  Covered(timeline, e, Known', limited', lost)
  <2> DEFINE r == timeline[e]
  <2>1. e \in 1 .. Newest /\ r \in Rooms /\ e \in Fresh(r)
    <3>1. e \in 1 .. Newest  BY <1>4, <1>11, MessagesAre
    <3> QED  BY <1>3, <1>11, <3>1, Positions DEF IInv, TypeInv, Fresh
  <2>2. CASE e \in Delivered(r)  BY <1>5, <1>11, <2>1, <2>2 DEF Covered
  <2>3. CASE e \notin Delivered(r) /\ e \notin lost
    <3> DEFINE o == Oldest(Delivered(r))
               t == Task(r, o - 1)
    <3>1. r \in CutOff  BY <2>1, <2>3 DEF CutOff
    <3>2. /\ o \in Delivered(r) /\ o \in 1 .. Newest /\ \A f \in Delivered(r) : o <= f
          /\ \A f \in Delivered(r) : f \in 1 .. Newest
          /\ e < o
      BY <2>1, <2>3, <3>1, DeliveredIs DEF IInv, TypeInv, CutOff
    <3>3. t \in limited' /\ t.room = r /\ t.token = o - 1  BY <1>1, <3>1 DEF Task
    <3> HIDE DEF o, t
    <3>4. e <= t.token  BY <2>1, <3>2, <3>3
    <3>5. ASSUME NEW f \in e + 1 .. t.token, timeline[f] = r, f \in Known' PROVE FALSE
      <4>1. f \in 1 .. Newest /\ e < f /\ f < o  BY <1>4, <2>1, <3>2, <3>3
      <4>2. ~ (f \in Delivered(r))
        <5>1. ~ (o <= f)  BY <3>2, <4>1
        <5> QED  BY <3>2, <5>1
      <4>3. f \in Known  BY <1>5, <3>5, <4>2
      <4>4. Filed(r, f) \in stored \cup Queued  BY <3>5, <4>3 DEF Known
      <4>5. Filed(r, f) \notin Queued
        <5>1. f \notin 1 .. token  BY <1>4, <1>11, <2>1, <4>1
        <5> QED  BY <1>4, <5>1 DEF Filed, ItemsTo
      <4>6. e \in next_batch + 1 .. Newest  BY <1>3, <1>4, <1>11, <2>1
      <4> QED  BY <2>3, <4>1, <4>4, <4>5, <4>6 DEF IInv, Overtake
    <3>6. Open(timeline, t, e, Known')  BY <3>3, <3>4, <3>5 DEF Open
    <3> QED  BY <3>3, <3>6 DEF Covered
  <2>4. CASE e \in lost  BY <2>4 DEF Covered
  <2> QED  BY <2>2, <2>3, <2>4
<1>12. ASSUME NEW e \in Messages, token < e, e <= Newest
       PROVE  Covered(timeline, e, Known', Fetched \cup limited', lost)
  BY <1>11, <1>12, CoveredMore
<1>13. Cover'  BY <1>1, <1>2, <1>10, <1>12 DEF Cover
<1> QED  BY <1>7, <1>8, <1>9, <1>13

(* The sync loop writes, finds nothing new, or saves.                      *)
LEMMA SyncStep ==
  ASSUME IInv, SyncLoop
  PROVE  Ahead' /\ Overtake' /\ Seen' /\ Cover'
<1>1. CASE SyncReturns  BY <1>1, ResponseStep
<1>2. CASE SyncCommits
  <2>1. /\ sync = "received" /\ sync' = "writing" /\ event_queue' = {}
        /\ writes' = Append(writes, [by |-> "sync", items |-> event_queue])
        /\ UNCHANGED <<timeline, disk, next_batch, synced, last_sync_token, limited, fetching>>
        /\ UNCHANGED <<lost, faults>>
    BY <1>2 DEF SyncCommits, Commit, homeserver
  <2> DEFINE w == [by |-> "sync", items |-> event_queue]
  <2>2. w \in WritesTo(next_batch) /\ w.items = event_queue
    BY DEF WritesTo, IInv, TypeInv, IndexInv
  <2> HIDE DEF w
  <2>3. Queued' = Queued \cup event_queue
    <3>1. writes' = Append(writes, w)  BY <2>1 DEF w
    <3> QED  BY <2>1, <2>2, <3>1, QueuedMore DEF IInv
  <2>4. UNCHANGED <<timeline, token, stored, response>> /\ Newest' = Newest /\ Fetched' = Fetched
    BY <2>1 DEF disk, fetching, Newest, Fetched
  <2>5. Known' = Known  BY <2>3, <2>4 DEF Known, Queued
  <2>6. Ahead'  BY <2>1 DEF Ahead
  <2>7. Overtake'  BY <2>1, <2>4 DEF IInv, Overtake
  <2>8. Seen'  BY <2>4, <2>5 DEF IInv, Seen
  <2>9. Cover'  BY <2>1, <2>4, <2>5 DEF IInv, Cover
  <2> QED  BY <2>6, <2>7, <2>8, <2>9
<1>3. CASE SyncUnchanged
  <2>1. /\ sync' = "idle" /\ limited' = {} /\ last_sync_token = next_batch
        /\ UNCHANGED <<timeline, disk, next_batch, index, fetching, lost>>
    BY <1>3 DEF SyncUnchanged, homeserver
  <2>2. next_batch = token /\ token \in Nat
    <3>1. next_batch \in 0 .. MaxEvents /\ token \in Nat
      BY EventsAssumption, Positions DEF IInv, TypeInv, Clock
    <3> QED  BY <2>1, <3>1, NoTokenAssumption DEF IInv, TypeInv, SyncInv
  <2>3. UNCHANGED <<timeline, token, stored, response>> /\ Newest' = Newest /\ Fetched' = Fetched
        /\ Queued' = Queued /\ event_queue' = event_queue
    BY <2>1 DEF disk, fetching, index, Newest, Fetched, Queued
  <2>4. Known' = Known  BY <2>3 DEF Known
  <2>5. \A i \in event_queue : ~(i.event > token)
    <3>1. event_queue \subseteq ItemsTo(token)  BY <2>2 DEF IInv, TypeInv, IndexInv
    <3> QED  BY <2>2, <3>1 DEF ItemsTo
  <2>6. Ahead'  BY <2>3, <2>5 DEF Ahead
  <2>7. Overtake'  BY <2>1, <2>3 DEF IInv, Overtake
  <2>8. Seen'  BY <2>3, <2>4 DEF IInv, Seen
  <2>9. Cover'
    <3>1. ASSUME NEW e \in Messages PROVE ~(token < e /\ e <= token)
      BY <2>2, MessagesAre
    <3> QED  BY <2>1, <2>2, <2>3, <2>4, <3>1 DEF IInv, Cover
  <2> QED  BY <2>6, <2>7, <2>8, <2>9
<1>4. CASE SyncSaves
  <2>1. /\ sync' = "idle" /\ limited' = {} /\ token' = next_batch
        /\ UNCHANGED <<timeline, stored, next_batch, index, fetcher>>
        /\ UNCHANGED <<in_hand, response, lost>>
    BY <1>4 DEF SyncSaves, homeserver
  <2>2. PICK order \in SetToSeqs(limited) : fetch_queue' = fetch_queue \o order
    BY <1>4 DEF SyncSaves
  <2>3. /\ limited \subseteq TasksTo(next_batch) /\ IsFiniteSet(limited)
        /\ fetch_queue \in Seq(TasksTo(next_batch))
        /\ token \in Nat /\ next_batch \in Nat /\ token <= next_batch
    BY Positions, Raise DEF IInv, TypeInv, SyncInv, FetchInv
  <2>4. order \in Seq(TasksTo(next_batch)) /\ Range(order) = limited
    <3>1. order \in Seq(limited) /\ Range(order) = limited  BY <2>3, OrderIs
    <3> QED  BY <2>3, <3>1
  <2>5. Range(fetch_queue') = Range(fetch_queue) \cup limited  BY <2>2, <2>3, <2>4, JoinIs
  <2>6. Fetched' = Fetched \cup limited  BY <2>1, <2>5 DEF Fetched
  <2>7. Newest' = Newest /\ Queued' = Queued /\ event_queue' = event_queue
    BY <2>1 DEF Newest, Queued, index
  <2>8. Known' = Known  BY <2>1, <2>7 DEF Known
  <2>9. Ahead'
    <3>1. \A i \in event_queue : ~(i.event > next_batch)
      BY <2>3 DEF IInv, TypeInv, IndexInv, ItemsTo
    <3> QED  BY <2>1, <2>7, <3>1 DEF Ahead
  <2>10. Overtake'  BY <2>1, <2>7 DEF IInv, Overtake
  <2>11. Seen'  BY <2>1, <2>8 DEF IInv, Seen
  <2>12. ASSUME NEW e \in Messages, e <= next_batch
         PROVE  Covered(timeline, e, Known, Fetched \cup limited, lost)
    <3>1. CASE e <= token
      <4>1. Covered(timeline, e, Known, Fetched, lost)  BY <3>1 DEF IInv, Cover
      <4> QED  BY <4>1, CoveredMore
    <3>2. CASE ~(e <= token)
      <4>1. token < e  BY <2>3, <3>2, MessagesAre
      <4> QED  BY <2>12, <4>1 DEF IInv, Cover
    <3> QED  BY <3>1, <3>2
  <2>13. Cover'
    <3>1. ASSUME NEW e \in Messages PROVE ~(next_batch < e /\ e <= next_batch)
      BY <2>3, MessagesAre
    <3> QED  BY <2>1, <2>6, <2>8, <2>12, <3>1 DEF Cover
  <2> QED  BY <2>9, <2>10, <2>11, <2>13
<1> QED  BY <1>1, <1>2, <1>3, <1>4 DEF SyncLoop

\* What an answer adds to what is known, filed under the room of the task.
Added(t, a) == {e \in a.chunk \cap Messages : timeline[e] = t.room}

(* A round of fetcher_loop in these terms: the history is over, it goes    *)
(* on before the answer, or an event of the answer is stored.              *)
LEMMA ProcessIs ==
  ASSUME TypeInv, fetcher = "fetching", NEW t \in TasksTo(token), in_hand = {t},
         NEW a \in AnswersTo(token), NEW q \in Seq(TasksTo(token)), Process(t, a, q),
         UNCHANGED <<timeline, stored, next_batch>>
  PROVE  /\ Known' = Known \cup Added(t, a)
         /\ Range(q) \subseteq Fetched'
         /\ \A i \in event_queue' : i \in event_queue \/ i.event <= token
         /\ \/ a.chunk = {}
            \/ a.chunk # {} /\ Task(t.room, a.end) \in Fetched'
            \/ a.chunk # {} /\ Filed(t.room, a.end + 1) \in stored
<1> DEFINE new == {Filed(t.room, e) : e \in a.chunk \cap Messages}
           added == event_queue \cup new
           next == Task(t.room, a.end)
<1>1. Newest' = Newest  BY DEF Newest
<1>2. a.chunk \subseteq 1 .. token /\ a.chunk \subseteq 1 .. Newest /\ token \in Nat
  BY Positions DEF AnswersTo, TypeInv
<1>3. \A i \in new : i.event <= token  BY <1>2 DEF Filed
<1>4. {e \in 1 .. Newest : Filed(timeline[e], e) \in new} = Added(t, a)
  BY <1>2 DEF Added, Filed
<1>5. ASSUME Queued' = Queued \cup new PROVE Known' = Known \cup Added(t, a)
  BY <1>1, <1>4, <1>5 DEF Known
<1>6. /\ writes \in Seq(WritesTo(next_batch)) /\ new \subseteq ItemsTo(next_batch)
      /\ event_queue \subseteq ItemsTo(next_batch)
  <2>1. t.room \in Rooms /\ a.chunk \subseteq 1 .. next_batch
    BY <1>2, Positions DEF TasksTo, TypeInv
  <2> QED  BY <2>1 DEF Filed, ItemsTo, TypeInv, IndexInv
<1> HIDE DEF new, next
<1>7. CASE a.chunk = {} /\ AtStart(t) /\ fetch_queue' = q
  <2>1. new = {}  BY <1>7 DEF new
  <2>2. Queued' = Queued \cup new /\ event_queue' = event_queue
    BY <1>7, <2>1 DEF AtStart, index, Queued
  <2>3. Fetched' = Range(q)  BY <1>7 DEF AtStart, Fetched
  <2> QED  BY <1>5, <1>7, <2>2, <2>3
<1>8. CASE a.chunk # {} /\ event_queue' = added /\ Continue(t, a, q)
  <2>1. /\ fetch_queue' = Append(q, next) /\ fetcher' = "waiting" /\ in_hand' = {}
        /\ writes' = writes
    BY <1>8 DEF Continue, next
  <2>2. Queued' = Queued \cup new  BY <1>8, <2>1 DEF Queued
  <2>3. next \in TasksTo(token)  BY DEF next, Task, TasksTo, AnswersTo
  <2>4. Range(fetch_queue') = Range(q) \cup {next}  BY <2>1, <2>3, AppendIs
  <2>5. Fetched' = Range(q) \cup {next}  BY <2>1, <2>4 DEF Fetched
  <2> QED  BY <1>3, <1>5, <1>8, <2>2, <2>5 DEF next
<1>9. CASE /\ a.chunk # {} /\ Filed(t.room, a.end + 1) \in stored
           /\ writes' = Append(writes, [by |-> "fetcher", items |-> added])
           /\ event_queue' = {} /\ fetcher' = "writing" /\ fetch_queue' = q
  <2> DEFINE w == [by |-> "fetcher", items |-> added]
  <2>1. w \in WritesTo(next_batch) /\ w.items = added /\ event_queue \subseteq w.items
    BY <1>6 DEF WritesTo
  <2> HIDE DEF w
  <2>2. writes' = Append(writes, w)  BY <1>9 DEF w
  <2>3. Queued' = Queued \cup added  BY <1>9, <2>1, <2>2, QueuedMore
  <2>4. Queued' = Queued \cup new  BY <2>3 DEF Queued
  <2>5. Fetched' = Range(q)  BY <1>9 DEF Fetched
  <2> QED  BY <1>5, <1>9, <2>4, <2>5
<1>10. \/ a.chunk = {} /\ AtStart(t) /\ fetch_queue' = q
       \/ a.chunk # {} /\ event_queue' = added /\ Continue(t, a, q)
       \/ /\ a.chunk # {} /\ Filed(t.room, a.end + 1) \in stored
          /\ writes' = Append(writes, [by |-> "fetcher", items |-> added])
          /\ event_queue' = {} /\ fetcher' = "writing" /\ fetch_queue' = q
  BY DEF Process, new
<1> QED  BY <1>7, <1>8, <1>9, <1>10

(* A round with the answer to its own request: what the task reached is    *)
(* in the answer or reached by the next task, and what another task would  *)
(* not bring any more, because an event of the answer is known now, the    *)
(* next task brings.                                                       *)
LEMMA RoundCovers ==
  ASSUME TypeInv, NEW t \in TasksTo(token), NEW K, NEW L,
         NEW T, T \subseteq TasksTo(next_batch), NEW T2, T \ {t} \subseteq T2,
         \/ Answer(t).chunk = {}
         \/ Answer(t).chunk # {} /\ Task(t.room, Answer(t).end) \in T2
         \/ Answer(t).chunk # {} /\ Answer(t).end + 1 \in K,
         NEW e \in Messages, e <= next_batch, Covered(timeline, e, K, T, L)
  PROVE  Covered(timeline, e, K \cup Added(t, Answer(t)), T2, L)
<1> DEFINE a == Answer(t)
           N == Added(t, a)
<1>1. /\ a \in AnswersTo(token)
      /\ a.chunk \subseteq EventsOf(t.room) /\ \A f \in a.chunk : f <= t.token
      /\ a.chunk = {} => \A f \in EventsOf(t.room) : ~(f <= t.token)
      /\ a.chunk # {} =>
           /\ a.end + 1 \in a.chunk /\ a.end <= t.token /\ \A f \in a.chunk : a.end < f
           /\ \A f \in EventsOf(t.room) : a.end < f /\ f <= t.token => f \in a.chunk
  BY AnswerIs DEF TypeInv
<1> HIDE DEF a
<1>2. a.end \in Nat /\ a.chunk \subseteq 1 .. token /\ token \in Nat /\ t.token \in Nat
      /\ next_batch \in Nat /\ next_batch <= Newest /\ Newest \in Nat
  <2>1. token \in Nat /\ next_batch \in Nat /\ next_batch <= Newest /\ Newest \in Nat
    BY Positions DEF TypeInv
  <2>2. a.end \in 0 .. token /\ a.chunk \subseteq 1 .. token  BY <1>1 DEF AnswersTo
  <2>3. t.token \in 0 .. token  BY DEF TasksTo
  <2> QED  BY <2>1, <2>2, <2>3
<1>3. e \in 1 .. Newest /\ e \in EventsOf(timeline[e]) /\ e \in Nat
  <2>1. e \in 1 .. Newest  BY <1>2, MessagesAre
  <2> QED  BY <2>1, Positions DEF TypeInv
<1>4. N \subseteq a.chunk /\ \A f \in N : timeline[f] = t.room  BY DEF Added
<1>5. \A f \in a.chunk : f \in N <=> f \in Messages  BY <1>1 DEF Added, EventsOf
<1> HIDE DEF N
<1>6. CASE e \in K \cup L \cup N  BY <1>6 DEF Covered, a, N
<1>7. ASSUME e \notin N, NEW u \in T, Open(timeline, u, e, K)
      PROVE  \E v \in T2 : Open(timeline, v, e, K \cup N)
  <2>1. /\ u.room = timeline[e] /\ e <= u.token
        /\ \A f \in e + 1 .. u.token : timeline[f] = u.room => f \notin K
    BY <1>7 DEF Open
  <2>2. u.token \in Nat  BY DEF TasksTo
  <2>3. CASE u # t /\ \A f \in N : ~(f \in e + 1 .. u.token)
    <3>1. u \in T2  BY <2>3
    <3>2. Open(timeline, u, e, K \cup N)  BY <2>1, <2>3 DEF Open
    <3> QED  BY <3>1, <3>2
  <2>4. CASE u.room # t.room
    <3>1. u # t  BY <2>4
    <3>2. u \in T2  BY <3>1
    <3>3. Open(timeline, u, e, K \cup N)  BY <1>4, <2>1, <2>4 DEF Open
    <3> QED  BY <3>2, <3>3
  <2>5. CASE u.room = t.room /\ (u = t \/ \E f \in N : f \in e + 1 .. u.token)
    <3>1. e \in EventsOf(t.room)  BY <1>3, <2>1, <2>5
    <3>2. a.chunk # {} /\ a.end + 1 <= u.token
      <4>1. CASE u = t
        <5>1. a.chunk # {}  BY <1>1, <2>1, <3>1, <4>1
        <5> QED  BY <1>1, <4>1, <5>1
      <4>2. CASE \E f \in N : f \in e + 1 .. u.token
        <5>1. PICK f \in N : f \in e + 1 .. u.token  BY <4>2
        <5>2. a.end < f /\ f <= u.token /\ f \in Nat /\ a.chunk # {}  BY <1>1, <1>2, <1>4, <2>2, <5>1
        <5> QED  BY <1>2, <2>2, <5>2
      <4> QED  BY <2>5, <4>1, <4>2
    <3>3. e <= t.token
      <4>1. CASE u = t  BY <2>1, <4>1
      <4>2. CASE \E f \in N : f \in e + 1 .. u.token
        <5>1. PICK f \in N : f \in e + 1 .. u.token  BY <4>2
        <5>2. e < f /\ f <= t.token /\ f \in Nat  BY <1>1, <1>3, <1>4, <1>2, <2>2, <5>1
        <5> QED  BY <1>2, <1>3, <5>2
      <4> QED  BY <2>5, <4>1, <4>2
    <3>4. e <= a.end
      <4>1. e \notin a.chunk  BY <1>5, <1>7
      <4>2. ~(a.end < e)  BY <1>1, <3>1, <3>2, <3>3, <4>1
      <4> QED  BY <1>2, <1>3, <4>2
    <3>5. a.end + 1 \in e + 1 .. u.token /\ timeline[a.end + 1] = u.room
      <4>1. a.end + 1 \in EventsOf(t.room)  BY <1>1, <3>2
      <4>2. timeline[a.end + 1] = u.room  BY <2>5, <4>1 DEF EventsOf
      <4> QED  BY <1>2, <1>3, <2>2, <3>2, <3>4, <4>2
    <3>6. a.end + 1 \notin K  BY <2>1, <3>5
    <3> DEFINE v == Task(t.room, a.end)
    <3>7. v \in T2 /\ v.room = t.room /\ v.token = a.end  BY <3>2, <3>6 DEF a, Task
    <3> HIDE DEF v
    <3>8. ASSUME NEW f \in e + 1 .. a.end PROVE f \in e + 1 .. u.token /\ f \notin N
      <4>1. f \in e + 1 .. u.token  BY <1>2, <1>3, <2>2, <3>2
      <4>2. ~(a.end < f)  BY <1>2, <1>3
      <4> QED  BY <1>1, <1>4, <3>2, <4>1, <4>2
    <3>9. Open(timeline, v, e, K \cup N)  BY <2>1, <2>5, <3>4, <3>7, <3>8 DEF Open
    <3> QED  BY <3>7, <3>9
  <2> QED  BY <2>3, <2>4, <2>5
<1>8. CASE \E v \in T2 : Open(timeline, v, e, K \cup N)  BY <1>8 DEF Covered, a, N
<1> QED  BY <1>6, <1>7, <1>8 DEF Covered

(* The fetch that returns.                                                 *)
LEMMA ReturnStep ==
  ASSUME IInv, FetchReturns
  PROVE  Ahead' /\ Overtake' /\ Seen' /\ Cover'
<1>1. PICK t \in TasksTo(token) :
        /\ in_hand = {t} /\ fetcher = "fetching" /\ Process(t, Answer(t), fetch_queue)
        /\ response' = {Answer(t)} /\ Answer(t) \in AnswersTo(token)
        /\ fetch_queue \in Seq(TasksTo(token))
  <2>1. PICK t \in TasksTo(token) : in_hand = {t}
    BY DEF IInv, TypeInv, FetchInv, Hand, FetchReturns
  <2>2. Answer(t) \in AnswersTo(token) /\ fetch_queue \in Seq(TasksTo(token))
    BY AnswerIs DEF IInv, TypeInv, FetchInv
  <2> QED  BY <2>1, <2>2 DEF FetchReturns
<1> DEFINE a == Answer(t)
<1>2. /\ UNCHANGED <<timeline, token, stored, next_batch, sync, limited, lost>>
  BY DEF FetchReturns, homeserver, syncing
<1>3. /\ Known' = Known \cup Added(t, a)
      /\ Range(fetch_queue) \subseteq Fetched'
      /\ \A i \in event_queue' : i \in event_queue \/ i.event <= token
      /\ \/ a.chunk = {}
         \/ a.chunk # {} /\ Task(t.room, a.end) \in Fetched'
         \/ a.chunk # {} /\ Filed(t.room, a.end + 1) \in stored
  BY <1>1, <1>2, ProcessIs DEF IInv
<1>4. Newest' = Newest  BY <1>2 DEF Newest
<1>5. Ahead'
  <2>1. ASSUME NEW i \in event_queue', i.event > token, sync # "received" PROVE FALSE
    <3>1. i \in event_queue \/ i.event <= token  BY <1>3
    <3>2. i \notin event_queue  BY <2>1 DEF IInv, Ahead
    <3>3. i.event \in Nat /\ token \in Nat
      <4>1. event_queue' \subseteq ItemsTo(next_batch)
        BY <1>1, <1>2, ProcessTyped DEF IInv
      <4> QED  BY <4>1, Positions DEF ItemsTo, IInv, TypeInv
    <3> QED  BY <2>1, <3>1, <3>2, <3>3
  <2> QED  BY <1>2, <2>1 DEF Ahead
<1>6. Overtake'  BY <1>2, <1>4 DEF IInv, Overtake
<1>7. a.chunk \subseteq EventsOf(t.room) /\ (a.chunk # {} => a.end + 1 \in a.chunk)
  BY AnswerIs DEF IInv, TypeInv
<1>8. Seen'
  <2>1. a.chunk \cap Messages \subseteq Added(t, a)  BY <1>7 DEF Added, EventsOf
  <2> QED  BY <1>1, <1>3, <2>1 DEF Seen
<1>9. \/ a.chunk = {}
      \/ a.chunk # {} /\ Task(t.room, a.end) \in Fetched'
      \/ a.chunk # {} /\ a.end + 1 \in Known
  <2>1. ASSUME a.chunk # {}, Filed(t.room, a.end + 1) \in stored PROVE a.end + 1 \in Known
    <3>1. a.end + 1 \in EventsOf(t.room)  BY <1>7, <2>1
    <3> QED  BY <2>1, <3>1 DEF Known, EventsOf
  <2> QED  BY <1>3, <2>1
<1>10. /\ Fetched = Range(fetch_queue) \cup {t} /\ Fetched \ {t} \subseteq Fetched'
       /\ (Fetched \cup limited) \ {t} \subseteq Fetched' \cup limited
       /\ Fetched \subseteq TasksTo(next_batch) /\ Fetched \cup limited \subseteq TasksTo(next_batch)
       /\ token \in Nat /\ next_batch \in Nat /\ token <= next_batch
  <2>1. Fetched = Range(fetch_queue) \cup {t}  BY <1>1 DEF Fetched
  <2> QED  BY <1>3, <2>1, PlacesAre, Positions DEF IInv, TypeInv
<1> HIDE DEF a
<1>11. ASSUME NEW e \in Messages, e <= token
       PROVE  Covered(timeline, e, Known \cup Added(t, a), Fetched', lost)
  <2>1. e <= next_batch  BY <1>10, <1>11, MessagesAre
  <2>2. Covered(timeline, e, Known, Fetched, lost)  BY <1>11 DEF IInv, Cover
  <2>3. Covered(timeline, e, Known \cup Added(t, Answer(t)), Fetched', lost)
    BY <1>9, <1>10, <2>1, <2>2, RoundCovers DEF IInv, a
  <2> QED  BY <2>3 DEF a
<1>12. ASSUME NEW e \in Messages, token < e, e <= next_batch
       PROVE  Covered(timeline, e, Known \cup Added(t, a), Fetched' \cup limited, lost)
  <2>1. Covered(timeline, e, Known, Fetched \cup limited, lost)  BY <1>12 DEF IInv, Cover
  <2> DEFINE T2 == Fetched' \cup limited
  <2>2. /\ (Fetched \cup limited) \ {t} \subseteq T2
        /\ \/ a.chunk = {}
           \/ a.chunk # {} /\ Task(t.room, a.end) \in T2
           \/ a.chunk # {} /\ a.end + 1 \in Known
    BY <1>9, <1>10
  <2> HIDE DEF T2
  <2>3. Covered(timeline, e, Known \cup Added(t, Answer(t)), T2, lost)
    BY <1>10, <1>12, <2>1, <2>2, RoundCovers DEF IInv, a
  <2> QED  BY <2>3 DEF a, T2
<1>13. Cover'  BY <1>2, <1>3, <1>11, <1>12 DEF Cover
<1> QED  BY <1>5, <1>6, <1>8, <1>13

(* The fetch that fails: the task is queued again, and an earlier answer   *)
(* adds nothing.                                                           *)
LEMMA FailStep ==
  ASSUME IInv, FetchFails
  PROVE  Ahead' /\ Overtake' /\ Seen' /\ Cover'
<1>1. PICK t \in TasksTo(token) : in_hand = {t}
  BY DEF IInv, TypeInv, FetchInv, Hand, FetchFails
<1>2. /\ UNCHANGED <<timeline, token, stored, next_batch, sync, limited, lost, response>>
      /\ fetcher = "fetching"
  BY DEF FetchFails, homeserver, syncing
<1>3. Newest' = Newest  BY <1>2 DEF Newest
<1> DEFINE q == Append(fetch_queue, t)
<1>4. q \in Seq(TasksTo(token)) /\ Range(q) = Range(fetch_queue) \cup {t}
  BY AppendIs DEF IInv, TypeInv, FetchInv
<1>5. Fetched = Range(q)  BY <1>1, <1>2, <1>4 DEF Fetched
<1> HIDE DEF q
<1>6. CASE fetcher' = "dead" /\ fetch_queue' = q /\ UNCHANGED <<tasks, in_hand, index>>
  <2>1. Queued' = Queued /\ event_queue' = event_queue  BY <1>6 DEF Queued, index
  <2>2. Known' = Known  BY <1>2, <1>3, <2>1 DEF Known
  <2>3. Fetched \subseteq Fetched'  BY <1>5, <1>6 DEF Fetched
  <2>4. Ahead'  BY <1>2, <2>1 DEF IInv, Ahead
  <2>5. Overtake'  BY <1>2, <1>3 DEF IInv, Overtake
  <2>6. Seen'  BY <1>2, <2>2 DEF IInv, Seen
  <2>7. Cover'  BY <1>2, <2>2, <2>3, CoverKept
  <2> QED  BY <2>4, <2>5, <2>6, <2>7
<1>7. ASSUME NEW a \in response, Process(t, a, q)
      PROVE  Ahead' /\ Overtake' /\ Seen' /\ Cover'
  <2>1. a \in AnswersTo(token)  BY DEF IInv, TypeInv, FetchInv
  <2>2. /\ Known' = Known \cup Added(t, a)
        /\ Range(q) \subseteq Fetched'
        /\ \A i \in event_queue' : i \in event_queue \/ i.event <= token
    BY <1>1, <1>2, <1>4, <1>7, <2>1, ProcessIs DEF IInv
  <2>3. Added(t, a) \subseteq Known  BY DEF Added, IInv, Seen
  <2>4. Known' = Known  BY <2>2, <2>3
  <2>5. Ahead'
    <3>1. ASSUME NEW i \in event_queue', i.event > token, sync # "received" PROVE FALSE
      <4>1. i \in event_queue \/ i.event <= token  BY <2>2
      <4>2. i \notin event_queue  BY <3>1 DEF IInv, Ahead
      <4>3. i.event \in Nat /\ token \in Nat
        <5>1. event_queue' \subseteq ItemsTo(next_batch)
          BY <1>1, <1>2, <1>4, <1>7, <2>1, ProcessTyped DEF IInv
        <5> QED  BY <5>1, Positions DEF ItemsTo, IInv, TypeInv
      <4> QED  BY <3>1, <4>1, <4>2, <4>3
    <3> QED  BY <1>2, <3>1 DEF Ahead
  <2>6. Overtake'  BY <1>2, <1>3 DEF IInv, Overtake
  <2>7. Seen'  BY <1>2, <2>4 DEF IInv, Seen
  <2>8. Cover'  BY <1>2, <1>5, <2>2, <2>4, CoverKept
  <2> QED  BY <2>5, <2>6, <2>7, <2>8
<1>8. \/ fetcher' = "dead" /\ fetch_queue' = q /\ UNCHANGED <<tasks, in_hand, index>>
      \/ \E a \in response : Process(t, a, q)
  BY <1>1 DEF FetchFails, q
<1> QED  BY <1>6, <1>7, <1>8

(* The other steps of fetcher_loop.                                        *)
LEMMA FetcherStep ==
  ASSUME IInv, TakeTask \/ DropTask \/ FetcherDone \/ FetchRefused
  PROVE  Ahead' /\ Overtake' /\ Seen' /\ Cover'
<1>1. /\ UNCHANGED <<timeline, token, stored, next_batch, sync, limited, index, response>>
      /\ lost \subseteq lost'
  BY DEF TakeTask, DropTask, FetcherDone, FetchRefused, homeserver, disk, syncing
<1>2. Newest' = Newest /\ Queued' = Queued /\ event_queue' = event_queue
  BY <1>1 DEF Newest, Queued, index
<1>3. Known' = Known  BY <1>1, <1>2 DEF Known
<1>4. Ahead'  BY <1>1, <1>2 DEF IInv, Ahead
<1>5. Overtake'  BY <1>1, <1>2 DEF IInv, Overtake
<1>6. Seen'  BY <1>1, <1>3 DEF IInv, Seen
<1>7. fetch_queue \in Seq(TasksTo(token)) /\ Hand  BY DEF IInv, TypeInv, FetchInv
<1>8. CASE TakeTask
  <2>1. Range(fetch_queue) = {Head(fetch_queue)} \cup Range(fetch_queue')
    BY <1>7, <1>8, TailIs DEF TakeTask
  <2>2. Fetched \subseteq Fetched'
    BY <1>7, <1>8, <2>1 DEF TakeTask, Fetched, Hand
  <2>3. Cover'  BY <1>1, <1>3, <2>2, CoverKept
  <2> QED  BY <1>4, <1>5, <1>6, <2>3
<1>9. CASE FetcherDone \/ FetchRefused
  <2>1. Fetched \subseteq Fetched'
    BY <1>9 DEF FetcherDone, FetchRefused, Fetched
  <2>2. Cover'  BY <1>1, <1>3, <2>1, CoverKept
  <2> QED  BY <1>4, <1>5, <1>6, <2>2
<1>10. CASE DropTask
  <2> DEFINE t == Head(fetch_queue)
  <2>1. /\ fetch_queue # <<>> /\ fetch_queue' = Tail(fetch_queue) /\ fetcher = "waiting"
        /\ lost' = lost \cup {e \in EventsOf(t.room) : e <= t.token}
        /\ UNCHANGED <<fetcher, in_hand>>
    BY <1>10 DEF DropTask
  <2>2. Range(fetch_queue) = {t} \cup Range(fetch_queue')  BY <1>7, <2>1, TailIs
  <2> HIDE DEF t
  <2>3. Fetched \subseteq Fetched' \cup {t}  BY <2>1, <2>2 DEF Fetched
  <2>4. ASSUME NEW e \in Messages, e <= next_batch, NEW T, NEW T2, T \subseteq T2 \cup {t},
               Covered(timeline, e, Known, T, lost)
        PROVE  Covered(timeline, e, Known, T2, lost')
    <3>1. e \in 1 .. Newest /\ e \in EventsOf(timeline[e])
      <4>1. e \in 1 .. Newest  BY <2>4, MessagesAre, Positions DEF IInv, TypeInv
      <4> QED  BY <4>1, Positions DEF IInv, TypeInv
    <3>2. Open(timeline, t, e, Known) => e \in lost'  BY <2>1, <3>1 DEF Open
    <3> QED  BY <2>1, <2>4, <3>2 DEF Covered
  <2>5. token \in Nat /\ next_batch \in Nat /\ token <= next_batch
    BY Positions DEF IInv, TypeInv
  <2>6. ASSUME NEW e \in Messages, e <= token
        PROVE  Covered(timeline, e, Known, Fetched', lost')
    <3>1. e <= next_batch  BY <2>5, <2>6, MessagesAre
    <3> QED  BY <2>3, <2>4, <2>6, <3>1 DEF IInv, Cover
  <2>7. ASSUME NEW e \in Messages, token < e, e <= next_batch
        PROVE  Covered(timeline, e, Known, Fetched' \cup limited, lost')
    <3> DEFINE T == Fetched \cup limited
               T2 == Fetched' \cup limited
    <3>1. T \subseteq T2 \cup {t}  BY <2>3
    <3>2. Covered(timeline, e, Known, T, lost)  BY <2>7 DEF IInv, Cover
    <3> HIDE DEF T, T2
    <3>3. Covered(timeline, e, Known, T2, lost')  BY <2>4, <2>7, <3>1, <3>2
    <3> QED  BY <3>3 DEF T2
  <2>8. Cover'  BY <1>1, <1>3, <2>6, <2>7 DEF Cover
  <2> QED  BY <1>4, <1>5, <1>6, <2>8
<1> QED  BY <1>8, <1>9, <1>10

(* A restart: what is on disk is covered by the rows, the rest is lost.    *)
LEMMA RestartStep ==
  ASSUME IInv, NEW saved, NEW rows, NEW indexed, Restarted(saved, rows, indexed)
  PROVE  Ahead' /\ Overtake' /\ Seen' /\ Cover'
<1>1. /\ token' = saved /\ next_batch' = saved
      /\ sync' = "idle" /\ limited' = {} /\ event_queue' = {} /\ writes' = <<>>
      /\ fetcher' = "waiting" /\ in_hand' = {} /\ response' = {}
      /\ timeline' = timeline /\ stored' = stored
      /\ lost' = lost \cup {e \in 1 .. Newest : \/ e <= saved /\ ~OnDisk(e, rows)
                                                \/ Overtaken(e, saved)}
  BY DEF Restarted, Crash, homeserver
<1>2. /\ saved \in Nat /\ saved <= Newest /\ Newest \in Nat /\ rows \subseteq TasksTo(saved)
      /\ IsFiniteSet(rows) /\ Newest' = Newest
  BY <1>1, Positions DEF Restarted, IInv, TypeInv, Newest
<1>3. PICK order \in SetToSeqs(rows) : fetch_queue' = order  BY DEF Restarted, Crash
<1>4. Range(fetch_queue') = rows  BY <1>2, <1>3, OrderIs
<1>5. Fetched' = rows  BY <1>1, <1>4 DEF Fetched
<1>6. Queued' = {}
  <2>1. DOMAIN <<>> = {}  OBVIOUS
  <2>2. Range(<<>>) = {}  BY <2>1 DEF Range
  <2> QED  BY <1>1, <2>2 DEF Queued
<1>7. Known' = {e \in 1 .. Newest : Filed(timeline[e], e) \in stored}
  BY <1>1, <1>2, <1>6 DEF Known
<1>8. Ahead' /\ Seen'  BY <1>1 DEF Ahead, Seen
<1>9. Overtake'
  <2> SUFFICES ASSUME NEW e \in saved + 1 .. Newest, NEW f \in 1 .. Newest, e < f,
                      Filed(timeline[e], f) \in stored
               PROVE  e \in lost'
    BY <1>1, <1>2 DEF Overtake
  <2>1. e \in 1 .. Newest /\ e > saved /\ f \in e + 1 .. Newest  BY <1>2
  <2>2. Overtaken(e, saved)  BY <2>1 DEF Overtaken
  <2> QED  BY <1>1, <2>1, <2>2
<1>10. ASSUME NEW e \in Messages, e <= saved
       PROVE  Covered(timeline, e, Known', rows, lost')
  <2>1. e \in 1 .. Newest  BY <1>2, <1>10, MessagesAre
  <2>2. CASE ~OnDisk(e, rows)
    <3>1. e \in lost'  BY <1>1, <1>10, <2>1, <2>2
    <3> QED  BY <3>1 DEF Covered
  <2>3. CASE Indexed(e)  BY <1>7, <2>1, <2>3 DEF Indexed, Covered
  <2>4. ASSUME NEW t \in rows, Reaches(t, e) PROVE Open(timeline, t, e, Known')
    <3>1. t.token \in 0 .. saved  BY <1>2 DEF TasksTo
    <3>2. \A f \in e + 1 .. t.token : f \in 1 .. Newest  BY <1>2, <2>1, <3>1
    <3> QED  BY <1>7, <2>4, <3>2 DEF Reaches, Open, EventsOf
  <2>5. CASE \E t \in rows : Reaches(t, e)  BY <2>4, <2>5 DEF Covered
  <2> QED  BY <2>2, <2>3, <2>5 DEF OnDisk
<1>11. Cover'
  <2>1. ASSUME NEW e \in Messages PROVE ~(saved < e /\ e <= saved)
    BY <1>2, MessagesAre
  <2> QED  BY <1>1, <1>5, <1>10, <2>1 DEF Cover
<1> QED  BY <1>8, <1>9, <1>11

(* Every step keeps the invariant.                                         *)
LEMMA InvStep == IInv /\ [Next]_vars => IInv'
<1> SUFFICES ASSUME IInv, [Next]_vars PROVE Ahead' /\ Overtake' /\ Seen' /\ Cover'
  BY TypeStep DEF IInv
<1>1. CASE \E r \in Rooms : NewEvent(r)  BY <1>1, NewEventStep
<1>2. CASE SyncLoop  BY <1>2, SyncStep
<1>3. CASE WriteReturns  BY <1>3, WriteStep
<1>4. CASE FetchReturns  BY <1>4, ReturnStep
<1>5. CASE FetchFails  BY <1>5, FailStep
<1>6. CASE TakeTask \/ DropTask \/ FetcherDone \/ FetchRefused  BY <1>6, FetcherStep
<1>7. CASE Restart \/ RestartInSave \/ RestartInWrite
  BY <1>7, RestartIs, RestartStep DEF IInv
<1>8. CASE UNCHANGED vars
  <2>1. UNCHANGED <<timeline, token, stored, next_batch, sync, limited, response, lost>>
        /\ Queued' = Queued /\ Fetched' = Fetched /\ Newest' = Newest /\ event_queue' = event_queue
    BY <1>8 DEF vars, homeserver, disk, syncing, index, fetching, Queued, Fetched, Newest
  <2>2. Known' = Known  BY <2>1 DEF Known
  <2> QED  BY <2>1, <2>2 DEF IInv, Ahead, Overtake, Seen, Cover
<1> QED  BY <1>1, <1>2, <1>3, <1>4, <1>5, <1>6, <1>7, <1>8 DEF Next, Fetcher, Fault

(* A message the response loop is past is known, lost, or open to a task.  *)
THEOREM Invariance == Spec => []IInv
BY InvInit, InvStep, PTL DEF Spec

(* A message that the saved sync token is past can be found, is on its way *)
(* there, or is reached by a task; only the faults that are named lose one.*)
THEOREM NoneLost == Spec => []NothingLost
BY Invariance, CoverGives, PTL

(* When sync_tasks saves the token the queue is empty of what the sync has *)
(* delivered: it is stored, or in the write of fetcher_loop.               *)
LEMMA QueuedAtSave ==
  ASSUME IInv, SyncSaves, NEW i \in Queued, i.event > token
  PROVE  \E w \in Range(writes) : w.by = "fetcher" /\ i \in w.items
<1>1. i \notin event_queue
  <2>1. Committed  BY DEF SyncSaves
  <2> QED  BY <2>1 DEF IInv, Ahead, Committed
<1>2. PICK w \in Range(writes) : i \in w.items  BY <1>1 DEF Queued
<1>3. PICK n \in 1 .. Len(writes) : w = writes[n]
  <2>1. writes \in Seq(WritesTo(next_batch))  BY DEF IInv, TypeInv, IndexInv
  <2>2. DOMAIN writes = 1 .. Len(writes)  BY <2>1
  <2> QED  BY <2>2 DEF Range
<1>4. sync # "writing"  BY DEF SyncSaves, Committed
<1>5. w.by = "fetcher"  BY <1>3, <1>4, WritersAre DEF IInv
<1> QED  BY <1>2, <1>5

(* What the token moves past when it is saved.                             *)
LEMMA SaveCovers ==
  ASSUME IInv, SyncSaves, NEW e \in Messages \cap token + 1 .. token'
  PROVE  \/ OnDisk(e, tasks') \/ e \in lost
         \/ \E w \in Range(writes) : w.by = "fetcher" /\ Filed(timeline[e], e) \in w.items
<1>1. /\ token' = next_batch /\ tasks' = tasks \cup limited
      /\ token \in Nat /\ next_batch \in Nat
  BY Positions DEF SyncSaves, IInv, TypeInv
<1>2. e \in Nat /\ token < e /\ e <= next_batch  BY <1>1
<1>3. Covered(timeline, e, Known, Fetched \cup limited, lost)
  BY <1>2 DEF IInv, Cover
<1>4. CASE Filed(timeline[e], e) \in stored
  BY <1>4 DEF OnDisk, Indexed, IInv, TypeInv, IndexInv
<1>5. CASE Filed(timeline[e], e) \in Queued
  <2>1. Filed(timeline[e], e).event > token  BY <1>1, <1>2 DEF Filed
  <2> QED  BY <1>5, <2>1, QueuedAtSave
<1>6. ASSUME NEW t \in Fetched \cup limited, Open(timeline, t, e, Known)
      PROVE  OnDisk(e, tasks')
  <2>1. t \notin Fetched
    <3>1. t \in Fetched => t.token \in 0 .. token  BY PlacesAre DEF IInv, TasksTo
    <3>2. e <= t.token  BY <1>6 DEF Open
    <3> QED  BY <1>1, <1>2, <3>1, <3>2
  <2>2. Reaches(t, e)  BY <1>6, OpenReaches
  <2> QED  BY <1>1, <1>6, <2>1, <2>2 DEF OnDisk
<1> QED  BY <1>3, <1>4, <1>5, <1>6 DEF Covered, Known

(* Only a restart and the save move the token, and a restart is a fault.   *)
LEMMA OnlySavesMove ==
  ASSUME IInv, [Next]_vars, faults' = faults, ~SyncSaves
  PROVE  token' = token
<1>1. faults \in Nat  BY SizesAssumption DEF IInv, TypeInv, Counts
<1>2. ~ (Restart \/ RestartInSave \/ RestartInWrite)
  <2>1. faults' # faults + 1  BY <1>1
  <2>2. \A saved, rows, indexed : ~ Crash(saved, rows, indexed)  BY <2>1 DEF Crash
  <2> QED  BY <2>2 DEF Restart, RestartInSave, RestartInWrite
<1>3. CASE \E r \in Rooms : NewEvent(r)  BY <1>3 DEF NewEvent, disk
<1>4. CASE SyncLoop
  BY <1>4 DEF SyncLoop, SyncReturns, SyncCommits, SyncUnchanged, disk
<1>5. CASE WriteReturns  BY <1>5 DEF WriteReturns
<1>6. CASE Fetcher
  BY <1>6 DEF Fetcher, TakeTask, DropTask, FetchReturns, FetcherDone, disk
<1>7. CASE FetchRefused \/ FetchFails  BY <1>7 DEF FetchRefused, FetchFails, disk
<1>8. CASE UNCHANGED vars  BY <1>8 DEF vars, disk
<1> QED  BY <1>2, <1>3, <1>4, <1>5, <1>6, <1>7, <1>8 DEF Next, Fault

(* The token is saved after the events: it moves past a message only when  *)
(* that is stored or a row reaches it, when fetcher_loop's write has it in *)
(* hand, or when an earlier fault has lost it.                             *)
THEOREM SavedAfterCommit == Spec => TokenAfterCommit
<1> DEFINE A == faults' = faults =>
                  \A e \in Messages \cap token + 1 .. token' :
                    \/ OnDisk(e, tasks') \/ e \in lost
                    \/ \E w \in Range(writes) :
                         w.by = "fetcher" /\ Filed(timeline[e], e) \in w.items
<1>1. IInv /\ [Next]_vars => [A]_vars
  <2> SUFFICES ASSUME IInv, [Next]_vars, faults' = faults,
                      NEW e \in Messages \cap token + 1 .. token'
               PROVE  \/ OnDisk(e, tasks') \/ e \in lost
                      \/ \E w \in Range(writes) :
                           w.by = "fetcher" /\ Filed(timeline[e], e) \in w.items
    OBVIOUS
  <2>1. CASE SyncSaves  BY <2>1, SaveCovers
  <2>2. CASE ~SyncSaves
    <3>1. token' = token /\ token \in Nat  BY <2>2, OnlySavesMove, Positions DEF IInv, TypeInv
    <3>2. token + 1 .. token = {}  BY <3>1
    <3> QED  BY <3>1, <3>2
  <2> QED  BY <2>1, <2>2
<1> QED  BY <1>1, Invariance, PTL DEF Spec, TokenAfterCommit
=============================================================================
