-------------------------------- MODULE History --------------------------------
(***************************************************************************)
(* How a pan client built with indexing (INDEXING_ENABLED of index.py)     *)
(* fills its search index.  The sync loop indexes the events a sync        *)
(* delivers and, for a room whose timeline the homeserver cut off, stores  *)
(* a task; fetcher_loop works such tasks off, going back in the room's     *)
(* history until it meets an event that is in the store.                   *)
(* Position i of the homeserver's stream is the event i; a token is the    *)
(* position of the last event before it.                                   *)
(***************************************************************************)
EXTENDS Naturals, Sequences, FiniteSets, SequencesExt

CONSTANTS Rooms,      \* joined rooms: encrypted, or index_encrypted_only is off
          MaxEvents,  \* bound: events on the homeserver
          Messages,   \* events of the types that are indexed
          Limit,      \* events of a room the homeserver puts into one sync
          BatchSize,  \* conf.indexing_batch_size
          MaxFaults,  \* bound: crashes and failed requests
          NoToken

ASSUME EventsAssumption == MaxEvents \in Nat /\ Messages \subseteq 1 .. MaxEvents
ASSUME SizesAssumption == /\ Limit \in Nat \ {0} /\ BatchSize \in Nat \ {0}
                          /\ MaxFaults \in Nat
ASSUME NoTokenAssumption == NoToken \notin 0 .. MaxEvents

VARIABLES
  timeline,        \* the homeserver: the room of each event, oldest first
  \* on disk
  token,           \* PanSyncTokens, 0 for none
  tasks,           \* PanFetcherTasks: rooms and tokens
  stored,          \* events.db: events with the room they are filed under
  searchable,      \* the same in the full-text index
  \* the process
  next_batch,      \* nio's token of the last sync response
  synced,          \* a response has arrived since the start: self.rooms is filled
  last_sync_token,
  sync,            \* the sync loop: "idle", "received", "writing", "written"
  limited,         \* tasks for the cut-off timelines of the response it handles
  event_queue,     \* IndexStore: events to be written
  writes,          \* commit_events under way, in the order of the write lock
  fetch_queue,     \* history_fetch_queue
  fetcher,         \* "waiting", "fetching", "writing", "written", "dead"
  in_hand,         \* the task fetcher_loop took, in a set
  response,        \* the last answer of room_messages it got, in a set
  \* for the properties
  lost,            \* events that a fault may have lost
  faults           \* counts MaxFaults

homeserver == <<timeline>>
disk == <<token, tasks, stored, searchable>>
syncing == <<next_batch, synced, last_sync_token, sync, limited>>
index == <<event_queue, writes>>
fetching == <<fetch_queue, fetcher, in_hand, response>>
vars == <<homeserver, disk, syncing, index, fetching, lost, faults>>

Newest == Len(timeline)
EventsOf(r) == {e \in 1 .. Newest : timeline[e] = r}
Filed(r, e) == [room |-> r, event |-> e]
Task(r, p) == [room |-> r, token |-> p]
LastOf(n, E) == {e \in E : Cardinality({f \in E : f > e}) < n}
Oldest(E) == CHOOSE e \in E : \A f \in E : e <= f

\* The process with nothing in memory.
Init ==
  /\ timeline = <<>>
  /\ token = 0 /\ tasks = {} /\ stored = {} /\ searchable = {}
  /\ next_batch = 0 /\ synced = FALSE /\ last_sync_token = NoToken
  /\ sync = "idle" /\ limited = {}
  /\ event_queue = {} /\ writes = <<>>
  /\ fetch_queue = <<>> /\ fetcher = "waiting" /\ in_hand = {} /\ response = {}
  /\ lost = {} /\ faults = 0

NewEvent(r) ==
  /\ Newest < MaxEvents
  /\ timeline' = Append(timeline, r)
  /\ UNCHANGED <<disk, syncing, index, fetching, lost, faults>>

-----------------------------------------------------------------------------
(* IndexStore.  An event is written in a transaction of the database that  *)
(* commits the full-text index before it ends.                             *)
Commit(who) ==
  /\ writes' = Append(writes, [by |-> who, items |-> event_queue])
  /\ event_queue' = {}

\* Mistakes: index.commit is left out of write_events; sync_tasks does not
\* wait for commit_events, or looks at the token before it; fetcher_loop does
\* not let go of a task.
WriteReturnsUnindexed ==
  /\ writes # <<>>
  /\ stored' = stored \cup Head(writes).items
  /\ writes' = Tail(writes)
  /\ IF Head(writes).by = "sync"
     THEN sync' = "written" /\ UNCHANGED fetcher
     ELSE fetcher' = "written" /\ UNCHANGED sync
  /\ UNCHANGED <<homeserver, token, tasks, searchable, next_batch, synced, last_sync_token,
                 limited, event_queue, fetch_queue, in_hand, response, lost, faults>>
CommittedAtOnce == sync \in {"received", "written"}
SyncUnchangedFirst ==
  /\ sync = "received" /\ last_sync_token = next_batch
  /\ sync' = "idle" /\ limited' = {}
  /\ UNCHANGED <<homeserver, disk, next_batch, synced, last_sync_token, index, fetching,
                 lost, faults>>
AtStartHolding(task) == /\ tasks' = tasks \ {task}
                        /\ fetcher' = "waiting" /\ UNCHANGED <<in_hand, index>>

WriteReturns ==
  /\ writes # <<>>
  /\ searchable' = searchable \cup Head(writes).items
  /\ stored' = stored \cup Head(writes).items
  /\ writes' = Tail(writes)
  /\ IF Head(writes).by = "sync"
     THEN sync' = "written" /\ UNCHANGED fetcher
     ELSE fetcher' = "written" /\ UNCHANGED sync
  /\ UNCHANGED <<homeserver, token, tasks, next_batch, synced, last_sync_token, limited,
                 event_queue, fetch_queue, in_hand, response, lost, faults>>

-----------------------------------------------------------------------------
(* The sync loop.  A response carries the newest events of each room since *)
(* the last one; store_message_cb queues them for the index.               *)
SyncReturns ==
  LET fresh(r) == {e \in EventsOf(r) : e > next_batch}
      delivered(r) == LastOf(Limit, fresh(r))
  IN /\ sync = "idle"
     /\ sync' = "received"
     /\ next_batch' = Newest /\ synced' = TRUE
     /\ limited' = {Task(r, Oldest(delivered(r)) - 1) :
                      r \in {r \in Rooms : delivered(r) # fresh(r)}}
     /\ event_queue' = event_queue \cup
          UNION {{Filed(r, e) : e \in delivered(r) \cap Messages} : r \in Rooms}
     /\ UNCHANGED <<homeserver, disk, last_sync_token, writes, fetching, lost, faults>>

\* sync_tasks: the events come first.
SyncCommits ==
  /\ sync = "received" /\ event_queue # {}
  /\ sync' = "writing" /\ Commit("sync")
  /\ UNCHANGED <<homeserver, disk, next_batch, synced, last_sync_token, limited, fetching,
                 lost, faults>>

\* commit_events returns at once when fetcher_loop has taken the whole queue.
Committed == sync = "written" \/ (sync = "received" /\ event_queue = {})

SyncUnchanged ==
  /\ Committed /\ last_sync_token = next_batch
  /\ sync' = "idle" /\ limited' = {}
  /\ UNCHANGED <<homeserver, disk, next_batch, synced, last_sync_token, index, fetching,
                 lost, faults>>

SyncSaves ==
  /\ Committed /\ last_sync_token # next_batch
  /\ last_sync_token' = next_batch /\ token' = next_batch
  /\ tasks' = tasks \cup limited
  /\ \E order \in SetToSeqs(limited) : fetch_queue' = fetch_queue \o order
  /\ sync' = "idle" /\ limited' = {}
  /\ UNCHANGED <<homeserver, stored, searchable, next_batch, synced, index, fetcher, in_hand,
                 response, lost, faults>>

-----------------------------------------------------------------------------
(* fetcher_loop.                                                           *)
TakeTask ==
  /\ fetcher = "waiting" /\ fetch_queue # <<>> /\ synced
  /\ in_hand' = {Head(fetch_queue)} /\ fetch_queue' = Tail(fetch_queue)
  /\ fetcher' = "fetching"
  /\ UNCHANGED <<homeserver, disk, syncing, index, response, lost, faults>>

\* A room that is not in self.rooms has been left, the comment says; before
\* the first sync response no room is.
DropTask ==
  LET task == Head(fetch_queue)
  IN /\ fetcher = "waiting" /\ fetch_queue # <<>> /\ ~synced
     /\ fetch_queue' = Tail(fetch_queue)
     /\ tasks' = tasks \ {task}
     /\ lost' = lost \cup {e \in EventsOf(task.room) : e <= task.token}
     /\ UNCHANGED <<homeserver, token, stored, searchable, syncing, index, fetcher, in_hand,
                    response, faults>>

\* What the loop makes of an answer: of this round's, or of an earlier one's.
AtStart(task) ==
  /\ tasks' = tasks \ {task}
  /\ fetcher' = "waiting" /\ in_hand' = {}
  /\ UNCHANGED index

Continue(task, answer, queue) ==
  LET next == Task(task.room, answer.end)
  IN /\ tasks' = (tasks \ {task}) \cup {next}
     /\ fetch_queue' = Append(queue, next)
     /\ fetcher' = "waiting" /\ in_hand' = {}
     /\ UNCHANGED writes

Process(task, answer, queue) ==
  LET added == event_queue \cup {Filed(task.room, e) : e \in answer.chunk \cap Messages}
  IN \/ /\ answer.chunk = {}
        /\ AtStart(task) /\ fetch_queue' = queue
     \/ /\ answer.chunk # {}
        /\ Filed(task.room, answer.end + 1) \notin stored
        /\ event_queue' = added /\ Continue(task, answer, queue)
     \/ /\ answer.chunk # {}
        /\ Filed(task.room, answer.end + 1) \in stored
        /\ writes' = Append(writes, [by |-> "fetcher", items |-> added])
        /\ event_queue' = {} /\ fetcher' = "writing" /\ fetch_queue' = queue
        /\ UNCHANGED <<tasks, in_hand>>

Answer(task) ==
  LET chunk == LastOf(BatchSize, {e \in EventsOf(task.room) : e <= task.token})
  IN [chunk |-> chunk, end |-> IF chunk = {} THEN 0 ELSE Oldest(chunk) - 1]

FetchReturns ==
  /\ fetcher = "fetching"
  /\ \E task \in in_hand :
       /\ response' = {Answer(task)}
       /\ Process(task, Answer(task), fetch_queue)
  /\ UNCHANGED <<homeserver, token, stored, searchable, syncing, lost, faults>>

\* The homeserver answers with an error: nio's object has no chunk, and the
\* exception ends the loop.
FetchRefused ==
  /\ fetcher = "fetching" /\ faults < MaxFaults
  /\ fetcher' = "dead" /\ faults' = faults + 1
  /\ UNCHANGED <<homeserver, disk, syncing, index, fetch_queue, in_hand, response, lost>>

\* A connection error: the task goes back on the queue, and the round goes on
\* with the answer of an earlier one; when there was none the loop ends.
FetchFails ==
  /\ fetcher = "fetching" /\ faults < MaxFaults
  /\ faults' = faults + 1
  /\ \E task \in in_hand :
       \/ /\ response = {}
          /\ fetcher' = "dead" /\ fetch_queue' = Append(fetch_queue, task)
          /\ UNCHANGED <<tasks, in_hand, index>>
       \/ \E answer \in response : Process(task, answer, Append(fetch_queue, task))
  /\ UNCHANGED <<homeserver, token, stored, searchable, syncing, response, lost>>

FetcherDone ==
  /\ fetcher = "written"
  /\ tasks' = tasks \ in_hand
  /\ fetcher' = "waiting" /\ in_hand' = {}
  /\ UNCHANGED <<homeserver, token, stored, searchable, syncing, index, fetch_queue, response,
                 lost, faults>>

-----------------------------------------------------------------------------
(* The process stops, or loop_stop cancels both loops: what is in memory   *)
(* is gone, and the next start loads the rows.                             *)
\* A fetch going back from a task stops at an event that is stored.
Reaches(t, e) == /\ t.room = timeline[e] /\ e <= t.token
                 /\ \A f \in EventsOf(t.room) :
                      f \in e + 1 .. t.token => Filed(t.room, f) \notin stored
Indexed(e) == Filed(timeline[e], e) \in stored \cap searchable
OnDisk(e, rows) == Indexed(e) \/ \E t \in rows : Reaches(t, e)

\* An event behind one that is stored ahead of the saved token: the fetch that
\* the next sync asks for will stop before it.
Overtaken(e, saved) == /\ e > saved
                       /\ \E f \in e + 1 .. Newest : Filed(timeline[e], f) \in stored

Crash(saved, rows, indexed) ==
  /\ faults < MaxFaults /\ faults' = faults + 1
  /\ token' = saved /\ tasks' = rows /\ searchable' = indexed
  /\ lost' = lost \cup {e \in 1 .. Newest : \/ e <= saved /\ ~OnDisk(e, rows)
                                            \/ Overtaken(e, saved)}
  /\ next_batch' = saved /\ synced' = FALSE /\ last_sync_token' = NoToken
  /\ sync' = "idle" /\ limited' = {} /\ event_queue' = {} /\ writes' = <<>>
  /\ \E order \in SetToSeqs(rows) : fetch_queue' = order
  /\ fetcher' = "waiting" /\ in_hand' = {} /\ response' = {}
  /\ UNCHANGED <<homeserver, stored>>

Restart == Crash(token, tasks, searchable)

\* Between the transactions of sync_tasks: the token is saved, some tasks are.
RestartInSave ==
  /\ Committed /\ last_sync_token # next_batch
  /\ \E some \in SUBSET limited : Crash(next_batch, tasks \cup some, searchable)

\* In write_events, after index.commit and before the transaction ends.
RestartInWrite == /\ writes # <<>>
                  /\ Crash(token, tasks, searchable \cup Head(writes).items)

-----------------------------------------------------------------------------
SyncLoop == SyncReturns \/ SyncCommits \/ SyncUnchanged \/ SyncSaves
Fetcher == TakeTask \/ DropTask \/ FetchReturns \/ FetcherDone
Fault == FetchRefused \/ FetchFails \/ Restart \/ RestartInSave \/ RestartInWrite

Next == (\E r \in Rooms : NewEvent(r)) \/ SyncLoop \/ WriteReturns \/ Fetcher \/ Fault

Fairness == WF_vars(SyncLoop) /\ WF_vars(WriteReturns) /\ WF_vars(Fetcher)
Spec == Init /\ [][Next]_vars
FairSpec == Spec /\ Fairness

-----------------------------------------------------------------------------
(* Properties.                                                             *)
Tasks == [room : Rooms, token : 0 .. MaxEvents]
Items == [room : Rooms, event : 1 .. MaxEvents]

\* Every variable has its type, and the loops' states agree with what they hold.
TypeOK ==
  /\ timeline \in Seq(Rooms) /\ Newest <= MaxEvents
  /\ token \in 0 .. MaxEvents /\ next_batch \in 0 .. MaxEvents /\ token <= next_batch
  /\ tasks \subseteq Tasks /\ limited \subseteq Tasks /\ in_hand \subseteq Tasks
  /\ stored \subseteq Items /\ searchable \subseteq Items /\ event_queue \subseteq Items
  /\ synced \in BOOLEAN /\ last_sync_token \in 0 .. MaxEvents \cup {NoToken}
  /\ sync \in {"idle", "received", "writing", "written"}
  /\ fetcher \in {"waiting", "fetching", "writing", "written", "dead"}
  /\ fetch_queue \in Seq(Tasks)
  /\ Cardinality(in_hand) = (IF fetcher = "waiting" THEN 0 ELSE 1)
  /\ lost \subseteq 1 .. MaxEvents /\ faults \in 0 .. MaxFaults

\* Events on their way: queued for the index or being written, or reached by
\* a task in memory.
Written(i) == i \in event_queue \/ \E w \in Range(writes) : i \in w.items
InMemory(e) ==
  \/ Written(Filed(timeline[e], e))
  \/ \E t \in Range(fetch_queue) \cup in_hand : Reaches(t, e)

\* A message that the saved sync token is past can be found, in the database
\* and in the full-text index whichever step of a write the process stopped
\* at; or it is on its way there, or reached by a task; only the faults that
\* are named lose one.  In particular a fetch that stops where it meets a
\* stored event leaves nothing behind it that no other task reaches.
NothingLost ==
  \A e \in Messages \cap 1 .. token :
    OnDisk(e, tasks) \/ InMemory(e) \/ e \in lost

\* The sync token moves past a message only when a restart would find it: in
\* the store or reached by a row; or when fetcher_loop's write has it in hand,
\* as sync_tasks then does not wait; or when an earlier fault has lost it.
TokenAfterCommit ==
  [][faults' = faults =>
       \A e \in Messages \cap token + 1 .. token' :
         \/ OnDisk(e, tasks') \/ e \in lost
         \/ \E w \in Range(writes) : w.by = "fetcher" /\ Filed(timeline[e], e) \in w.items]_vars

\* A message the sync token is past is indexed in the end, unless a fault has
\* lost it or has ended fetcher_loop.
EveryMessageIndexed ==
  \A e \in Messages :
    (e <= token) ~> (\/ e <= Newest /\ Indexed(e)
                     \/ e \in lost \/ fetcher = "dead")
=============================================================================
