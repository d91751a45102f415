# A TLA+ verification project for pantalaimon

Pantalaimon is an end-to-end encryption aware reverse proxy for Matrix. A Matrix
client talks to it as to its homeserver; pantalaimon forwards the requests,
encrypts what the client sends to encrypted rooms and decrypts what it receives.
For that it runs, for every user who logged in through it, a client of its own
(a *pan client*, a subclass of nio's `AsyncClient`) that syncs in the background.
A user interface on D-Bus (`panctl` is one of its clients) lets the user verify
devices, answer prompts and move keys.

This directory models the parts of the daemon in which several activities meet:
TLA+ modules, TLC configurations for small instances, and proofs checked by TLAPS.
All line numbers are those of `src/pantalaimon/`.

## 1. Inventory

### Threads, tasks and what passes between them

| activity | where | what it does |
|---|---|---|
| HTTP coroutines | `daemon.py`, `ProxyDaemon` handlers | one per request of a Matrix client; interleave at every `await` |
| pan client's sync loop | `client.py`, nio's `sync_forever` | changes rooms, devices, keys, SAS transactions; calls the `*_cb` callbacks and `sync_tasks`; sends to-device messages |
| fetcher loop | `client.py:335` | one per pan client, with indexing only: fetches history for rooms whose timeline was cut off |
| router task | `main.py:147` `message_router` | takes the UI's messages one by one and awaits `ProxyDaemon.receive_message` |
| UI thread | `ui.py` `GlibT` | D-Bus methods put messages on one janus queue; a timer takes one message at a time off the other |
| panctl | `panctl.py` | another process; a main thread that calls D-Bus methods, a thread that receives the signals |
| process pool, executor | `daemon.py:1308`, key import and export, `index.py:452` | a coroutine awaits them |
| stores | `store.py`, sqlite; `index.py`, sqlite and tantivy | survive a restart |

All but the UI thread share one event loop, so a step is what a coroutine does
between two awaits. That is the grain of the actions.

### Components

| component | state | operations | what makes it correct | module |
|---|---|---|---|---|
| sending a message | per room: semaphore, decision queue, `room_members_fetched`; nio's sessions, device trust | `send_message` and `_send`, the router's branch for answers | one prompt per room, one decision per message, posted at most once, no device ignored without consent, every exit releases the room | `SendGate`, `SendMessage` |
| commands | two queues, message ids, device store, the UI's copy | D-Bus methods, `message_router`, `receive_message`, `send_update_devices`, `message_callback` | answered exactly once; the copy converges | `Commands` |
| pan clients | `pan_clients`, `client_info`, their loops; accounts, tokens, server users on disk | `start_pan_client`, `__attrs_post_init__`, `_find_client`, `shutdown`, `loop_stop` | a registered client syncs; a token brings its user back and finds its client; one loop per user | `PanClients` |
| verification | nio's `Sas` objects, `verified`, the UI's copy | `start_sas`, `accept_sas`, `confirm_sas`, `cancel_sas`, `key_verification_cb` | reported iff verified; each command answered once | `Verification` |
| sync and messages | the body a coroutine works on, keys, what pan knows of a room | `sync`, `messages`, `decrypt_body`, `decrypt_sync_body`, `sanitize_filter` | nothing given up that could be decrypted; every body returned | `SyncDecrypt` |
| key dropping store | one session per room and sender, in memory and on disk | `add`, `save`, `load` | memory and disk agree, whatever drops what | `SyncDecrypt` |
| media | `PanUploadInfo`, `PanMediaInfo`, the LRU cache | `upload`, `download`, `profile`, media branches of `send_message`, `store_event_media` | an upload's keys outlive events, evictions, restarts | `Media` |
| key sharing | nio's key requests and outgoing messages | `handle_key_request_message`, `key_request_cb` | a key that was continued is sent | `KeyShare` |
| panctl | ids of its own commands | `show_response`, the calls in `loop` | a response is shown by the panctl that gave the command | `Panctl` |
| history fetching | fetch queue, fetcher tasks, sync token | `sync_tasks`, `fetcher_loop`, `store_message_cb` | no message the token is past is lost; each is indexed in the end | `History` |
| search index | event queue, write lock, `events.db`, full-text index | `commit_events`, `write_events`, `event_in_store`; `search` | database and full-text index agree | `History` (writing) |
| forwarding | none | `forward_to_web`, `createRoom`, `filter`, `search`, `well_known` | - | no: no state |
| configuration, log, start-up | none after start | `PanConfig.read`, `init` | - | no: constants of the modules |

How the components meet: a prompt of `send_message` is answered by a command; a
command changes the trust that the next send reads and that a key share needs; a
verification changes it, too; the pan client's sync feeds all of them; media keys
are looked up by a send. `KeyShare` is composed with `Panctl` (it `EXTENDS` it and
supplies the router and the handler between its two queues), `SendMessage` with
`SendGate`.
Each module models the others' influence as actions of its environment
(`DecideDevice` and `SyncDevice` in `SendMessage`, `IgnoreDevices` in `Commands`,
`Login` in `Media`, `SetTrust` in `KeyShare`), so that every interleaving with them is covered.

### Hard behaviours

The list, line by line, is under `hazards` in `PROJECT.json`: prompts that time
out against late answers, a queue that is replaced per prompt, flags read before
an await and used after it, a second `_send`, errors that end the router,
overlapping logins, crashes between two saves, cache and table that disagree,
retries that work on a half-changed body, a loop that reuses the answer of an
earlier round, two loops that share one queue of events, ids that start anew.

## 2. Modules

### `SendGate` and `SendMessage`

`SendGate` says what the send path promises: a message is *open*, *asked* about,
*approved*, *out* or *refused*; a room has at most one message that is asked about
or approved, no other leaves meanwhile, and *out* and *refused* are final.

`SendMessage` is `ProxyDaemon.send_message` (`daemon.py:920-1139`). `pc[q]` is
the await at which the coroutine of request `q` is suspended:

| `pc` | the await |
|---|---|
| `body` | `request.json()` (972) |
| `forwarding` | the unencrypted path (979-1001) |
| `acquire` | `async with sem` (1063) |
| `members` | `joined_members` (1070) |
| `ready`, `posting` | `_send(ignore_verification)` before and after the event is handed over (1075) |
| `asking` | `queue.get()` under `wait_for` (1090) |
| `approved`, `reposting` | `_send(True)` before and after the event is handed over (1120) |

`queue` is the FIFO that a prompt creates, `send_decision_queues` the registration
under which the router finds it; the two are kept apart because the code keeps
them apart: a queue may still hold answers when it is no longer registered.
`Timeout` may fire with an answer on the queue, as `wait_for` may cancel a `get`
whose item has arrived. `Disconnect` is aiohttp's cancellation of a handler, at
any await. The semaphore's order of waking is left open.
nio's part is small and external: `ShareSession` marks undecided devices as
ignored when no session is shared, `TrustError` is the raise that starts a prompt.

`verdict`, defined over `pc`, `posted` and `status`, is the refinement mapping.

### `Commands`

A command gets its id in the UI thread (`Issue`), is routed (`Route...`) and is
answered over `pan_queue`, which also carries updates of the device list.
`KeysQuery`, `IgnoreDevices` and `SendUpdate` are the changes that sync and sends
make beside the router. Key file commands keep the router busy across an await
(`RouteKeys`, `FinishKeys`). `RouteUnknownUser` ends it.

### `PanClients`

A login is two awaits apart: look-up (`FindExisting`, `StartClient`), nio's login
(`LogIn`), registration with token and loop (`Register`). `FindClient` is the look-up
of a request's token: in `client_info`, else with the homeserver, whose confirmation
is cached; the cache is filled before the client exists and never emptied. `Crash` strips the
process of all but the disk, `Start` restores as `__attrs_post_init__` does.
`Shutdown`, `StopClient` and `Exit` are the walk over the dictionary, in any order,
while logins under way go on: one that adds an entry makes the walk raise, one that
replaces an entry does not (`late`). Where the interpreter's own signal handling
cancels the tasks before the walk begins, the end is that of `Crash`.

### `Verification`

A handler is one action up to its await (`StartSas`, `AcceptSas`, `ConfirmSas`,
`CancelSas`) and one after it (`SendReturns`, `ConfirmReturns`, `SendFails`), since
the sync runs in between (`Receive...`). `ActiveSas` is nio's rule that the newest
transaction counts. All transactions are with one device, so `verified` is a flag.
`ReceiveCancel` may come in any state of a transaction, also when both sides have
confirmed and `confirm_sas` is still suspended: the handler then finds it canceled.

### `SyncDecrypt`

One pass over a body is one step, as it contains no await. `DecryptRaises` leaves
some of the events decrypted, since the code works in place; `PanSync` wakes the
waiting coroutines and brings keys and rooms; `DecryptTimeout` is the last pass.
Each event stands for the session that decrypts it, so `Siblings` are the sessions
of one room and sender. With `drop_old_keys` (`KeyDroppingSqliteStore`) a session
that comes, by `HandleToDevice` with a body or by `PanSync`, drops the siblings in
memory (`keys`) and on disk (`stored`); `Restart` loads what was stored.

`left` are the rooms that a body of /sync has under "leave": `decrypt_sync_body` looks
at "join" only, so that their events stay as they are. A filter is what its lists say of
m.room.encrypted: the type itself, a wildcard that matches it or another entry, and
of `not_types` how often. `SanitizeSubfilter` does to it what the code does: it adds the
type to a list of types that has an entry, and removes the first entry of `not_types` that
is equal to the type. `asked` remembers the filter as the client sent it;
`DropsEncrypted` is what Matrix makes of a filter; `SlipsThrough` names the filters that
go on dropping encrypted events: no types at all, a wildcard, the type twice.

### `Media`

The keys of a media are its own or other ones (an event may put any keys beside
any URI). The LRU order is abstracted: of a full cache, any subset that fits and
keeps the newest entry may stay. `RestartInUpload` stops between the two saves.
`raw` and the result `cipher` are a download that is forwarded as it is, `keys[q]` the
keys with which a coroutine is about to decrypt.
`IndInv` is the inductive invariant of the proof.

### `History`

A pan client of a build with indexing. At this commit `index.py:20` says `if False`,
so that `fetcher_loop` and the index never run; the code is complete, though, and is
modelled as it is written. Positions of the homeserver's stream serve as events and
as tokens. The sync loop is an action per await (`SyncReturns`, `SyncCommits`,
`SyncUnchanged`, `SyncSaves`), `fetcher_loop` likewise (`TakeTask`, `DropTask`,
`FetchReturns`, `FetcherDone`); both queue events in `event_queue` and both write it
(`Commit`, `WriteReturns`, one at a time under the lock). `Process` is the part of
the loop after the answer, shared by an answer of this round (`FetchReturns`) and by
one of an earlier round that a connection error leaves in `response` (`FetchFails`).
`Crash` is any stop of the process, with what is on disk as its parameters:
`RestartInSave` between the transactions of `sync_tasks`, `RestartInWrite` between
the commit of the full-text index and that of the database.

`lost` collects the messages that a fault takes away for good, so that
`NothingLost` and `EveryMessageIndexed` speak of all the others. They are lost

- when the process stops between `save_token` and the tasks of the response, or
  while events, or a task whose row is gone, are only in memory (`client.py:425`,
  `399`, `373` after a connection error);
- when it stops after `commit_events` and before `save_token`: the events are stored
  ahead of the token and a later fetch stops at them (`418`);
- when a stored task is taken before the first sync response: no room is known yet,
  and the row of a room "we probably left" is deleted (`354`).

No other step loses one. In particular the answer of another room, processed after a
connection error, does no harm while the process lives: the failed task is back on
the queue, whatever became of its row.

### `Panctl` and `KeyShare`

`Panctl` is the way of a command and its response between several panctls and the
daemon: a number taken (`CallMethod`) and recorded by panctl's main thread in a
second step (`RecordId`), since the signal arrives in another thread; the response, which
the UI thread emits once (`EmitResponse`) and each panctl takes off its own `signals`
in its own time and compares with its own numbers (`ReceiveResponse`,
`ShowResponse`); and a daemon that counts from 0 again (`RestartDaemon`) while signals of
the run before are still under way. `mistaken` records the numbers that a panctl has
given to another's response; only the property reads it.

`KeyShare` puts the daemon between the two queues: requests and cancellations of
the sync, the two commands, and the sends. nio keeps requests of unverified devices
(`waiting`) and messages (`outgoing`); both the handler and the sync loop send all
that is queued, so one message may be under way twice (`in_flight`), and a failed
send leaves it queued.

### MC modules and mistakes

`MC...` modules define the instances and their symmetry. Each component's module
also holds a few operators introduced as *mistakes*: variants of an action with a
plausible bug. No specification uses them; for each property there is one with
which TLC finds it violated (`mutants` in `PROJECT.json`).

## 3. What the runs check

Runs expected to pass:

| run | bounds | what it shows |
|---|---|---|
| `SendMessage` | 2 requests to one of 2 rooms, 2 answers to either, 1 device; cancellation on | types; one prompt per room; posted at most once; an answer decides one message and is acknowledged once; an answer is lost only behind a decision; devices are ignored only by consent; implements `SendGate` |
| `SendMessageLive` | the same with 1 room, cancellation off, no symmetry | every request that has arrived is answered |
| `Commands` | 2 users, one with a client, 2 devices, 2 commands, 3 other changes | list converges; answered once; always while the router lives |
| `PanClients` | 3 logins of a user, 1 of another, 3 starts | serving client syncs; token restores; a known token is served; one loop unless logins overlapped; shutdown stops |
| `Verification` | 1 transaction per side, 4 commands | verified is reported (three exceptions), done only if verified; each command answered once, and at last |
| `SyncDecrypt` | a sync and a /messages, 2 events of a sender in a room, joined or left, 1 filter, with and without dropping, restarts | nothing given up that could be decrypted, nothing left encrypted or filtered away but as named; passes are monotone; every body returned; memory and store agree |
| `Media` | 3 requests, 1 received attachment, 3 further URIs, cache of 1 | uploads keep their keys; cache within table; uploads stay readable; sent with the right keys; forwarded wholly |
| `History` | 2 rooms, 4 events, 1 event of a room per sync, pages of 2, 2 faults | nothing lost but by the named faults; the token follows the events; every message indexed in the end |
| `KeyShare` | 2 panctls, 2 runs of 2 commands and 1, 2 requests of a device, 1 failed send | a continued key is sent; responses find their panctl, also when a signal is handled after a restart |

Why the bounds are enough for the cases that matter: a second request of a room is
what queues behind a prompt, a second answer is what comes too late, a second room
is what an answer may name wrongly; a second device tells an update of one from a
replacement of the list; a third login of a user finds a client after two
overlapped; a cache of one entry evicts at every second look-up; four commands are
a start, a confirmation and two out of place; four events over two rooms with one
per sync make a cut-off timeline whose history takes two pages while the other room
has an answer to be mistaken; two faults are a connection error and a crash; two
runs of the daemon give the same number twice, and a signal of the first may be handled
when the second has given its number away. The one filter of `SyncDecrypt` is sanitized in
one place and slips through in the other; that nothing depends on its other entries is
the theorem `SanitizedSubfilter`, which speaks of all filters. Larger parameters are what
the proofs are for.

Bounds in guards: `MaxCommands`, `MaxChanges` (`Commands`), `MaxCommands`
(`Verification`), `MaxStarts` (`PanClients`), `MaxEvents` and `MaxFaults`
(`History`), `MaxRuns`, `MaxCommands` for each run and `MaxFailures` (`KeyShare`). The
other modules are bounded by their sets: a request is handled once, an answer given once, a URI taken once.
Every run says `CHECK_DEADLOCK FALSE`: when all requests are answered and the
bounded environment has nothing left to do the system rests.

### Findings

Three runs are expected to find a violation, each of a sentence in the repository:

| run | property | what happens |
|---|---|---|
| `SendPlainRace` | `PlainOnlyIfUnencrypted` | `room.encrypted` is read (934) before the body is awaited (972); a sync in between turns encryption on and the message goes out unencrypted |
| `CommandsUnknownUser` | `EveryCommandAnswered` | `message_router` goes on with a missing proxy (`main.py:175`), which ends the task |
| `PanClientsOverlap` | `OneLoopPerUser` | look-up (581) and registration (627) are an await apart |

More were met while modelling and are in the model as the code has them:
`has_been_synced` (`client.py:414`) has no `return`, so that a client that has synced
still answers "not synced"; an error *response* to `joined_members` sets
`room_members_fetched` (`daemon.py:1071`), so that the members are not fetched again;
`sanitize_filter` says "Make sure that a filter isn't filtering encrypted messages"
(`daemon.py:446`), but `list.remove` (440) takes out one literal entry, so that a wildcard or
a second entry stays, and an empty `types` counts as none (432); `decrypt_sync_body`
goes through `rooms.join` only (`client.py:911`), so that encrypted events of a room that
was left reach the client as they are.

Some passing properties are stated with the exception that the code needs, and
name it: `unreported` in `Commands` and `Verification` (devices that change
without an update), `router = "dead"` (an error ended the router), `overlapped`
and `late` in `PanClients`, `left`, `rooms[...] = "plain"` and `SlipsThrough` in
`SyncDecrypt`, `lost` and `fetcher = "dead"` in `History`, a number not yet recorded or
used up by mistake (`mistaken`) in `Panctl`. `IgnoredByConsent` allows the devices that
appeared after the prompt. These properties do not catch what they exempt; they say
that nothing else goes wrong. In `Verification`, `unreported` stands for three cases: the
confirmation that completed a verification could not be sent, or while it was being
sent the other side started anew or canceled.

### Fairness

Safety runs use `Spec`. The liveness properties assume only what the event loop
and the timers give: a coroutine that can run runs, `wait_for` fires, a request to
the homeserver is answered or fails (`SendMessage!FairSpec`,
`SyncDecrypt!FairSpec`), the router takes what is queued, the UI's timer ticks
(`Commands!FairSpec`, `Verification!FairSpec`). In `History` the sync
loop, the writes and `fetcher_loop` go on; in `KeyShare`, while something is to be sent
or under way, the sync loop sends it or a send returns or fails. Nothing is assumed of the user, of
Matrix clients, of the other device or of the content of syncs. Weak fairness
suffices: in `SendMessage` a waiting coroutine is passed over only by one that
sends, and each of the finitely many requests of a room does that once. In
`SyncDecrypt` the fair action is the timer's, which stays enabled while syncs
restart the coroutine again and again.

## 4. What is proved

Every invariant and every action property of the passing runs is also a theorem,
checked by TLAPS for every value of the constants that satisfies the assumptions the
modules name, and so is the refinement of `SendGate`. The assumptions say what the
code takes for granted: sets of the right kind (`EventsAssumption`,
`BoundsAssumption`), sizes that are numbers, a `None` that is not a value. One is on
the homeserver, `Fresh` in `Media`: an upload gets a URI that nothing has yet.

The proof modules have one lemma per action or group of actions, an `Invariance` or
`TypeInvariance` that puts them together, and short theorems that read the properties off.
What follows is the argument of each.

### `SendMessageProofs`

| theorem | states |
|---|---|
| `TypeCorrect` | `TypeOK` |
| `Invariance` | `IndInv` |
| `OnePrompt` | `OnePromptPerRoom` |
| `PostedOnce` | `PostedAtMostOnce` |
| `Consent` | `IgnoredByConsent` |
| `OneDecision` | `AnswerDecidesOne` |
| `LostAnswers` | `AnswerLostOnlyAfterDecision` |
| `Implementation` | `GateSpec` |

None of the properties is inductive alone. That at most one coroutine's queue is
registered needs that only the holder of the semaphore registers one
(`SemaphoreExclusive`), that it pops it on every exit (`OnePromptPerRoom`), and that a
stage outside the block never holds either. That a message is posted once needs to
know, per stage, what has been posted (`StageTellsPosted`): the second `_send` is
reached only from a stage in which the first has posted nothing. That a device is
ignored by consent needs that the answer a coroutine acts on is a send-anyways of its
own room (`ApprovedByAnswer`), which needs that answers are queued by room
(`QueuedForRoom`). `IndInv` is the conjunction.

`OneDecision` and `LostAnswers` follow an answer on its way with `AnswerInv`: an
answer that is submitted is in the UI's queue once or on a prompt's queue once or
taken by one coroutine, and in the first two cases has no reply yet
(`PendingDistinct`, `TakenDistinct`), and a coroutine takes an answer only on leaving
its prompt (`NotYetAnswered`).

The refinement maps each action to a step of `SendGate` or a stutter; the interesting
case is `Emit`, whose guard (no other message of the room undecided) is the
exclusiveness of the semaphore, read through `VerdictOf`.

### `MediaProofs`

| theorem | states |
|---|---|
| `TypeCorrect` | `TypeOK` |
| `Invariance` | `IndInv` |
| `KeysKept` | `UploadsKeepKeys` |
| `CacheWithinTable` | `CachedIsStored` |
| `KeysSent` | `SentWithKeys` |
| `Readable` | `UploadsReadable` |
| `Wholly` | `ForwardedWholly` |

An upload writes its rows with INSERT OR IGNORE, so its keys are the stored ones only
if none were stored before it. That needs `NamedIsThere`: whatever a client was told
of, an event names or a table holds is in the media repository already, while the
homeserver gives an upload a URI that is not. A cache entry is within the table
because each place that fills the cache saves or has just loaded the row. The keys
an event carries the second time it is sent (`asking`) are those of the first, which
needs `AttachmentsFit`: one place for each media the event names. An eviction is
covered once, by the lemma `RememberKeeps`, for every choice of what is evicted.

`Readable` adds `ReadableInv`, which holds between the steps of a request while others, events
and restarts go on. The keys of a copy are those of the row, which is never changed once
it is there, whatever an event puts in the cache. A download is forwarded as it is when the
keys are unknown or nobody is logged in: what was uploaded has keys, and whoever
uploaded it is logged in, through restarts; and the URI of a download under way is not
that of a later upload. (A download whose cache entry has an event's wrong keys fails;
no property says otherwise.)

`Wholly` needs `CopiesInv`: what a coroutine has uploaded again is readable, there is
less of it than the attachment has media until the last copy is made, and the
coroutine throws all of it away when one cannot be had.

### `PanClientsProofs`

| theorem | states |
|---|---|
| `TypeCorrect` | `TypeOK` |
| `Invariance` | `IInv` |
| `Serving` | `ServingClientSyncs` |
| `Restored` | `TokenRestores` |
| `Known` | `KnownTokenIsServed` |
| `OneLoop` | `OneLoopUnlessOverlap` |
| `ShutdownStops` | `ShutdownStopsClients` |

The properties speak of the dictionary, the loops and the disk, and a login changes
them an await apart. `DiskClosed` says that the tables refer to each other's rows and
that a login past its first step has stored what the next one relies on;
`ClientsRegistered` and `LoopsRegistered` tie the dictionary to the loops and the
tokens in both directions; `DownIsClean` is what a start finds.
`OneLoopUnlessOverlap` counts loops and tokens; to be inductive it
must also count the logins under way: `OneHolder` says that at most one login of a
user runs a loop, holds a token or is between two steps, and from there on a step
only moves that one on.

### `CommandsProofs`

| theorem | states |
|---|---|
| `TypeCorrect` | `TypeOK` |
| `Answered` | `AnsweredOnce` |
| `Converges` | `DeviceListConverges` |

`AnswersInv` counts, for each id, the answers on the bus, those in the queue, the
command's places in the router's queue and in its hand: the sum is 1 for an id that
was given and 0 for the others, at any length of the queues. `CountAppend` and
`CountTail` say what a queue operation does to a count.

For the list, `WillShow` says what the UI thread will show of a device when it has
worked off its queue: what the last message that carries the device says of it, or
what it shows now. `ConvergesInv` is that this is the state of the store for every
device for which no update is owed and which was not changed silently. A step that appends an
update replaces what will be shown (`ShowsLast`), one that shows a message leaves it
as it is (`ShowsTail`).

### `VerificationProofs`

| theorem | states |
|---|---|
| `TypeCorrect` | `TypeOK` |
| `Reports` | `VerifiedIsReported` |
| `AnsweredAtMostOnce` | `CommandAnsweredOnce` |

`ReportedInv` adds to the property that a transaction both sides confirmed has made
the device verified: a sync handler that finds the user's confirmation there may report
success. `AnswersInv` counts as in `Commands`, with "at most" for "exactly",
as an error may end the router with the command unanswered. The active transaction
is the greatest of a set of numbers; that there is one for any set is proved from the
well-foundedness of `<` (`LeastOf`, `GreatestOf`).

### `SyncDecryptProofs`

| theorem | states |
|---|---|
| `AddingNeverBlocks` | for any sessions that come, adding and saving them is possible |
| `OneSessionLeft` | with old keys dropped, exactly one session of a room and sender is left after one was added |
| `SanitizedSubfilter` | the filters that keep encrypted events away after sanitizing are those of `SlipsThrough`, no more and no fewer |
| `Invariance` | `IInv` |
| `TypeCorrect` | `TypeOK` |
| `MemoryIsDisk` | `StoreAgrees` |
| `GivenUp` | `NothingGivenUp` |
| `PassesKeep` | `DecryptedStays` |

`FiltersPass` says that a filter that went to the homeserver keeps encrypted events
away exactly when the client's slips through in the same place: what
`SanitizedSubfilter` proves of one filter, kept for as long as the request lives;
`NotYetGivenUp` that a body holds nothing before it is received and no event that was
given up before the last pass over it. With these the two action properties follow
from the steps that finish a body. `AddingNeverBlocks` and `OneSessionLeft` are about
`KeyDroppingSqliteStore` alone; the first also says that the choice in `Added` leaves the
model always a step to take.

### `KeyShareProofs`

| theorem | states |
|---|---|
| `TypeCorrect` | `TypeOK` |
| `Invariance` | `IInv` |
| `FindTheirPanctl` | `AnswersFindTheirPanctl` |

The numbers of the commands start anew with each run of the daemon, so that a panctl
may hold a number that another one's command has too, and a signal of an earlier run
may come when it does. `Awaited` says that a panctl whose answer is due, or whose signal
has yet to be handled, holds its number, with the run it belongs to, or has it still in hand,
or has used it up by mistake; and that no one else holds that number *from this run*.
`Once` says that a command is queued, in hand or answered, in one place: without it the
second of two equal answers would be owed to no one. `Lines` says that numbers are
recorded, and signals come, in the order of the runs. It is needed because
`show_response` removes the first number that is equal: of two calls with one number it
takes the earlier, and the response to the earlier comes first, too; so the call that
stays is the one whose signal is still to come (`ShowSorted`, `ReceiveAwaited`).
The theorem follows at the step that handles a signal, which `OnlyReceiveTakes` shows to
be the only one that takes from the signals. It is a statement
about the composition, as the assumption that only panctls' commands are answered
(and each once) is what `KeyShare` supplies to `Panctl`.

### `HistoryProofs`

| theorem | states |
|---|---|
| `TypeCorrect` | `TypeOK` |
| `Invariance` | `IInv` |
| `NoneLost` | `NothingLost` |
| `SavedAfterCommit` | `TokenAfterCommit` |

`NothingLost` allows a message to be "reached by a task", which a step elsewhere
may undo: a write that stores a later event of the room stops the fetch before it. It is
therefore not inductive, and the invariant says more. `Cover`: every message the
sync loop is past is *known* (stored, queued, or in a write), or lost by a named
fault, or *open* to a task: no event between the message and the task is even known.
A write that returns then changes nothing, since what it stores was known before; what
can close a task is only an event that becomes known, and there are three such steps.

- A sync response makes the newest events of each room known. A message it leaves out
  is older than all that it delivers, and the task in `limited` ends where they begin
  (`LastOfIs`, `DeliveredIs`). After a restart an event may be stored ahead of the
  token, in the gap between the two; `Overtake` says that the restart has then counted
  the events before it as lost.
- An answer of `room_messages` makes a page known, all of the room's events between
  the end of the page and the task. A message open to the task is on the page, or
  before its end and open to the next task; if the oldest event of the page was stored
  already, it was not open at all (`RoundCovers`).
- A round that goes on with an answer of an earlier round adds nothing that is not
  known, as that answer's events were queued then (`Seen`). Its task is back on
  the queue in memory.

`Fetched` leaves out a task that the loop keeps while it writes: it has brought
what it could. For `SavedAfterCommit`, `Ahead` says that events the token is not past are in
the queue only until the sync loop commits; if at the save they are in a write it is
not the sync's (`Writers`), so it is `fetcher_loop`'s.

`IInv` was checked by TLC on the instance of the `History` run before it was proved.

### Only model-checked

Liveness: `EveryRequestAnswered`, `AnsweredWhileRouterLives`, `EveryCommandHandled`,
`EveryBodyReturned`, `EveryMessageIndexed` and `ContinuedIsSent`. Fairness and
ENABLED are beyond the prover's reach. The three runs that expect a violation are
counterexamples and need no proof.

## 5. What is not modelled, and why

- nio itself: Olm, Megolm, storage of keys, the HTTP protocol. Modelled as far as
  the daemon's code depends on it, marked external in `map`.
- Payloads: an event is its decryptability, a media its keys, a device its trust.
- Searching: `index.py`'s queries, contexts and deletion read what `History` writes.
- The UI's table `key_requests` (`ui.py:425`, `434`): it is written and never read.
- Plain forwarding (`createRoom`, `filter`, `search`, `well_known`): no state.
  Configuration: constants of the modules; its range checks are pure.
- panctl's parsing, completion and printing, D-Bus marshalling, notifications.

## 6. Plan

1. Done: all components of the list above are modelled and model-checked; all safety
   properties and all action properties of the passing runs are proved.
2. Next: abstract specifications of `Commands` (a command is open, answered or lost)
   and of `History` (a message is ahead, owed, indexed or lost) and the refinements,
   from the invariants proved here.

## 7. Running it

    tlc -workers 2 -config SendMessage.cfg MCSendMessage
    tlapm SendMessageProofs.tla

The other runs alike, with the module `PROJECT.json` names, and the other proofs:
`MediaProofs`, `PanClientsProofs`, `CommandsProofs`, `VerificationProofs`,
`SyncDecryptProofs`, `KeyShareProofs`, `HistoryProofs`. The longest run takes about
two minutes, the longest proof a few minutes.
