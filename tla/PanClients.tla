------------------------------ MODULE PanClients ------------------------------
(***************************************************************************)
(* The background clients of one homeserver's proxy: a login through the   *)
(* proxy starts one for its user, the accounts and access tokens in the    *)
(* store bring it back after a restart, and an orderly shutdown stops it.  *)
(* A pan client is named by the login that created its account: the        *)
(* homeserver gives every login a device of its own.                       *)
(***************************************************************************)
EXTENDS Naturals, FiniteSets

CONSTANTS Users,
          Logins,       \* POST /login requests
          UserOf,       \* the user a login is for
          Keyring,      \* conf.keyring: tokens are kept in the OS keyring
          MaxStarts,    \* bound: times the daemon is started
          None

ASSUME UserOfAssumption == UserOf \in [Logins -> Users]
ASSUME KeyringAssumption == Keyring \in BOOLEAN
ASSUME NoneAssumption == None \notin Logins
ASSUME MaxStartsAssumption == MaxStarts \in Nat

VARIABLES
  \* on disk
  server_users,   \* users of the server that ever logged in
  accounts,       \* accounts nio has stored
  tokens,         \* accounts with an access token, in the store or the keyring
  \* the process
  daemon,         \* "down", "up", "stopping"
  pan_clients,    \* per user: the registered client, or None
  client_info,    \* logins whose access token is known to be its user's
  loops,          \* clients whose sync loop runs
  todo,           \* during shutdown: users whose client is yet to be stopped
  pc,             \* where each login's coroutine is suspended
  result,         \* what became of it
  \* for the properties
  overlapped,     \* logins that found no client while another was logging in
  late,           \* "none", or what a registration after shutdown had begun did
                  \* to the dictionary: an entry "replaced", or it has "grown"
  starts          \* counts MaxStarts

disk == <<server_users, accounts, tokens>>
vars == <<disk, daemon, pan_clients, client_info, loops, todo, pc, result, overlapped, late, starts>>

ClientsOf(u) == {l \in Logins : UserOf[l] = u}

Init ==
  /\ server_users = {} /\ accounts = {} /\ tokens = {}
  /\ daemon = "down"
  /\ pan_clients = [u \in Users |-> None]
  /\ client_info = {} /\ loops = {} /\ todo = {}
  /\ pc = [l \in Logins |-> "idle"]
  /\ result = [l \in Logins |-> "none"]
  /\ overlapped = {} /\ late = "none" /\ starts = 0

-----------------------------------------------------------------------------
(* ProxyDaemon.__attrs_post_init__: a client for every account of a server *)
(* user whose token is found; the keyring may raise for any of them.  The  *)
(* last account of a user stays registered, the loops of all are started.  *)
Restorable == {l \in accounts : UserOf[l] \in server_users /\ l \in tokens}

Start ==
  /\ daemon = "down" /\ starts < MaxStarts
  /\ daemon' = "up" /\ starts' = starts + 1 /\ late' = "none"
  /\ \E found \in SUBSET Restorable :
       /\ ~Keyring => found = Restorable
       /\ loops' = found
       /\ \E clients \in [Users -> Logins \cup {None}] :
            /\ \A u \in Users : IF found \cap ClientsOf(u) = {} THEN clients[u] = None
                                  ELSE clients[u] \in found \cap ClientsOf(u)
            /\ pan_clients' = clients
  /\ UNCHANGED <<disk, todo, pc, result, overlapped, client_info>>

(* The process is killed.                                                  *)
Crash ==
  /\ daemon # "down"
  /\ daemon' = "down"
  /\ pan_clients' = [u \in Users |-> None]
  /\ client_info' = {} /\ loops' = {} /\ todo' = {}
  /\ pc' = [l \in Logins |-> IF pc[l] = "idle" THEN "idle" ELSE "done"]
  /\ result' = [l \in Logins |-> IF pc[l] \in {"idle", "done"} THEN result[l] ELSE "lost"]
  /\ UNCHANGED <<disk, overlapped, late, starts>>

-----------------------------------------------------------------------------
(* A login: the homeserver accepted it, start_pan_client begins.           *)

(* A shutdown does not end the logins that are under way.                  *)
Running == daemon \in {"up", "stopping"}

(* A mistake: the stage and the result swapped.                            *)
EndSwapped(l, r) == /\ pc' = [pc EXCEPT ![l] = r]
                    /\ result' = [result EXCEPT ![l] = "done"]

End(l, r) == /\ pc' = [pc EXCEPT ![l] = "done"]
             /\ result' = [result EXCEPT ![l] = r]

(* Mistakes in the actions below: a login under way passes for a client,   *)
(* an existing client is not looked for, a client is registered before it  *)
(* syncs, its account is not stored, its loop is not stopped.              *)
FindExistingOrBusy(l) ==
  /\ Running /\ pc[l] = "idle"
  /\ client_info' = client_info \cup {l}
  /\ server_users' = server_users \cup {UserOf[l]}
  /\ \/ pan_clients[UserOf[l]] # None
     \/ \E k \in ClientsOf(UserOf[l]) : pc[k] = "logging_in"
  /\ End(l, "exists")
  /\ UNCHANGED <<accounts, tokens, daemon, pan_clients, loops, todo, overlapped, late, starts>>

StartClientAlways(l) ==
  /\ Running /\ pc[l] = "idle"
  /\ client_info' = client_info \cup {l}
  /\ server_users' = server_users \cup {UserOf[l]}
  /\ pc' = [pc EXCEPT ![l] = "logging_in"]
  /\ UNCHANGED <<accounts, tokens, daemon, pan_clients, loops, todo, result,
                 overlapped, late, starts>>

LogInRegistering(l) ==
  /\ Running /\ pc[l] = "logging_in"
  /\ accounts' = accounts \cup {l}
  /\ pan_clients' = [pan_clients EXCEPT ![UserOf[l]] = l]
  /\ pc' = [pc EXCEPT ![l] = "registering"]
  /\ UNCHANGED <<server_users, tokens, daemon, loops, todo, result, overlapped, late, starts, client_info>>

LogInForgetful(l) ==
  /\ Running /\ pc[l] = "logging_in"
  /\ pc' = [pc EXCEPT ![l] = "registering"]
  /\ UNCHANGED <<disk, daemon, pan_clients, loops, todo, result, overlapped, late, starts, client_info>>

StopClientLeavingLoop(u) ==
  /\ daemon = "stopping" /\ u \in todo
  /\ todo' = todo \ {u}
  /\ UNCHANGED <<disk, daemon, pan_clients, loops, pc, result, overlapped, late, starts, client_info>>

(* A client exists for the user: none is started.                          *)
FindExisting(l) ==
  /\ Running /\ pc[l] = "idle"
  /\ client_info' = client_info \cup {l}
  /\ server_users' = server_users \cup {UserOf[l]}
  /\ pan_clients[UserOf[l]] # None
  /\ End(l, "exists")
  /\ UNCHANGED <<accounts, tokens, daemon, pan_clients, loops, todo, overlapped, late, starts>>

(* None exists: the coroutine goes on to log a client in.                  *)
Busy(u) == {l \in ClientsOf(u) : pc[l] \in {"logging_in", "registering"}}

StartClient(l) ==
  /\ Running /\ pc[l] = "idle"
  /\ client_info' = client_info \cup {l}
  /\ server_users' = server_users \cup {UserOf[l]}
  /\ pan_clients[UserOf[l]] = None
  /\ pc' = [pc EXCEPT ![l] = "logging_in"]
  /\ overlapped' = IF Busy(UserOf[l]) = {} THEN overlapped
                     ELSE overlapped \cup Busy(UserOf[l]) \cup {l}
  /\ UNCHANGED <<accounts, tokens, daemon, pan_clients, loops, todo, result, late, starts>>

(* The login failed, or there was neither a password nor a device id.      *)
LoginFails(l) ==
  /\ Running /\ pc[l] = "logging_in"
  /\ End(l, "failed")
  /\ UNCHANGED <<disk, daemon, pan_clients, loops, todo, overlapped, late, starts, client_info>>

(* pan_client.login or restore_login: nio creates the account.             *)
LogIn(l) ==
  /\ Running /\ pc[l] = "logging_in"
  /\ accounts' = accounts \cup {l}
  /\ pc' = [pc EXCEPT ![l] = "registering"]
  /\ UNCHANGED <<server_users, tokens, daemon, pan_clients, loops, todo, result,
                 overlapped, late, starts, client_info>>

(* After telling the UI thread: register the client, keep its token (which *)
(* the keyring may refuse), start its loop.                                *)
Register(l) ==
  /\ Running /\ pc[l] = "registering"
  /\ pan_clients' = [pan_clients EXCEPT ![UserOf[l]] = l]
  /\ \/ tokens' = tokens \cup {l}
     \/ Keyring /\ UNCHANGED tokens
  /\ loops' = loops \cup {l}
  /\ late' = IF daemon = "up" \/ late = "grown" THEN late
              ELSE IF pan_clients[UserOf[l]] = None THEN "grown" ELSE "replaced"
  /\ End(l, "started")
  /\ UNCHANGED <<server_users, accounts, daemon, todo, overlapped, starts, client_info>>

(* _find_client, for a token that is not in client_info: the homeserver is *)
(* asked whose it is, and the answer is kept only when that user has a     *)
(* client by then.                                                         *)
FindClient(l) ==
  /\ Running /\ pc[l] # "idle" /\ l \notin client_info
  /\ pan_clients[UserOf[l]] # None
  /\ client_info' = client_info \cup {l}
  /\ UNCHANGED <<disk, daemon, pan_clients, loops, todo, pc, result, overlapped, late, starts>>

-----------------------------------------------------------------------------
(* ProxyDaemon.shutdown walks the dictionary of clients with an await for  *)
(* each; coroutines of logins still run meanwhile.                         *)
Shutdown ==
  /\ daemon = "up"
  /\ daemon' = "stopping"
  /\ todo' = {u \in Users : pan_clients[u] # None}
  /\ UNCHANGED <<disk, pan_clients, loops, pc, result, overlapped, late, starts, client_info>>

StopClient(u) ==
  /\ daemon = "stopping" /\ u \in todo
  /\ todo' = todo \ {u}
  /\ loops' = loops \ {pan_clients[u]}
  /\ UNCHANGED <<disk, daemon, pan_clients, pc, result, overlapped, late, starts, client_info>>

(* The walk is over, or the dictionary grew under it, which raises at the  *)
(* next step of the walk: the process ends either way.                     *)
Exit ==
  /\ daemon = "stopping" /\ (todo = {} \/ late = "grown")
  /\ daemon' = "down"
  /\ pan_clients' = [u \in Users |-> None]
  /\ client_info' = {} /\ loops' = {} /\ todo' = {}
  /\ pc' = [l \in Logins |-> IF pc[l] = "idle" THEN "idle" ELSE "done"]
  /\ result' = [l \in Logins |-> IF pc[l] \in {"idle", "done"} THEN result[l] ELSE "lost"]
  /\ UNCHANGED <<disk, overlapped, late, starts>>

-----------------------------------------------------------------------------
Next == \/ Start \/ Crash \/ Shutdown \/ Exit
        \/ \E u \in Users : StopClient(u)
        \/ \E l \in Logins : \/ FindExisting(l) \/ StartClient(l) \/ LoginFails(l)
                             \/ LogIn(l) \/ Register(l) \/ FindClient(l)

Spec == Init /\ [][Next]_vars

-----------------------------------------------------------------------------
(* Properties.                                                             *)

(* Every variable keeps its type.                                         *)
TypeOK ==
  /\ server_users \subseteq Users
  /\ accounts \subseteq Logins /\ tokens \subseteq Logins
  /\ daemon \in {"down", "up", "stopping"}
  /\ pan_clients \in [Users -> Logins \cup {None}]
  /\ client_info \subseteq Logins /\ loops \subseteq Logins /\ todo \subseteq Users
  /\ pc \in [Logins -> {"idle", "logging_in", "registering", "done"}]
  /\ result \in [Logins -> {"none", "exists", "started", "failed", "lost"}]
  /\ overlapped \subseteq Logins /\ late \in {"none", "replaced", "grown"} /\ starts \in 0..MaxStarts

(* Whatever the order of logins, crashes and restarts, the client that     *)
(* requests of a user are served by is one that syncs, with an account in  *)
(* the store and a row its sync token and fetcher tasks can refer to.      *)
ServingClientSyncs ==
  \A u \in Users : daemon = "up" /\ pan_clients[u] # None =>
    /\ UserOf[pan_clients[u]] = u
    /\ pan_clients[u] \in loops /\ pan_clients[u] \in accounts
    /\ u \in server_users

(* A user whose client ever got as far as its token being saved is served  *)
(* again after every restart (with the keyring, when it can be read), and  *)
(* save_access_token never meets a missing account.                        *)
TokenRestores ==
  /\ tokens \subseteq accounts
  /\ daemon = "up" /\ ~Keyring => \A l \in tokens : pan_clients[UserOf[l]] # None

(* An access token the daemon takes for known, and so never asks about     *)
(* again, is one it can serve: its user has a client, from start_pan_client *)
(* or from _find_client, unless its own login is under way or has failed   *)
(* (those requests go unserved although the token is known).               *)
KnownTokenIsServed ==
  \A l \in client_info :
    daemon = "up" /\ pan_clients[UserOf[l]] = None
      => pc[l] \in {"logging_in", "registering"} \/ result[l] = "failed"

(* Unless logins of the user overlapped or the keyring lost a token, a     *)
(* user has one sync loop and one stored token, over any number of crashes *)
(* and logins.                                                             *)
OneLoopUnlessOverlap ==
  \A u \in Users :
    ~Keyring /\ overlapped \cap ClientsOf(u) = {}
      => Cardinality((loops \cup tokens) \cap ClientsOf(u)) <= 1

(* An orderly shutdown leaves no registered client syncing, unless a login *)
(* slipped in while it ran.                                                *)
ShutdownStopsClients ==
  daemon = "stopping" /\ late = "none" =>
    \A u \in Users : u \notin todo => pan_clients[u] \notin loops

(* start_pan_client says "Background sync client already exists for        *)
(* {user_id}, not starting new one": never two sync loops for a user.      *)
OneLoopPerUser ==
  \A u \in Users : Cardinality(loops \cap ClientsOf(u)) <= 1
=============================================================================
