--------------------------- MODULE PanClientsProofs ---------------------------
(***************************************************************************)
(* What PanClients guarantees for every set of users and logins, any       *)
(* number of restarts, and with or without the keyring.                    *)
(***************************************************************************)
EXTENDS PanClients, FiniteSetTheorems, TLAPS

-----------------------------------------------------------------------------
(* The inductive invariant.                                                *)

(* The clients, loops and coroutines of a killed process are gone.         *)
DownIsClean ==
  daemon = "down" =>
    /\ \A u \in Users : pan_clients[u] = None
    /\ loops = {} /\ client_info = {}
    /\ \A l \in Logins : pc[l] \in {"idle", "done"}

(* What is on disk is closed: a token has an account, an account a user of *)
(* the server, and a login past its first step has stored what the next    *)
(* one relies on.                                                          *)
DiskClosed ==
  /\ tokens \subseteq accounts
  /\ \A l \in accounts : UserOf[l] \in server_users
  /\ \A l \in Logins : /\ pc[l] # "idle" => UserOf[l] \in server_users
                       /\ pc[l] = "registering" => l \in accounts

(* The dictionary holds each user's own clients, with their accounts, and  *)
(* until a shutdown begins their loops run.                                *)
ClientsRegistered ==
  \A u \in Users : pan_clients[u] # None =>
    /\ UserOf[pan_clients[u]] = u
    /\ pan_clients[u] \in accounts
    /\ daemon = "up" => pan_clients[u] \in loops

(* While the process lives, a loop or a stored token means that its user   *)
(* has an entry in the dictionary: no new login starts another client.     *)
LoopsRegistered ==
  /\ \A l \in loops : pan_clients[UserOf[l]] # None
  /\ Running /\ ~Keyring => \A l \in tokens : pan_clients[UserOf[l]] # None

(* At most one login of a user runs, is being started or has a token.      *)
OneHolder ==
  \A u \in Users : ~Keyring /\ overlapped \cap ClientsOf(u) = {} =>
    \A k, l \in (loops \cup tokens \cup Busy(u)) \cap ClientsOf(u) : k = l

IInv == /\ TypeOK
        /\ DownIsClean /\ DiskClosed /\ ClientsRegistered /\ LoopsRegistered
        /\ OneHolder /\ KnownTokenIsServed /\ ShutdownStopsClients

-----------------------------------------------------------------------------
(* Type correctness.                                                       *)

(* The choice a start makes for each user is a client it found or None.    *)
LEMMA TypeCorrectStep ==
  ASSUME TypeOK, [Next]_vars
  PROVE  TypeOK'
<1> USE UserOfAssumption, MaxStartsAssumption DEF TypeOK, disk, End, Running
<1>1. CASE Start  BY <1>1 DEF Start, Restorable
<1>2. CASE Crash  BY <1>2 DEF Crash
<1>3. CASE Shutdown  BY <1>3 DEF Shutdown
<1>4. CASE Exit  BY <1>4 DEF Exit
<1>5. ASSUME NEW u \in Users, StopClient(u)  PROVE TypeOK'  BY <1>5 DEF StopClient
<1>6. ASSUME NEW l \in Logins, FindExisting(l)  PROVE TypeOK'  BY <1>6 DEF FindExisting
<1>7. ASSUME NEW l \in Logins, StartClient(l)  PROVE TypeOK'
  BY <1>7 DEF StartClient, Busy, ClientsOf
<1>8. ASSUME NEW l \in Logins, LoginFails(l)  PROVE TypeOK'  BY <1>8 DEF LoginFails
<1>9. ASSUME NEW l \in Logins, LogIn(l)  PROVE TypeOK'  BY <1>9 DEF LogIn
<1>10. ASSUME NEW l \in Logins, Register(l)  PROVE TypeOK'  BY <1>10 DEF Register
<1>11. ASSUME NEW l \in Logins, FindClient(l)  PROVE TypeOK'  BY <1>11 DEF FindClient
<1>12. CASE UNCHANGED vars  BY <1>12 DEF vars
<1> QED  BY <1>1, <1>2, <1>3, <1>4, <1>5, <1>6, <1>7, <1>8, <1>9, <1>10, <1>11, <1>12 DEF Next

(* Every variable keeps its type in every behaviour.                       *)
THEOREM TypeCorrect == Spec => []TypeOK
<1>1. Init => TypeOK  BY MaxStartsAssumption DEF Init, TypeOK
<1>2. TypeOK /\ [Next]_vars => TypeOK'  BY TypeCorrectStep
<1> QED  BY <1>1, <1>2, PTL DEF Spec

-----------------------------------------------------------------------------
(* The induction step, one lemma for each step of the daemon and each step *)
(* of a login.                                                             *)

(* A start finds a clean process, and every client it finds has a token.   *)
LEMMA StartStep ==
  ASSUME IInv, Start
  PROVE  IInv'
<1> USE UserOfAssumption, NoneAssumption DEF IInv, Start, disk, Restorable, ClientsOf
<1>1. TypeOK'  BY TypeCorrectStep DEF Next
<1>2. DownIsClean'  BY DEF DownIsClean
<1>3. DiskClosed'  BY DEF DiskClosed
<1>4. ClientsRegistered'  BY DEF ClientsRegistered, TypeOK
<1>5. LoopsRegistered'  BY DEF LoopsRegistered, DiskClosed, TypeOK
<1>6. OneHolder'  BY DEF OneHolder, Busy, TypeOK
<1>7. KnownTokenIsServed'  BY DEF KnownTokenIsServed, DownIsClean
<1>8. ShutdownStopsClients'  BY DEF ShutdownStopsClients
<1> QED  BY <1>1, <1>2, <1>3, <1>4, <1>5, <1>6, <1>7, <1>8 DEF IInv

(* The end of the process, killed or after the walk of a shutdown.         *)
LEMMA EndOfProcessStep ==
  ASSUME IInv, Crash \/ Exit
  PROVE  IInv'
<1> USE UserOfAssumption, NoneAssumption DEF IInv, Crash, Exit, disk, ClientsOf
<1>1. TypeOK'  BY TypeCorrectStep DEF Next
<1>2. DownIsClean'  BY DEF DownIsClean, TypeOK
<1>3. DiskClosed'  BY DEF DiskClosed, TypeOK
<1>4. ClientsRegistered'  BY DEF ClientsRegistered
<1>5. LoopsRegistered'  BY DEF LoopsRegistered, Running
<1>6. OneHolder'  BY DEF OneHolder, Busy, TypeOK
<1>7. KnownTokenIsServed'  BY DEF KnownTokenIsServed
<1>8. ShutdownStopsClients'  BY DEF ShutdownStopsClients
<1> QED  BY <1>1, <1>2, <1>3, <1>4, <1>5, <1>6, <1>7, <1>8 DEF IInv

(* A shutdown begins with the users that have a client, and stops them one *)
(* by one: distinct users have distinct clients.                           *)
LEMMA ShutdownStep ==
  ASSUME IInv, Shutdown \/ (\E u \in Users : StopClient(u))
  PROVE  IInv'
<1> USE UserOfAssumption, NoneAssumption
      DEF IInv, Shutdown, StopClient, disk, ClientsOf, Running
<1>1. TypeOK'  BY TypeCorrectStep DEF Next
<1>2. DownIsClean'  BY DEF DownIsClean
<1>3. DiskClosed'  BY DEF DiskClosed
<1>4. ClientsRegistered'  BY DEF ClientsRegistered
<1>5. LoopsRegistered'  BY DEF LoopsRegistered
<1>6. OneHolder'  BY DEF OneHolder, Busy
<1>7. KnownTokenIsServed'  BY DEF KnownTokenIsServed
<1>8. ShutdownStopsClients'  BY DEF ShutdownStopsClients, TypeOK
<1> QED  BY <1>1, <1>2, <1>3, <1>4, <1>5, <1>6, <1>7, <1>8 DEF IInv

(* A login that finds a client, and a token that is looked up, change no   *)
(* client.                                                                 *)
LEMMA FindStep ==
  ASSUME IInv, NEW l \in Logins, FindExisting(l) \/ FindClient(l)
  PROVE  IInv'
<1> USE UserOfAssumption, NoneAssumption
      DEF IInv, FindExisting, FindClient, disk, End, ClientsOf, Running
<1>1. TypeOK'  BY TypeCorrectStep DEF Next
<1>2. DownIsClean'  BY DEF DownIsClean, TypeOK
<1>3. DiskClosed'  BY DEF DiskClosed, TypeOK
<1>4. ClientsRegistered'  BY DEF ClientsRegistered, TypeOK
<1>5. LoopsRegistered'  BY DEF LoopsRegistered
<1>6. OneHolder'  BY DEF OneHolder, Busy, TypeOK
<1>7. KnownTokenIsServed'  BY DEF KnownTokenIsServed, TypeOK
<1>8. ShutdownStopsClients'  BY DEF ShutdownStopsClients
<1> QED  BY <1>1, <1>2, <1>3, <1>4, <1>5, <1>6, <1>7, <1>8 DEF IInv

(* A login starts a client for a user that has none: nobody else holds the *)
(* user then, or the logins overlap and are noted.                         *)
LEMMA StartClientStep ==
  ASSUME IInv, NEW l \in Logins, StartClient(l)
  PROVE  IInv'
<1> USE UserOfAssumption, NoneAssumption DEF IInv, StartClient, disk, Running
<1>1. TypeOK'  BY TypeCorrectStep DEF Next
<1>2. DownIsClean'  BY DEF DownIsClean, TypeOK
<1>3. DiskClosed'  BY DEF DiskClosed, TypeOK
<1>4. ClientsRegistered'  BY DEF ClientsRegistered, TypeOK
<1>5. LoopsRegistered'  BY DEF LoopsRegistered
<1>6. OneHolder'
  <2> SUFFICES ASSUME NEW u \in Users, ~Keyring, overlapped' \cap ClientsOf(u) = {},
                      NEW j \in ((loops \cup tokens \cup Busy(u)) \cap ClientsOf(u))',
                      NEW k \in ((loops \cup tokens \cup Busy(u)) \cap ClientsOf(u))'
               PROVE  j = k
    BY DEF OneHolder, ClientsOf
  <2>1. CASE u = UserOf[l]
    <3>1. Busy(u) = {}  BY <2>1 DEF ClientsOf
    <3>2. (loops \cup tokens) \cap ClientsOf(u) = {}
      BY <2>1 DEF LoopsRegistered, ClientsOf
    <3>3. Busy(u)' = {l}  BY <2>1, <3>1 DEF Busy, ClientsOf, TypeOK
    <3> QED  BY <3>2, <3>3 DEF ClientsOf
  <2>2. CASE u # UserOf[l]
    <3>1. Busy(u)' = Busy(u)  BY <2>2 DEF Busy, ClientsOf, TypeOK
    <3>2. overlapped \cap ClientsOf(u) = {}  BY DEF ClientsOf
    <3> QED  BY <3>1, <3>2 DEF OneHolder, ClientsOf
  <2> QED  BY <2>1, <2>2
<1>7. KnownTokenIsServed'  BY DEF KnownTokenIsServed, TypeOK
<1>8. ShutdownStopsClients'  BY DEF ShutdownStopsClients
<1> QED  BY <1>1, <1>2, <1>3, <1>4, <1>5, <1>6, <1>7, <1>8 DEF IInv

(* The login at the homeserver fails, or stores an account.                *)
LEMMA LogInStep ==
  ASSUME IInv, NEW l \in Logins, LoginFails(l) \/ LogIn(l)
  PROVE  IInv'
<1> USE UserOfAssumption, NoneAssumption DEF IInv, LoginFails, LogIn, disk, End, Running
<1>1. TypeOK'  BY TypeCorrectStep DEF Next
<1>2. DownIsClean'  BY DEF DownIsClean, TypeOK
<1>3. DiskClosed'  BY DEF DiskClosed, TypeOK
<1>4. ClientsRegistered'  BY DEF ClientsRegistered
<1>5. LoopsRegistered'  BY DEF LoopsRegistered
<1>6. OneHolder'  BY DEF OneHolder, Busy, ClientsOf, TypeOK
<1>7. KnownTokenIsServed'  BY DEF KnownTokenIsServed, TypeOK
<1>8. ShutdownStopsClients'  BY DEF ShutdownStopsClients
<1> QED  BY <1>1, <1>2, <1>3, <1>4, <1>5, <1>6, <1>7, <1>8 DEF IInv

(* A client is registered, its token kept and its loop started.            *)
LEMMA RegisterStep ==
  ASSUME IInv, NEW l \in Logins, Register(l)
  PROVE  IInv'
<1> USE UserOfAssumption, NoneAssumption DEF IInv, Register, disk, End, Running
<1>1. TypeOK'  BY TypeCorrectStep DEF Next
<1>2. DownIsClean'  BY DEF DownIsClean
<1>3. DiskClosed'  BY DEF DiskClosed, TypeOK
<1>4. ClientsRegistered'  BY DEF ClientsRegistered, DiskClosed, TypeOK
<1>5. LoopsRegistered'  BY DEF LoopsRegistered, TypeOK
<1>6. OneHolder'  BY DEF OneHolder, Busy, ClientsOf, TypeOK
<1>7. KnownTokenIsServed'  BY DEF KnownTokenIsServed, TypeOK
<1>8. ShutdownStopsClients'  BY DEF ShutdownStopsClients, TypeOK
<1> QED  BY <1>1, <1>2, <1>3, <1>4, <1>5, <1>6, <1>7, <1>8 DEF IInv

(* A step that changes nothing keeps the invariant.                        *)
LEMMA StutterStep ==
  ASSUME IInv, UNCHANGED vars
  PROVE  IInv'
BY DEF IInv, vars, disk, TypeOK, DownIsClean, DiskClosed, ClientsRegistered, LoopsRegistered,
       OneHolder, KnownTokenIsServed, ShutdownStopsClients, Busy, ClientsOf, Running

(* The invariant holds in every behaviour.                                 *)
THEOREM Invariance == Spec => []IInv
<1>1. Init => IInv
  BY MaxStartsAssumption
     DEF Init, IInv, TypeOK, DownIsClean, DiskClosed, ClientsRegistered, LoopsRegistered,
         OneHolder, KnownTokenIsServed, ShutdownStopsClients, Busy, ClientsOf, Running
<1>2. IInv /\ [Next]_vars => IInv'
  BY StartStep, EndOfProcessStep, ShutdownStep, FindStep, StartClientStep, LogInStep,
     RegisterStep, StutterStep DEF Next
<1> QED  BY <1>1, <1>2, PTL DEF Spec

-----------------------------------------------------------------------------
(* What it implies.                                                        *)

(* The client a user is served by syncs and can refer to its account.      *)
THEOREM Serving == Spec => []ServingClientSyncs
<1>1. IInv => ServingClientSyncs
  BY DEF IInv, ServingClientSyncs, ClientsRegistered, DiskClosed
<1> QED  BY <1>1, Invariance, PTL

(* A saved token brings its user's client back after every restart.        *)
THEOREM Restored == Spec => []TokenRestores
<1>1. IInv => TokenRestores
  BY DEF IInv, TokenRestores, DiskClosed, LoopsRegistered, Running
<1> QED  BY <1>1, Invariance, PTL

(* A token taken for known is one that can be served.                      *)
THEOREM Known == Spec => []KnownTokenIsServed
<1>1. IInv => KnownTokenIsServed  BY DEF IInv
<1> QED  BY <1>1, Invariance, PTL

(* A set whose elements are all equal has at most one.                     *)
LEMMA AtMostOne ==
  ASSUME NEW S, \A x, y \in S : x = y
  PROVE  Cardinality(S) <= 1
<1>1. CASE S = {}  BY <1>1, FS_EmptySet
<1>2. ASSUME NEW x \in S  PROVE Cardinality(S) <= 1
  <2>1. S = {x}  BY <1>2
  <2> QED  BY <2>1, FS_Singleton
<1> QED  BY <1>1, <1>2

(* One loop and one token per user, as long as no logins overlapped.       *)
THEOREM OneLoop == Spec => []OneLoopUnlessOverlap
<1>1. IInv => OneLoopUnlessOverlap
  <2> SUFFICES ASSUME IInv, NEW u \in Users, ~Keyring, overlapped \cap ClientsOf(u) = {}
               PROVE  Cardinality((loops \cup tokens) \cap ClientsOf(u)) <= 1
    BY DEF OneLoopUnlessOverlap
  <2>1. \A k, l \in (loops \cup tokens) \cap ClientsOf(u) : k = l
    BY DEF IInv, OneHolder
  <2> QED  BY <2>1, AtMostOne
<1> QED  BY <1>1, Invariance, PTL

(* An orderly shutdown stops every registered client it has passed.        *)
THEOREM ShutdownStops == Spec => []ShutdownStopsClients
<1>1. IInv => ShutdownStopsClients  BY DEF IInv
<1> QED  BY <1>1, Invariance, PTL
=============================================================================
