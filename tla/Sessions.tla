------------------------------ MODULE Sessions ------------------------------
(***************************************************************************)
(* The sessions of the world server, from the authenticated connection to  *)
(* the deletion of the session: the table m_sessions and the login queue   *)
(* of World (World.cpp), the login of a character over a second            *)
(* connection, logout, kick and expiry (WorldSession.cpp,                  *)
(* CharacterHandler.cpp), and what network threads do to a session         *)
(* meanwhile (WorldSocket.cpp).                                            *)
(*                                                                         *)
(* The world thread runs UpdateSessions over and over: the connections to  *)
(* attach (_linkSocketQueue), the new sessions (addSessQueue), then each   *)
(* session of the table, which handles its packets and its query results   *)
(* before it is tested for logout and removal.  Network threads and the    *)
(* worker thread of the character database act between any two of these    *)
(* steps.  The client is no source of errors: it logs in from the          *)
(* character screen, connects once for each ConnectTo, and gives up a      *)
(* connection that takes too long, perhaps when it is already up.          *)
(*                                                                         *)
(* Left out: bots (sessions without a connection), the tolerance for       *)
(* players who come back after a disconnect (off by default), changes of   *)
(* the player limit, accounts whose query holders cannot be set up, logins *)
(* with a character of somebody else, and all packets but login, logout    *)
(* and failed connections.  Of these the end of the loading screen touches *)
(* this state (HandleLoadScreenOpcode clears m_playerLoading): a client    *)
(* sends it in the world, where that changes nothing; one that sent it     *)
(* while its character loads would be free to log in a second time.        *)
(***************************************************************************)
EXTENDS Integers, Sequences, SequencesExt, FiniteSets

CONSTANTS
    Accounts,
    SessionIds,     \* the WorldSession objects there can be, by number: those of an
                    \* account are numbered in the order in which they are made
    AccountOf,      \* the account each of them belongs to
    Privileged,     \* accounts with RBAC_PERM_SKIP_QUEUE
    Limit,          \* m_playerLimit, a limit other than zero
    LastAttempt,    \* ConnectTo offers until a login is given up: 5 in the code
    MaxKeys,        \* bound on the ConnectTo offers to each session
    MAX_PROCESSED_PACKETS,  \* ..._IN_SAME_WORLDSESSION_UPDATE
    ExpireTicks,    \* updates that a player outlives its connection
    NoSession, NoAccount

ASSUME AccountAssumption ==
    /\ AccountOf \in [SessionIds -> Accounts]
    /\ SessionIds \subseteq Nat
    /\ NoSession \notin SessionIds
    /\ NoAccount \notin Accounts
ASSUME FiniteAssumption == IsFiniteSet(Accounts)
ASSUME LimitAssumption == Limit \in Nat \ {0}
ASSUME BoundAssumption ==
    /\ LastAttempt \in Nat \ {0}
    /\ MaxKeys \in [SessionIds -> Nat]
    /\ MAX_PROCESSED_PACKETS \in Nat
    /\ ExpireTicks \in Nat \ {0}

VARIABLES
    m_sessions,         \* the session of each account
    m_QueuedPlayer,     \* the login queue
    addSessQueue,       \* new sessions on their way to the world thread
    _linkSocketQueue,   \* second connections on their way to the world thread
    session,            \* the WorldSession objects
    asyncQueue,         \* loads and saves of the character database, in order
    pc,                 \* where the world thread is in UpdateSessions
    current,            \* the account whose session is being updated
    todo,               \* accounts whose sessions are still to be updated
    processedPackets,   \* packets handled in this update of the session
    stopping            \* KickAll was called

vars == <<m_sessions, m_QueuedPlayer, addSessQueue, _linkSocketQueue, session,
          asyncQueue, pc, current, todo, processedPackets, stopping>>
place == <<current, todo, processedPackets, stopping>>
table == <<m_sessions, m_QueuedPlayer, addSessQueue>>
world == <<table, pc, place>>

SocketState == {"none", "open", "closed"}

Session == [life : {"unborn", "alive", "deleted"},
            realm : SocketState,        \* m_Socket[CONNECTION_TYPE_REALM]
            instance : SocketState,     \* m_Socket[CONNECTION_TYPE_INSTANCE]
            m_inQueue : BOOLEAN,
            init : {"no", "pending", "done"},   \* InitializeSession and its callback
            m_playerLoading : BOOLEAN,
            player : BOOLEAN,           \* _player, in the world
            key : Nat,                  \* number of the last ConnectTo
            serial : 0 .. LastAttempt,  \* its attempt of this login
            linked : BOOLEAN,           \* the client has connected for it
            load : Nat,                 \* _charLoginCallback: the load awaited, or 0
            ready : BOOLEAN,            \* that load has been executed
            _recvQueue : Seq({"login", "logout"}),
            _logoutTime : BOOLEAN,      \* a logout is under way
            forceExit : BOOLEAN,
            expireTime : 0 .. ExpireTicks,
            client : {"auth", "characters", "login", "world"}]  \* the client's screen

Unborn ==
    [life |-> "unborn", realm |-> "none", instance |-> "none", m_inQueue |-> FALSE,
     init |-> "no", m_playerLoading |-> FALSE, player |-> FALSE, key |-> 0,
     serial |-> 0, linked |-> FALSE, load |-> 0, ready |-> FALSE, _recvQueue |-> <<>>,
     _logoutTime |-> FALSE, forceExit |-> FALSE, expireTime |-> ExpireTicks,
     client |-> "auth"]
\* Mutant of Deleted: the destructor leaves the player in the world.
DeletedInWorld == [Unborn EXCEPT !.life = "deleted", !.player = TRUE]

Deleted == [Unborn EXCEPT !.life = "deleted"]

Link == [session : SessionIds, key : Nat]
Query == [op : {"load", "save"}, session : SessionIds, key : Nat]

Init ==
    /\ m_sessions = [a \in Accounts |-> NoSession]
    /\ m_QueuedPlayer = <<>>
    /\ addSessQueue = <<>>
    /\ _linkSocketQueue = <<>>
    /\ session = [s \in SessionIds |-> Unborn]
    /\ asyncQueue = <<>>
    /\ pc = "links"
    /\ current = NoAccount
    /\ todo = {}
    /\ processedPackets = 0
    /\ stopping = FALSE

Listed == {a \in Accounts : m_sessions[a] # NoSession}
PlayerLoading(a) == m_sessions[a] # NoSession /\ session[m_sessions[a]].m_playerLoading
Updated == m_sessions[current]

-----------------------------------------------------------------------------
(* Operations of one session, as functions of its record.                  *)

Closed(socket) == IF socket = "open" THEN "closed" ELSE socket

KickPlayer(r) == [r EXCEPT !.realm = Closed(@), !.instance = Closed(@), !.forceExit = TRUE]

InitializeSession(r) == [r EXCEPT !.init = "pending"]

\* Mutant of SendConnectToInstance: attempts add up.
SendConnectToInstanceAdding(r, serial) ==
    [r EXCEPT !.key = @ + 1, !.serial = @ + serial, !.linked = FALSE]

SendConnectToInstance(r, serial) ==
    [r EXCEPT !.key = @ + 1, !.serial = serial, !.linked = FALSE]

HandlePlayerLoginOpcode(r) ==
    IF r.m_playerLoading \/ r.player
    THEN KickPlayer(r)
    ELSE SendConnectToInstance([r EXCEPT !.m_playerLoading = TRUE], 1)

\* What a session leaves in the database's queue when its player is logged out.
Saves(s) == IF session[s].player THEN <<[op |-> "save", session |-> s, key |-> 0]>> ELSE <<>>

LogoutPlayer(r) ==
    [r EXCEPT !.player = FALSE, !.instance = "none", !._logoutTime = FALSE,
              !.client = "characters"]

\* Init of the account is over: the session has passed the queue.
InitializeSessionCallback(r) ==
    [r EXCEPT !.init = "done", !.m_inQueue = FALSE, !.client = "characters"]

\* The player enters the world.  One step, though the handler is long: it runs on the
\* world thread from end to end, and what it does in between (LoadFromDB, the packets
\* to the client, AddPlayerToMap) is read by no other step of this module.
\* The client answers with CMSG_LOADING_SCREEN_NOTIFY when its loading screen is gone,
\* and HandleLoadScreenOpcode clears m_playerLoading, which is clear by then: that
\* packet stands in _recvQueue before the login that would set it again.
HandlePlayerLogin(r) ==
    [r EXCEPT !.player = TRUE, !.m_playerLoading = FALSE, !.load = 0, !.ready = FALSE,
              !.client = "world", !.serial = 0, !.linked = FALSE]

LoadFails(r) ==
    [KickPlayer(r) EXCEPT !.m_playerLoading = FALSE, !.load = 0, !.ready = FALSE]

AbortLogin(r) ==
    [r EXCEPT !.m_playerLoading = FALSE, !.client = "characters", !.serial = 0,
              !.linked = FALSE]

-----------------------------------------------------------------------------
(* The login queue, as a function of the queue and of the size of          *)
(* m_sessions: what is left of the queue, who is let in, and whether s was *)
(* in it.                                                                  *)

Waits(queue, s) == \E i \in 1 .. Len(queue) : queue[i] = s
Without(queue, s) ==
    IF Waits(queue, s) THEN RemoveAt(queue, CHOOSE i \in 1 .. Len(queue) : queue[i] = s)
                       ELSE queue

Removal(rest, accept, found) ==
    [queue |-> IF accept THEN Tail(rest) ELSE rest,
     accepted |-> IF accept THEN {Head(rest)} ELSE {},
     found |-> found]

\* The sessions outside the queue, without s, which is on its way out.
SessionsWithout(queue, size, s) ==
    LET active == size - Len(queue)
    IN IF ~Waits(queue, s) /\ active > 0 THEN active - 1 ELSE active

\* Mutant of RemoveQueuedPlayer: the session that goes is counted as active.
RemoveQueuedPlayerCountingIt(queue, size, s) ==
    LET rest == Without(queue, s)
    IN Removal(rest, size - Len(queue) < Limit /\ rest # <<>>, Waits(queue, s))

\* Mutant of RemoveQueuedPlayer: one leaves, one enters, whoever leaves.
RemoveQueuedPlayerOneForOne(queue, size, s) ==
    LET rest == Without(queue, s)
    IN Removal(rest, rest # <<>>, Waits(queue, s))

\* Mutant of RemoveQueuedPlayer: the session that came last is let in.
RemoveQueuedPlayerLastFirst(queue, size, s) ==
    LET rest == Without(queue, s)
        accept == SessionsWithout(queue, size, s) < Limit /\ rest # <<>>
    IN [queue |-> IF accept THEN Front(rest) ELSE rest,
        accepted |-> IF accept THEN {Last(rest)} ELSE {},
        found |-> Waits(queue, s)]

\* Mutant of RemoveQueuedPlayer: the session is not taken out of the queue.
RemoveQueuedPlayerKeepingIt(queue, size, s) ==
    Removal(queue, SessionsWithout(queue, size, s) < Limit /\ queue # <<>>, Waits(queue, s))

RemoveQueuedPlayer(queue, size, s) ==
    LET rest == Without(queue, s)
        accept == SessionsWithout(queue, size, s) < Limit /\ rest # <<>>
    IN Removal(rest, accept, Waits(queue, s))

-----------------------------------------------------------------------------
(* Network threads and the client.                                         *)

\* HandleAuthSessionCallback and HandleEnterEncryptedModeAck: a session is made
\* and handed to the world thread.
Connect(s) ==
    /\ session[s].life = "unborn"
    /\ \A t \in SessionIds : AccountOf[t] = AccountOf[s] /\ t < s => session[t].life # "unborn"
    /\ session' = [session EXCEPT ![s] = [Unborn EXCEPT !.life = "alive", !.realm = "open"]]
    /\ addSessQueue' = Append(addSessQueue, s)
    /\ UNCHANGED <<m_sessions, m_QueuedPlayer, _linkSocketQueue, asyncQueue, pc, place>>

\* A connection is closed: by the client, by an error, or for being idle.
RealmCloses(s) ==
    /\ session[s].realm = "open"
    /\ session' = [session EXCEPT ![s].realm = "closed"]
    /\ UNCHANGED <<world, _linkSocketQueue, asyncQueue>>

InstanceCloses(s) ==
    /\ session[s].instance = "open"
    /\ session' = [session EXCEPT ![s].instance = "closed"]
    /\ UNCHANGED <<world, _linkSocketQueue, asyncQueue>>

\* QueuePacket: CMSG_PLAYER_LOGIN.
ClientLogin(s) ==
    /\ session[s].realm = "open"
    /\ session[s].client = "characters"
    /\ session[s].key < MaxKeys[s]
    /\ session' = [session EXCEPT ![s]._recvQueue = Append(@, "login"),
                                  ![s].client = "login"]
    /\ UNCHANGED <<world, _linkSocketQueue, asyncQueue>>

\* QueuePacket: CMSG_LOGOUT_REQUEST.
ClientLogout(s) ==
    /\ session[s].realm = "open"
    /\ session[s].client = "world"
    /\ "logout" \notin ToSet(session[s]._recvQueue)
    /\ ~session[s]._logoutTime
    /\ session' = [session EXCEPT ![s]._recvQueue = Append(@, "logout")]
    /\ UNCHANGED <<world, _linkSocketQueue, asyncQueue>>

\* The client connects for the last ConnectTo (HandleAuthContinuedSession,
\* HandleEnterEncryptedModeAck).
ClientLink(s) ==
    /\ session[s].client = "login"
    /\ session[s].serial > 0
    /\ ~session[s].linked
    /\ session' = [session EXCEPT ![s].linked = TRUE]
    /\ _linkSocketQueue' = Append(_linkSocketQueue, [session |-> s, key |-> session[s].key])
    /\ UNCHANGED <<world, asyncQueue>>

\* The client gives up: CMSG_CONNECT_TO_FAILED, handled in the network thread.
HandleConnectToFailed(s) ==
    LET r == session[s] IN
    /\ r.realm = "open"
    /\ r.client = "login"
    /\ r.serial > 0
    /\ r.m_playerLoading
    /\ \/ /\ r.serial < LastAttempt
          /\ r.key < MaxKeys[s]
          /\ session' = [session EXCEPT ![s] = SendConnectToInstance(r, r.serial + 1)]
       \/ /\ r.serial = LastAttempt
          /\ session' = [session EXCEPT ![s] = AbortLogin(r)]
    /\ UNCHANGED <<world, _linkSocketQueue, asyncQueue>>

Network ==
    \E s \in SessionIds :
        \/ Connect(s) \/ RealmCloses(s) \/ InstanceCloses(s)
        \/ ClientLogin(s) \/ ClientLogout(s) \/ ClientLink(s) \/ HandleConnectToFailed(s)

\* The worker thread of the character database.  A result nobody waits for any
\* more is lost.
DatabaseWorker ==
    /\ asyncQueue # <<>>
    /\ LET q == Head(asyncQueue)
           awaited == q.op = "load" /\ session[q.session].load = q.key
       IN session' = IF awaited THEN [session EXCEPT ![q.session].ready = TRUE] ELSE session
    /\ asyncQueue' = Tail(asyncQueue)
    /\ UNCHANGED <<world, _linkSocketQueue>>

-----------------------------------------------------------------------------
(* The world thread: World::UpdateSessions.                                *)

\* ProcessLinkInstanceSocket and HandleContinuePlayerLogin.  The connection may
\* be gone by now; its key must be the one offered last.
ProcessLinkInstanceSocket ==
    /\ pc = "links"
    /\ _linkSocketQueue # <<>>
    /\ _linkSocketQueue' = Tail(_linkSocketQueue)
    /\ LET l == Head(_linkSocketQueue)
           s == m_sessions[AccountOf[l.session]]
           r == [session[s] EXCEPT !.instance = "open"]
           valid == s = l.session /\ session[s].key = l.key
       IN \/ UNCHANGED <<session, asyncQueue>>      \* the socket is closed
          \/ ~valid /\ UNCHANGED <<session, asyncQueue>>
          \/ /\ valid
             /\ ~r.m_playerLoading \/ r.player
             /\ session' = [session EXCEPT ![s] = KickPlayer(r)]
             /\ UNCHANGED asyncQueue
          \/ /\ valid
             /\ r.m_playerLoading /\ ~r.player
             /\ session' = [session EXCEPT ![s] = [r EXCEPT !.load = r.key, !.ready = FALSE]]
             /\ asyncQueue' = Append(asyncQueue, [op |-> "load", session |-> s, key |-> r.key])
    /\ UNCHANGED world

LinksDone ==
    /\ pc = "links"
    /\ _linkSocketQueue = <<>>
    /\ pc' = "adds"
    /\ UNCHANGED <<table, _linkSocketQueue, session, asyncQueue, place>>

\* AddSession_, when the account's session is loading a player: the new session
\* is kicked and deleted.
RefuseSession ==
    /\ pc = "adds"
    /\ addSessQueue # <<>>
    /\ PlayerLoading(AccountOf[Head(addSessQueue)])
    /\ session' = [session EXCEPT ![Head(addSessQueue)] = Deleted]
    /\ addSessQueue' = Tail(addSessQueue)
    /\ UNCHANGED <<m_sessions, m_QueuedPlayer, _linkSocketQueue, asyncQueue, pc, place>>

\* AddSession_ otherwise: the account's session, if any, is kicked, taken out of
\* the queue and deleted; the new one is queued if all places are taken.
AddSession_ ==
    /\ pc = "adds"
    /\ addSessQueue # <<>>
    /\ LET s == Head(addSessQueue)
           a == AccountOf[s]
           old == m_sessions[a]
           removal == IF old = NoSession
                      THEN [queue |-> m_QueuedPlayer, accepted |-> {}, found |-> FALSE]
                      ELSE RemoveQueuedPlayer(m_QueuedPlayer, Cardinality(Listed), old)
           all == Cardinality(Listed \cup {a})
           others == IF removal.found THEN all ELSE all - 1
           wait == others >= Limit /\ a \notin Privileged
       IN /\ ~PlayerLoading(a)
          /\ m_sessions' = [m_sessions EXCEPT ![a] = s]
          /\ m_QueuedPlayer' = IF wait THEN Append(removal.queue, s) ELSE removal.queue
          /\ session' = [t \in SessionIds |->
                CASE t = old -> Deleted
                  [] t = s -> IF wait THEN [session[t] EXCEPT !.m_inQueue = TRUE]
                                      ELSE InitializeSession(session[t])
                  [] t \in removal.accepted -> InitializeSession(session[t])
                  [] OTHER -> session[t]]
          /\ asyncQueue' = IF old = NoSession THEN asyncQueue ELSE asyncQueue \o Saves(old)
    /\ addSessQueue' = Tail(addSessQueue)
    /\ UNCHANGED <<_linkSocketQueue, pc, place>>

AddsDone ==
    /\ pc = "adds"
    /\ addSessQueue = <<>>
    /\ pc' = "pick"
    /\ todo' = Listed
    /\ UNCHANGED <<table, _linkSocketQueue, session, asyncQueue, current, processedPackets,
                   stopping>>

\* The loop over m_sessions, in no particular order.
PickSession ==
    /\ pc = "pick"
    /\ \E a \in todo : current' = a /\ todo' = todo \ {a}
    /\ pc' = "packets"
    /\ UNCHANGED <<table, _linkSocketQueue, session, asyncQueue, processedPackets, stopping>>

LoopDone ==
    /\ pc = "pick"
    /\ todo = {}
    /\ pc' = IF stopping THEN "stopped" ELSE "links"
    /\ UNCHANGED <<table, _linkSocketQueue, session, asyncQueue, place>>

-----------------------------------------------------------------------------
(* WorldSession::Update of the session in hand.                            *)

\* The packet loop.  Nothing is accepted from a session that waits in the queue;
\* a logout finishes at once or after twenty seconds, or is refused.
HandlePacket ==
    LET s == Updated
        r == [session[s] EXCEPT !._recvQueue = Tail(@)]
        packet == Head(session[s]._recvQueue)
    IN /\ pc = "packets"
       /\ session[s]._recvQueue # <<>>
       /\ processedPackets <= MAX_PROCESSED_PACKETS
       /\ processedPackets' = processedPackets + 1
       /\ \/ /\ packet = "login"
             /\ session' = [session EXCEPT ![s] =
                                IF r.m_inQueue THEN r ELSE HandlePlayerLoginOpcode(r)]
             /\ UNCHANGED asyncQueue
          \/ /\ packet = "logout" /\ r.player
             /\ session' = [session EXCEPT ![s] = LogoutPlayer(r)]
             /\ asyncQueue' = asyncQueue \o Saves(s)
          \/ /\ packet = "logout" /\ r.player
             /\ \E granted \in BOOLEAN :
                    session' = [session EXCEPT ![s] = [r EXCEPT !._logoutTime = granted]]
             /\ UNCHANGED asyncQueue
       /\ UNCHANGED <<table, _linkSocketQueue, pc, current, todo, stopping>>

PacketsDone ==
    /\ pc = "packets"
    /\ session[Updated]._recvQueue = <<>> \/ processedPackets > MAX_PROCESSED_PACKETS
    /\ pc' = "callbacks"
    /\ processedPackets' = 0
    /\ UNCHANGED <<table, _linkSocketQueue, session, asyncQueue, current, todo, stopping>>

\* ProcessQueryCallbacks: the account's data has arrived, or not yet.
AccountReady ==
    /\ pc = "callbacks"
    /\ session[Updated].init = "pending"
    /\ session' = [session EXCEPT ![Updated] = InitializeSessionCallback(@)]
    /\ UNCHANGED <<world, _linkSocketQueue, asyncQueue>>

\* ProcessQueryCallbacks: the character has been loaded.
CharacterReady ==
    /\ pc = "callbacks"
    /\ session[Updated].ready
    /\ \/ session' = [session EXCEPT ![Updated] = HandlePlayerLogin(@)]
       \/ session' = [session EXCEPT ![Updated] = LoadFails(@)]
    /\ UNCHANGED <<world, _linkSocketQueue, asyncQueue>>

\* The twenty seconds of a logout are over.
LogoutDue ==
    /\ pc = "callbacks"
    /\ session[Updated]._logoutTime
    /\ ~session[Updated].m_playerLoading
    /\ session' = [session EXCEPT ![Updated] = LogoutPlayer(@)]
    /\ asyncQueue' = asyncQueue \o Saves(Updated)
    /\ UNCHANGED <<world, _linkSocketQueue>>

\* Mutant of Lost: a session that has no connection to an instance is not looked at.
LostNeedsInstance(r) ==
    r.instance # "none" /\ (r.realm = "closed" \/ r.instance = "closed")

Lost(r) == r.realm = "closed" \/ r.instance = "closed"
Remaining(r) == IF r.expireTime > 0 THEN r.expireTime - 1 ELSE 0
\* Mutant of Expired: whoever has been kicked keeps the player until the time is over.
ExpiredPatient(r) == Lost(r) /\ (Remaining(r) < 1 \/ ~r.player)

Expired(r) == Lost(r) /\ (Remaining(r) < 1 \/ r.forceExit \/ ~r.player)

UpdateEnds == pc = "callbacks" /\ ~session[Updated].ready

KeepSession ==
    /\ UpdateEnds
    /\ ~Expired(session[Updated])
    /\ session' = [session EXCEPT ![Updated].expireTime =
                        IF Lost(session[Updated]) THEN Remaining(session[Updated]) ELSE @]
    /\ pc' = "pick"
    /\ current' = NoAccount
    /\ UNCHANGED <<table, _linkSocketQueue, asyncQueue, todo, processedPackets, stopping>>

\* The session is done with.  RemoveQueuedPlayer is called twice, the session
\* being in m_sessions until after the second call.
RemoveSession ==
    /\ UpdateEnds
    /\ Expired(session[Updated])
    /\ LET s == Updated
           size == Cardinality(Listed)
           first == RemoveQueuedPlayer(m_QueuedPlayer, size, s)
           second == RemoveQueuedPlayer(first.queue, size, s)
       IN /\ m_QueuedPlayer' = second.queue
          /\ session' = [t \in SessionIds |->
                CASE t = s -> Deleted
                  [] t \in first.accepted \cup second.accepted -> InitializeSession(session[t])
                  [] OTHER -> session[t]]
          /\ asyncQueue' = asyncQueue \o Saves(s)
    /\ m_sessions' = [m_sessions EXCEPT ![current] = NoSession]
    /\ pc' = "pick"
    /\ current' = NoAccount
    /\ UNCHANGED <<addSessQueue, _linkSocketQueue, todo, processedPackets, stopping>>

\* The end of the server: everybody is kicked, and UpdateSessions runs once more.
KickAll ==
    /\ pc = "links"
    /\ ~stopping
    /\ stopping' = TRUE
    /\ m_QueuedPlayer' = <<>>
    /\ session' = [s \in SessionIds |->
            IF \E a \in Accounts : m_sessions[a] = s THEN KickPlayer(session[s]) ELSE session[s]]
    /\ UNCHANGED <<m_sessions, addSessQueue, _linkSocketQueue, asyncQueue, pc, current, todo,
                   processedPackets>>

Stopped == pc = "stopped" /\ UNCHANGED vars

UpdateSessions ==
    \/ ProcessLinkInstanceSocket \/ LinksDone
    \/ RefuseSession \/ AddSession_ \/ AddsDone
    \/ PickSession \/ LoopDone
    \/ HandlePacket \/ PacketsDone
    \/ AccountReady \/ CharacterReady
    \/ LogoutDue \/ KeepSession \/ RemoveSession

Next == Network \/ DatabaseWorker \/ UpdateSessions \/ KickAll \/ Stopped

\* The world thread and the database's worker never stop on their own.
Spec == Init /\ [][Next]_vars /\ WF_vars(UpdateSessions) /\ WF_vars(DatabaseWorker)

-----------------------------------------------------------------------------
(* Properties                                                              *)

TypeOK ==
    /\ m_sessions \in [Accounts -> SessionIds \cup {NoSession}]
    /\ m_QueuedPlayer \in Seq(SessionIds)
    /\ addSessQueue \in Seq(SessionIds)
    /\ _linkSocketQueue \in Seq(Link)
    /\ session \in [SessionIds -> Session]
    /\ asyncQueue \in Seq(Query)
    /\ pc \in {"links", "adds", "pick", "packets", "callbacks", "stopped"}
    /\ current \in Accounts \cup {NoAccount}
    /\ todo \in SUBSET Accounts
    /\ processedPackets \in Nat
    /\ stopping \in BOOLEAN

Present(s) == \E a \in Accounts : m_sessions[a] = s

\* The table, the login queue and the queue of new sessions hold pointers: none
\* is to a session that has been deleted, and whoever waits in the login queue is
\* in the table, once, and still kept from sending anything but the login.
NoDanglingSession ==
    /\ \A a \in Accounts :
         m_sessions[a] # NoSession =>
            session[m_sessions[a]].life = "alive" /\ AccountOf[m_sessions[a]] = a
    /\ \A s \in ToSet(addSessQueue) : session[s].life = "alive" /\ ~Present(s)
    /\ \A s \in SessionIds : Waits(m_QueuedPlayer, s) =>
         /\ Present(s)
         /\ session[s].m_inQueue
         /\ session[s].init = "no"
    /\ IsInjective(m_QueuedPlayer)

\* Nobody waits while a place is free: as long as the login queue is not empty,
\* the sessions outside it fill the player limit.
QueueOnlyWhenFull ==
    m_QueuedPlayer # <<>> =>
        Cardinality(Listed) - Len(m_QueuedPlayer) >= Limit

\* The sessions that had to mind the limit and have been let in never exceed it,
\* however many privileged ones come and go, replace others or are replaced.
LimitRespected ==
    Cardinality({a \in Accounts \ Privileged :
        m_sessions[a] # NoSession /\ session[m_sessions[a]].init # "no"}) <= Limit

\* Sessions are let in in the order in which they came: nobody who was in the
\* queue before a session that is let in is still there afterwards.
FirstComeFirstServed ==
    [][\A s \in SessionIds :
         /\ session[s].init = "no" /\ session'[s].init = "pending"
         /\ AccountOf[s] \notin Privileged
         => \A i \in 1 .. Len(m_QueuedPlayer) :
              \/ m_QueuedPlayer[i] \notin ToSet(m_QueuedPlayer')
              \/ \E j \in 1 .. i - 1 : m_QueuedPlayer[j] = s]_vars

\* A character is loaded from what its last logout saved: while a session waits
\* for a load that is still to be executed, no session of the account has the
\* player in the world, and no save of the account is behind the load.
LoginsReadSaves ==
    \A i \in 1 .. Len(asyncQueue) :
        LET q == asyncQueue[i]
            a == AccountOf[q.session]
        IN q.op = "load" /\ session[q.session].load = q.key =>
            /\ \A s \in SessionIds : AccountOf[s] = a => ~session[s].player
            /\ \A j \in i + 1 .. Len(asyncQueue) :
                 asyncQueue[j].op = "save" => AccountOf[asyncQueue[j].session] # a

\* When the server has kicked everybody and updated the sessions a last time, no
\* player is left in the world: each has been saved.
NobodyLeftBehind == pc = "stopped" => \A s \in SessionIds : ~session[s].player

\* A session whose connection is gone is deleted in the end, whatever its player
\* was doing: again and again no session is left with a closed connection, until
\* the server stops.  (A session closes its connection once.)
LostSessionsEnd ==
    []<>((\A s \in SessionIds : session[s].realm # "closed") \/ pc = "stopped")

\* A login that was given up is over: a player enters the world only while its
\* session is still loading it.
AbortedLoginsStayOut ==
    [][\A s \in SessionIds :
         ~session[s].player /\ session'[s].player => session[s].m_playerLoading]_vars

=============================================================================
