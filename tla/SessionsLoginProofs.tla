-------------------------- MODULE SessionsLoginProofs --------------------------
(***************************************************************************)
(* Theorems of Sessions about players: a login reads what the last logout  *)
(* saved, and no player outlives the server.  Both need to know which      *)
(* connections and which loads can still belong to a session.              *)
(***************************************************************************)
EXTENDS SessionsProofs

Doomed(r) == r.life = "alive" /\ r.realm = "closed" /\ r.forceExit

\* What the fields of a session say of each other.  Before the account's data has
\* arrived the client shows nothing and has sent nothing.
Local(r) ==
    /\ r.life # "alive" => r.init = "no"
    /\ r.life = "alive" => r.realm \in {"open", "closed"}
    /\ r.init # "done" => r.client = "auth"
    /\ r.client = "auth" =>
        /\ ~r.player /\ r.load = 0 /\ r.serial = 0 /\ r.key = 0
        /\ r._recvQueue = <<>> /\ ~r._logoutTime
    /\ r.serial > 0 => r.key > 0
    /\ r.player => r.load = 0
    /\ r.ready => r.load > 0

LocalOK == \A s \in SessionIds : Local(session[s])

\* Only sessions of the table have been initialized.
AbsentOK == \A s \in SessionIds : Present(s) \/ session[s].init = "no"

\* Key k was offered to session s, and if it is the last key the client has used it.
Offered(s, k) ==
    /\ k > 0
    /\ session[s].life # "unborn"
    /\ session[s].life = "alive" =>
        \/ k < session[s].key
        \/ k = session[s].key /\ (session[s].linked \/ session[s].serial = 0)

\* The connections on their way: one for each key.
LinksOK ==
    /\ IsInjective(_linkSocketQueue)
    /\ \A i \in 1 .. Len(_linkSocketQueue) :
         Offered(_linkSocketQueue[i].session, _linkSocketQueue[i].key)

\* The loads on their way: the connection for their key has arrived.
LoadsOK ==
    \A i \in 1 .. Len(asyncQueue) : asyncQueue[i].op = "load" =>
        /\ Offered(asyncQueue[i].session, asyncQueue[i].key)
        /\ \A j \in 1 .. Len(_linkSocketQueue) :
             \/ _linkSocketQueue[j].session # asyncQueue[i].session
             \/ _linkSocketQueue[j].key # asyncQueue[i].key

\* No save of the account is behind a load that is awaited.
OrderOK ==
    \A i, j \in 1 .. Len(asyncQueue) :
        /\ i < j /\ asyncQueue[i].op = "load" /\ asyncQueue[j].op = "save"
        /\ session[asyncQueue[i].session].load = asyncQueue[i].key
        => AccountOf[asyncQueue[j].session] # AccountOf[asyncQueue[i].session]

LoginInv == LocalOK /\ AbsentOK /\ LinksOK /\ LoadsOK /\ OrderOK

-----------------------------------------------------------------------------
(***************************************************************************)
(* What a step may do to a session: any step, and any step but the three   *)
(* that start a load, open the character screen or bring a player in.      *)
(***************************************************************************)
\* Keys grow, the last one is not offered twice, and a kicked session stays so.
Forward(r, n) ==
    /\ r.life # "unborn" => n.life # "unborn"
    /\ r.life # "unborn" /\ n.life = "alive" =>
        /\ r.life = "alive"
        /\ \/ n.key > r.key
           \/ /\ n.key = r.key
              /\ \/ n.serial = 0
                 \/ n.linked
                 \/ n.serial = r.serial /\ n.linked = r.linked
    /\ Doomed(r) => Doomed(n) \/ n.life = "deleted"

Move(r, n) == Local(n) /\ Forward(r, n)

Tame(r, n) ==
    /\ Move(r, n)
    /\ n.load = 0 \/ n.load = r.load
    /\ n.player => r.player
    /\ r.client = "auth" => n.client = "auth"

LEMMA SelfTame == ASSUME NEW r, Local(r) PROVE Tame(r, r)
BY DEF Tame, Move, Forward

LEMMA KickTame == ASSUME NEW r \in Session, Local(r) PROVE Tame(r, KickPlayer(r))
<1> DEFINE n == KickPlayer(r)
<1>1. /\ n.life = r.life /\ n.init = r.init /\ n.client = r.client /\ (n.player <=> r.player)
      /\ n.load = r.load /\ n.serial = r.serial /\ n.key = r.key /\ (n.ready <=> r.ready)
      /\ n._recvQueue = r._recvQueue /\ (n._logoutTime <=> r._logoutTime) /\ n.linked = r.linked
      /\ n.realm = Closed(r.realm) /\ n.forceExit
  BY DEF KickPlayer, Session
<1> HIDE DEF n
<1>2. Tame(r, n)
  BY <1>1 DEF Tame, Move, Forward, Local, Doomed, Closed
<1> QED
  BY <1>2 DEF n

\* A kicked session that was alive has lost its connection for good.
LEMMA KickDooms ==
    ASSUME NEW r \in Session, Local(r), r.life = "alive"
    PROVE  Doomed(KickPlayer(r))
BY DEF Local, KickPlayer, Session, Closed, Doomed

LEMMA DeletedTame == ASSUME NEW r PROVE Tame(r, Deleted)
BY DEF Tame, Move, Forward, Local, Doomed, Deleted, Unborn

LEMMA ConnectTame ==
    ASSUME NEW r, r.life = "unborn"
    PROVE  Tame(r, [Unborn EXCEPT !.life = "alive", !.realm = "open"])
BY DEF Tame, Move, Forward, Local, Doomed, Unborn

LEMMA SendConnectTame ==
    ASSUME NEW r \in Session, Local(r), r.client # "auth", NEW serial \in Nat
    PROVE  /\ Tame(r, SendConnectToInstance(r, serial))
           /\ Tame(r, SendConnectToInstance([r EXCEPT !.m_playerLoading = TRUE], serial))
<1>1. ASSUME NEW n, \/ n = SendConnectToInstance(r, serial)
                    \/ n = SendConnectToInstance([r EXCEPT !.m_playerLoading = TRUE], serial)
      PROVE  Tame(r, n)
  <2>1. /\ n.life = r.life /\ n.init = r.init /\ n.client = r.client /\ (n.player <=> r.player)
        /\ n.load = r.load /\ n.key = r.key + 1 /\ (n.ready <=> r.ready)
        /\ n.realm = r.realm /\ (n.forceExit <=> r.forceExit)
    BY <1>1 DEF SendConnectToInstance, Session
  <2>2. r.key \in Nat
    BY DEF Session
  <2> QED
    BY <2>1, <2>2 DEF Tame, Move, Forward, Local, Doomed
<1> QED
  BY <1>1

LEMMA LoginOpcodeTame ==
    ASSUME NEW r \in Session, Local(r), r.client # "auth"
    PROVE  Tame(r, HandlePlayerLoginOpcode(r))
BY KickTame, SendConnectTame DEF HandlePlayerLoginOpcode

LEMMA LogoutTame ==
    ASSUME NEW r \in Session, Local(r), r.client # "auth"
    PROVE  Tame(r, LogoutPlayer(r))
<1> DEFINE n == LogoutPlayer(r)
<1>1. /\ n.life = r.life /\ n.init = r.init /\ n.client = "characters" /\ ~n.player
      /\ n.load = r.load /\ n.serial = r.serial /\ n.key = r.key /\ (n.ready <=> r.ready)
      /\ n.linked = r.linked /\ n.realm = r.realm /\ (n.forceExit <=> r.forceExit)
  BY DEF LogoutPlayer, Session
<1> HIDE DEF n
<1>2. Tame(r, n)
  BY <1>1 DEF Tame, Move, Forward, Local, Doomed
<1> QED
  BY <1>2 DEF n

LEMMA AbortTame ==
    ASSUME NEW r \in Session, Local(r), r.client # "auth"
    PROVE  Tame(r, AbortLogin(r))
<1> DEFINE n == AbortLogin(r)
<1>1. /\ n.life = r.life /\ n.init = r.init /\ n.client = "characters" /\ (n.player <=> r.player)
      /\ n.load = r.load /\ n.serial = 0 /\ n.key = r.key /\ (n.ready <=> r.ready)
      /\ n.realm = r.realm /\ (n.forceExit <=> r.forceExit)
  BY DEF AbortLogin, Session
<1> HIDE DEF n
<1>2. Tame(r, n)
  BY <1>1 DEF Tame, Move, Forward, Local, Doomed
<1> QED
  BY <1>2 DEF n

LEMMA LoadFailsTame == ASSUME NEW r \in Session, Local(r) PROVE Tame(r, LoadFails(r))
<1> DEFINE k == KickPlayer(r)
           n == LoadFails(r)
<1>1. k \in Session /\ Tame(r, k)
  BY KickPlayerType, KickTame
<1>2. /\ n.life = k.life /\ n.init = k.init /\ n.client = k.client /\ (n.player <=> k.player)
      /\ n.load = 0 /\ n.serial = k.serial /\ n.key = k.key /\ ~n.ready
      /\ n._recvQueue = k._recvQueue /\ (n._logoutTime <=> k._logoutTime) /\ n.linked = k.linked
      /\ n.realm = k.realm /\ (n.forceExit <=> k.forceExit)
  <2> HIDE DEF k
  <2> QED
    BY <1>1 DEF LoadFails, k, Session
<1> HIDE DEF k, n
<1> QED
  BY <1>1, <1>2 DEF Tame, Move, Forward, Local, Doomed, n

LEMMA InitializeTame ==
    ASSUME NEW r \in Session, Local(r), r.init = "no", r.life = "alive"
    PROVE  Tame(r, InitializeSession(r))
<1> DEFINE n == InitializeSession(r)
<1>1. /\ n.life = r.life /\ n.client = r.client /\ (n.player <=> r.player)
      /\ n.load = r.load /\ n.serial = r.serial /\ n.key = r.key /\ (n.ready <=> r.ready)
      /\ n._recvQueue = r._recvQueue /\ (n._logoutTime <=> r._logoutTime) /\ n.linked = r.linked
      /\ n.realm = r.realm /\ (n.forceExit <=> r.forceExit)
  BY DEF InitializeSession, Session
<1> HIDE DEF n
<1>2. Tame(r, n)
  BY <1>1 DEF Tame, Move, Forward, Local, Doomed
<1> QED
  BY <1>2 DEF n
LEMMA ReadyTame ==
    ASSUME NEW r \in Session, Local(r), r.load > 0
    PROVE  Tame(r, [r EXCEPT !.ready = TRUE])
<1> DEFINE n == [r EXCEPT !.ready = TRUE]
<1>1. /\ n.life = r.life /\ n.init = r.init /\ n.client = r.client /\ (n.player <=> r.player)
      /\ n.load = r.load /\ n.serial = r.serial /\ n.key = r.key
      /\ n._recvQueue = r._recvQueue /\ (n._logoutTime <=> r._logoutTime) /\ n.linked = r.linked
      /\ n.realm = r.realm /\ (n.forceExit <=> r.forceExit)
  BY DEF Session
<1> HIDE DEF n
<1>2. Tame(r, n)
  BY <1>1 DEF Tame, Move, Forward, Local, Doomed
<1> QED
  BY <1>2 DEF n

\* The three moves that are not tame.
LEMMA LoadMove ==
    ASSUME NEW r \in Session, Local(r), ~r.player, r.key > 0
    PROVE  Move(r, [r EXCEPT !.instance = "open", !.load = r.key, !.ready = FALSE])
<1> DEFINE n == [r EXCEPT !.instance = "open", !.load = r.key, !.ready = FALSE]
<1>1. /\ n.life = r.life /\ n.init = r.init /\ n.client = r.client /\ (n.player <=> r.player)
      /\ n.load = r.key /\ n.serial = r.serial /\ n.key = r.key /\ ~n.ready
      /\ n._recvQueue = r._recvQueue /\ (n._logoutTime <=> r._logoutTime) /\ n.linked = r.linked
      /\ n.realm = r.realm /\ (n.forceExit <=> r.forceExit)
  BY DEF Session
<1> HIDE DEF n
<1>2. Move(r, n)
  BY <1>1 DEF Move, Forward, Local, Doomed
<1> QED
  BY <1>2 DEF n

LEMMA AccountMove ==
    ASSUME NEW r \in Session, Local(r), r.init = "pending"
    PROVE  /\ Move(r, InitializeSessionCallback(r))
           /\ InitializeSessionCallback(r).load = 0
           /\ ~InitializeSessionCallback(r).player
<1> DEFINE n == InitializeSessionCallback(r)
<1>1. /\ n.life = r.life /\ n.init = "done" /\ n.client = "characters"
      /\ (n.player <=> r.player) /\ (n.ready <=> r.ready)
      /\ n.load = r.load /\ n.serial = r.serial /\ n.key = r.key
      /\ n._recvQueue = r._recvQueue /\ (n._logoutTime <=> r._logoutTime) /\ n.linked = r.linked
      /\ n.realm = r.realm /\ (n.forceExit <=> r.forceExit)
  BY DEF InitializeSessionCallback, Session
<1>2. r.life = "alive"
  BY DEF Local
<1> HIDE DEF n
<1>3. Move(r, n) /\ n.load = 0 /\ ~n.player
  BY <1>1, <1>2 DEF Move, Forward, Local, Doomed
<1> QED
  BY <1>3 DEF n

LEMMA PlayerMove ==
    ASSUME NEW r \in Session, Local(r), r.ready
    PROVE  Move(r, HandlePlayerLogin(r)) /\ HandlePlayerLogin(r).load = 0
<1> DEFINE n == HandlePlayerLogin(r)
<1>1. /\ n.life = r.life /\ n.init = r.init /\ n.client = "world" /\ n.player /\ ~n.ready
      /\ n.load = 0 /\ n.serial = 0 /\ n.key = r.key
      /\ n.realm = r.realm /\ (n.forceExit <=> r.forceExit)
  BY DEF HandlePlayerLogin, Session
<1>2. r.init = "done" /\ r.life = "alive"
  BY DEF Local
<1> HIDE DEF n
<1>3. Move(r, n) /\ n.load = 0
  BY <1>1, <1>2 DEF Move, Forward, Local, Doomed
<1> QED
  BY <1>3 DEF n

-----------------------------------------------------------------------------
(***************************************************************************)
(* The steps, one after the other.                                         *)
(***************************************************************************)
Tames == \A t \in SessionIds : Tame(session[t], session'[t])
Moves == \A t \in SessionIds : Move(session[t], session'[t])

LEMMA OneTame ==
    ASSUME TypeOK, LocalOK, NEW s \in SessionIds, NEW n, Tame(session[s], n),
           session' = [session EXCEPT ![s] = n]
    PROVE  Tames
<1> SUFFICES ASSUME NEW t \in SessionIds PROVE Tame(session[t], session'[t])
  BY DEF Tames
<1>1. session'[t] = IF t = s THEN n ELSE session[t]
  BY DEF TypeOK
<1>2. Tame(session[t], session[t])
  BY SelfTame DEF LocalOK
<1> QED
  BY <1>1, <1>2

LEMMA OneMove ==
    ASSUME TypeOK, LocalOK, NEW s \in SessionIds, NEW n, Move(session[s], n),
           session' = [session EXCEPT ![s] = n]
    PROVE  Moves
<1> SUFFICES ASSUME NEW t \in SessionIds PROVE Move(session[t], session'[t])
  BY DEF Moves
<1>1. session'[t] = IF t = s THEN n ELSE session[t]
  BY DEF TypeOK
<1>2. Tame(session[t], session[t])
  BY SelfTame DEF LocalOK
<1> QED
  BY <1>1, <1>2 DEF Tame

LEMMA SameTame == ASSUME LocalOK, session' = session PROVE Tames
BY SelfTame DEF Tames, LocalOK

LEMMA TameMoves == ASSUME Tames PROVE Moves
BY DEF Tames, Tame, Moves

LEMMA NetworkTame == ASSUME IInv, LocalOK, Network PROVE Tames
<1> SUFFICES ASSUME NEW s \in SessionIds,
                    \/ Connect(s) \/ RealmCloses(s) \/ InstanceCloses(s)
                    \/ ClientLogin(s) \/ ClientLogout(s) \/ ClientLink(s)
                    \/ HandleConnectToFailed(s)
             PROVE  Tames
  BY DEF Network
<1> DEFINE r == session[s]
<1>1. r \in Session /\ Local(r) /\ TypeOK
  BY DEF IInv, TypeOK, LocalOK
<1>2. \E n : session' = [session EXCEPT ![s] = n] /\ Tame(r, n)
  <2>1. CASE Connect(s)
    BY <2>1, ConnectTame DEF Connect
  <2>2. CASE RealmCloses(s)
    <3> DEFINE n == [r EXCEPT !.realm = "closed"]
    <3>1. /\ n.life = r.life /\ n.init = r.init /\ n.client = r.client
          /\ (n.player <=> r.player) /\ (n.ready <=> r.ready)
          /\ n.load = r.load /\ n.serial = r.serial /\ n.key = r.key
          /\ n._recvQueue = r._recvQueue /\ (n._logoutTime <=> r._logoutTime)
          /\ n.linked = r.linked /\ n.realm = "closed" /\ (n.forceExit <=> r.forceExit)
      BY <1>1 DEF Session
    <3>2. session' = [session EXCEPT ![s] = n]
      BY <1>1, <2>2 DEF RealmCloses, TypeOK
    <3> HIDE DEF n, r
    <3>3. Tame(r, n)
      BY <1>1, <3>1 DEF Tame, Move, Forward, Local, Doomed
    <3> QED
      BY <3>2, <3>3
  <2>3. CASE InstanceCloses(s)
    <3> DEFINE n == [r EXCEPT !.instance = "closed"]
    <3>1. /\ n.life = r.life /\ n.init = r.init /\ n.client = r.client
          /\ (n.player <=> r.player) /\ (n.ready <=> r.ready)
          /\ n.load = r.load /\ n.serial = r.serial /\ n.key = r.key
          /\ n._recvQueue = r._recvQueue /\ (n._logoutTime <=> r._logoutTime)
          /\ n.linked = r.linked /\ n.realm = r.realm /\ (n.forceExit <=> r.forceExit)
      BY <1>1 DEF Session
    <3>2. session' = [session EXCEPT ![s] = n]
      BY <1>1, <2>3 DEF InstanceCloses, TypeOK
    <3> HIDE DEF n, r
    <3>3. Tame(r, n)
      BY <1>1, <3>1 DEF Tame, Move, Forward, Local, Doomed
    <3> QED
      BY <3>2, <3>3
  <2>4. CASE ClientLogin(s)
    <3> DEFINE q == Append(r._recvQueue, "login")
               n == [r EXCEPT !._recvQueue = q, !.client = "login"]
    <3>1. /\ n.life = r.life /\ n.init = r.init /\ n.client = "login"
          /\ (n.player <=> r.player) /\ (n.ready <=> r.ready)
          /\ n.load = r.load /\ n.serial = r.serial /\ n.key = r.key
          /\ n.linked = r.linked /\ n.realm = r.realm /\ (n.forceExit <=> r.forceExit)
      BY <1>1 DEF Session
    <3>2. session' = [session EXCEPT ![s] = n]
      BY <1>1, <2>4 DEF ClientLogin, TypeOK
    <3>3. r.client = "characters"
      BY <2>4 DEF ClientLogin
    <3> HIDE DEF n, r, q
    <3>4. Tame(r, n)
      BY <1>1, <3>1, <3>3 DEF Tame, Move, Forward, Local, Doomed
    <3> QED
      BY <3>2, <3>4
  <2>5. CASE ClientLogout(s)
    <3> DEFINE q == Append(r._recvQueue, "logout")
               n == [r EXCEPT !._recvQueue = q]
    <3>1. /\ n.life = r.life /\ n.init = r.init /\ n.client = r.client
          /\ (n.player <=> r.player) /\ (n.ready <=> r.ready)
          /\ n.load = r.load /\ n.serial = r.serial /\ n.key = r.key
          /\ n.linked = r.linked /\ n.realm = r.realm /\ (n.forceExit <=> r.forceExit)
      BY <1>1 DEF Session
    <3>2. session' = [session EXCEPT ![s] = n]
      BY <1>1, <2>5 DEF ClientLogout, TypeOK
    <3>3. r.client = "world"
      BY <2>5 DEF ClientLogout
    <3> HIDE DEF n, r, q
    <3>4. Tame(r, n)
      BY <1>1, <3>1, <3>3 DEF Tame, Move, Forward, Local, Doomed
    <3> QED
      BY <3>2, <3>4
  <2>6. CASE ClientLink(s)
    <3> DEFINE n == [r EXCEPT !.linked = TRUE]
    <3>1. /\ n.life = r.life /\ n.init = r.init /\ n.client = r.client
          /\ (n.player <=> r.player) /\ (n.ready <=> r.ready)
          /\ n.load = r.load /\ n.serial = r.serial /\ n.key = r.key
          /\ n._recvQueue = r._recvQueue /\ (n._logoutTime <=> r._logoutTime)
          /\ n.linked /\ n.realm = r.realm /\ (n.forceExit <=> r.forceExit)
      BY <1>1 DEF Session
    <3>2. session' = [session EXCEPT ![s] = n]
      BY <1>1, <2>6 DEF ClientLink, TypeOK
    <3> HIDE DEF n, r
    <3>3. Tame(r, n)
      BY <1>1, <3>1 DEF Tame, Move, Forward, Local, Doomed
    <3> QED
      BY <3>2, <3>3
  <2>7. CASE HandleConnectToFailed(s)
    <3>1. r.client # "auth" /\ r.serial + 1 \in Nat
      BY <1>1, <2>7, BoundAssumption DEF HandleConnectToFailed, Session
    <3> QED
      BY <1>1, <2>7, <3>1, AbortTame, SendConnectTame DEF HandleConnectToFailed
  <2> QED
    BY <2>1, <2>2, <2>3, <2>4, <2>5, <2>6, <2>7
<1> QED
  BY <1>1, <1>2, OneTame

LEMMA WorkerTame == ASSUME IInv, LocalOK, LoadsOK, DatabaseWorker PROVE Tames
<1> DEFINE q == Head(asyncQueue)
<1>1. q \in Query /\ q = asyncQueue[1] /\ 1 \in 1 .. Len(asyncQueue)
  <2>1. asyncQueue \in Seq(Query) /\ asyncQueue # <<>>
    BY DEF IInv, TypeOK, DatabaseWorker
  <2> QED
    BY <2>1
<1> HIDE DEF q
<1>2. CASE session' = session
  BY <1>2, SameTame
<1>3. CASE q.op = "load" /\ session[q.session].load = q.key
           /\ session' = [session EXCEPT ![q.session].ready = TRUE]
  <2>1. q.session \in SessionIds /\ q.key > 0
    BY <1>1, <1>3 DEF Query, LoadsOK, Offered
  <2>2. session[q.session] \in Session /\ Local(session[q.session]) /\ TypeOK
    BY <2>1 DEF IInv, TypeOK, LocalOK
  <2>3. session' = [session EXCEPT ![q.session] = [session[q.session] EXCEPT !.ready = TRUE]]
    BY <1>3, <2>1, <2>2 DEF TypeOK
  <2>4. Tame(session[q.session], [session[q.session] EXCEPT !.ready = TRUE])
    BY <1>3, <2>1, <2>2, ReadyTame
  <2> QED
    BY <2>1, <2>2, <2>3, <2>4, OneTame
<1> QED
  BY <1>2, <1>3 DEF DatabaseWorker, q

\* Tame looks at few fields of the session as it was.
LEMMA TameFrom ==
    ASSUME NEW r, NEW t, NEW n, Tame(t, n),
           t.life = r.life, t.key = r.key, t.serial = r.serial, t.linked = r.linked,
           t.realm = r.realm, t.forceExit <=> r.forceExit, t.load = r.load,
           t.player <=> r.player, t.client = r.client
    PROVE  Tame(r, n)
BY DEF Tame, Move, Forward, Doomed

\* A connection arrives for a session that loads a player: its load is queued.
LoadStarts ==
    \E s \in SessionIds :
        /\ _linkSocketQueue # <<>>
        /\ Head(_linkSocketQueue) = [session |-> s, key |-> session[s].key]
        /\ ~session[s].player /\ session[s].key > 0
        /\ session' = [session EXCEPT ![s] =
                [session[s] EXCEPT !.instance = "open", !.load = session[s].key, !.ready = FALSE]]
        /\ asyncQueue' =
                Append(asyncQueue, [op |-> "load", session |-> s, key |-> session[s].key])

LEMMA LinkCases ==
    ASSUME IInv, LocalOK, LinksOK, ProcessLinkInstanceSocket
    PROVE  Moves /\ ((Tames /\ UNCHANGED asyncQueue) \/ LoadStarts)
<1> DEFINE l == Head(_linkSocketQueue)
           s == m_sessions[AccountOf[l.session]]
           r == [session[s] EXCEPT !.instance = "open"]
<1>1. l \in Link /\ l = _linkSocketQueue[1] /\ 1 \in 1 .. Len(_linkSocketQueue)
  <2>1. _linkSocketQueue \in Seq(Link) /\ _linkSocketQueue # <<>>
    BY DEF IInv, TypeOK, ProcessLinkInstanceSocket
  <2> QED
    BY <2>1
<1>2. l.key > 0 /\ l.session \in SessionIds
  BY <1>1 DEF LinksOK, Offered, Link
<1>3. CASE UNCHANGED <<session, asyncQueue>>
  BY <1>3, SameTame, TameMoves
<1>4. ASSUME s = l.session
      PROVE  /\ s \in SessionIds /\ session[s] \in Session /\ Local(session[s]) /\ TypeOK
             /\ r \in Session /\ Local(r) /\ (r.player <=> session[s].player)
             /\ r.key = session[s].key
             /\ \A n : Tame(r, n) => Tame(session[s], n)
  <2>1. s \in SessionIds /\ session[s] \in Session /\ Local(session[s]) /\ TypeOK
    BY <1>2, <1>4 DEF IInv, TypeOK, LocalOK
  <2> HIDE DEF s
  <2>2. /\ r \in Session /\ r.life = session[s].life /\ r.init = session[s].init
        /\ r.client = session[s].client
        /\ (r.player <=> session[s].player) /\ (r.ready <=> session[s].ready)
        /\ r.load = session[s].load /\ r.serial = session[s].serial /\ r.key = session[s].key
        /\ r._recvQueue = session[s]._recvQueue
        /\ (r._logoutTime <=> session[s]._logoutTime)
        /\ r.linked = session[s].linked /\ r.realm = session[s].realm
        /\ (r.forceExit <=> session[s].forceExit)
    BY <2>1 DEF Session, SocketState
  <2> HIDE DEF r
  <2>3. Local(r)
    BY <2>1, <2>2 DEF Local
  <2>4. \A n : Tame(r, n) => Tame(session[s], n)
    BY <2>2, TameFrom
  <2> QED
    BY <2>1, <2>2, <2>3, <2>4
<1>5. CASE s = l.session /\ session' = [session EXCEPT ![s] = KickPlayer(r)]
           /\ UNCHANGED asyncQueue
  <2>1. Tame(session[s], KickPlayer(r))
    BY <1>4, <1>5, KickTame
  <2> QED
    BY <1>4, <1>5, <2>1, OneTame, TameMoves
<1>6. CASE /\ s = l.session /\ session[s].key = l.key /\ ~r.player
           /\ session' = [session EXCEPT ![s] = [r EXCEPT !.load = r.key, !.ready = FALSE]]
           /\ asyncQueue' = Append(asyncQueue, [op |-> "load", session |-> s, key |-> r.key])
  <2> DEFINE n == [session[s] EXCEPT !.instance = "open", !.load = session[s].key,
                                     !.ready = FALSE]
  <2>1. [r EXCEPT !.load = r.key, !.ready = FALSE] = n
    BY <1>4, <1>6 DEF Session
  <2>2. Move(session[s], n)
    BY <1>2, <1>4, <1>6, LoadMove
  <2>3. Moves
    BY <1>4, <1>6, <2>1, <2>2, OneMove
  <2>4. l = [session |-> s, key |-> session[s].key]
    BY <1>1, <1>6 DEF Link
  <2>5. LoadStarts
    <3>1. _linkSocketQueue # <<>>
      BY DEF ProcessLinkInstanceSocket
    <3>2. /\ s \in SessionIds /\ ~session[s].player /\ session[s].key > 0
          /\ session' = [session EXCEPT ![s] = n]
          /\ asyncQueue' =
                Append(asyncQueue, [op |-> "load", session |-> s, key |-> session[s].key])
      BY <1>2, <1>4, <1>6, <2>1
    <3> HIDE DEF l, s, r
    <3> QED
      BY <2>4, <3>1, <3>2, Zenon DEF LoadStarts, l
  <2> QED
    BY <2>3, <2>5
<1>7. \/ UNCHANGED <<session, asyncQueue>>
      \/ /\ s = l.session /\ session' = [session EXCEPT ![s] = KickPlayer(r)]
         /\ UNCHANGED asyncQueue
      \/ /\ s = l.session /\ session[s].key = l.key /\ ~r.player
         /\ session' = [session EXCEPT ![s] = [r EXCEPT !.load = r.key, !.ready = FALSE]]
         /\ asyncQueue' = Append(asyncQueue, [op |-> "load", session |-> s, key |-> r.key])
  BY DEF ProcessLinkInstanceSocket
<1> HIDE DEF l, s, r
<1> QED
  BY <1>3, <1>5, <1>6, <1>7

LEMMA PacketTame == ASSUME IInv, LocalOK, HandlePacket PROVE Tames
<1> DEFINE s == Updated
           rest == Tail(session[s]._recvQueue)
           r == [session[s] EXCEPT !._recvQueue = rest]
<1>1. s \in SessionIds /\ session[s] \in Session /\ Local(session[s]) /\ TypeOK
  BY UpdatedType DEF IInv, HandlePacket, LocalOK
<1>2. session[s].client # "auth"
  BY <1>1 DEF Local, HandlePacket
<1>3. r \in Session
  <2>1. rest \in Seq({"login", "logout"})
    <3>1. session[s]._recvQueue \in Seq({"login", "logout"})
      BY <1>1 DEF Session
    <3>2. session[s]._recvQueue # <<>>
      BY DEF HandlePacket
    <3> QED
      BY <3>1, <3>2
  <2> HIDE DEF rest, s
  <2> QED
    BY <1>1, <2>1 DEF Session
<1>4. r = [session[s] EXCEPT !._recvQueue = Tail(@)]
  BY <1>1 DEF Session
<1>5. /\ r.life = session[s].life /\ r.init = session[s].init /\ r.client = session[s].client
      /\ (r.player <=> session[s].player) /\ (r.ready <=> session[s].ready)
      /\ r.load = session[s].load /\ r.serial = session[s].serial /\ r.key = session[s].key
      /\ r.linked = session[s].linked /\ r.realm = session[s].realm
      /\ (r.forceExit <=> session[s].forceExit)
  <2> HIDE DEF rest, s
  <2> QED
    BY <1>1 DEF Session
<1> HIDE DEF rest, r, s
<1>6. Local(r) /\ r.client # "auth" /\ \A n : Tame(r, n) => Tame(session[s], n)
  <2>1. Local(r)
    BY <1>1, <1>2, <1>5 DEF Local
  <2> QED
    BY <1>2, <1>5, <2>1, TameFrom
<1>a. ASSUME NEW n, Tame(r, n), session' = [session EXCEPT ![s] = n] PROVE Tames
  BY <1>1, <1>6, <1>a, OneTame
<1>7. CASE session' = [session EXCEPT ![s] = IF r.m_inQueue THEN r ELSE HandlePlayerLoginOpcode(r)]
  BY <1>3, <1>6, <1>7, <1>a, SelfTame, LoginOpcodeTame
<1>8. CASE session' = [session EXCEPT ![s] = LogoutPlayer(r)]
  BY <1>3, <1>6, <1>8, <1>a, LogoutTame
<1>9. CASE \E granted \in BOOLEAN :
                session' = [session EXCEPT ![s] = [r EXCEPT !._logoutTime = granted]]
  <2>1. PICK granted \in BOOLEAN :
            session' = [session EXCEPT ![s] = [r EXCEPT !._logoutTime = granted]]
    BY <1>9
  <2> DEFINE n == [r EXCEPT !._logoutTime = granted]
  <2>2. /\ n.life = r.life /\ n.init = r.init /\ n.client = r.client
        /\ (n.player <=> r.player) /\ (n.ready <=> r.ready)
        /\ n.load = r.load /\ n.serial = r.serial /\ n.key = r.key
        /\ n.linked = r.linked /\ n.realm = r.realm /\ (n.forceExit <=> r.forceExit)
    BY <1>3 DEF Session
  <2> HIDE DEF n
  <2>3. Tame(r, n)
    BY <1>6, <2>2 DEF Tame, Move, Forward, Local, Doomed
  <2> QED
    BY <1>a, <2>1, <2>3 DEF n
<1> QED
  <2> USE <1>4 DEF s
  <2> QED
    BY <1>7, <1>8, <1>9 DEF HandlePacket

LEMMA CharacterMoves ==
    ASSUME IInv, LocalOK, CharacterReady
    PROVE  /\ Moves
           /\ \A t \in SessionIds \ {Updated} : session'[t] = session[t]
           /\ \A t \in SessionIds : session'[t].load = 0 \/ session'[t].load = session[t].load
<1> DEFINE s == Updated
<1>1. s \in SessionIds /\ session[s] \in Session /\ Local(session[s]) /\ TypeOK
  BY UpdatedType DEF IInv, CharacterReady, LocalOK
<1>2. session[s].ready
  BY DEF CharacterReady
<1>3. PICK n : n \in {HandlePlayerLogin(session[s]), LoadFails(session[s])}
               /\ session' = [session EXCEPT ![s] = n]
  BY DEF CharacterReady
<1>4. Move(session[s], n) /\ (n.load = 0 \/ n.load = session[s].load)
  <2>1. CASE n = HandlePlayerLogin(session[s])
    BY <1>1, <1>2, <2>1, PlayerMove
  <2>2. CASE n = LoadFails(session[s])
    BY <1>1, <2>2, LoadFailsTame DEF Tame
  <2> QED
    BY <1>3, <2>1, <2>2
<1>5. Moves
  BY <1>1, <1>3, <1>4, OneMove
<1>6. \A t \in SessionIds : session'[t] = IF t = s THEN n ELSE session[t]
  BY <1>1, <1>3 DEF TypeOK
<1> QED
  BY <1>4, <1>5, <1>6

LEMMA AccountMoves ==
    ASSUME IInv, LocalOK, AccountReady
    PROVE  /\ Moves
           /\ \A t \in SessionIds : session'[t].load = 0 \/ session'[t].load = session[t].load
           /\ \A t \in SessionIds : t # Updated => session'[t] = session[t]
           /\ ~session'[Updated].player /\ session'[Updated].load = 0
<1> DEFINE s == Updated
           n == InitializeSessionCallback(session[s])
<1>1. s \in SessionIds /\ session[s] \in Session /\ Local(session[s]) /\ TypeOK
  BY UpdatedType DEF IInv, AccountReady, LocalOK
<1>2. session' = [session EXCEPT ![s] = n] /\ session[s].init = "pending"
  BY DEF AccountReady
<1>3. Move(session[s], n) /\ n.load = 0 /\ ~n.player
  BY <1>1, <1>2, AccountMove
<1> HIDE DEF n, s
<1>4. Moves
  BY <1>1, <1>2, <1>3, OneMove
<1>5. \A t \in SessionIds : session'[t] = IF t = s THEN n ELSE session[t]
  BY <1>1, <1>2 DEF TypeOK
<1> QED
  BY <1>1, <1>3, <1>4, <1>5 DEF s

LEMMA LogoutDueTame == ASSUME IInv, LocalOK, LogoutDue PROVE Tames
<1> DEFINE s == Updated
<1>1. s \in SessionIds /\ session[s] \in Session /\ Local(session[s]) /\ TypeOK
  BY UpdatedType DEF IInv, LogoutDue, LocalOK
<1>2. session[s].client # "auth" /\ session' = [session EXCEPT ![s] = LogoutPlayer(session[s])]
  BY <1>1 DEF LogoutDue, Local
<1> HIDE DEF s
<1> QED
  BY <1>1, <1>2, LogoutTame, OneTame

LEMMA KeepTame == ASSUME IInv, LocalOK, KeepSession PROVE Tames
<1> DEFINE s == Updated
           e == IF Lost(session[s]) THEN Remaining(session[s]) ELSE session[s].expireTime
           n == [session[s] EXCEPT !.expireTime = e]
<1>1. s \in SessionIds /\ session[s] \in Session /\ Local(session[s]) /\ TypeOK
  BY UpdatedType DEF IInv, KeepSession, UpdateEnds, LocalOK
<1>2. session' = [session EXCEPT ![s] = n]
  BY <1>1 DEF KeepSession, TypeOK
<1>3. /\ n.life = session[s].life /\ n.init = session[s].init /\ n.client = session[s].client
      /\ (n.player <=> session[s].player) /\ (n.ready <=> session[s].ready)
      /\ n.load = session[s].load /\ n.serial = session[s].serial /\ n.key = session[s].key
      /\ n._recvQueue = session[s]._recvQueue /\ (n._logoutTime <=> session[s]._logoutTime)
      /\ n.linked = session[s].linked /\ n.realm = session[s].realm
      /\ (n.forceExit <=> session[s].forceExit)
  <2> HIDE DEF e, s
  <2> QED
    BY <1>1 DEF Session
<1> HIDE DEF n, s
<1>4. Tame(session[s], n)
  BY <1>1, <1>3 DEF Tame, Move, Forward, Local, Doomed
<1> QED
  BY <1>1, <1>2, <1>4, OneTame

LEMMA KickAllTame == ASSUME IInv, LocalOK, KickAll PROVE Tames
<1> SUFFICES ASSUME NEW t \in SessionIds PROVE Tame(session[t], session'[t])
  BY DEF Tames
<1>1. session[t] \in Session /\ Local(session[t])
  BY DEF IInv, TypeOK, LocalOK
<1>2. session'[t] = KickPlayer(session[t]) \/ session'[t] = session[t]
  BY DEF KickAll
<1> QED
  BY <1>1, <1>2, KickTame, SelfTame

LEMMA RefuseTame == ASSUME IInv, LocalOK, RefuseSession PROVE Tames
<1>1. Head(addSessQueue) \in SessionIds /\ TypeOK
  <2>1. addSessQueue \in Seq(SessionIds) /\ addSessQueue # <<>>
    BY DEF IInv, TypeOK, RefuseSession
  <2> QED
    BY <2>1 DEF IInv
<1>2. session' = [session EXCEPT ![Head(addSessQueue)] = Deleted]
  BY DEF RefuseSession
<1> QED
  BY <1>1, <1>2, DeletedTame, OneTame

\* A waiting session is alive and has nothing initialized.
LEMMA WaiterTame ==
    ASSUME IInv, LocalOK, NEW t \in SessionIds, Waits(m_QueuedPlayer, t)
    PROVE  Tame(session[t], InitializeSession(session[t]))
<1>1. Present(t) /\ session[t].init = "no"
  BY WaitersPresent DEF IInv
<1>2. session[t].life = "alive"
  BY <1>1, NoSessionType DEF IInv, TableOK, Present
<1> QED
  BY <1>1, <1>2, InitializeTame DEF IInv, TypeOK, LocalOK

LEMMA RemoveTame ==
    ASSUME IInv, LocalOK, AbsentOK, RemoveSession
    PROVE  /\ Tames
           /\ AbsentOK'
           /\ \A a \in Accounts : m_sessions'[a] = IF a = current THEN NoSession ELSE m_sessions[a]
           /\ pc' = "pick" /\ UNCHANGED <<todo, stopping, _linkSocketQueue>>
           /\ asyncQueue' = asyncQueue \o Saves(Updated)
<1> DEFINE s == Updated
           first == RemoveQueuedPlayer(m_QueuedPlayer, Cardinality(Listed), s)
           second == RemoveQueuedPlayer(first.queue, Cardinality(Listed), s)
           accepted == first.accepted \cup second.accepted
<1>1. current \in Accounts /\ s \in SessionIds /\ s = m_sessions[current]
  BY UpdatedType DEF IInv, RemoveSession, UpdateEnds, Updated
<1>2. /\ session' = [t \in SessionIds |->
            CASE t = s -> Deleted
              [] t \in accepted -> InitializeSession(session[t])
              [] OTHER -> session[t]]
      /\ asyncQueue' = asyncQueue \o Saves(s)
      /\ m_sessions' = [m_sessions EXCEPT ![current] = NoSession]
      /\ pc' = "pick" /\ UNCHANGED <<todo, stopping, _linkSocketQueue>>
  BY DEF RemoveSession
<1>3. accepted \subseteq {t \in SessionIds : Waits(m_QueuedPlayer, t)} \ {s}
  BY RemoveTwice DEF IInv, WaitersOK, TypeOK
<1> HIDE DEF s, first, second, accepted
<1>4. ASSUME NEW t \in SessionIds
      PROVE  /\ t = s => session'[t] = Deleted
             /\ t # s /\ t \in accepted => session'[t] = InitializeSession(session[t])
             /\ t # s /\ t \notin accepted => session'[t] = session[t]
  <2>1. session'[t] = CASE t = s -> Deleted
                        [] t \in accepted -> InitializeSession(session[t])
                        [] OTHER -> session[t]
    BY <1>2
  <2>2. CASE t = s
    BY <1>3, <2>1, <2>2
  <2>3. CASE t # s /\ t \in accepted
    BY <2>1, <2>3
  <2>4. CASE t # s /\ t \notin accepted
    BY <2>1, <2>4
  <2> QED
    BY <2>2, <2>3, <2>4
<1>5. Tames
  <2> SUFFICES ASSUME NEW t \in SessionIds PROVE Tame(session[t], session'[t])
    BY DEF Tames
  <2> QED
    BY <1>3, <1>4, DeletedTame, WaiterTame, SelfTame DEF LocalOK
<1>6. \A a \in Accounts : m_sessions'[a] = IF a = current THEN NoSession ELSE m_sessions[a]
  BY <1>1, <1>2 DEF IInv, TypeOK
<1>7. AbsentOK'
  <2> SUFFICES ASSUME NEW t \in SessionIds, session'[t].init # "no" PROVE Present(t)'
    BY DEF AbsentOK
  <2>1. t # s
    <3>1. Deleted.init = "no"
      BY DEF Deleted, Unborn
    <3> QED
      BY <1>4, <3>1
  <2>2. Present(t)
    BY <1>3, <1>4, <2>1, WaitersPresent DEF AbsentOK, IInv
  <2>3. PICK a \in Accounts : m_sessions[a] = t
    BY <2>2 DEF Present
  <2> QED
    BY <1>1, <1>6, <2>1, <2>3 DEF Present
<1> QED
  BY <1>2, <1>5, <1>6, <1>7 DEF s

LEMMA AddTame ==
    ASSUME IInv, LocalOK, AbsentOK, AddSession_
    PROVE  LET s == Head(addSessQueue)
               a == AccountOf[s]
               old == m_sessions[a]
           IN /\ Tames
              /\ AbsentOK'
              /\ s \in SessionIds /\ a \in Accounts /\ ~Present(s) /\ session[s].init = "no"
              /\ old = NoSession \/ (old \in SessionIds /\ Present(old))
              /\ \A b \in Accounts : m_sessions'[b] = IF b = a THEN s ELSE m_sessions[b]
              /\ asyncQueue' = IF old = NoSession THEN asyncQueue ELSE asyncQueue \o Saves(old)
              /\ pc = "adds" /\ UNCHANGED <<_linkSocketQueue, pc, place>>
<1> DEFINE s == Head(addSessQueue)
           a == AccountOf[s]
           old == m_sessions[a]
           removal == AddRemoval
           accepted == AddRemoval.accepted
<1>1. /\ addSessQueue # <<>>
      /\ m_sessions' = [m_sessions EXCEPT ![a] = s]
      /\ session' = [t \in SessionIds |->
            CASE t = old -> Deleted
              [] t = s -> IF AddWait THEN [session[t] EXCEPT !.m_inQueue = TRUE]
                                     ELSE InitializeSession(session[t])
              [] t \in accepted -> InitializeSession(session[t])
              [] OTHER -> session[t]]
      /\ asyncQueue' = IF old = NoSession THEN asyncQueue ELSE asyncQueue \o Saves(old)
      /\ pc = "adds" /\ UNCHANGED <<_linkSocketQueue, pc, place>>
  BY DEF AddSession_, AddRemoval, AddWait
<1>2. /\ m_QueuedPlayer \in Seq(SessionIds) /\ addSessQueue \in Seq(SessionIds)
      /\ session \in [SessionIds -> Session] /\ IsInjective(m_QueuedPlayer)
      /\ m_sessions \in [Accounts -> SessionIds \cup {NoSession}]
  BY DEF IInv, TypeOK, WaitersOK
<1>3. s = addSessQueue[1] /\ s \in SessionIds /\ 1 \in 1 .. Len(addSessQueue)
  BY <1>1, <1>2
<1>4. /\ a \in Accounts /\ ~Present(s) /\ session[s].life = "alive" /\ session[s].init = "no"
  BY <1>3, AccountAssumption DEF IInv, NewOK
<1>5. accepted \subseteq {t \in SessionIds : Waits(m_QueuedPlayer, t)} \ {old}
  <2>1. CASE old = NoSession
    BY <2>1 DEF AddRemoval
  <2>2. CASE old # NoSession
    <3>1. AddRemoval = RemoveQueuedPlayer(m_QueuedPlayer, Cardinality(Listed), old)
      BY <2>2 DEF AddRemoval
    <3> HIDE DEF old
    <3> QED
      BY <1>2, <3>1, RemoveQueuedPlayerType
  <2> QED
    BY <2>1, <2>2
<1>6. /\ old = NoSession \/ (old \in SessionIds /\ Present(old))
      /\ old # s /\ s \notin accepted /\ old \notin accepted
  <2>1. old \in SessionIds \cup {NoSession}
    BY <1>2, <1>4
  <2>2. old \in SessionIds => Present(old)
    BY <1>4 DEF Present
  <2>3. s \notin accepted
    BY <1>4, <1>5, WaitersPresent DEF IInv
  <2>4. old # s
    BY <1>3, <1>4, <2>2, NoSessionType
  <2> QED
    BY <1>5, <2>1, <2>2, <2>3, <2>4
<1> HIDE DEF s, a, old, accepted
<1>7. ASSUME NEW t \in SessionIds
      PROVE  /\ t = old => session'[t] = Deleted
             /\ t = s => session'[t] = IF AddWait THEN [session[t] EXCEPT !.m_inQueue = TRUE]
                                                  ELSE InitializeSession(session[t])
             /\ t # s /\ t # old /\ t \in accepted => session'[t] = InitializeSession(session[t])
             /\ t # s /\ t # old /\ t \notin accepted => session'[t] = session[t]
  <2>1. session'[t] = CASE t = old -> Deleted
                        [] t = s -> IF AddWait THEN [session[t] EXCEPT !.m_inQueue = TRUE]
                                               ELSE InitializeSession(session[t])
                        [] t \in accepted -> InitializeSession(session[t])
                        [] OTHER -> session[t]
    BY <1>1
  <2>3. CASE t = old
    BY <1>6, <2>1, <2>3
  <2>4. CASE t = s
    BY <1>6, <2>1, <2>4
  <2>5. CASE t # s /\ t # old /\ t \in accepted
    BY <2>1, <2>5
  <2>6. CASE t # s /\ t # old /\ t \notin accepted
    BY <2>1, <2>6
  <2> QED
    BY <1>6, <2>3, <2>4, <2>5, <2>6
<1>8. Tame(session[s], session'[s])
  <2>1. session[s] \in Session /\ Local(session[s])
    BY <1>2, <1>3 DEF LocalOK
  <2>2. CASE AddWait
    <3> DEFINE r == session[s]
               n == [r EXCEPT !.m_inQueue = TRUE]
    <3>1. /\ n.life = r.life /\ n.init = r.init /\ n.client = r.client
          /\ (n.player <=> r.player) /\ (n.ready <=> r.ready)
          /\ n.load = r.load /\ n.serial = r.serial /\ n.key = r.key
          /\ n._recvQueue = r._recvQueue /\ (n._logoutTime <=> r._logoutTime)
          /\ n.linked = r.linked /\ n.realm = r.realm /\ (n.forceExit <=> r.forceExit)
      BY <2>1 DEF Session
    <3>2. session'[s] = n
      BY <1>3, <1>7, <2>2
    <3> HIDE DEF n
    <3>3. Tame(r, n)
      BY <2>1, <3>1 DEF Tame, Move, Forward, Local, Doomed
    <3> QED
      BY <3>2, <3>3
  <2>3. CASE ~AddWait
    BY <1>3, <1>4, <1>7, <2>1, <2>3, InitializeTame
  <2> QED
    BY <2>2, <2>3
<1>9. Tames
  <2> SUFFICES ASSUME NEW t \in SessionIds PROVE Tame(session[t], session'[t])
    BY DEF Tames
  <2>1. CASE t = s
    BY <1>8, <2>1
  <2>2. CASE t # s
    BY <1>5, <1>7, <2>2, DeletedTame, WaiterTame, SelfTame DEF LocalOK
  <2> QED
    BY <2>1, <2>2
<1>10. \A b \in Accounts : m_sessions'[b] = IF b = a THEN s ELSE m_sessions[b]
  BY <1>1, <1>2, <1>4
<1>11. AbsentOK'
  <2> SUFFICES ASSUME NEW t \in SessionIds, session'[t].init # "no" PROVE Present(t)'
    BY DEF AbsentOK
  <2>1. CASE t = s
    BY <1>4, <1>10, <2>1 DEF Present
  <2>2. CASE t # s
    <3>1. t # old
      <4>1. Deleted.init = "no"
        BY DEF Deleted, Unborn
      <4> QED
        BY <1>7, <4>1
    <3>2. Present(t)
      BY <1>5, <1>7, <2>2, <3>1, WaitersPresent DEF AbsentOK, IInv
    <3>3. PICK b \in Accounts : m_sessions[b] = t
      BY <3>2 DEF Present
    <3> QED
      BY <1>10, <3>1, <3>3 DEF Present, old
  <2> QED
    BY <2>1, <2>2
<1> QED
  BY <1>1, <1>3, <1>4, <1>6, <1>9, <1>10, <1>11 DEF s, a, old

-----------------------------------------------------------------------------
(***************************************************************************)
(* The connections and the loads on their way.                             *)
(***************************************************************************)
LEMMA TailFacts ==
    ASSUME NEW S, NEW q \in Seq(S), q # <<>>
    PROVE  /\ Tail(q) \in Seq(S) /\ Len(q) \in Nat /\ Len(Tail(q)) = Len(q) - 1
           /\ 1 \in 1 .. Len(q) /\ Head(q) = q[1]
           /\ \A i \in 1 .. Len(Tail(q)) : i + 1 \in 1 .. Len(q) /\ Tail(q)[i] = q[i + 1]
OBVIOUS

LEMMA AppendFacts ==
    ASSUME NEW S, NEW q \in Seq(S), NEW x \in S
    PROVE  /\ Append(q, x) \in Seq(S) /\ Len(q) \in Nat /\ Len(Append(q, x)) = Len(q) + 1
           /\ Append(q, x)[Len(q) + 1] = x
           /\ \A i \in 1 .. Len(q) : Append(q, x)[i] = q[i]
OBVIOUS

LEMMA InjectiveTail ==
    ASSUME NEW S, NEW q \in Seq(S), q # <<>>, IsInjective(q)
    PROVE  /\ IsInjective(Tail(q))
           /\ \A i \in 1 .. Len(Tail(q)) : Tail(q)[i] # Head(q)
<1>1. DOMAIN q = 1 .. Len(q) /\ DOMAIN Tail(q) = 1 .. Len(Tail(q))
  BY TailFacts
<1>2. ASSUME NEW a \in 1 .. Len(Tail(q)), NEW b \in 1 .. Len(Tail(q)), Tail(q)[a] = Tail(q)[b]
      PROVE  a = b
  <2>1. a + 1 \in DOMAIN q /\ b + 1 \in DOMAIN q /\ q[a + 1] = q[b + 1]
    BY <1>1, <1>2, TailFacts
  <2>2. a + 1 = b + 1
    BY <2>1 DEF IsInjective
  <2> QED
    BY <2>2
<1>3. ASSUME NEW i \in 1 .. Len(Tail(q)) PROVE Tail(q)[i] # Head(q)
  <2>1. i + 1 \in DOMAIN q /\ 1 \in DOMAIN q /\ i + 1 # 1 /\ Tail(q)[i] = q[i + 1]
        /\ Head(q) = q[1]
    BY <1>1, TailFacts
  <2> QED
    BY <2>1 DEF IsInjective
<1> QED
  BY <1>1, <1>2, <1>3 DEF IsInjective

LEMMA InjectiveAppend ==
    ASSUME NEW S, NEW q \in Seq(S), NEW x \in S, IsInjective(q),
           \A i \in 1 .. Len(q) : q[i] # x
    PROVE  IsInjective(Append(q, x))
<1>1. DOMAIN q = 1 .. Len(q) /\ DOMAIN Append(q, x) = 1 .. Len(q) + 1 /\ Len(q) \in Nat
  OBVIOUS
<1> SUFFICES ASSUME NEW a \in 1 .. Len(q) + 1, NEW b \in 1 .. Len(q) + 1,
                    Append(q, x)[a] = Append(q, x)[b]
             PROVE  a = b
  BY <1>1 DEF IsInjective
<1>2. CASE a \in 1 .. Len(q) /\ b \in 1 .. Len(q)
  <2>1. q[a] = q[b]
    BY <1>2, AppendFacts
  <2> QED
    BY <1>1, <1>2, <2>1 DEF IsInjective
<1>3. CASE a = Len(q) + 1 /\ b \in 1 .. Len(q)
  BY <1>3, AppendFacts
<1>4. CASE a \in 1 .. Len(q) /\ b = Len(q) + 1
  BY <1>4, AppendFacts
<1> QED
  BY <1>1, <1>2, <1>3, <1>4

LEMMA OfferedStays ==
    ASSUME TypeOK, TypeOK', Moves, NEW s \in SessionIds, NEW k \in Nat, Offered(s, k)
    PROVE  Offered(s, k)'
<1>1. /\ Forward(session[s], session'[s])
      /\ session[s].key \in Nat /\ session'[s].key \in Nat
      /\ session'[s].life \in {"unborn", "alive", "deleted"}
  BY DEF Moves, Move, TypeOK, Session
<1> QED
  BY <1>1 DEF Offered, Forward

\* While a load is awaited no session of the account has a player.
LEMMA LoadersAlone ==
    ASSUME IInv, LocalOK, AbsentOK, NEW s \in SessionIds, NEW t \in SessionIds,
           session[s].player, session[t].load > 0
    PROVE  AccountOf[s] # AccountOf[t]
<1>1. ASSUME NEW u \in SessionIds, session[u].client # "auth"
      PROVE  m_sessions[AccountOf[u]] = u
  <2>1. Present(u)
    BY <1>1 DEF LocalOK, Local, AbsentOK
  <2>2. PICK a \in Accounts : m_sessions[a] = u
    BY <2>1 DEF Present
  <2>3. AccountOf[u] = a
    BY <2>2, NoSessionType DEF IInv, TableOK
  <2> QED
    BY <2>2, <2>3
<1>2. session[s].client # "auth" /\ session[s].load = 0
  BY DEF LocalOK, Local
<1>3. session[t].client # "auth"
  BY DEF LocalOK, Local
<1> QED
  BY <1>1, <1>2, <1>3

Save(s) == [op |-> "save", session |-> s, key |-> 0]

LEMMA SavesShape ==
    ASSUME TypeOK, NEW s \in SessionIds, asyncQueue' = asyncQueue \o Saves(s)
    PROVE  \/ asyncQueue' = asyncQueue
           \/ session[s].player /\ asyncQueue' = Append(asyncQueue, Save(s))
<1>1. asyncQueue \in Seq(Query) /\ Save(s) \in Query
  BY DEF TypeOK, Save, Query
<1>2. CASE session[s].player
  <2>1. Saves(s) = <<Save(s)>>
    BY <1>2 DEF Saves, Save
  <2>2. asyncQueue \o <<Save(s)>> = Append(asyncQueue, Save(s))
    BY <1>1
  <2> QED
    BY <1>2, <2>1, <2>2
<1>3. CASE ~session[s].player
  <2>1. Saves(s) = <<>>
    BY <1>3 DEF Saves
  <2> QED
    BY <1>1, <2>1
<1> QED
  BY <1>2, <1>3

\* What happens to the database's queue, when no load is added.
Drained ==
    \/ asyncQueue' = asyncQueue
    \/ asyncQueue # <<>> /\ asyncQueue' = Tail(asyncQueue)
    \/ \E s \in SessionIds : session[s].player /\ asyncQueue' = Append(asyncQueue, Save(s))

Awaiting == \A t \in SessionIds : session'[t].load = 0 \/ session'[t].load = session[t].load

LEMMA LinkElements ==
    ASSUME TypeOK, NEW i \in 1 .. Len(_linkSocketQueue)
    PROVE  _linkSocketQueue[i] \in Link
BY DEF TypeOK

LEMMA QueryElements ==
    ASSUME TypeOK, NEW i \in 1 .. Len(asyncQueue)
    PROVE  asyncQueue[i] \in Query
BY DEF TypeOK

\* Where a query of the queue comes from.
LEMMA DrainedFrom ==
    ASSUME TypeOK, Drained
    PROVE  /\ \A i \in 1 .. Len(asyncQueue') : asyncQueue'[i].op = "load" =>
                \E k \in 1 .. Len(asyncQueue) : asyncQueue[k] = asyncQueue'[i]
           /\ \A i, j \in 1 .. Len(asyncQueue') :
                i < j /\ asyncQueue'[i].op = "load" =>
                  \E k \in 1 .. Len(asyncQueue) :
                    /\ asyncQueue[k] = asyncQueue'[i]
                    /\ \/ \E m \in 1 .. Len(asyncQueue) : k < m /\ asyncQueue[m] = asyncQueue'[j]
                       \/ \E s \in SessionIds : session[s].player /\ asyncQueue'[j] = Save(s)
<1>0. asyncQueue \in Seq(Query) /\ Len(asyncQueue) \in Nat
  BY DEF TypeOK
<1>1. CASE asyncQueue' = asyncQueue
  BY <1>1
<1>2. CASE asyncQueue # <<>> /\ asyncQueue' = Tail(asyncQueue)
  <2>1. \A i \in 1 .. Len(asyncQueue') :
            i + 1 \in 1 .. Len(asyncQueue) /\ asyncQueue'[i] = asyncQueue[i + 1]
    BY <1>0, <1>2, TailFacts
  <2>2. ASSUME NEW i \in 1 .. Len(asyncQueue'), NEW j \in 1 .. Len(asyncQueue'), i < j
        PROVE  i + 1 < j + 1
    BY <2>2
  <2> QED
    BY <2>1, <2>2
<1>3. CASE \E s \in SessionIds : session[s].player /\ asyncQueue' = Append(asyncQueue, Save(s))
  <2>1. PICK s \in SessionIds : session[s].player /\ asyncQueue' = Append(asyncQueue, Save(s))
    BY <1>3
  <2>2. Save(s) \in Query /\ Save(s).op = "save"
    BY DEF Save, Query
  <2>3. /\ Len(asyncQueue') = Len(asyncQueue) + 1 /\ asyncQueue'[Len(asyncQueue) + 1] = Save(s)
        /\ \A i \in 1 .. Len(asyncQueue) : asyncQueue'[i] = asyncQueue[i]
    BY <1>0, <2>1, <2>2, AppendFacts
  <2>4. \A i \in 1 .. Len(asyncQueue') :
            i \in 1 .. Len(asyncQueue) \/ i = Len(asyncQueue) + 1
    BY <1>0, <2>3
  <2>5. ASSUME NEW i \in 1 .. Len(asyncQueue'), asyncQueue'[i].op = "load"
        PROVE  i \in 1 .. Len(asyncQueue) /\ asyncQueue[i] = asyncQueue'[i]
    BY <2>2, <2>3, <2>4, <2>5
  <2>6. ASSUME NEW j \in 1 .. Len(asyncQueue')
        PROVE  \/ j \in 1 .. Len(asyncQueue) /\ asyncQueue[j] = asyncQueue'[j]
               \/ asyncQueue'[j] = Save(s)
    BY <2>3, <2>4
  <2> QED
    BY <2>1, <2>5, <2>6
<1> QED
  BY <1>1, <1>2, <1>3 DEF Drained

\* What was offered stays offered, link by link and load by load.
LEMMA LinkStays ==
    ASSUME IInv, LinksOK, IInv', Moves, NEW i \in 1 .. Len(_linkSocketQueue)
    PROVE  /\ _linkSocketQueue[i] \in Link
           /\ \E s, k : /\ s = _linkSocketQueue[i].session /\ k = _linkSocketQueue[i].key
                       /\ Offered(s, k)'
<1> DEFINE l == _linkSocketQueue[i]
<1>1. l \in Link /\ l.session \in SessionIds /\ l.key \in Nat /\ TypeOK /\ TypeOK'
  BY LinkElements DEF IInv, Link
<1>2. Offered(l.session, l.key)
  BY DEF LinksOK
<1>3. PICK s \in SessionIds, k \in Nat : s = l.session /\ k = l.key
  BY <1>1
<1>4. Offered(s, k)'
  BY <1>1, <1>2, <1>3, OfferedStays
<1> QED
  BY <1>1, <1>3, <1>4

LEMMA LoadStays ==
    ASSUME IInv, LoadsOK, IInv', Moves, NEW i \in 1 .. Len(asyncQueue),
           asyncQueue[i].op = "load"
    PROVE  /\ asyncQueue[i] \in Query
           /\ \E s, k : /\ s = asyncQueue[i].session /\ k = asyncQueue[i].key
                       /\ Offered(s, k)'
<1> DEFINE q == asyncQueue[i]
<1>1. q \in Query /\ q.session \in SessionIds /\ q.key \in Nat /\ TypeOK /\ TypeOK'
  BY QueryElements DEF IInv, Query
<1>2. Offered(q.session, q.key)
  BY DEF LoadsOK
<1>3. PICK s \in SessionIds, k \in Nat : s = q.session /\ k = q.key
  BY <1>1
<1>4. Offered(s, k)'
  BY <1>1, <1>2, <1>3, OfferedStays
<1> QED
  BY <1>1, <1>3, <1>4

\* The database's queue is drained, or a save is added, and nothing is linked.
LEMMA QueueFrame ==
    ASSUME IInv, LoginInv, IInv', Moves, Awaiting, Drained, UNCHANGED _linkSocketQueue
    PROVE  LinksOK' /\ LoadsOK' /\ OrderOK'
<1>0. TypeOK /\ TypeOK'
  BY DEF IInv
<1>1. LinksOK'
  <2>1. ASSUME NEW i \in 1 .. Len(_linkSocketQueue)
        PROVE  Offered(_linkSocketQueue[i].session, _linkSocketQueue[i].key)'
    <3>1. \E s, k : /\ s = _linkSocketQueue[i].session /\ k = _linkSocketQueue[i].key
                   /\ Offered(s, k)'
      BY LinkStays DEF LoginInv
    <3> QED
      BY <3>1 DEF Offered
  <2> QED
    BY <2>1 DEF LoginInv, LinksOK
<1>2. LoadsOK'
  <2> SUFFICES ASSUME NEW i \in 1 .. Len(asyncQueue'), asyncQueue'[i].op = "load"
               PROVE  /\ Offered(asyncQueue[i].session, asyncQueue[i].key)'
                      /\ \A j \in 1 .. Len(_linkSocketQueue) :
                            \/ _linkSocketQueue[j].session # asyncQueue'[i].session
                            \/ _linkSocketQueue[j].key # asyncQueue'[i].key
    BY DEF LoadsOK
  <2>1. PICK k \in 1 .. Len(asyncQueue) : asyncQueue[k] = asyncQueue'[i]
    BY <1>0, DrainedFrom
  <2>2. \A j \in 1 .. Len(_linkSocketQueue) :
            \/ _linkSocketQueue[j].session # asyncQueue[k].session
            \/ _linkSocketQueue[j].key # asyncQueue[k].key
    BY <2>1 DEF LoginInv, LoadsOK
  <2>3. \E s, n : s = asyncQueue[k].session /\ n = asyncQueue[k].key /\ Offered(s, n)'
    BY <2>1, LoadStays DEF LoginInv
  <2> QED
    BY <2>1, <2>2, <2>3 DEF Offered
<1>3. OrderOK'
  <2> SUFFICES ASSUME NEW i \in 1 .. Len(asyncQueue'), NEW j \in 1 .. Len(asyncQueue'),
                      i < j, asyncQueue'[i].op = "load", asyncQueue'[j].op = "save",
                      session'[asyncQueue'[i].session].load = asyncQueue'[i].key
               PROVE  AccountOf[asyncQueue'[j].session] # AccountOf[asyncQueue'[i].session]
    BY DEF OrderOK
  <2>1. PICK k \in 1 .. Len(asyncQueue) :
            /\ asyncQueue[k] = asyncQueue'[i]
            /\ \/ \E m \in 1 .. Len(asyncQueue) : k < m /\ asyncQueue[m] = asyncQueue'[j]
               \/ \E s \in SessionIds : session[s].player /\ asyncQueue'[j] = Save(s)
    BY <1>0, DrainedFrom
  <2>2. asyncQueue[k].session \in SessionIds /\ asyncQueue[k].key > 0
    BY <1>0, <2>1, QueryElements DEF Query, LoginInv, LoadsOK, Offered
  <2>3. session[asyncQueue[k].session].load = asyncQueue[k].key
    BY <2>1, <2>2 DEF Awaiting
  <2>4. CASE \E m \in 1 .. Len(asyncQueue) : k < m /\ asyncQueue[m] = asyncQueue'[j]
    BY <2>1, <2>3, <2>4 DEF LoginInv, OrderOK
  <2>5. CASE \E s \in SessionIds : session[s].player /\ asyncQueue'[j] = Save(s)
    <3>1. PICK s \in SessionIds : session[s].player /\ asyncQueue'[j] = Save(s)
      BY <2>5
    <3>2. AccountOf[s] # AccountOf[asyncQueue[k].session]
      BY <2>2, <2>3, <3>1, LoadersAlone DEF LoginInv
    <3> QED
      BY <2>1, <3>1, <3>2 DEF Save
  <2> QED
    BY <2>1, <2>4, <2>5
<1> QED
  BY <1>1, <1>2, <1>3

\* The client connects: it has not done so for this key before.
LEMMA LinkAdded ==
    ASSUME IInv, LoginInv, IInv', Moves, Tames, NEW s \in SessionIds, ClientLink(s)
    PROVE  LinksOK' /\ LoadsOK' /\ OrderOK'
<1> DEFINE l == [session |-> s, key |-> session[s].key]
<1>1. /\ session[s].client = "login" /\ session[s].serial > 0 /\ ~session[s].linked
      /\ session' = [session EXCEPT ![s].linked = TRUE]
      /\ _linkSocketQueue' = Append(_linkSocketQueue, l)
      /\ UNCHANGED asyncQueue
  BY DEF ClientLink
<1>2. /\ session[s] \in Session /\ Local(session[s]) /\ TypeOK
      /\ session[s].key \in Nat /\ session[s].key > 0
      /\ session[s].life = "alive" /\ session[s].serial \in Nat
  <2>1. session[s] \in Session /\ Local(session[s]) /\ TypeOK
    BY DEF IInv, TypeOK, LoginInv, LocalOK
  <2> QED
    BY <1>1, <2>1, BoundAssumption DEF Session, Local
<1>3. ~Offered(s, session[s].key)
  BY <1>1, <1>2 DEF Offered
<1>4. Offered(s, session[s].key)'
  <2>1. session'[s] = [session[s] EXCEPT !.linked = TRUE]
    BY <1>1, <1>2 DEF TypeOK
  <2>2. session'[s].key = session[s].key /\ session'[s].linked /\ session'[s].life = "alive"
    BY <1>2, <2>1 DEF Session
  <2> QED
    BY <1>2, <2>2 DEF Offered
<1>5. l \in Link /\ _linkSocketQueue \in Seq(Link)
  BY <1>2 DEF Link, IInv, TypeOK
<1>6. ASSUME NEW i \in 1 .. Len(_linkSocketQueue) PROVE _linkSocketQueue[i] # l
  <2>1. Offered(_linkSocketQueue[i].session, _linkSocketQueue[i].key)
    BY DEF LoginInv, LinksOK
  <2> QED
    BY <1>3, <2>1
<1>7. ASSUME NEW i \in 1 .. Len(_linkSocketQueue')
      PROVE  \/ _linkSocketQueue'[i] = l
             \/ i \in 1 .. Len(_linkSocketQueue) /\ _linkSocketQueue'[i] = _linkSocketQueue[i]
  BY <1>1, <1>5, AppendFacts
<1>8. session'[s].key = session[s].key
  <2>1. session'[s] = [session[s] EXCEPT !.linked = TRUE]
    BY <1>1, <1>2 DEF TypeOK
  <2> QED
    BY <1>2, <2>1 DEF Session
<1>9. LinksOK'
  <2>1. IsInjective(_linkSocketQueue)'
    BY <1>1, <1>5, <1>6, InjectiveAppend DEF LoginInv, LinksOK
  <2>2. ASSUME NEW i \in 1 .. Len(_linkSocketQueue')
        PROVE  Offered(_linkSocketQueue[i].session, _linkSocketQueue[i].key)'
    <3>1. CASE _linkSocketQueue'[i] = l
      BY <1>4, <1>8, <3>1 DEF Offered
    <3>2. CASE i \in 1 .. Len(_linkSocketQueue) /\ _linkSocketQueue'[i] = _linkSocketQueue[i]
      BY <3>2, LinkStays DEF LoginInv, Offered
    <3> QED
      BY <1>7, <3>1, <3>2
  <2> QED
    BY <2>1, <2>2 DEF LinksOK
<1>10. LoadsOK'
  <2> SUFFICES ASSUME NEW i \in 1 .. Len(asyncQueue), asyncQueue[i].op = "load"
               PROVE  /\ Offered(asyncQueue[i].session, asyncQueue[i].key)'
                      /\ \A j \in 1 .. Len(_linkSocketQueue') :
                            \/ _linkSocketQueue'[j].session # asyncQueue[i].session
                            \/ _linkSocketQueue'[j].key # asyncQueue[i].key
    BY <1>1 DEF LoadsOK
  <2>1. Offered(asyncQueue[i].session, asyncQueue[i].key)'
    BY <1>1, LoadStays DEF LoginInv, Offered
  <2>2. asyncQueue[i].session # s \/ asyncQueue[i].key # session[s].key
    BY <1>3 DEF LoginInv, LoadsOK
  <2>3. ASSUME NEW j \in 1 .. Len(_linkSocketQueue')
        PROVE  \/ _linkSocketQueue'[j].session # asyncQueue[i].session
               \/ _linkSocketQueue'[j].key # asyncQueue[i].key
    <3>1. CASE _linkSocketQueue'[j] = l
      BY <2>2, <3>1
    <3>2. CASE j \in 1 .. Len(_linkSocketQueue) /\ _linkSocketQueue'[j] = _linkSocketQueue[j]
      BY <3>2 DEF LoginInv, LoadsOK
    <3> QED
      BY <1>7, <3>1, <3>2
  <2> QED
    BY <2>1, <2>3
<1>11. OrderOK'
  <2> SUFFICES ASSUME NEW i \in 1 .. Len(asyncQueue), NEW j \in 1 .. Len(asyncQueue),
                      i < j, asyncQueue[i].op = "load", asyncQueue[j].op = "save",
                      session'[asyncQueue[i].session].load = asyncQueue[i].key
               PROVE  AccountOf[asyncQueue[j].session] # AccountOf[asyncQueue[i].session]
    BY <1>1 DEF OrderOK
  <2>1. asyncQueue[i].session \in SessionIds /\ asyncQueue[i].key > 0
    BY <1>2, QueryElements DEF Query, LoginInv, LoadsOK, Offered
  <2>2. session[asyncQueue[i].session].load = asyncQueue[i].key
    BY <2>1 DEF Tames, Tame
  <2> QED
    BY <2>2 DEF LoginInv, OrderOK
<1> QED
  BY <1>9, <1>10, <1>11

\* The world thread takes a connection off the queue.
LEMMA LinkTaken ==
    ASSUME IInv, LoginInv, IInv', Moves, _linkSocketQueue # <<>>,
           _linkSocketQueue' = Tail(_linkSocketQueue)
    PROVE  /\ LinksOK'
           /\ \A j \in 1 .. Len(_linkSocketQueue') :
                /\ _linkSocketQueue'[j] \in Link
                /\ _linkSocketQueue'[j] # Head(_linkSocketQueue)
                /\ \E k \in 1 .. Len(_linkSocketQueue) :
                     _linkSocketQueue'[j] = _linkSocketQueue[k]
<1>1. _linkSocketQueue \in Seq(Link) /\ IsInjective(_linkSocketQueue)
  BY DEF IInv, TypeOK, LoginInv, LinksOK
<1>2. ASSUME NEW j \in 1 .. Len(_linkSocketQueue')
      PROVE  j + 1 \in 1 .. Len(_linkSocketQueue)
             /\ _linkSocketQueue'[j] = _linkSocketQueue[j + 1]
  BY <1>1, TailFacts
<1>3. IsInjective(_linkSocketQueue)'
      /\ \A j \in 1 .. Len(_linkSocketQueue') : _linkSocketQueue'[j] # Head(_linkSocketQueue)
  BY <1>1, InjectiveTail
<1>4. ASSUME NEW j \in 1 .. Len(_linkSocketQueue')
      PROVE  Offered(_linkSocketQueue[j].session, _linkSocketQueue[j].key)'
             /\ _linkSocketQueue'[j] \in Link
  <2>1. PICK k \in 1 .. Len(_linkSocketQueue) : _linkSocketQueue'[j] = _linkSocketQueue[k]
    BY <1>2
  <2> QED
    <3>1. /\ _linkSocketQueue[k] \in Link
          /\ \E s, n : /\ s = _linkSocketQueue[k].session /\ n = _linkSocketQueue[k].key
                      /\ Offered(s, n)'
      BY LinkStays DEF LoginInv
    <3> QED
      BY <2>1, <3>1 DEF Offered
<1> QED
  BY <1>2, <1>3, <1>4 DEF LinksOK

LEMMA LinkDropped ==
    ASSUME IInv, LoginInv, IInv', Moves, Tames, UNCHANGED asyncQueue,
           _linkSocketQueue # <<>>, _linkSocketQueue' = Tail(_linkSocketQueue)
    PROVE  LinksOK' /\ LoadsOK' /\ OrderOK'
<1>1. LinksOK'
  BY LinkTaken
<1>2. LoadsOK'
  <2> SUFFICES ASSUME NEW i \in 1 .. Len(asyncQueue), asyncQueue[i].op = "load"
               PROVE  /\ Offered(asyncQueue[i].session, asyncQueue[i].key)'
                      /\ \A j \in 1 .. Len(_linkSocketQueue') :
                            \/ _linkSocketQueue'[j].session # asyncQueue[i].session
                            \/ _linkSocketQueue'[j].key # asyncQueue[i].key
    BY DEF LoadsOK
  <2>1. Offered(asyncQueue[i].session, asyncQueue[i].key)'
    BY LoadStays DEF LoginInv, Offered
  <2>2. ASSUME NEW j \in 1 .. Len(_linkSocketQueue')
        PROVE  \/ _linkSocketQueue'[j].session # asyncQueue[i].session
               \/ _linkSocketQueue'[j].key # asyncQueue[i].key
    <3>1. PICK k \in 1 .. Len(_linkSocketQueue) : _linkSocketQueue'[j] = _linkSocketQueue[k]
      BY LinkTaken
    <3> QED
      BY <3>1 DEF LoginInv, LoadsOK
  <2> QED
    BY <2>1, <2>2
<1>3. OrderOK'
  <2> SUFFICES ASSUME NEW i \in 1 .. Len(asyncQueue), NEW j \in 1 .. Len(asyncQueue),
                      i < j, asyncQueue[i].op = "load", asyncQueue[j].op = "save",
                      session'[asyncQueue[i].session].load = asyncQueue[i].key
               PROVE  AccountOf[asyncQueue[j].session] # AccountOf[asyncQueue[i].session]
    BY DEF OrderOK
  <2>1. asyncQueue[i].session \in SessionIds /\ asyncQueue[i].key > 0
    BY QueryElements DEF Query, LoginInv, LoadsOK, Offered, IInv
  <2>2. session[asyncQueue[i].session].load = asyncQueue[i].key
    BY <2>1 DEF Tames, Tame
  <2> QED
    BY <2>2 DEF LoginInv, OrderOK
<1> QED
  BY <1>1, <1>2, <1>3

\* A load is queued: it is the only one of its key, and the last query.
LEMMA LoadAdded ==
    ASSUME IInv, LoginInv, IInv', Moves, LoadStarts,
           _linkSocketQueue # <<>>, _linkSocketQueue' = Tail(_linkSocketQueue)
    PROVE  LinksOK' /\ LoadsOK' /\ OrderOK'
<1>0. PICK s \in SessionIds :
        /\ Head(_linkSocketQueue) = [session |-> s, key |-> session[s].key]
        /\ session' = [session EXCEPT ![s] =
             [session[s] EXCEPT !.instance = "open", !.load = session[s].key, !.ready = FALSE]]
        /\ asyncQueue' =
             Append(asyncQueue, [op |-> "load", session |-> s, key |-> session[s].key])
  BY DEF LoadStarts
<1> DEFINE k == session[s].key
           q == [op |-> "load", session |-> s, key |-> k]
<1>1. /\ TypeOK /\ k \in Nat /\ asyncQueue \in Seq(Query) /\ q \in Query
      /\ Len(asyncQueue) \in Nat
  <2>1. TypeOK /\ asyncQueue \in Seq(Query) /\ session[s] \in Session
    BY DEF IInv, TypeOK
  <2>2. k \in Nat
    BY <2>1 DEF Session
  <2> HIDE DEF k
  <2>3. q \in Query
    BY <2>2 DEF Query
  <2> HIDE DEF q
  <2> QED
    BY <2>1, <2>2, <2>3
<1>2. Head(_linkSocketQueue) = _linkSocketQueue[1] /\ 1 \in 1 .. Len(_linkSocketQueue)
  BY TailFacts DEF IInv, TypeOK
<1>3. Offered(s, k)'
  <2>1. \E t, n : t = _linkSocketQueue[1].session /\ n = _linkSocketQueue[1].key /\ Offered(t, n)'
    BY <1>2, LinkStays DEF LoginInv
  <2>2. PICK t, n : t = _linkSocketQueue[1].session /\ n = _linkSocketQueue[1].key /\ Offered(t, n)'
    BY <2>1
  <2>3. t = s /\ n = k
    BY <1>0, <1>2, <2>2
  <2>4. session'[s].key = k
    BY <1>0, <1>1 DEF TypeOK, Session
  <2> QED
    BY <2>2, <2>3, <2>4 DEF Offered
<1>4. session'[s].key = k /\ session'[s].load = k
      /\ \A t \in SessionIds : t # s => session'[t] = session[t]
  BY <1>0, <1>1 DEF TypeOK, Session
<1>5. ASSUME NEW i \in 1 .. Len(asyncQueue')
      PROVE  \/ i = Len(asyncQueue) + 1 /\ asyncQueue'[i] = q
             \/ i \in 1 .. Len(asyncQueue) /\ asyncQueue'[i] = asyncQueue[i]
  BY <1>0, <1>1, AppendFacts
<1>6. ASSUME NEW i \in 1 .. Len(asyncQueue), asyncQueue[i].op = "load"
      PROVE  asyncQueue[i].session # s \/ asyncQueue[i].key # k
  <2>1. _linkSocketQueue[1].session = s /\ _linkSocketQueue[1].key = k
    BY <1>0, <1>2
  <2>2. \A j \in 1 .. Len(_linkSocketQueue) :
            \/ _linkSocketQueue[j].session # asyncQueue[i].session
            \/ _linkSocketQueue[j].key # asyncQueue[i].key
    BY <1>6 DEF LoginInv, LoadsOK
  <2> QED
    BY <1>2, <2>1, <2>2
<1>7. LinksOK'
  BY LinkTaken
<1>8. LoadsOK'
  <2> SUFFICES ASSUME NEW i \in 1 .. Len(asyncQueue'), asyncQueue'[i].op = "load"
               PROVE  /\ Offered(asyncQueue[i].session, asyncQueue[i].key)'
                      /\ \A j \in 1 .. Len(_linkSocketQueue') :
                            \/ _linkSocketQueue'[j].session # asyncQueue'[i].session
                            \/ _linkSocketQueue'[j].key # asyncQueue'[i].key
    BY DEF LoadsOK
  <2>1. CASE asyncQueue'[i] = q
    <3>1. Offered(asyncQueue[i].session, asyncQueue[i].key)'
      BY <1>3, <1>4, <2>1 DEF Offered
    <3>2. ASSUME NEW j \in 1 .. Len(_linkSocketQueue'),
                 _linkSocketQueue'[j].session = s, _linkSocketQueue'[j].key = k
          PROVE  FALSE
      <4>1. _linkSocketQueue'[j] \in Link /\ _linkSocketQueue'[j] # Head(_linkSocketQueue)
        BY LinkTaken
      <4>2. _linkSocketQueue'[j] = [session |-> s, key |-> k]
        BY <3>2, <4>1 DEF Link
      <4> QED
        BY <1>0, <4>1, <4>2
    <3> QED
      BY <2>1, <3>1, <3>2
  <2>2. CASE i \in 1 .. Len(asyncQueue) /\ asyncQueue'[i] = asyncQueue[i]
    <3>1. \E t, n : t = asyncQueue[i].session /\ n = asyncQueue[i].key /\ Offered(t, n)'
      BY <2>2, LoadStays DEF LoginInv
    <3>2. Offered(asyncQueue[i].session, asyncQueue[i].key)'
      BY <2>2, <3>1 DEF Offered
    <3>3. ASSUME NEW j \in 1 .. Len(_linkSocketQueue')
          PROVE  \/ _linkSocketQueue'[j].session # asyncQueue'[i].session
                 \/ _linkSocketQueue'[j].key # asyncQueue'[i].key
      <4>1. PICK m \in 1 .. Len(_linkSocketQueue) : _linkSocketQueue'[j] = _linkSocketQueue[m]
        BY LinkTaken
      <4> QED
        BY <2>2, <4>1 DEF LoginInv, LoadsOK
    <3> QED
      BY <3>2, <3>3
  <2> QED
    BY <1>5, <2>1, <2>2
<1>9. OrderOK'
  <2> SUFFICES ASSUME NEW i \in 1 .. Len(asyncQueue'), NEW j \in 1 .. Len(asyncQueue'),
                      i < j, asyncQueue'[i].op = "load", asyncQueue'[j].op = "save",
                      session'[asyncQueue'[i].session].load = asyncQueue'[i].key
               PROVE  AccountOf[asyncQueue'[j].session] # AccountOf[asyncQueue'[i].session]
    BY DEF OrderOK
  <2>1. j \in 1 .. Len(asyncQueue) /\ asyncQueue'[j] = asyncQueue[j]
    BY <1>5
  <2>2. i \in 1 .. Len(asyncQueue) /\ asyncQueue'[i] = asyncQueue[i]
    BY <1>1, <1>5, <2>1
  <2>3. asyncQueue[i].session \in SessionIds
    BY <1>1, <2>2, QueryElements DEF Query
  <2>4. asyncQueue[i].session # s
    BY <1>4, <1>6, <2>2
  <2>5. session[asyncQueue[i].session].load = asyncQueue[i].key
    BY <1>4, <2>2, <2>3, <2>4
  <2> QED
    BY <2>1, <2>2, <2>5 DEF LoginInv, OrderOK
<1> QED
  BY <1>7, <1>8, <1>9

LEMMA AbsentFrame == ASSUME AbsentOK, Quiet PROVE AbsentOK'
<1>1. \A t : Present(t)' <=> Present(t)
  BY DEF Present, Quiet
<1> QED
  BY <1>1 DEF AbsentOK, Quiet

LEMMA TameFrame ==
    ASSUME IInv, LoginInv, IInv', Tames, Drained, UNCHANGED _linkSocketQueue, AbsentOK'
    PROVE  LoginInv'
<1>1. Moves /\ Awaiting
  BY DEF Tames, Tame, Moves, Awaiting
<1> QED
  BY <1>1, QueueFrame DEF LoginInv, LocalOK, Moves, Move

LEMMA LoginStep == ASSUME IInv, LoginInv, [Next]_vars, IInv' PROVE LoginInv'
<1>0. TypeOK /\ LocalOK /\ AbsentOK /\ LinksOK /\ LoadsOK
  BY DEF IInv, LoginInv
<1>a. ASSUME ~AddSession_, ~RemoveSession PROVE AbsentOK'
  BY <1>0, <1>a, QuietWorld, AbsentFrame
<1>1. CASE UNCHANGED vars \/ LinksDone \/ AddsDone \/ PickSession \/ LoopDone \/ PacketsDone
  <2>1. UNCHANGED <<session, asyncQueue, _linkSocketQueue, m_sessions>>
    BY <1>1 DEF vars, LinksDone, AddsDone, PickSession, LoopDone, PacketsDone, table
  <2>2. Tames /\ Drained
    BY <1>0, <2>1, SameTame DEF Drained
  <2>3. AbsentOK'
    BY <1>0, <2>1 DEF AbsentOK, Present
  <2> QED
    BY <2>1, <2>2, <2>3, TameFrame
<1>2. CASE Network
  <2>1. Tames
    BY <1>0, <1>2, NetworkTame
  <2>2. AbsentOK'
    BY <1>0, <1>2, QuietNetwork, AbsentFrame
  <2>3. CASE \E s \in SessionIds : ClientLink(s)
    BY <1>0, <2>1, <2>2, <2>3, LinkAdded, TameMoves DEF LoginInv, LocalOK, Tames, Tame, Move
  <2>4. CASE ~ \E s \in SessionIds : ClientLink(s)
    <3>1. UNCHANGED <<_linkSocketQueue, asyncQueue>>
      BY <1>2, <2>4 DEF Network, Connect, RealmCloses, InstanceCloses, ClientLogin,
         ClientLogout, HandleConnectToFailed
    <3> QED
      BY <2>1, <2>2, <3>1, TameFrame DEF Drained
  <2> QED
    BY <2>3, <2>4
<1>3. CASE DatabaseWorker
  <2>1. Tames
    BY <1>0, <1>3, WorkerTame
  <2>2. Drained /\ UNCHANGED _linkSocketQueue /\ UNCHANGED m_sessions
    BY <1>3 DEF DatabaseWorker, Drained, world, table
  <2>3. AbsentOK'
    <3>1. \A t \in SessionIds : session'[t].init = session[t].init
      <4>1. asyncQueue \in Seq(Query) /\ asyncQueue # <<>>
        BY <1>0, <1>3 DEF TypeOK, DatabaseWorker
      <4>2. Head(asyncQueue).session \in SessionIds
        <5>1. Head(asyncQueue) \in Query
          BY <4>1
        <5> QED
          BY <5>1 DEF Query
      <4>3. session' = session
            \/ session' = [session EXCEPT ![Head(asyncQueue).session].ready = TRUE]
        BY <1>3 DEF DatabaseWorker
      <4> SUFFICES ASSUME NEW t \in SessionIds PROVE session'[t].init = session[t].init
        OBVIOUS
      <4>4. session[t] \in Session /\ DOMAIN session = SessionIds
        BY <1>0 DEF TypeOK
      <4>5. [session[t] EXCEPT !.ready = TRUE].init = session[t].init
        BY <4>4 DEF Session
      <4>6. session'[t] = session[t] \/ session'[t] = [session[t] EXCEPT !.ready = TRUE]
        BY <4>2, <4>3, <4>4
      <4> QED
        BY <4>5, <4>6
    <3> QED
      BY <1>0, <2>2, <3>1 DEF AbsentOK, Present
  <2> QED
    BY <2>1, <2>2, <2>3, TameFrame
<1>4. CASE ProcessLinkInstanceSocket
  <2>1. /\ _linkSocketQueue # <<>> /\ _linkSocketQueue' = Tail(_linkSocketQueue)
        /\ ~AddSession_ /\ ~RemoveSession
    BY <1>4 DEF ProcessLinkInstanceSocket, AddSession_, RemoveSession, UpdateEnds
  <2>2. Moves /\ ((Tames /\ UNCHANGED asyncQueue) \/ LoadStarts)
    BY <1>0, <1>4, LinkCases
  <2>3. LinksOK' /\ LoadsOK' /\ OrderOK'
    BY <2>1, <2>2, LinkDropped, LoadAdded
  <2>4. AbsentOK'
    BY <1>a, <2>1
  <2> QED
    BY <2>2, <2>3, <2>4 DEF LoginInv, LocalOK, Moves, Move
<1>5. CASE RefuseSession
  <2>1. UNCHANGED <<asyncQueue, _linkSocketQueue>> /\ ~AddSession_ /\ ~RemoveSession
    BY <1>5 DEF RefuseSession, AddSession_, RemoveSession, UpdateEnds
  <2> QED
    BY <1>0, <1>5, <1>a, <2>1, RefuseTame, TameFrame DEF Drained
<1>6. CASE AddSession_
  <2> DEFINE old == m_sessions[AccountOf[Head(addSessQueue)]]
  <2>1. /\ Tames /\ AbsentOK' /\ UNCHANGED _linkSocketQueue
        /\ old = NoSession \/ old \in SessionIds
        /\ asyncQueue' = IF old = NoSession THEN asyncQueue ELSE asyncQueue \o Saves(old)
    BY <1>0, <1>6, AddTame
  <2>2. Drained
    BY <1>0, <2>1, SavesShape DEF Drained
  <2> QED
    BY <2>1, <2>2, TameFrame
<1>7. CASE HandlePacket
  <2>1. UNCHANGED _linkSocketQueue /\ ~AddSession_ /\ ~RemoveSession /\ Updated \in SessionIds
    BY <1>7, UpdatedType DEF HandlePacket, AddSession_, RemoveSession, UpdateEnds, IInv
  <2>2. asyncQueue' = asyncQueue \/ asyncQueue' = asyncQueue \o Saves(Updated)
    BY <1>7 DEF HandlePacket
  <2>3. Drained
    BY <1>0, <2>1, <2>2, SavesShape DEF Drained
  <2> QED
    BY <1>0, <1>7, <1>a, <2>1, <2>3, PacketTame, TameFrame
<1>8. CASE AccountReady \/ CharacterReady
  <2>1. UNCHANGED <<asyncQueue, _linkSocketQueue, addSessQueue>> /\ pc = "callbacks"
    BY <1>8 DEF AccountReady, CharacterReady, world, table
  <2>2. Drained /\ UNCHANGED _linkSocketQueue
    BY <2>1 DEF Drained
  <2>3. Moves /\ Awaiting
    <3>1. CASE AccountReady
      BY <1>0, <3>1, AccountMoves DEF Awaiting
    <3>2. CASE CharacterReady
      BY <1>0, <3>2, CharacterMoves DEF Awaiting
    <3> QED
      BY <1>8, <3>1, <3>2
  <2>4. AbsentOK'
    <3>1. ~AddSession_
      BY <2>1 DEF AddSession_
    <3>2. ~RemoveSession
      <4>1. pc' = pc
        BY <1>8 DEF AccountReady, CharacterReady, world
      <4> QED
        BY <2>1, <4>1 DEF RemoveSession
    <3> QED
      BY <1>a, <3>1, <3>2
  <2> QED
    BY <2>2, <2>3, <2>4, QueueFrame DEF LoginInv, LocalOK, Moves, Move
<1>9. CASE LogoutDue
  <2>1. /\ UNCHANGED _linkSocketQueue /\ Updated \in SessionIds
        /\ asyncQueue' = asyncQueue \o Saves(Updated) /\ pc = "callbacks" /\ pc' = pc
    BY <1>9, UpdatedType DEF LogoutDue, IInv, world
  <2>2. ~AddSession_ /\ ~RemoveSession
    BY <2>1 DEF AddSession_, RemoveSession
  <2>3. Drained
    BY <1>0, <2>1, SavesShape DEF Drained
  <2> QED
    BY <1>0, <1>9, <1>a, <2>1, <2>2, <2>3, LogoutDueTame, TameFrame
<1>10. CASE KeepSession
  <2>1. UNCHANGED <<asyncQueue, _linkSocketQueue>> /\ ~AddSession_ /\ ~RemoveSession
    BY <1>10 DEF KeepSession, AddSession_, RemoveSession, UpdateEnds
  <2> QED
    BY <1>0, <1>10, <1>a, <2>1, KeepTame, TameFrame DEF Drained
<1>11. CASE RemoveSession
  <2>1. /\ Tames /\ AbsentOK' /\ UNCHANGED _linkSocketQueue /\ Updated \in SessionIds
        /\ asyncQueue' = asyncQueue \o Saves(Updated)
    BY <1>0, <1>11, RemoveTame, UpdatedType DEF RemoveSession, UpdateEnds, IInv
  <2>2. Drained
    BY <1>0, <2>1, SavesShape DEF Drained
  <2> QED
    BY <2>1, <2>2, TameFrame
<1>12. CASE KickAll
  <2>1. UNCHANGED <<asyncQueue, _linkSocketQueue>> /\ ~AddSession_ /\ ~RemoveSession
    BY <1>12 DEF KickAll, AddSession_, RemoveSession, UpdateEnds
  <2> QED
    BY <1>0, <1>12, <1>a, <2>1, KickAllTame, TameFrame DEF Drained
<1>13. CASE UpdateSessions
  BY <1>1, <1>4, <1>5, <1>6, <1>7, <1>8, <1>9, <1>10, <1>11, <1>13 DEF UpdateSessions
<1>14. CASE Stopped
  BY <1>1, <1>14 DEF Stopped
<1> QED
  BY <1>1, <1>2, <1>3, <1>12, <1>13, <1>14 DEF Next

LEMMA InitLogin == Init => LoginInv
<1> SUFFICES ASSUME Init PROVE LoginInv
  OBVIOUS
<1>1. \A s \in SessionIds : session[s] = Unborn
  BY DEF Init
<1>2. Local(Unborn) /\ Unborn.init = "no"
  BY DEF Local, Unborn
<1>3. IsInjective(_linkSocketQueue) /\ Len(_linkSocketQueue) = 0 /\ Len(asyncQueue) = 0
  BY DEF Init, IsInjective
<1> HIDE DEF Init
<1> QED
  BY <1>1, <1>2, <1>3 DEF LoginInv, LocalOK, AbsentOK, LinksOK, LoadsOK, OrderOK

LEMMA LoginInvariance == Spec => [](IInv /\ LoginInv)
<1>1. Init => IInv /\ LoginInv
  BY InitIInv, InitLogin
<1>2. IInv /\ LoginInv /\ [Next]_vars => (IInv /\ LoginInv)'
  BY NextIInv, LoginStep
<1> QED
  BY <1>1, <1>2, PTL DEF Spec

\* A character is loaded from what its last logout saved: while a load is awaited
\* no session of the account has a player, and no save of it is behind the load.
THEOREM LoginsAfterLogouts == Spec => []LoginsReadSaves
<1>1. IInv /\ LoginInv => LoginsReadSaves
  <2> SUFFICES ASSUME IInv, LoginInv, NEW i \in 1 .. Len(asyncQueue),
                      asyncQueue[i].op = "load",
                      session[asyncQueue[i].session].load = asyncQueue[i].key
               PROVE  LET a == AccountOf[asyncQueue[i].session]
                      IN /\ \A s \in SessionIds : AccountOf[s] = a => ~session[s].player
                         /\ \A j \in i + 1 .. Len(asyncQueue) :
                              asyncQueue[j].op = "save" => AccountOf[asyncQueue[j].session] # a
    BY DEF LoginsReadSaves
  <2>1. asyncQueue[i].session \in SessionIds /\ asyncQueue[i].key > 0
    BY QueryElements DEF IInv, Query, LoginInv, LoadsOK, Offered
  <2>2. \A s \in SessionIds : session[s].player => AccountOf[s] # AccountOf[asyncQueue[i].session]
    BY <2>1, LoadersAlone DEF LoginInv
  <2>3. ASSUME NEW j \in i + 1 .. Len(asyncQueue), asyncQueue[j].op = "save"
        PROVE  AccountOf[asyncQueue[j].session] # AccountOf[asyncQueue[i].session]
    <3>1. j \in 1 .. Len(asyncQueue) /\ i < j
      BY <2>3 DEF IInv, TypeOK
    <3> QED
      BY <2>3, <3>1 DEF LoginInv, OrderOK
  <2> QED
    BY <2>2, <2>3
<1> QED
  BY <1>1, LoginInvariance, PTL

-----------------------------------------------------------------------------
(***************************************************************************)
(* The stop: when the server has kicked everybody and updated the sessions *)
(* once more, no player is left in the world.                              *)
(***************************************************************************)

\* The sessions that the loop has still to update, or is just handling packets of.
ToUpdate(a) ==
    \/ pc \in {"links", "adds"}
    \/ a \in todo
    \/ pc = "packets" /\ a = current

\* A session that is to be updated has been kicked, or came when the rest was: then
\* it has not passed the character screen by the time its packets are handled.
Pending(r) == Doomed(r) \/ r.client = "auth"

\* After its packets it may be initialized, but the character is not loaded yet.
Finishing(r) == Doomed(r) \/ (~r.player /\ r.load = 0)

StopOK ==
    /\ pc = "stopped" => stopping /\ todo = {}
    /\ stopping => \A a \in Listed :
        /\ ToUpdate(a) => Pending(session[m_sessions[a]])
        /\ pc = "callbacks" /\ a = current => Finishing(session[m_sessions[a]])
        /\ ~ToUpdate(a) /\ ~(pc = "callbacks" /\ a = current) => ~session[m_sessions[a]].player

LEMMA TameKeeps ==
    ASSUME NEW r, NEW n, Tame(r, n), n.life = "alive"
    PROVE  /\ Pending(r) => Pending(n)
           /\ Finishing(r) => Finishing(n)
           /\ ~r.player => ~n.player
BY DEF Tame, Move, Forward, Doomed, Pending, Finishing

LEMMA ListedType ==
    ASSUME IInv, NEW a \in Listed
    PROVE  /\ a \in Accounts /\ m_sessions[a] \in SessionIds
           /\ session[m_sessions[a]] \in Session
           /\ session[m_sessions[a]].life = "alive"
BY DEF IInv, TypeOK, TableOK, Listed

\* Sessions of the table that move tamely keep their part of the invariant.
LEMMA StopFrame ==
    ASSUME IInv, IInv', StopOK, Tames, UNCHANGED m_sessions,
           UNCHANGED <<pc, current, todo, stopping>>
    PROVE  StopOK'
<1> SUFFICES ASSUME stopping, NEW a \in Listed
             PROVE  /\ ToUpdate(a) => Pending(session'[m_sessions[a]])
                    /\ pc = "callbacks" /\ a = current => Finishing(session'[m_sessions[a]])
                    /\ ~ToUpdate(a) /\ ~(pc = "callbacks" /\ a = current)
                          => ~session'[m_sessions[a]].player
  BY DEF StopOK, ToUpdate, Pending, Finishing, Doomed, Listed
<1>1. m_sessions[a] \in SessionIds /\ session'[m_sessions[a]].life = "alive"
  BY ListedType DEF IInv, TableOK, Listed
<1>2. Tame(session[m_sessions[a]], session'[m_sessions[a]])
  BY <1>1 DEF Tames
<1> QED
  BY <1>1, <1>2, TameKeeps DEF StopOK

\* The world thread goes on to another place and touches no session.
LEMMA PlaceStop ==
    ASSUME IInv, LocalOK, StopOK,
           LinksDone \/ AddsDone \/ PickSession \/ LoopDone \/ PacketsDone
    PROVE  StopOK'
<1>1. UNCHANGED <<session, m_sessions, stopping>>
  BY DEF LinksDone, AddsDone, PickSession, LoopDone, PacketsDone, place, table
<1>2. pc' = "stopped" => stopping /\ todo' = {}
  BY DEF LinksDone, AddsDone, PickSession, LoopDone, PacketsDone, place
<1>3. ASSUME stopping, NEW a \in Listed
      PROVE  /\ ToUpdate(a)' => Pending(session[m_sessions[a]])
             /\ pc' = "callbacks" /\ a = current' => Finishing(session[m_sessions[a]])
             /\ ~ToUpdate(a)' /\ ~(pc' = "callbacks" /\ a = current')
                   => ~session[m_sessions[a]].player
  <2>1. /\ ToUpdate(a) => Pending(session[m_sessions[a]])
        /\ ~ToUpdate(a) /\ ~(pc = "callbacks" /\ a = current) => ~session[m_sessions[a]].player
    BY <1>3 DEF StopOK
  <2>2. CASE LinksDone \/ AddsDone
    BY <1>3, <2>1, <2>2 DEF LinksDone, AddsDone, ToUpdate
  <2>3. CASE PickSession \/ LoopDone
    BY <1>3, <2>1, <2>3 DEF PickSession, LoopDone, ToUpdate, place
  <2>4. CASE PacketsDone
    <3>1. pc = "packets" /\ pc' = "callbacks" /\ current' = current /\ todo' = todo
      BY <2>4 DEF PacketsDone
    <3>2. Local(session[m_sessions[a]])
      BY ListedType DEF LocalOK
    <3>3. Pending(session[m_sessions[a]]) => Finishing(session[m_sessions[a]])
      BY <3>2 DEF Pending, Finishing, Local
    <3> QED
      BY <2>1, <3>1, <3>3 DEF ToUpdate
  <2> QED
    BY <2>2, <2>3, <2>4
<1> QED
  BY <1>1, <1>2, <1>3 DEF StopOK, ToUpdate, Pending, Finishing, Doomed, Listed

\* A load starts while all sessions are still to be updated: the one it is for has
\* been kicked, for it has been offered a key.
LEMMA LinkStop ==
    ASSUME IInv, IInv', LocalOK, LinksOK, StopOK, ProcessLinkInstanceSocket
    PROVE  StopOK'
<1>1. UNCHANGED m_sessions /\ UNCHANGED <<pc, current, todo, stopping>> /\ pc = "links"
  BY DEF ProcessLinkInstanceSocket, world, table, place
<1>2. CASE Tames
  BY <1>1, <1>2, StopFrame
<1>3. CASE LoadStarts
  <2>0. PICK s \in SessionIds :
            /\ session[s].key > 0
            /\ session' = [session EXCEPT ![s] = [session[s] EXCEPT !.instance = "open",
                              !.load = session[s].key, !.ready = FALSE]]
    BY <1>3 DEF LoadStarts
  <2> SUFFICES ASSUME stopping, NEW a \in Listed PROVE Pending(session'[m_sessions[a]])
    BY <1>1 DEF StopOK, ToUpdate, Pending, Doomed, Listed
  <2>1. m_sessions[a] \in SessionIds /\ session'[m_sessions[a]].life = "alive"
    BY <1>1, ListedType DEF IInv, TableOK, Listed
  <2>2. Pending(session[m_sessions[a]])
    BY <1>1 DEF StopOK, ToUpdate
  <2>3. CASE m_sessions[a] # s
    <3>1. session'[m_sessions[a]] = session[m_sessions[a]]
      BY <2>0, <2>1, <2>3 DEF IInv, TypeOK
    <3> QED
      BY <2>2, <3>1
  <2>4. CASE m_sessions[a] = s
    <3>1. Local(session[s]) /\ Moves
      BY LinkCases DEF LocalOK
    <3>2. session[s].key # 0
      BY <2>0
    <3>3. session[s].client # "auth"
      BY <3>1, <3>2 DEF Local
    <3>4. Doomed(session[s])
      BY <2>2, <2>4, <3>3 DEF Pending
    <3>5. Move(session[s], session'[s])
      BY <3>1 DEF Moves
    <3> QED
      BY <2>1, <2>4, <3>4, <3>5 DEF Move, Forward, Pending
  <2> QED
    BY <2>3, <2>4
<1> QED
  BY <1>2, <1>3, LinkCases

\* Query results are for the session in hand.
LEMMA CallbackStop ==
    ASSUME IInv, IInv', LocalOK, StopOK, AccountReady \/ CharacterReady
    PROVE  StopOK'
<1>1. /\ UNCHANGED m_sessions /\ UNCHANGED <<pc, current, todo, stopping>>
      /\ pc = "callbacks" /\ current \in Listed \ todo
  <2>1. UNCHANGED m_sessions /\ UNCHANGED <<pc, current, todo, stopping>> /\ pc = "callbacks"
    BY DEF AccountReady, CharacterReady, world, table, place
  <2> QED
    BY <2>1 DEF IInv, PlaceOK
<1> DEFINE s == m_sessions[current]
<1>2. /\ s \in SessionIds /\ session[s] \in Session /\ Local(session[s])
      /\ session'[s].life = "alive"
  BY <1>1, ListedType DEF LocalOK, IInv, TableOK, Listed
<1>3. Moves /\ \A t \in SessionIds : t # s => session'[t] = session[t]
  BY AccountMoves, CharacterMoves DEF Updated
<1>4. Move(session[s], session'[s])
  BY <1>2, <1>3 DEF Moves
<1>5. ASSUME Finishing(session[s]) PROVE Finishing(session'[s])
  <2>1. CASE Doomed(session[s])
    BY <1>2, <1>4, <2>1 DEF Move, Forward, Finishing
  <2>2. CASE AccountReady
    BY <2>2, AccountMoves DEF Updated, Finishing
  <2>3. CASE CharacterReady /\ session[s].load = 0
    <3>1. session[s].ready /\ ~(session[s].load > 0)
      BY <2>3 DEF CharacterReady, Updated
    <3> QED
      BY <1>2, <3>1 DEF Local
  <2> QED
    BY <1>5, <2>1, <2>2, <2>3 DEF Finishing
<1> SUFFICES ASSUME stopping, NEW a \in Listed
             PROVE  /\ ToUpdate(a) => Pending(session'[m_sessions[a]])
                    /\ a = current => Finishing(session'[m_sessions[a]])
                    /\ ~ToUpdate(a) /\ a # current => ~session'[m_sessions[a]].player
  BY <1>1 DEF StopOK, ToUpdate, Pending, Finishing, Doomed, Listed
<1>6. CASE a = current
  BY <1>1, <1>5, <1>6 DEF StopOK, ToUpdate
<1>7. CASE a # current
  <2>1. m_sessions[a] # s /\ m_sessions[a] \in SessionIds
    BY <1>1, <1>7, ListedType DEF IInv, TableOK, Listed
  <2>2. session'[m_sessions[a]] = session[m_sessions[a]]
    BY <1>3, <2>1
  <2> HIDE DEF s
  <2> QED
    BY <1>1, <1>7, <2>2 DEF StopOK
<1> QED
  BY <1>6, <1>7

\* A session that comes when all have been kicked has shown the client nothing.
LEMMA AddStop ==
    ASSUME IInv, IInv', LocalOK, AbsentOK, StopOK, AddSession_
    PROVE  StopOK'
<1> DEFINE s == Head(addSessQueue)
           a == AccountOf[s]
<1>1. /\ Tames /\ s \in SessionIds /\ session[s].init = "no"
      /\ \A b \in Accounts : m_sessions'[b] = IF b = a THEN s ELSE m_sessions[b]
      /\ pc = "adds" /\ UNCHANGED <<pc, place>>
  BY AddTame
<1> HIDE DEF s, a
<1>2. UNCHANGED <<pc, current, todo, stopping>>
  BY <1>1 DEF place
<1> SUFFICES ASSUME stopping, NEW b \in Listed' PROVE Pending(session[m_sessions[b]])'
  BY <1>1, <1>2 DEF StopOK, ToUpdate
<1> DEFINE t == m_sessions'[b]
<1>3. b \in Accounts /\ t \in SessionIds /\ session'[t].life = "alive"
  BY DEF IInv, TypeOK, TableOK, Listed
<1>4. Tame(session[t], session'[t]) /\ Local(session[t])
  BY <1>1, <1>3 DEF Tames, LocalOK
<1>5. Pending(session[t])
  <2>1. CASE b = a
    <3>1. t = s
      BY <1>1, <1>3, <2>1
    <3> QED
      BY <1>1, <1>4, <3>1 DEF Local, Pending
  <2>2. CASE b # a
    <3>1. m_sessions'[b] = m_sessions[b] /\ b \in Listed
      BY <1>1, <1>3, <2>2 DEF Listed
    <3> QED
      BY <1>1, <3>1 DEF StopOK, ToUpdate
  <2> QED
    BY <2>1, <2>2
<1>6. Pending(session'[t])
  BY <1>3, <1>4, <1>5, TameKeeps
<1> QED
  BY <1>6 DEF Pending, Doomed

\* The session in hand is kept, or goes.
LEMMA EndStop ==
    ASSUME IInv, IInv', LocalOK, AbsentOK, StopOK, KeepSession \/ RemoveSession
    PROVE  StopOK'
<1>1. /\ Tames /\ UNCHANGED <<todo, stopping>> /\ pc' = "pick" /\ pc = "callbacks"
      /\ current \in Listed \ todo
      /\ \A b \in Accounts : b # current => m_sessions'[b] = m_sessions[b]
  <2>1. CASE KeepSession
    BY <2>1, KeepTame DEF KeepSession, UpdateEnds, IInv, PlaceOK, table
  <2>2. CASE RemoveSession
    BY <2>2, RemoveTame DEF RemoveSession, UpdateEnds, IInv, PlaceOK
  <2> QED
    BY <2>1, <2>2
<1> SUFFICES ASSUME stopping, NEW b \in Listed'
             PROVE  /\ b \in todo => Pending(session[m_sessions[b]])'
                    /\ b \notin todo => ~session'[m_sessions'[b]].player
  BY <1>1 DEF StopOK, ToUpdate
<1> DEFINE t == m_sessions'[b]
<1>2. b \in Accounts /\ t \in SessionIds /\ session'[t].life = "alive"
  BY DEF IInv, TypeOK, TableOK, Listed
<1>3. Tame(session[t], session'[t])
  BY <1>1, <1>2 DEF Tames
<1>4. CASE b # current
  <2>1. m_sessions[b] = t /\ b \in Listed
    BY <1>1, <1>2, <1>4 DEF Listed
  <2>2. /\ b \in todo => Pending(session[t])
        /\ b \notin todo => ~session[t].player
    BY <1>1, <1>4, <2>1 DEF StopOK, ToUpdate
  <2>3. /\ b \in todo => Pending(session'[t])
        /\ b \notin todo => ~session'[t].player
    BY <1>2, <1>3, <2>2, TameKeeps
  <2> QED
    BY <2>3 DEF Pending, Doomed
<1>5. CASE b = current
  <2>1. KeepSession
    BY <1>2, <1>5, RemoveTame, NoSessionType
  <2>2. t = m_sessions[current] /\ ~Expired(session[t])
    BY <1>5, <2>1 DEF KeepSession, Updated, table
  <2>3. Finishing(session[t])
    BY <1>1, <2>2 DEF StopOK
  <2>4. ~session[t].player
    BY <2>2, <2>3 DEF Finishing, Doomed, Expired, Lost
  <2>5. ~session'[t].player
    BY <1>2, <1>3, <2>4, TameKeeps
  <2> QED
    BY <1>1, <1>5, <2>5
<1> QED
  BY <1>4, <1>5

LEMMA KickStop == ASSUME IInv, LocalOK, KickAll PROVE StopOK'
<1>1. pc = "links" /\ pc' = "links" /\ m_sessions' = m_sessions
  BY DEF KickAll
<1> SUFFICES ASSUME NEW a \in Listed PROVE Doomed(session'[m_sessions[a]])
  BY <1>1 DEF StopOK, ToUpdate, Pending, Doomed, Listed
<1>2. /\ a \in Accounts /\ m_sessions[a] \in SessionIds
      /\ session[m_sessions[a]] \in Session /\ Local(session[m_sessions[a]])
      /\ session[m_sessions[a]].life = "alive"
  BY ListedType DEF LocalOK
<1>3. session'[m_sessions[a]] = KickPlayer(session[m_sessions[a]])
  BY <1>2 DEF KickAll
<1> QED
  BY <1>2, <1>3, KickDooms

LEMMA StopStep == ASSUME IInv, LoginInv, StopOK, [Next]_vars, IInv' PROVE StopOK'
<1>0. LocalOK /\ AbsentOK /\ LinksOK /\ LoadsOK
  BY DEF LoginInv
<1>1. CASE UNCHANGED vars \/ Stopped
  <2>1. UNCHANGED <<session, m_sessions, pc, current, todo, stopping>>
    BY <1>1 DEF Stopped, vars
  <2> QED
    BY <1>0, <2>1, SameTame, StopFrame
<1>2. CASE Network
  <2>1. UNCHANGED <<m_sessions, pc, current, todo, stopping>>
    BY <1>2 DEF Network, Connect, RealmCloses, InstanceCloses, ClientLogin, ClientLogout,
       ClientLink, HandleConnectToFailed, world, table, place
  <2> QED
    BY <1>0, <1>2, <2>1, NetworkTame, StopFrame
<1>3. CASE DatabaseWorker
  <2>1. UNCHANGED <<m_sessions, pc, current, todo, stopping>>
    BY <1>3 DEF DatabaseWorker, world, table, place
  <2> QED
    BY <1>0, <1>3, <2>1, WorkerTame, StopFrame
<1>4. CASE ProcessLinkInstanceSocket
  BY <1>0, <1>4, LinkStop
<1>5. CASE LinksDone \/ AddsDone \/ PickSession \/ LoopDone \/ PacketsDone
  BY <1>0, <1>5, PlaceStop
<1>6. CASE RefuseSession
  <2>1. UNCHANGED <<m_sessions, pc, current, todo, stopping>>
    BY <1>6 DEF RefuseSession, place
  <2> QED
    BY <1>0, <1>6, <2>1, RefuseTame, StopFrame
<1>7. CASE AddSession_
  BY <1>0, <1>7, AddStop
<1>8. CASE HandlePacket
  <2>1. UNCHANGED <<m_sessions, pc, current, todo, stopping>>
    BY <1>8 DEF HandlePacket, table
  <2> QED
    BY <1>0, <1>8, <2>1, PacketTame, StopFrame
<1>9. CASE AccountReady \/ CharacterReady
  BY <1>0, <1>9, CallbackStop
<1>10. CASE LogoutDue
  <2>1. UNCHANGED <<m_sessions, pc, current, todo, stopping>>
    BY <1>10 DEF LogoutDue, world, table, place
  <2> QED
    BY <1>0, <1>10, <2>1, LogoutDueTame, StopFrame
<1>11. CASE KeepSession \/ RemoveSession
  BY <1>0, <1>11, EndStop
<1>12. CASE KickAll
  BY <1>0, <1>12, KickStop
<1> QED
  BY <1>1, <1>2, <1>3, <1>4, <1>5, <1>6, <1>7, <1>8, <1>9, <1>10, <1>11, <1>12
     DEF Next, UpdateSessions

\* When the server has kicked everybody and updated the sessions a last time, no
\* player is left in the world.
THEOREM NobodyStaysBehind == Spec => []NobodyLeftBehind
<1>1. Init => StopOK
  BY DEF Init, StopOK
<1>2. IInv /\ LoginInv /\ StopOK /\ [Next]_vars /\ IInv' => StopOK'
  BY StopStep
<1>3. IInv /\ LoginInv /\ StopOK => NobodyLeftBehind
  <2> SUFFICES ASSUME IInv, LoginInv, StopOK, pc = "stopped", NEW s \in SessionIds
               PROVE  ~session[s].player
    BY DEF NobodyLeftBehind
  <2>1. CASE Present(s)
    <3>1. PICK a \in Accounts : m_sessions[a] = s
      BY <2>1 DEF Present
    <3>2. a \in Listed
      BY <3>1, NoSessionType DEF Listed
    <3> QED
      BY <3>1, <3>2 DEF StopOK, ToUpdate
  <2>2. CASE ~Present(s)
    <3>1. session[s].init = "no" /\ Local(session[s])
      BY <2>2 DEF LoginInv, AbsentOK, LocalOK
    <3> QED
      BY <3>1 DEF Local
  <2> QED
    BY <2>1, <2>2
<1> QED
  BY <1>1, <1>2, <1>3, LoginInvariance, PTL DEF Spec

=============================================================================
