---------------------------- MODULE SessionsProofs ----------------------------
(***************************************************************************)
(* Theorems of Sessions: with any number of accounts, sessions and packets,*)
(* any player limit, and any accounts that may skip the queue.             *)
(***************************************************************************)
EXTENDS Sessions, FiniteSetTheorems, SequenceTheorems, TLAPS

\* A session of the table is alive and is that of its account.
TableOK ==
    \A a \in Accounts : m_sessions[a] # NoSession =>
        /\ session[m_sessions[a]].life = "alive"
        /\ AccountOf[m_sessions[a]] = a

\* The new sessions are alive, not initialized, not in the table, and different.
NewOK ==
    /\ \A i \in 1 .. Len(addSessQueue) :
        /\ session[addSessQueue[i]].life = "alive"
        /\ session[addSessQueue[i]].init = "no"
        /\ ~Present(addSessQueue[i])
    /\ IsInjective(addSessQueue)

\* Whoever waits is in the table, marked, and not initialized.
WaitersOK ==
    /\ \A i \in 1 .. Len(m_QueuedPlayer) :
        /\ Present(m_QueuedPlayer[i])
        /\ session[m_QueuedPlayer[i]].m_inQueue
        /\ session[m_QueuedPlayer[i]].init = "no"
    /\ IsInjective(m_QueuedPlayer)

\* The loop of the world thread is over sessions that are there.
PlaceOK ==
    /\ todo \subseteq Listed
    /\ pc \in {"packets", "callbacks"} => current \in Listed \ todo

IInv == TypeOK /\ TableOK /\ NewOK /\ WaitersOK /\ PlaceOK

-----------------------------------------------------------------------------
(***************************************************************************)
(* The operations of one session: their type, and the fields they leave    *)
(* alone.                                                                  *)
(***************************************************************************)
Alike(r, t) == r.life = t.life /\ r.m_inQueue = t.m_inQueue /\ r.init = t.init

LEMMA NoSessionType == NoSession \notin SessionIds
BY AccountAssumption

LEMMA UnbornType == Unborn \in Session /\ Deleted \in Session
<1>1. 0 \in 0 .. LastAttempt /\ ExpireTicks \in 0 .. ExpireTicks
  BY BoundAssumption
<1>2. <<>> \in Seq({"login", "logout"})
  OBVIOUS
<1>3. Unborn \in Session
  BY <1>1, <1>2, Zenon DEF Unborn, Session, SocketState
<1> QED
  BY <1>3 DEF Deleted, Session

LEMMA KickPlayerType ==
    ASSUME NEW r \in Session
    PROVE  KickPlayer(r) \in Session /\ Alike(KickPlayer(r), r)
BY DEF KickPlayer, Session, Alike, Closed, SocketState

LEMMA SendConnectType ==
    ASSUME NEW r \in Session, NEW serial \in 0 .. LastAttempt
    PROVE  /\ SendConnectToInstance(r, serial) \in Session
           /\ Alike(SendConnectToInstance(r, serial), r)
<1>1. r.key + 1 \in Nat
  BY DEF Session
<1> QED
  BY <1>1 DEF SendConnectToInstance, Session, Alike

LEMMA LoginOpcodeType ==
    ASSUME NEW r \in Session
    PROVE  HandlePlayerLoginOpcode(r) \in Session /\ Alike(HandlePlayerLoginOpcode(r), r)
<1> DEFINE l == [r EXCEPT !.m_playerLoading = TRUE]
<1>1. l \in Session /\ Alike(l, r)
  BY DEF Session, Alike
<1>2. 1 \in 0 .. LastAttempt
  BY BoundAssumption
<1> QED
  BY <1>1, <1>2, KickPlayerType, SendConnectType DEF HandlePlayerLoginOpcode, Alike

LEMMA LogoutPlayerType ==
    ASSUME NEW r \in Session
    PROVE  LogoutPlayer(r) \in Session /\ Alike(LogoutPlayer(r), r)
BY DEF LogoutPlayer, Session, Alike, SocketState

LEMMA PlayerLoginType ==
    ASSUME NEW r \in Session
    PROVE  HandlePlayerLogin(r) \in Session /\ Alike(HandlePlayerLogin(r), r)
<1>1. 0 \in 0 .. LastAttempt
  BY BoundAssumption
<1> QED
  BY <1>1 DEF HandlePlayerLogin, Session, Alike

LEMMA LoadFailsType ==
    ASSUME NEW r \in Session
    PROVE  LoadFails(r) \in Session /\ Alike(LoadFails(r), r)
<1> DEFINE k == KickPlayer(r)
<1>1. k \in Session /\ Alike(k, r)
  BY KickPlayerType
<1> HIDE DEF k
<1>2. [k EXCEPT !.m_playerLoading = FALSE, !.load = 0, !.ready = FALSE] \in Session
  BY <1>1 DEF Session
<1>3. Alike([k EXCEPT !.m_playerLoading = FALSE, !.load = 0, !.ready = FALSE], k)
  BY <1>1 DEF Alike, Session
<1> QED
  BY <1>1, <1>2, <1>3 DEF LoadFails, k, Alike

LEMMA ReadyType ==
    ASSUME NEW r \in Session
    PROVE  [r EXCEPT !.ready = TRUE] \in Session /\ Alike([r EXCEPT !.ready = TRUE], r)
BY DEF Session, Alike

LEMMA AbortLoginType ==
    ASSUME NEW r \in Session
    PROVE  AbortLogin(r) \in Session /\ Alike(AbortLogin(r), r)
<1>1. 0 \in 0 .. LastAttempt
  BY BoundAssumption
<1> QED
  BY <1>1 DEF AbortLogin, Session, Alike

LEMMA InitializeType ==
    ASSUME NEW r \in Session
    PROVE  /\ InitializeSession(r) \in Session
           /\ InitializeSession(r).life = r.life
           /\ InitializeSessionCallback(r) \in Session
           /\ InitializeSessionCallback(r).life = r.life
BY DEF InitializeSession, InitializeSessionCallback, Session

-----------------------------------------------------------------------------
(***************************************************************************)
(* The login queue.                                                        *)
(***************************************************************************)
LEMMA WithoutType ==
    ASSUME NEW q \in Seq(SessionIds), IsInjective(q), NEW s
    PROVE  /\ Without(q, s) \in Seq(SessionIds)
           /\ Len(Without(q, s)) = IF Waits(q, s) THEN Len(q) - 1 ELSE Len(q)
           /\ ~Waits(Without(q, s), s)
           /\ \A t : t # s => (Waits(Without(q, s), t) <=> Waits(q, t))
           /\ IsInjective(Without(q, s))
           /\ Without(q, s) # <<>> => \A i \in 1 .. Len(q) : q[i] # s =>
                \E j \in 1 .. i : q[j] = Head(Without(q, s))
<1> DEFINE w == Without(q, s)
<1>1. CASE ~Waits(q, s)
  <2>1. w = q
    BY <1>1 DEF Without
  <2>2. ASSUME q # <<>>, NEW i \in 1 .. Len(q) PROVE \E j \in 1 .. i : q[j] = Head(q)
    BY <2>2
  <2> QED
    BY <1>1, <2>1, <2>2
<1>2. CASE Waits(q, s)
  <2> DEFINE p == CHOOSE i \in 1 .. Len(q) : q[i] = s
  <2>1. p \in 1 .. Len(q) /\ q[p] = s
    BY <1>2 DEF Waits
  <2> HIDE DEF p
  <2>2. w = SubSeq(q, 1, p - 1) \o SubSeq(q, p + 1, Len(q))
    BY <1>2 DEF Without, RemoveAt, p
  <2> DEFINE u == SubSeq(q, 1, p - 1)
             v == SubSeq(q, p + 1, Len(q))
  <2>a. /\ u \in Seq(SessionIds) /\ Len(u) = p - 1
        /\ \A k \in 1 .. p - 1 : u[k] = q[k]
    <3>1. p - 1 \in Int /\ \A k \in 1 .. p - 1 : q[k] \in SessionIds
      BY <2>1
    <3>2. /\ u \in Seq(SessionIds) /\ Len(u) = IF 1 <= p - 1 THEN p - 1 - 1 + 1 ELSE 0
          /\ \A k \in 1 .. p - 1 - 1 + 1 : u[k] = q[1 + k - 1]
      BY <3>1, SubSeqProperties
    <3> QED
      BY <2>1, <3>2
  <2>b. /\ v \in Seq(SessionIds) /\ Len(v) = Len(q) - p
        /\ \A k \in 1 .. Len(q) - p : v[k] = q[p + k]
    <3>1. p + 1 \in Int /\ Len(q) \in Int /\ \A k \in p + 1 .. Len(q) : q[k] \in SessionIds
      BY <2>1
    <3>2. /\ v \in Seq(SessionIds)
          /\ Len(v) = IF p + 1 <= Len(q) THEN Len(q) - (p + 1) + 1 ELSE 0
          /\ \A k \in 1 .. Len(q) - (p + 1) + 1 : v[k] = q[(p + 1) + k - 1]
      BY <3>1, SubSeqProperties
    <3> QED
      BY <2>1, <3>2
  <2> HIDE DEF u, v
  <2>c. /\ w \in Seq(SessionIds) /\ Len(w) = Len(u) + Len(v)
        /\ \A k \in 1 .. Len(u) + Len(v) :
                w[k] = IF k <= Len(u) THEN u[k] ELSE v[k - Len(u)]
    <3>1. w = u \o v
      BY <2>2 DEF u, v
    <3> HIDE DEF w
    <3>2. u \in Seq(SessionIds) /\ v \in Seq(SessionIds)
      BY <2>a, <2>b
    <3>3. /\ u \o v \in Seq(SessionIds) /\ Len(u \o v) = Len(u) + Len(v)
          /\ \A k \in 1 .. Len(u) + Len(v) :
                (u \o v)[k] = IF k <= Len(u) THEN u[k] ELSE v[k - Len(u)]
      BY <3>2, ConcatProperties
    <3> QED
      BY <3>1, <3>3
  <2> HIDE DEF w
  <2>3. w \in Seq(SessionIds) /\ Len(w) = Len(q) - 1
    BY <2>1, <2>a, <2>b, <2>c
  <2>4. ASSUME NEW k \in 1 .. Len(w) PROVE w[k] = IF k < p THEN q[k] ELSE q[k + 1]
    <3>1. CASE k < p
      BY <2>1, <2>3, <2>a, <2>b, <2>c, <3>1
    <3>2. CASE k >= p
      <4>1. k - (p - 1) \in 1 .. Len(q) - p /\ p + (k - (p - 1)) = k + 1
        BY <2>1, <2>3, <3>2
      <4>2. k \in 1 .. Len(u) + Len(v) /\ ~(k <= Len(u)) /\ Len(u) = p - 1
        BY <2>1, <2>3, <2>a, <2>b, <2>c, <3>2
      <4>3. w[k] = v[k - (p - 1)]
        BY <2>c, <4>2
      <4> QED
        BY <2>1, <2>b, <3>2, <4>1, <4>3
    <3> QED
      BY <2>1, <3>1, <3>2
  <2>5. \A i \in 1 .. Len(q) : i # p => q[i] # s
    BY <2>1 DEF IsInjective
  <2>6. ~Waits(w, s)
    BY <2>1, <2>3, <2>4, <2>5 DEF Waits
  <2>7. ASSUME NEW t, t # s PROVE Waits(w, t) <=> Waits(q, t)
    <3>1. ASSUME Waits(w, t) PROVE Waits(q, t)
      <4>1. PICK k \in 1 .. Len(w) : w[k] = t
        BY <3>1 DEF Waits
      <4> QED
        BY <2>1, <2>3, <2>4, <4>1 DEF Waits
    <3>2. ASSUME Waits(q, t) PROVE Waits(w, t)
      <4>1. PICK i \in 1 .. Len(q) : q[i] = t
        BY <3>2 DEF Waits
      <4>2. CASE i < p
        BY <2>1, <2>3, <2>4, <4>1, <4>2 DEF Waits
      <4>3. CASE i > p
        <5>1. i - 1 \in 1 .. Len(w) /\ w[i - 1] = t
          BY <2>1, <2>3, <2>4, <4>1, <4>3
        <5> QED
          BY <5>1 DEF Waits
      <4> QED
        BY <2>1, <2>7, <4>1, <4>2, <4>3
    <3> QED
      BY <3>1, <3>2
  <2>8. IsInjective(w)
    <3> SUFFICES ASSUME NEW a \in 1 .. Len(w), NEW b \in 1 .. Len(w), w[a] = w[b]
                 PROVE  a = b
      BY <2>3 DEF IsInjective
    <3> DEFINE m(k) == IF k < p THEN k ELSE k + 1
    <3>1. m(a) \in DOMAIN q /\ m(b) \in DOMAIN q
      BY <2>1, <2>3
    <3>2. q[m(a)] = q[m(b)]
      BY <2>4
    <3>3. m(a) = m(b)
      BY <3>1, <3>2 DEF IsInjective
    <3> QED
      BY <2>1, <2>3, <3>3
  <2>9. ASSUME w # <<>>, NEW i \in 1 .. Len(q), q[i] # s PROVE \E j \in 1 .. i : q[j] = Head(w)
    <3>1. 1 \in 1 .. Len(w) /\ Head(w) = w[1]
      BY <2>3, <2>9
    <3>2. CASE p = 1
      <4>1. Head(w) = q[2] /\ i # 1
        BY <2>1, <2>4, <2>9, <3>1, <3>2
      <4> QED
        BY <4>1
    <3>3. CASE p # 1
      <4>1. Head(w) = q[1]
        BY <2>1, <2>4, <3>1, <3>3
      <4> QED
        BY <4>1
    <3> QED
      BY <3>2, <3>3
  <2> QED
    BY <1>2, <2>3, <2>6, <2>7, <2>8, <2>9 DEF w
<1> QED
  BY <1>1, <1>2

LEMMA TailInjective ==
    ASSUME NEW q \in Seq(SessionIds), q # <<>>, IsInjective(q)
    PROVE  IsInjective(Tail(q))
<1>1. /\ DOMAIN Tail(q) = 1 .. Len(q) - 1 /\ DOMAIN q = 1 .. Len(q) /\ Len(q) \in Nat
      /\ \A k \in 1 .. Len(q) - 1 : Tail(q)[k] = q[k + 1]
  OBVIOUS
<1> SUFFICES ASSUME NEW a \in 1 .. Len(q) - 1, NEW b \in 1 .. Len(q) - 1,
                    Tail(q)[a] = Tail(q)[b]
             PROVE  a = b
  BY <1>1 DEF IsInjective
<1>2. a + 1 \in DOMAIN q /\ b + 1 \in DOMAIN q /\ q[a + 1] = q[b + 1]
  BY <1>1
<1> QED
  BY <1>2 DEF IsInjective

LEMMA AppendWaiter ==
    ASSUME NEW q \in Seq(SessionIds), IsInjective(q), NEW s \in SessionIds, ~Waits(q, s)
    PROVE  /\ IsInjective(Append(q, s))
           /\ \A t : Waits(Append(q, s), t) <=> Waits(q, t) \/ t = s
<1> DEFINE n == Len(q) + 1
<1>1. /\ DOMAIN Append(q, s) = 1 .. n /\ DOMAIN q = 1 .. Len(q) /\ Len(q) \in Nat
      /\ Len(Append(q, s)) = n /\ Append(q, s)[n] = s
      /\ \A k \in 1 .. Len(q) : Append(q, s)[k] = q[k]
  OBVIOUS
<1>2. \A k \in 1 .. Len(q) : q[k] # s
  BY DEF Waits
<1>3. IsInjective(Append(q, s))
  BY <1>1, <1>2 DEF IsInjective
<1>4. \A t : Waits(Append(q, s), t) <=> Waits(q, t) \/ t = s
  BY <1>1 DEF Waits
<1> QED
  BY <1>3, <1>4

\* What RemoveQueuedPlayer lets in leaves the queue; nobody else does, but s.
LEMMA RemoveQueuedPlayerType ==
    ASSUME NEW q \in Seq(SessionIds), IsInjective(q), NEW size, NEW s
    PROVE  LET r == RemoveQueuedPlayer(q, size, s)
           IN /\ r.queue \in Seq(SessionIds)
              /\ IsInjective(r.queue)
              /\ r.found = Waits(q, s)
              /\ r.accepted \subseteq {t \in SessionIds : Waits(q, t)} \ {s}
              /\ \A t : Waits(r.queue, t) <=> Waits(q, t) /\ t # s /\ t \notin r.accepted
              /\ Len(r.queue) = Len(Without(q, s)) - (IF r.accepted = {} THEN 0 ELSE 1)
              /\ r.accepted # {} <=> SessionsWithout(q, size, s) < Limit /\ Without(q, s) # <<>>
              /\ r.accepted # {} => r.accepted = {Head(Without(q, s))}
<1> DEFINE r == RemoveQueuedPlayer(q, size, s)
<1> DEFINE w == Without(q, s)
           accept == SessionsWithout(q, size, s) < Limit /\ w # <<>>
<1>1. /\ w \in Seq(SessionIds)
      /\ IsInjective(w)
      /\ ~Waits(w, s)
      /\ \A t : t # s => (Waits(w, t) <=> Waits(q, t))
  BY WithoutType
<1>2. r = [queue |-> IF accept THEN Tail(w) ELSE w,
           accepted |-> IF accept THEN {Head(w)} ELSE {},
           found |-> Waits(q, s)]
  BY DEF RemoveQueuedPlayer, Removal
<1> HIDE DEF w, r
<1>3. CASE ~accept
  <2>1. r.queue = w /\ r.accepted = {} /\ r.found = Waits(q, s)
    BY <1>2, <1>3
  <2>2. ASSUME NEW t PROVE Waits(r.queue, t) <=> Waits(q, t) /\ t # s /\ t \notin r.accepted
    BY <1>1, <2>1
  <2>3. Len(w) \in Nat
    BY <1>1
  <2> QED
    BY <1>1, <1>3, <2>1, <2>2, <2>3 DEF w, r
<1>4. CASE accept
  <2>1. /\ Head(w) = w[1] /\ Len(w) > 0 /\ Len(w) \in Nat
        /\ Tail(w) \in Seq(SessionIds) /\ Len(Tail(w)) = Len(w) - 1
        /\ \A k \in 1 .. Len(Tail(w)) : Tail(w)[k] = w[k + 1]
    BY <1>1, <1>4
  <2>2. IsInjective(Tail(w))
    BY <1>1, <2>1 DEF IsInjective
  <2>3. ASSUME NEW t PROVE Waits(Tail(w), t) <=> Waits(w, t) /\ t # Head(w)
    <3>1. ASSUME Waits(Tail(w), t) PROVE Waits(w, t) /\ t # Head(w)
      <4>1. PICK k \in 1 .. Len(Tail(w)) : Tail(w)[k] = t
        BY <3>1 DEF Waits
      <4>2. k + 1 \in 1 .. Len(w) /\ w[k + 1] = t
        BY <2>1, <4>1
      <4> QED
        BY <1>1, <2>1, <4>2 DEF Waits, IsInjective
    <3>2. ASSUME Waits(w, t), t # Head(w) PROVE Waits(Tail(w), t)
      <4>1. PICK k \in 1 .. Len(w) : w[k] = t
        BY <3>2 DEF Waits
      <4>2. k - 1 \in 1 .. Len(Tail(w)) /\ Tail(w)[k - 1] = t
        BY <2>1, <3>2, <4>1
      <4> QED
        BY <4>2 DEF Waits
    <3> QED
      BY <3>1, <3>2
  <2>4. Waits(w, Head(w)) /\ Head(w) \in SessionIds
    BY <1>1, <2>1 DEF Waits
  <2>5. r.queue = Tail(w) /\ r.accepted = {Head(w)} /\ r.found = Waits(q, s)
    BY <1>2, <1>4
  <2>6. Waits(q, Head(w)) /\ Head(w) # s
    BY <1>1, <2>4
  <2>7. ASSUME NEW t PROVE Waits(r.queue, t) <=> Waits(q, t) /\ t # s /\ t \notin r.accepted
    BY <1>1, <2>3, <2>5
  <2>8. Len(r.queue) = Len(w) - (IF r.accepted = {} THEN 0 ELSE 1)
    BY <2>1, <2>5
  <2> QED
    BY <1>1, <1>4, <2>1, <2>2, <2>4, <2>5, <2>6, <2>7, <2>8 DEF w, r
<1> QED
  BY <1>3, <1>4

-----------------------------------------------------------------------------
(***************************************************************************)
(* Steps that leave the table, the login queue and the new sessions alone. *)
(***************************************************************************)
LEMMA UpdatedType ==
    ASSUME TypeOK, PlaceOK, pc \in {"packets", "callbacks"}
    PROVE  /\ current \in Accounts
           /\ Updated \in SessionIds
           /\ session[Updated] \in Session
BY DEF TypeOK, PlaceOK, Listed, Updated

LEMMA OneSession ==
    ASSUME TypeOK, NEW s \in SessionIds, NEW r \in Session, Alike(r, session[s]),
           session' = [session EXCEPT ![s] = r]
    PROVE  /\ session' \in [SessionIds -> Session]
           /\ \A t \in SessionIds : Alike(session'[t], session[t])
BY DEF TypeOK, Alike

LEMMA QuietStep ==
    ASSUME IInv, \A t \in SessionIds : Alike(session'[t], session[t]), UNCHANGED table
    PROVE  TableOK' /\ NewOK' /\ WaitersOK'
<1> USE DEF table, IInv
<1>1. \A s : Present(s)' <=> Present(s)
  BY DEF Present
<1>2. TableOK'
  BY NoSessionType DEF TableOK, TypeOK, Alike
<1>3. NewOK'
  <2>1. \A i \in 1 .. Len(addSessQueue) : addSessQueue[i] \in SessionIds
    BY DEF TypeOK
  <2> QED
    BY <1>1, <2>1 DEF NewOK, Alike
<1>4. WaitersOK'
  <2>1. \A i \in 1 .. Len(m_QueuedPlayer) : m_QueuedPlayer[i] \in SessionIds
    BY DEF TypeOK
  <2> QED
    BY <1>1, <2>1 DEF WaitersOK, Alike
<1> QED
  BY <1>2, <1>3, <1>4

LEMMA QuietPlace ==
    ASSUME PlaceOK, UNCHANGED <<pc, place, m_sessions>>
    PROVE  PlaceOK'
BY DEF PlaceOK, place, Listed

LEMMA SavesType == ASSUME NEW s \in SessionIds PROVE Saves(s) \in Seq(Query)
<1>1. [op |-> "save", session |-> s, key |-> 0] \in Query
  BY DEF Query
<1> QED
  BY <1>1 DEF Saves

\* One session changes, in fields that matter to no other part.
LEMMA OneSessionStep ==
    ASSUME IInv, NEW s \in SessionIds, NEW r \in Session, Alike(r, session[s]),
           session' = [session EXCEPT ![s] = r], UNCHANGED table
    PROVE  /\ TableOK' /\ NewOK' /\ WaitersOK'
           /\ session' \in [SessionIds -> Session]
BY OneSession, QuietStep DEF IInv

LEMMA NetworkStep == IInv /\ Network => IInv'
<1> SUFFICES ASSUME IInv, NEW s \in SessionIds,
                    \/ Connect(s) \/ RealmCloses(s) \/ InstanceCloses(s)
                    \/ ClientLogin(s) \/ ClientLogout(s) \/ ClientLink(s)
                    \/ HandleConnectToFailed(s)
             PROVE  IInv'
  BY DEF Network
<1> DEFINE r == session[s]
<1>0. r \in Session
  BY DEF IInv, TypeOK
<1>a. ASSUME NEW n \in Session, Alike(n, r), session' = [session EXCEPT ![s] = n],
             _linkSocketQueue' \in Seq(Link), UNCHANGED <<world, asyncQueue>>
      PROVE  IInv'
  <2>1. UNCHANGED table /\ UNCHANGED <<pc, place, m_sessions>>
    BY <1>a DEF world, table
  <2>2. TableOK' /\ NewOK' /\ WaitersOK' /\ session' \in [SessionIds -> Session]
    BY <1>a, <2>1, OneSessionStep
  <2>3. PlaceOK'
    BY <2>1, QuietPlace DEF IInv
  <2>4. TypeOK'
    BY <1>a, <2>2 DEF IInv, TypeOK, world, table, place
  <2> QED
    BY <2>2, <2>3, <2>4 DEF IInv
<1>1. CASE Connect(s)
  <2> DEFINE n == [Unborn EXCEPT !.life = "alive", !.realm = "open"]
  <2>1. n \in Session /\ n.life = "alive" /\ n.init = "no"
    <3>1. Unborn \in Session
      BY UnbornType
    <3> HIDE DEF n
    <3>2. n = [Unborn EXCEPT !.life = "alive", !.realm = "open"]
      BY DEF n
    <3> QED
      BY <3>1, <3>2 DEF Session, SocketState, Unborn
  <2> HIDE DEF n
  <2>2. session' = [session EXCEPT ![s] = n] /\ r.life = "unborn"
    BY <1>1 DEF Connect, n
  <2>3. addSessQueue' = Append(addSessQueue, s)
        /\ UNCHANGED <<m_sessions, m_QueuedPlayer, pc, current, todo>>
    BY <1>1 DEF Connect, place
  <2>4. TypeOK'
    BY <1>1, <2>1, <2>2, <2>3 DEF IInv, TypeOK, Connect, place
  <2>5. \A t : Present(t)' <=> Present(t)
    BY <2>3 DEF Present
  <2>6. ~Present(s)
    BY <2>2, NoSessionType DEF IInv, TableOK, Present, TypeOK
  <2>7. TableOK'
    BY <2>2, <2>3, <2>6, NoSessionType DEF IInv, TableOK, TypeOK, Present
  <2>8. NewOK'
    <3>1. addSessQueue \in Seq(SessionIds) /\ session \in [SessionIds -> Session]
      BY DEF IInv, TypeOK
    <3>2. \A i \in 1 .. Len(addSessQueue) : addSessQueue[i] # s /\ addSessQueue[i] \in SessionIds
      BY <2>2, <3>1 DEF IInv, NewOK
    <3>3. /\ Len(addSessQueue') = Len(addSessQueue) + 1
          /\ DOMAIN addSessQueue' = 1 .. Len(addSessQueue) + 1
          /\ \A i \in 1 .. Len(addSessQueue) : addSessQueue'[i] = addSessQueue[i]
          /\ addSessQueue'[Len(addSessQueue) + 1] = s
      BY <2>3, <3>1
    <3>4. IsInjective(addSessQueue')
      BY <3>1, <3>2, <3>3 DEF IInv, NewOK, IsInjective
    <3>5. ASSUME NEW i \in 1 .. Len(addSessQueue')
          PROVE  (/\ session[addSessQueue[i]].life = "alive"
                  /\ session[addSessQueue[i]].init = "no"
                  /\ ~Present(addSessQueue[i]))'
      <4>1. CASE i = Len(addSessQueue) + 1
        BY <2>1, <2>2, <2>5, <2>6, <3>1, <3>3, <4>1
      <4>2. CASE i \in 1 .. Len(addSessQueue)
        <5>1. session'[addSessQueue'[i]] = session[addSessQueue[i]]
          BY <2>2, <3>1, <3>2, <3>3, <4>2
        <5> QED
          BY <2>5, <3>3, <4>2, <5>1 DEF IInv, NewOK
      <4> QED
        BY <3>1, <3>3, <3>5, <4>1, <4>2
    <3> QED
      BY <3>4, <3>5 DEF NewOK
  <2>9. WaitersOK'
    <3>1. ASSUME NEW i \in 1 .. Len(m_QueuedPlayer)
          PROVE  session'[m_QueuedPlayer[i]] = session[m_QueuedPlayer[i]]
      <4>1. m_QueuedPlayer[i] \in SessionIds /\ Present(m_QueuedPlayer[i])
        BY DEF IInv, TypeOK, WaitersOK
      <4> QED
        BY <2>2, <2>6, <4>1 DEF IInv, TypeOK
    <3> QED
      BY <2>3, <2>5, <3>1 DEF IInv, WaitersOK
  <2> QED
    BY <2>3, <2>4, <2>7, <2>8, <2>9 DEF IInv, PlaceOK, Listed
<1>2. CASE RealmCloses(s)
  <2> DEFINE n == [r EXCEPT !.realm = "closed"]
  <2>1. n \in Session /\ Alike(n, r)
    BY <1>0 DEF Session, Alike, SocketState
  <2> QED
    BY <1>2, <1>a, <2>1 DEF RealmCloses, IInv, TypeOK
<1>3. CASE InstanceCloses(s)
  <2> DEFINE n == [r EXCEPT !.instance = "closed"]
  <2>1. n \in Session /\ Alike(n, r)
    BY <1>0 DEF Session, Alike, SocketState
  <2> QED
    BY <1>3, <1>a, <2>1 DEF InstanceCloses, IInv, TypeOK
<1>4. CASE ClientLogin(s)
  <2> DEFINE q == Append(r._recvQueue, "login")
             n == [r EXCEPT !._recvQueue = q, !.client = "login"]
  <2>0. q \in Seq({"login", "logout"})
    BY <1>0 DEF Session
  <2> HIDE DEF q
  <2>1. n \in Session /\ Alike(n, r)
    BY <1>0, <2>0 DEF Session, Alike
  <2> QED
    BY <1>4, <1>a, <2>1 DEF ClientLogin, q, IInv, TypeOK
<1>5. CASE ClientLogout(s)
  <2> DEFINE q == Append(r._recvQueue, "logout")
             n == [r EXCEPT !._recvQueue = q]
  <2>0. q \in Seq({"login", "logout"})
    BY <1>0 DEF Session
  <2> HIDE DEF q
  <2>1. n \in Session /\ Alike(n, r)
    BY <1>0, <2>0 DEF Session, Alike
  <2> QED
    BY <1>5, <1>a, <2>1 DEF ClientLogout, q, IInv, TypeOK
<1>6. CASE ClientLink(s)
  <2> DEFINE n == [r EXCEPT !.linked = TRUE]
  <2>1. n \in Session /\ Alike(n, r) /\ r.key \in Nat
    BY <1>0 DEF Session, Alike
  <2>2. [session |-> s, key |-> r.key] \in Link
    BY <2>1 DEF Link
  <2>3. _linkSocketQueue' \in Seq(Link)
    BY <1>6, <2>2 DEF ClientLink, IInv, TypeOK
  <2> QED
    BY <1>6, <1>a, <2>1, <2>3 DEF ClientLink
<1>7. CASE HandleConnectToFailed(s)
  <2>1. CASE r.serial < LastAttempt /\ session' = [session EXCEPT ![s] =
                SendConnectToInstance(r, r.serial + 1)]
    <3>1. r.serial + 1 \in 0 .. LastAttempt
      BY <1>0, <2>1, BoundAssumption DEF Session
    <3> QED
      BY <1>0, <1>7, <1>a, <2>1, <3>1, SendConnectType
         DEF HandleConnectToFailed, IInv, TypeOK
  <2>2. CASE session' = [session EXCEPT ![s] = AbortLogin(r)]
    BY <1>0, <1>7, <1>a, <2>2, AbortLoginType DEF HandleConnectToFailed, IInv, TypeOK
  <2> QED
    BY <1>7, <2>1, <2>2 DEF HandleConnectToFailed
<1> QED
  BY <1>1, <1>2, <1>3, <1>4, <1>5, <1>6, <1>7

LEMMA WorkerStep == IInv /\ DatabaseWorker => IInv'
<1> SUFFICES ASSUME IInv, DatabaseWorker PROVE IInv'
  OBVIOUS
<1> DEFINE q == Head(asyncQueue)
<1>1. q \in Query /\ Tail(asyncQueue) \in Seq(Query) /\ asyncQueue' = Tail(asyncQueue)
  BY DEF IInv, TypeOK, DatabaseWorker
<1>2. UNCHANGED table /\ UNCHANGED <<pc, place, m_sessions, _linkSocketQueue>>
  BY DEF DatabaseWorker, world, table
<1>3. session' \in [SessionIds -> Session] /\ \A t \in SessionIds : Alike(session'[t], session[t])
  <2>1. CASE session' = session
    BY <2>1 DEF IInv, TypeOK, Alike
  <2>2. CASE session' = [session EXCEPT ![q.session].ready = TRUE]
    <3> DEFINE n == [session[q.session] EXCEPT !.ready = TRUE]
    <3>1. q.session \in SessionIds
      BY <1>1 DEF Query
    <3>2. session[q.session] \in Session
      BY <3>1 DEF IInv, TypeOK
    <3>3. n \in Session /\ Alike(n, session[q.session])
      BY <3>2, ReadyType
    <3> QED
      BY <2>2, <3>1, <3>3, OneSession DEF IInv
  <2> QED
    BY <2>1, <2>2 DEF DatabaseWorker
<1>4. TypeOK'
  BY <1>1, <1>2, <1>3 DEF IInv, TypeOK, table, place
<1> QED
  BY <1>2, <1>3, <1>4, QuietStep, QuietPlace DEF IInv

-----------------------------------------------------------------------------
(***************************************************************************)
(* The world thread: the steps that change one session.                    *)
(***************************************************************************)
LEMMA LinkStep == IInv /\ ProcessLinkInstanceSocket => IInv'
<1> SUFFICES ASSUME IInv, ProcessLinkInstanceSocket PROVE IInv'
  OBVIOUS
<1> DEFINE l == Head(_linkSocketQueue)
           s == m_sessions[AccountOf[l.session]]
           r == [session[s] EXCEPT !.instance = "open"]
<1>1. l \in Link /\ _linkSocketQueue' \in Seq(Link)
  <2>1. _linkSocketQueue # <<>> /\ _linkSocketQueue' = Tail(_linkSocketQueue)
    BY DEF ProcessLinkInstanceSocket
  <2>2. _linkSocketQueue \in Seq(Link)
    BY DEF IInv, TypeOK
  <2> QED
    BY <2>1, <2>2
<1>2. UNCHANGED table /\ UNCHANGED <<pc, place, m_sessions>>
  BY DEF ProcessLinkInstanceSocket, world, table
<1>a. ASSUME session' \in [SessionIds -> Session], asyncQueue' \in Seq(Query),
             TableOK', NewOK', WaitersOK'
      PROVE  IInv'
  BY <1>1, <1>2, <1>a, QuietPlace DEF IInv, TypeOK, table, place
<1>3. CASE UNCHANGED <<session, asyncQueue>>
  <2>1. \A t \in SessionIds : Alike(session'[t], session[t])
    BY <1>3 DEF Alike
  <2> QED
    BY <1>2, <1>3, <1>a, <2>1, QuietStep DEF IInv, TypeOK
<1>4. ASSUME s = l.session PROVE s \in SessionIds /\ r \in Session /\ Alike(r, session[s])
  <2>1. s \in SessionIds
    BY <1>1, <1>4 DEF Link
  <2>2. session[s] \in Session
    BY <2>1 DEF IInv, TypeOK
  <2> QED
    BY <2>1, <2>2 DEF Session, Alike, SocketState
<1>5. CASE s = l.session /\ session' = [session EXCEPT ![s] = KickPlayer(r)]
           /\ UNCHANGED asyncQueue
  <2>1. KickPlayer(r) \in Session /\ Alike(KickPlayer(r), session[s])
    BY <1>4, <1>5, KickPlayerType DEF Alike
  <2> QED
    BY <1>2, <1>4, <1>5, <1>a, <2>1, OneSessionStep DEF IInv, TypeOK
<1>6. CASE s = l.session
           /\ session' = [session EXCEPT ![s] = [r EXCEPT !.load = r.key, !.ready = FALSE]]
           /\ asyncQueue' = Append(asyncQueue, [op |-> "load", session |-> s, key |-> r.key])
  <2> DEFINE n == [r EXCEPT !.load = r.key, !.ready = FALSE]
  <2>1. s \in SessionIds /\ r \in Session /\ Alike(r, session[s])
    BY <1>4, <1>6
  <2> HIDE DEF s, r
  <2>2. n \in Session /\ Alike(n, session[s]) /\ r.key \in Nat
    BY <2>1 DEF Session, Alike
  <2>3. asyncQueue' \in Seq(Query)
    BY <1>6, <2>1, <2>2 DEF IInv, TypeOK, Query
  <2> QED
    BY <1>2, <1>6, <1>a, <2>1, <2>2, <2>3, OneSessionStep
<1> QED
  BY <1>3, <1>5, <1>6 DEF ProcessLinkInstanceSocket

LEMMA PacketStep == IInv /\ HandlePacket => IInv'
<1> SUFFICES ASSUME IInv, HandlePacket PROVE IInv'
  OBVIOUS
<1> DEFINE s == Updated
           rest == Tail(session[s]._recvQueue)
           r == [session[s] EXCEPT !._recvQueue = rest]
<1>1. s \in SessionIds /\ session[s] \in Session
  BY UpdatedType DEF IInv, HandlePacket
<1>2. UNCHANGED <<table, m_sessions, _linkSocketQueue, pc, current, todo, stopping>>
  BY DEF HandlePacket, table
<1>3. processedPackets' \in Nat
  <2>1. processedPackets' = processedPackets + 1
    BY DEF HandlePacket
  <2> QED
    BY <2>1 DEF IInv, TypeOK
<1>4. r \in Session /\ Alike(r, session[s])
  <2>1. rest \in Seq({"login", "logout"})
    <3>1. session[s]._recvQueue \in Seq({"login", "logout"})
      BY <1>1 DEF Session
    <3>2. session[s]._recvQueue # <<>>
      BY DEF HandlePacket
    <3> QED
      BY <3>1, <3>2
  <2> HIDE DEF rest, s
  <2> QED
    BY <1>1, <2>1 DEF Session, Alike
<1>a. ASSUME NEW n \in Session, Alike(n, r), session' = [session EXCEPT ![s] = n],
             asyncQueue' \in Seq(Query)
      PROVE  IInv'
  <2>1. Alike(n, session[s])
    BY <1>4, <1>a DEF Alike
  <2>2. TableOK' /\ NewOK' /\ WaitersOK' /\ session' \in [SessionIds -> Session]
    BY <1>1, <1>2, <1>a, <2>1, OneSessionStep
  <2>3. PlaceOK'
    BY <1>2 DEF IInv, PlaceOK, Listed
  <2>4. TypeOK'
    BY <1>2, <1>3, <1>a, <2>2 DEF IInv, TypeOK, table
  <2> QED
    BY <2>2, <2>3, <2>4 DEF IInv
<1>5. asyncQueue \in Seq(Query) /\ asyncQueue \o Saves(s) \in Seq(Query)
  BY <1>1, SavesType DEF IInv, TypeOK
<1>6. r = [session[s] EXCEPT !._recvQueue = Tail(@)]
  BY <1>1 DEF Session
<1> HIDE DEF s, r
<1>7. CASE session' = [session EXCEPT ![s] =
                IF r.m_inQueue THEN r ELSE HandlePlayerLoginOpcode(r)] /\ UNCHANGED asyncQueue
  <2> DEFINE n == IF r.m_inQueue THEN r ELSE HandlePlayerLoginOpcode(r)
  <2>1. n \in Session /\ Alike(n, r)
    BY <1>4, LoginOpcodeType DEF Alike
  <2> QED
    BY <1>5, <1>7, <1>a, <2>1
<1>8. CASE session' = [session EXCEPT ![s] = LogoutPlayer(r)]
           /\ asyncQueue' = asyncQueue \o Saves(s)
  BY <1>4, <1>5, <1>8, <1>a, LogoutPlayerType
<1>9. CASE (\E granted \in BOOLEAN :
                session' = [session EXCEPT ![s] = [r EXCEPT !._logoutTime = granted]])
           /\ UNCHANGED asyncQueue
  <2>1. PICK granted \in BOOLEAN :
            session' = [session EXCEPT ![s] = [r EXCEPT !._logoutTime = granted]]
    BY <1>9
  <2>2. [r EXCEPT !._logoutTime = granted] \in Session
        /\ Alike([r EXCEPT !._logoutTime = granted], r)
    BY <1>4 DEF Session, Alike
  <2> QED
    BY <1>5, <1>9, <1>a, <2>1, <2>2
<1> QED
  <2> USE <1>6 DEF s
  <2> QED
    BY <1>7, <1>8, <1>9 DEF HandlePacket

LEMMA CallbackStep == IInv /\ (CharacterReady \/ LogoutDue) => IInv'
<1> SUFFICES ASSUME IInv, CharacterReady \/ LogoutDue PROVE IInv'
  OBVIOUS
<1> DEFINE s == Updated
<1>1. s \in SessionIds /\ session[s] \in Session
  BY UpdatedType DEF IInv, CharacterReady, LogoutDue
<1>2. UNCHANGED <<world, _linkSocketQueue>>
  BY DEF CharacterReady, LogoutDue
<1>a. ASSUME NEW n \in Session, Alike(n, session[s]), session' = [session EXCEPT ![s] = n],
             asyncQueue' \in Seq(Query)
      PROVE  IInv'
  <2>1. UNCHANGED table /\ UNCHANGED <<pc, place, m_sessions, _linkSocketQueue>>
    BY <1>2 DEF world, table
  <2>2. TableOK' /\ NewOK' /\ WaitersOK' /\ session' \in [SessionIds -> Session]
    BY <1>1, <1>a, <2>1, OneSessionStep
  <2>3. PlaceOK'
    BY <2>1, QuietPlace DEF IInv
  <2>4. TypeOK'
    BY <1>a, <2>1, <2>2 DEF IInv, TypeOK, table, place
  <2> QED
    BY <2>2, <2>3, <2>4 DEF IInv
<1>3. asyncQueue \in Seq(Query) /\ asyncQueue \o Saves(s) \in Seq(Query)
  BY <1>1, SavesType DEF IInv, TypeOK
<1>4. CASE CharacterReady
  BY <1>1, <1>3, <1>4, <1>a, PlayerLoginType, LoadFailsType DEF CharacterReady
<1>5. CASE LogoutDue
  BY <1>1, <1>3, <1>5, <1>a, LogoutPlayerType DEF LogoutDue
<1> QED
  BY <1>4, <1>5

LEMMA AccountStep == IInv /\ AccountReady => IInv'
<1> SUFFICES ASSUME IInv, AccountReady PROVE IInv'
  OBVIOUS
<1> DEFINE s == Updated
           n == InitializeSessionCallback(session[s])
<1>1. s \in SessionIds /\ session[s] \in Session
  BY UpdatedType DEF IInv, AccountReady
<1>2. n \in Session /\ n.life = session[s].life
  BY <1>1, InitializeType
<1>3. session' = [session EXCEPT ![s] = n] /\ session[s].init = "pending"
  BY DEF AccountReady
<1>4. UNCHANGED <<m_sessions, m_QueuedPlayer, addSessQueue, _linkSocketQueue, asyncQueue,
                  pc, place>>
  BY DEF AccountReady, world, table
<1> HIDE DEF n, s
<1>5. session' \in [SessionIds -> Session]
      /\ \A t \in SessionIds : session'[t].life = session[t].life
  BY <1>1, <1>2, <1>3 DEF IInv, TypeOK
<1>6. \A t : Present(t)' <=> Present(t)
  BY <1>4 DEF Present
<1>7. TypeOK'
  BY <1>4, <1>5 DEF IInv, TypeOK, place
<1>8. TableOK' /\ NewOK'
  <2>0. \A a \in Accounts : m_sessions[a] # NoSession => m_sessions[a] \in SessionIds
    BY DEF IInv, TypeOK
  <2>1. TableOK'
    BY <1>4, <1>5, <2>0 DEF IInv, TableOK
  <2>2. \A i \in 1 .. Len(addSessQueue) :
            addSessQueue[i] \in SessionIds /\ session'[addSessQueue[i]] = session[addSessQueue[i]]
    <3>1. Present(s)
      BY UpdatedType DEF s, Updated, Present, IInv, AccountReady
    <3> QED
      BY <1>3, <3>1 DEF IInv, TypeOK, NewOK
  <2>3. NewOK'
    BY <1>4, <1>5, <1>6, <2>2 DEF IInv, NewOK
  <2> QED
    BY <2>1, <2>3
<1>9. WaitersOK'
  <2>1. ASSUME NEW i \in 1 .. Len(m_QueuedPlayer)
        PROVE  session'[m_QueuedPlayer[i]] = session[m_QueuedPlayer[i]]
    <3>1. m_QueuedPlayer[i] \in SessionIds /\ session[m_QueuedPlayer[i]].init = "no"
      BY DEF IInv, TypeOK, WaitersOK
    <3> QED
      BY <1>3, <3>1 DEF IInv, TypeOK
  <2> QED
    BY <1>4, <1>6, <2>1 DEF IInv, WaitersOK
<1> QED
  BY <1>4, <1>7, <1>8, <1>9, QuietPlace DEF IInv

\* The steps of the loops themselves.
LEMMA LoopStep ==
    IInv /\ (LinksDone \/ AddsDone \/ PickSession \/ LoopDone \/ PacketsDone) => IInv'
<1> SUFFICES ASSUME IInv,
                    LinksDone \/ AddsDone \/ PickSession \/ LoopDone \/ PacketsDone
             PROVE  IInv'
  OBVIOUS
<1>1. UNCHANGED <<m_sessions, m_QueuedPlayer, addSessQueue, _linkSocketQueue, session,
                  asyncQueue, stopping>>
  BY DEF LinksDone, AddsDone, PickSession, LoopDone, PacketsDone, table, place
<1>2. TableOK' /\ NewOK' /\ WaitersOK'
  <2>1. \A s : Present(s)' <=> Present(s)
    BY <1>1 DEF Present
  <2> QED
    BY <1>1, <2>1 DEF IInv, TableOK, NewOK, WaitersOK
<1>3. Listed' = Listed
  BY <1>1 DEF Listed
<1>4. /\ pc' \in {"links", "adds", "pick", "packets", "callbacks", "stopped"}
      /\ current' \in Accounts \cup {NoAccount}
      /\ todo' \in SUBSET Accounts
      /\ processedPackets' \in Nat
      /\ PlaceOK'
  <2>0. TypeOK /\ PlaceOK /\ Listed \subseteq Accounts
    BY DEF IInv, Listed
  <2>1. CASE LinksDone
    BY <1>3, <2>0, <2>1 DEF TypeOK, PlaceOK, LinksDone, place
  <2>2. CASE AddsDone
    BY <1>3, <2>0, <2>2 DEF TypeOK, PlaceOK, AddsDone
  <2>3. CASE PickSession
    BY <1>3, <2>0, <2>3 DEF TypeOK, PlaceOK, PickSession
  <2>4. CASE LoopDone
    BY <1>3, <2>0, <2>4 DEF TypeOK, PlaceOK, LoopDone, place
  <2>5. CASE PacketsDone
    BY <1>3, <2>0, <2>5 DEF TypeOK, PlaceOK, PacketsDone
  <2> QED
    BY <2>1, <2>2, <2>3, <2>4, <2>5
<1> QED
  BY <1>1, <1>2, <1>4 DEF IInv, TypeOK

LEMMA KeepStep == IInv /\ KeepSession => IInv'
<1> SUFFICES ASSUME IInv, KeepSession PROVE IInv'
  OBVIOUS
<1> DEFINE s == Updated
           e == IF Lost(session[s]) THEN Remaining(session[s]) ELSE session[s].expireTime
           n == [session[s] EXCEPT !.expireTime = e]
<1>1. s \in SessionIds /\ session[s] \in Session
  BY UpdatedType DEF IInv, KeepSession, UpdateEnds
<1>2. e \in 0 .. ExpireTicks
  BY <1>1, BoundAssumption DEF Session, Remaining
<1>3. session' = [session EXCEPT ![s] = n]
  BY <1>1 DEF KeepSession, IInv, TypeOK
<1>4. n \in Session /\ Alike(n, session[s])
  <2> HIDE DEF e, s
  <2> QED
    BY <1>1, <1>2 DEF Session, Alike
<1>5. UNCHANGED <<table, m_sessions, _linkSocketQueue, asyncQueue, todo, processedPackets, stopping>>
      /\ pc' = "pick" /\ current' = NoAccount
  BY DEF KeepSession, table
<1> HIDE DEF n, s
<1>6. TableOK' /\ NewOK' /\ WaitersOK' /\ session' \in [SessionIds -> Session]
  BY <1>1, <1>3, <1>4, <1>5, OneSessionStep
<1>7. TypeOK'
  BY <1>5, <1>6 DEF IInv, TypeOK, table
<1>8. PlaceOK'
  BY <1>5 DEF IInv, PlaceOK, Listed
<1> QED
  BY <1>6, <1>7, <1>8 DEF IInv

LEMMA KickAllStep == IInv /\ KickAll => IInv'
<1> SUFFICES ASSUME IInv, KickAll PROVE IInv'
  OBVIOUS
<1>1. /\ m_QueuedPlayer' = <<>> /\ stopping' = TRUE
      /\ UNCHANGED <<m_sessions, addSessQueue, _linkSocketQueue, asyncQueue, pc, current, todo,
                     processedPackets>>
  BY DEF KickAll
<1>2. session' \in [SessionIds -> Session] /\ \A t \in SessionIds : Alike(session'[t], session[t])
  <2>1. \A t \in SessionIds : session[t] \in Session
    BY DEF IInv, TypeOK
  <2> QED
    BY <2>1, KickPlayerType DEF KickAll, Alike
<1>3. \A s : Present(s)' <=> Present(s)
  BY <1>1 DEF Present
<1>4. TypeOK'
  BY <1>1, <1>2 DEF IInv, TypeOK
<1>5. TableOK'
  <2>1. \A a \in Accounts : m_sessions[a] # NoSession => m_sessions[a] \in SessionIds
    BY DEF IInv, TypeOK
  <2> QED
    BY <1>1, <1>2, <2>1 DEF IInv, TableOK, Alike
<1>6. NewOK'
  <2>1. \A i \in 1 .. Len(addSessQueue) : addSessQueue[i] \in SessionIds
    BY DEF IInv, TypeOK
  <2> QED
    BY <1>1, <1>2, <1>3, <2>1 DEF IInv, NewOK, Alike
<1>7. WaitersOK'
  BY <1>1 DEF WaitersOK, IsInjective
<1>8. PlaceOK'
  BY <1>1 DEF IInv, PlaceOK, Listed
<1> QED
  BY <1>4, <1>5, <1>6, <1>7, <1>8 DEF IInv

LEMMA RefuseStep == IInv /\ RefuseSession => IInv'
<1> SUFFICES ASSUME IInv, RefuseSession PROVE IInv'
  OBVIOUS
<1> DEFINE s == Head(addSessQueue)
<1>1. /\ pc = "adds" /\ addSessQueue # <<>> /\ addSessQueue' = Tail(addSessQueue)
      /\ session' = [session EXCEPT ![s] = Deleted]
      /\ UNCHANGED <<m_sessions, m_QueuedPlayer, _linkSocketQueue, asyncQueue, pc, place>>
  BY DEF RefuseSession
<1>2. addSessQueue \in Seq(SessionIds) /\ session \in [SessionIds -> Session]
  BY DEF IInv, TypeOK
<1>3. /\ s = addSessQueue[1] /\ s \in SessionIds
      /\ addSessQueue' \in Seq(SessionIds) /\ Len(addSessQueue') = Len(addSessQueue) - 1
      /\ \A i \in 1 .. Len(addSessQueue') :
            i + 1 \in 1 .. Len(addSessQueue) /\ addSessQueue'[i] = addSessQueue[i + 1]
      /\ Len(addSessQueue) \in Nat /\ 1 \in 1 .. Len(addSessQueue)
  BY <1>1, <1>2
<1> HIDE DEF s
<1>4. ~Present(s)
  BY <1>3 DEF IInv, NewOK
<1>5. \A t : Present(t)' <=> Present(t)
  BY <1>1 DEF Present
<1>6. session' \in [SessionIds -> Session]
      /\ \A t \in SessionIds : t # s => session'[t] = session[t]
  BY <1>1, <1>2, <1>3, UnbornType
<1>7. TypeOK'
  BY <1>1, <1>3, <1>6 DEF IInv, TypeOK, place
<1>8. TableOK'
  <2>1. \A a \in Accounts : m_sessions[a] # NoSession => m_sessions[a] \in SessionIds \ {s}
    BY <1>4 DEF IInv, TypeOK, Present
  <2> QED
    BY <1>1, <1>6, <2>1 DEF IInv, TableOK
<1>9. NewOK'
  <2>1. IsInjective(addSessQueue')
    BY <1>1, <1>2, TailInjective DEF IInv, NewOK
  <2>2. ASSUME NEW i \in 1 .. Len(addSessQueue')
        PROVE  (/\ session[addSessQueue[i]].life = "alive"
                /\ session[addSessQueue[i]].init = "no"
                /\ ~Present(addSessQueue[i]))'
    <3>1. addSessQueue[i + 1] # s
      <4>1. IsInjective(addSessQueue)
        BY DEF IInv, NewOK
      <4>2. i + 1 \in DOMAIN addSessQueue /\ 1 \in DOMAIN addSessQueue /\ i + 1 # 1
        BY <1>2, <1>3
      <4> QED
        BY <1>3, <4>1, <4>2 DEF IsInjective
    <3>2. addSessQueue[i + 1] \in SessionIds
      BY <1>2, <1>3
    <3> QED
      BY <1>3, <1>5, <1>6, <3>1, <3>2 DEF IInv, NewOK
  <2> QED
    BY <2>1, <2>2 DEF NewOK
<1>10. WaitersOK'
  <2>1. \A i \in 1 .. Len(m_QueuedPlayer) : m_QueuedPlayer[i] \in SessionIds \ {s}
    BY <1>4 DEF IInv, TypeOK, WaitersOK
  <2> QED
    BY <1>1, <1>5, <1>6, <2>1 DEF IInv, WaitersOK
<1> QED
  BY <1>1, <1>7, <1>8, <1>9, <1>10, QuietPlace DEF IInv

-----------------------------------------------------------------------------
(***************************************************************************)
(* A session goes, and a session comes.                                    *)
(***************************************************************************)
\* RemoveQueuedPlayer twice, as RemoveSession calls it.
LEMMA RemoveTwice ==
    ASSUME NEW q \in Seq(SessionIds), IsInjective(q), NEW size, NEW s
    PROVE  LET first == RemoveQueuedPlayer(q, size, s)
               second == RemoveQueuedPlayer(first.queue, size, s)
               accepted == first.accepted \cup second.accepted
           IN /\ second.queue \in Seq(SessionIds)
              /\ IsInjective(second.queue)
              /\ accepted \subseteq {t \in SessionIds : Waits(q, t)} \ {s}
              /\ \A t : Waits(second.queue, t) <=> Waits(q, t) /\ t # s /\ t \notin accepted
<1> DEFINE first == RemoveQueuedPlayer(q, size, s)
           second == RemoveQueuedPlayer(first.queue, size, s)
<1>1. /\ first.queue \in Seq(SessionIds) /\ IsInjective(first.queue)
      /\ first.accepted \subseteq {t \in SessionIds : Waits(q, t)} \ {s}
      /\ \A t : Waits(first.queue, t) <=> Waits(q, t) /\ t # s /\ t \notin first.accepted
  BY RemoveQueuedPlayerType
<1> HIDE DEF first
<1>2. /\ second.queue \in Seq(SessionIds) /\ IsInjective(second.queue)
      /\ second.accepted \subseteq {t \in SessionIds : Waits(first.queue, t)} \ {s}
      /\ \A t : Waits(second.queue, t) <=>
                    Waits(first.queue, t) /\ t # s /\ t \notin second.accepted
  BY <1>1, RemoveQueuedPlayerType
<1> HIDE DEF second
<1> QED
  BY <1>1, <1>2 DEF first, second

LEMMA WaitersPresent ==
    ASSUME WaitersOK, NEW t, Waits(m_QueuedPlayer, t)
    PROVE  Present(t) /\ session[t].m_inQueue /\ session[t].init = "no"
BY DEF WaitersOK, Waits

LEMMA RemoveStep == IInv /\ RemoveSession => IInv'
<1> SUFFICES ASSUME IInv, RemoveSession PROVE IInv'
  OBVIOUS
<1> DEFINE s == Updated
           first == RemoveQueuedPlayer(m_QueuedPlayer, Cardinality(Listed), s)
           second == RemoveQueuedPlayer(first.queue, Cardinality(Listed), s)
           accepted == first.accepted \cup second.accepted
<1>1. current \in Accounts /\ s \in SessionIds /\ s = m_sessions[current]
  BY UpdatedType DEF IInv, RemoveSession, UpdateEnds, Updated
<1>2. current \in Listed \ todo /\ todo \subseteq Listed
  BY DEF IInv, PlaceOK, RemoveSession, UpdateEnds
<1>3. /\ m_QueuedPlayer' = second.queue
      /\ session' = [t \in SessionIds |->
            CASE t = s -> Deleted
              [] t \in accepted -> InitializeSession(session[t])
              [] OTHER -> session[t]]
      /\ asyncQueue' = asyncQueue \o Saves(s)
      /\ m_sessions' = [m_sessions EXCEPT ![current] = NoSession]
      /\ pc' = "pick" /\ current' = NoAccount
      /\ UNCHANGED <<addSessQueue, _linkSocketQueue, todo, processedPackets, stopping>>
  BY DEF RemoveSession
<1>4. /\ m_QueuedPlayer \in Seq(SessionIds) /\ addSessQueue \in Seq(SessionIds)
      /\ session \in [SessionIds -> Session] /\ asyncQueue \in Seq(Query)
      /\ m_sessions \in [Accounts -> SessionIds \cup {NoSession}]
  BY DEF IInv, TypeOK
<1>5. /\ second.queue \in Seq(SessionIds) /\ IsInjective(second.queue)
      /\ accepted \subseteq {t \in SessionIds : Waits(m_QueuedPlayer, t)} \ {s}
      /\ \A t : Waits(second.queue, t) <=> Waits(m_QueuedPlayer, t) /\ t # s /\ t \notin accepted
  BY <1>4, RemoveTwice DEF IInv, WaitersOK
<1> HIDE DEF s, first, second, accepted
<1>6. \A t \in SessionIds :
        /\ t = s => session'[t] = Deleted
        /\ t # s /\ t \in accepted => session'[t] = InitializeSession(session[t])
        /\ t # s /\ t \notin accepted => session'[t] = session[t]
  <2> TAKE t \in SessionIds
  <2>1. session'[t] = CASE t = s -> Deleted
                        [] t \in accepted -> InitializeSession(session[t])
                        [] OTHER -> session[t]
    BY <1>3
  <2>2. s \notin accepted
    BY <1>5
  <2>3. CASE t = s
    BY <2>1, <2>2, <2>3
  <2>4. CASE t # s /\ t \in accepted
    BY <2>1, <2>4
  <2>5. CASE t # s /\ t \notin accepted
    BY <2>1, <2>5
  <2> QED
    BY <2>2, <2>3, <2>4, <2>5
<1>7. session' \in [SessionIds -> Session] /\ \A t \in SessionIds \ {s} : session'[t].life = session[t].life
  <2>1. \A t \in SessionIds : session'[t] \in Session
    BY <1>4, <1>6, UnbornType, InitializeType
  <2> QED
    BY <1>3, <1>4, <1>6, <2>1, InitializeType
<1>8. \A t \in SessionIds : Present(t)' <=> Present(t) /\ t # s
  <2>1. \A a \in Accounts : m_sessions[a] = s <=> a = current
    BY <1>1, NoSessionType DEF IInv, TableOK
  <2> QED
    BY <1>1, <1>3, <1>4, <2>1, NoSessionType DEF Present
<1>9. TypeOK'
  <2>1. asyncQueue' \in Seq(Query)
    BY <1>1, <1>3, <1>4, SavesType
  <2>2. m_sessions' \in [Accounts -> SessionIds \cup {NoSession}]
    BY <1>3, <1>4
  <2> QED
    BY <1>3, <1>5, <1>7, <2>1, <2>2 DEF IInv, TypeOK
<1>10. TableOK'
  <2>1. ASSUME NEW a \in Accounts, m_sessions'[a] # NoSession
        PROVE  a # current /\ m_sessions'[a] = m_sessions[a] /\ m_sessions[a] \in SessionIds \ {s}
    BY <1>1, <1>3, <1>4, <2>1, NoSessionType DEF IInv, TableOK
  <2> QED
    BY <1>7, <2>1 DEF IInv, TableOK
<1>11. NewOK'
  <2>1. ASSUME NEW i \in 1 .. Len(addSessQueue)
        PROVE  /\ session'[addSessQueue[i]].life = "alive"
               /\ session'[addSessQueue[i]].init = "no"
               /\ ~Present(addSessQueue[i])'
    <3>1. /\ addSessQueue[i] \in SessionIds /\ ~Present(addSessQueue[i])
          /\ session[addSessQueue[i]].life = "alive" /\ session[addSessQueue[i]].init = "no"
      BY <1>4 DEF IInv, NewOK
    <3>2. Present(s)
      BY <1>1 DEF Present
    <3>3. ~Waits(m_QueuedPlayer, addSessQueue[i])
      BY <3>1, WaitersPresent DEF IInv
    <3>4. session'[addSessQueue[i]] = session[addSessQueue[i]]
      BY <1>5, <1>6, <3>1, <3>2, <3>3
    <3> QED
      BY <1>3, <1>8, <3>1, <3>4
  <2> QED
    BY <1>3, <2>1 DEF IInv, NewOK
<1>12. WaitersOK'
  <2>1. ASSUME NEW i \in 1 .. Len(m_QueuedPlayer')
        PROVE  (/\ Present(m_QueuedPlayer[i])
                /\ session[m_QueuedPlayer[i]].m_inQueue
                /\ session[m_QueuedPlayer[i]].init = "no")'
    <3>0. PICK t \in SessionIds : t = m_QueuedPlayer'[i]
      BY <1>3, <1>5
    <3>1. Waits(second.queue, t) /\ t \in SessionIds
      BY <1>3, <1>5, <3>0 DEF Waits
    <3>2. Waits(m_QueuedPlayer, t) /\ t # s /\ t \notin accepted
      BY <1>5, <3>1
    <3>3. Present(t) /\ session[t].m_inQueue /\ session[t].init = "no"
      BY <3>2, WaitersPresent DEF IInv
    <3>4. session'[t] = session[t]
      BY <1>6, <3>1, <3>2
    <3>5. Present(t)'
      BY <1>8, <3>1, <3>2, <3>3
    <3> QED
      BY <3>0, <3>3, <3>4, <3>5 DEF Present
  <2> QED
    BY <1>3, <1>5, <2>1 DEF WaitersOK
<1>13. PlaceOK'
  <2>1. todo \subseteq Listed'
    BY <1>1, <1>2, <1>3, <1>4 DEF Listed
  <2> QED
    BY <1>3, <2>1 DEF PlaceOK
<1> QED
  BY <1>9, <1>10, <1>11, <1>12, <1>13 DEF IInv

LEMMA AddStep == IInv /\ AddSession_ => IInv'
<1> SUFFICES ASSUME IInv, AddSession_ PROVE IInv'
  OBVIOUS
<1> DEFINE s == Head(addSessQueue)
           a == AccountOf[s]
           old == m_sessions[a]
           removal == IF old = NoSession
                      THEN [queue |-> m_QueuedPlayer, accepted |-> {}, found |-> FALSE]
                      ELSE RemoveQueuedPlayer(m_QueuedPlayer, Cardinality(Listed), old)
           all == Cardinality(Listed \cup {a})
           others == IF removal.found THEN all ELSE all - 1
           wait == others >= Limit /\ a \notin Privileged
           queue == removal.queue
           accepted == removal.accepted
<1>1. /\ addSessQueue # <<>> /\ addSessQueue' = Tail(addSessQueue)
      /\ m_sessions' = [m_sessions EXCEPT ![a] = s]
      /\ m_QueuedPlayer' = IF wait THEN Append(queue, s) ELSE queue
      /\ session' = [t \in SessionIds |->
            CASE t = old -> Deleted
              [] t = s -> IF wait THEN [session[t] EXCEPT !.m_inQueue = TRUE]
                                  ELSE InitializeSession(session[t])
              [] t \in accepted -> InitializeSession(session[t])
              [] OTHER -> session[t]]
      /\ asyncQueue' = IF old = NoSession THEN asyncQueue ELSE asyncQueue \o Saves(old)
      /\ UNCHANGED <<_linkSocketQueue, pc, place>>
      /\ pc = "adds"
  BY DEF AddSession_
<1>2. /\ m_QueuedPlayer \in Seq(SessionIds) /\ addSessQueue \in Seq(SessionIds)
      /\ session \in [SessionIds -> Session] /\ asyncQueue \in Seq(Query)
      /\ m_sessions \in [Accounts -> SessionIds \cup {NoSession}]
  BY DEF IInv, TypeOK
<1>3. /\ s = addSessQueue[1] /\ s \in SessionIds
      /\ addSessQueue' \in Seq(SessionIds) /\ Len(addSessQueue') = Len(addSessQueue) - 1
      /\ \A i \in 1 .. Len(addSessQueue') :
            i + 1 \in 1 .. Len(addSessQueue) /\ addSessQueue'[i] = addSessQueue[i + 1]
      /\ Len(addSessQueue) \in Nat /\ 1 \in 1 .. Len(addSessQueue)
  BY <1>1, <1>2
<1>4. /\ queue \in Seq(SessionIds) /\ IsInjective(queue)
      /\ accepted \subseteq {t \in SessionIds : Waits(m_QueuedPlayer, t)} \ {old}
      /\ \A t : Waits(queue, t) <=> Waits(m_QueuedPlayer, t) /\ t # old /\ t \notin accepted
  <2>1. IsInjective(m_QueuedPlayer)
    BY DEF IInv, WaitersOK
  <2>2. CASE old = NoSession
    <3>1. ~Waits(m_QueuedPlayer, old)
      BY <1>2, <2>2, NoSessionType DEF Waits
    <3>2. queue = m_QueuedPlayer /\ accepted = {}
      BY <2>2
    <3> QED
      BY <1>2, <2>1, <3>1, <3>2
  <2>3. CASE old # NoSession
    <3>1. removal = RemoveQueuedPlayer(m_QueuedPlayer, Cardinality(Listed), old)
      BY <2>3
    <3> HIDE DEF removal, old
    <3> QED
      BY <1>2, <2>1, <3>1, RemoveQueuedPlayerType
  <2> QED
    BY <2>2, <2>3
<1> HIDE DEF s, removal, wait
<1>5. a \in Accounts /\ ~Present(s) /\ session[s].life = "alive" /\ session[s].init = "no"
  BY <1>3, AccountAssumption DEF IInv, NewOK
<1>6. /\ old \in SessionIds \cup {NoSession}
      /\ old \in SessionIds => Present(old)
      /\ old # s /\ ~Waits(m_QueuedPlayer, s) /\ s \notin accepted
  <2>1. old \in SessionIds \cup {NoSession}
    BY <1>2, <1>5
  <2>2. old \in SessionIds => Present(old)
    BY <1>5 DEF Present
  <2>3. ~Waits(m_QueuedPlayer, s)
    BY <1>5, WaitersPresent DEF IInv
  <2>4. s \notin accepted
    BY <1>4, <2>3
  <2> QED
    BY <1>3, <1>5, <2>1, <2>2, <2>3, <2>4, NoSessionType
<1> HIDE DEF a, accepted, queue
<1>7. \A t \in SessionIds :
        /\ t = s => session'[t] = IF wait THEN [session[t] EXCEPT !.m_inQueue = TRUE]
                                          ELSE InitializeSession(session[t])
        /\ t = old => session'[t] = Deleted
        /\ t # s /\ t # old /\ t \in accepted => session'[t] = InitializeSession(session[t])
        /\ t # s /\ t # old /\ t \notin accepted => session'[t] = session[t]
  <2> TAKE t \in SessionIds
  <2> HIDE DEF old
  <2>1. session'[t] = CASE t = old -> Deleted
                        [] t = s -> IF wait THEN [session[t] EXCEPT !.m_inQueue = TRUE]
                                            ELSE InitializeSession(session[t])
                        [] t \in accepted -> InitializeSession(session[t])
                        [] OTHER -> session[t]
    BY <1>1
  <2>2. old # s /\ s \notin accepted /\ old \notin accepted
    BY <1>4, <1>6
  <2>3. CASE t = old
    BY <2>1, <2>2, <2>3
  <2>4. CASE t = s
    BY <2>1, <2>2, <2>4
  <2>5. CASE t # s /\ t # old /\ t \in accepted
    BY <2>1, <2>5
  <2>6. CASE t # s /\ t # old /\ t \notin accepted
    BY <2>1, <2>6
  <2> QED
    BY <2>2, <2>3, <2>4, <2>5, <2>6
<1> HIDE DEF old
<1>8. session' \in [SessionIds -> Session]
      /\ \A t \in SessionIds : t # old => session'[t].life = session[t].life
  <2>1. [session[s] EXCEPT !.m_inQueue = TRUE] \in Session
        /\ [session[s] EXCEPT !.m_inQueue = TRUE].life = session[s].life
    <3>1. session[s] \in Session
      BY <1>2, <1>3
    <3> QED
      BY <3>1 DEF Session
  <2>2. ASSUME NEW t \in SessionIds
        PROVE  session'[t] \in Session /\ (t # old => session'[t].life = session[t].life)
    <3>1. session[t] \in Session
      BY <1>2
    <3>2. InitializeSession(session[t]) \in Session
          /\ InitializeSession(session[t]).life = session[t].life
      BY <3>1, InitializeType
    <3> QED
      BY <1>6, <1>7, <2>1, <3>1, <3>2, UnbornType
  <2>3. DOMAIN session' = SessionIds /\ session' = [t \in SessionIds |-> session'[t]]
    BY <1>1
  <2> QED
    BY <2>2, <2>3
<1>9. \A t \in SessionIds : Present(t)' <=> t = s \/ (Present(t) /\ t # old)
  <2>1. \A b \in Accounts : m_sessions[b] = old /\ old # NoSession => b = a
    BY <1>5 DEF IInv, TableOK, old
  <2>2. m_sessions[a] = old
    BY DEF old
  <2> QED
    BY <1>1, <1>2, <1>5, <1>6, <2>1, <2>2, NoSessionType DEF Present
<1>10. TypeOK'
  <2>1. asyncQueue' \in Seq(Query)
    BY <1>1, <1>2, <1>6, SavesType
  <2>2. m_sessions' \in [Accounts -> SessionIds \cup {NoSession}]
    BY <1>1, <1>2, <1>3, <1>5
  <2>3. m_QueuedPlayer' \in Seq(SessionIds)
    BY <1>1, <1>3, <1>4
  <2> QED
    BY <1>1, <1>3, <1>8, <2>1, <2>2, <2>3 DEF IInv, TypeOK, place
<1>11. TableOK'
  <2>1. ASSUME NEW b \in Accounts, m_sessions'[b] # NoSession
        PROVE  session'[m_sessions'[b]].life = "alive" /\ AccountOf[m_sessions'[b]] = b
    <3>1. CASE b = a
      <4>1. m_sessions'[b] = s
        BY <1>1, <1>2, <1>5, <3>1
      <4> QED
        BY <1>3, <1>5, <1>6, <1>8, <3>1, <4>1 DEF a
    <3>2. CASE b # a
      <4>1. m_sessions'[b] = m_sessions[b] /\ m_sessions[b] \in SessionIds
        BY <1>1, <1>2, <2>1, <3>2
      <4>2. session[m_sessions[b]].life = "alive" /\ AccountOf[m_sessions[b]] = b
        BY <2>1, <4>1 DEF IInv, TableOK
      <4>3. m_sessions[b] # old
        BY <1>5, <2>1, <3>2, <4>1 DEF IInv, TableOK, old
      <4> QED
        BY <1>8, <4>1, <4>2, <4>3
    <3> QED
      BY <3>1, <3>2
  <2> QED
    BY <2>1 DEF TableOK
<1>12. NewOK'
  <2>1. IsInjective(addSessQueue')
    BY <1>1, <1>2, TailInjective DEF IInv, NewOK
  <2>2. ASSUME NEW i \in 1 .. Len(addSessQueue')
        PROVE  (/\ session[addSessQueue[i]].life = "alive"
                /\ session[addSessQueue[i]].init = "no"
                /\ ~Present(addSessQueue[i]))'
    <3>0. PICK t \in SessionIds : t = addSessQueue[i + 1]
      BY <1>2, <1>3
    <3>1. t # s
      <4>1. i + 1 \in DOMAIN addSessQueue /\ 1 \in DOMAIN addSessQueue /\ i + 1 # 1
        BY <1>2, <1>3
      <4>2. IsInjective(addSessQueue)
        BY DEF IInv, NewOK
      <4> QED
        BY <1>3, <3>0, <4>1, <4>2 DEF IsInjective
    <3>2. ~Present(t) /\ session[t].life = "alive" /\ session[t].init = "no"
      BY <1>3, <3>0 DEF IInv, NewOK
    <3>3. t # old /\ ~Waits(m_QueuedPlayer, t)
      BY <1>6, <3>2, WaitersPresent DEF IInv
    <3>4. session'[t] = session[t]
      BY <1>4, <1>7, <3>1, <3>3
    <3>5. ~Present(t)'
      BY <1>9, <3>1, <3>2
    <3>6. addSessQueue'[i] = t
      BY <1>3, <3>0
    <3> QED
      BY <3>2, <3>4, <3>5, <3>6 DEF Present
  <2> QED
    BY <2>1, <2>2 DEF NewOK
<1>13. WaitersOK'
  <2>1. ~Waits(queue, s)
    BY <1>4, <1>6
  <2>2. IsInjective(m_QueuedPlayer') /\ \A t : Waits(m_QueuedPlayer', t) <=> Waits(queue, t) \/ (wait /\ t = s)
    BY <1>1, <1>3, <1>4, <2>1, AppendWaiter
  <2>3. ASSUME NEW i \in 1 .. Len(m_QueuedPlayer')
        PROVE  (/\ Present(m_QueuedPlayer[i])
                /\ session[m_QueuedPlayer[i]].m_inQueue
                /\ session[m_QueuedPlayer[i]].init = "no")'
    <3>0. PICK t \in SessionIds : t = m_QueuedPlayer'[i]
      BY <1>10 DEF TypeOK
    <3>1. Waits(m_QueuedPlayer', t)
      BY <3>0 DEF Waits
    <3>2. CASE wait /\ t = s
      <4>1. session[s] \in Session /\ session'[s] = [session[s] EXCEPT !.m_inQueue = TRUE]
        BY <1>2, <1>3, <1>7, <3>2
      <4>2. session'[s].m_inQueue /\ session'[s].init = "no"
        BY <1>5, <4>1 DEF Session
      <4>3. Present(t)'
        BY <1>9, <3>2
      <4> QED
        BY <3>0, <3>2, <4>2, <4>3 DEF Present
    <3>3. CASE Waits(queue, t)
      <4>1. Waits(m_QueuedPlayer, t) /\ t # old /\ t \notin accepted /\ t # s
        BY <1>4, <1>6, <3>3
      <4>2. Present(t) /\ session[t].m_inQueue /\ session[t].init = "no"
        BY <4>1, WaitersPresent DEF IInv
      <4>3. session'[t] = session[t]
        BY <1>7, <4>1
      <4>4. Present(t)'
        BY <1>9, <4>1, <4>2
      <4> QED
        BY <3>0, <4>2, <4>3, <4>4 DEF Present
    <3> QED
      BY <2>2, <3>1, <3>2, <3>3
  <2> QED
    BY <2>2, <2>3 DEF WaitersOK
<1>14. PlaceOK'
  BY <1>1, <1>2, <1>3, <1>5, NoSessionType DEF IInv, PlaceOK, Listed, place
<1> QED
  BY <1>10, <1>11, <1>12, <1>13, <1>14 DEF IInv

LEMMA InitIInv == Init => IInv
<1> SUFFICES ASSUME Init PROVE IInv
  OBVIOUS
<1>1. TypeOK
  <2>1. <<>> \in Seq(SessionIds) /\ <<>> \in Seq(Link) /\ <<>> \in Seq(Query)
    OBVIOUS
  <2>2. session \in [SessionIds -> Session]
    <3> HIDE DEF Unborn
    <3> QED
      BY UnbornType DEF Init
  <2> QED
    BY <2>1, <2>2 DEF Init, TypeOK
<1>2. TableOK /\ PlaceOK
  BY DEF Init, TableOK, PlaceOK
<1>3. NewOK /\ WaitersOK
  BY DEF Init, NewOK, WaitersOK, IsInjective
<1> QED
  BY <1>1, <1>2, <1>3 DEF IInv

LEMMA NextIInv == IInv /\ [Next]_vars => IInv'
<1> SUFFICES ASSUME IInv, [Next]_vars PROVE IInv'
  OBVIOUS
<1>1. CASE UNCHANGED vars
  BY <1>1 DEF vars, IInv, TypeOK, TableOK, NewOK, WaitersOK, PlaceOK, Listed, Present
<1>2. CASE Network
  BY <1>2, NetworkStep
<1>3. CASE DatabaseWorker
  BY <1>3, WorkerStep
<1>4. CASE UpdateSessions
  BY <1>4, LinkStep, RefuseStep, AddStep, LoopStep, PacketStep, AccountStep, CallbackStep,
     KeepStep, RemoveStep DEF UpdateSessions
<1>5. CASE KickAll
  BY <1>5, KickAllStep
<1> QED
  BY <1>1, <1>2, <1>3, <1>4, <1>5 DEF Next, Stopped

LEMMA Invariance == Spec => []IInv
BY InitIInv, NextIInv, PTL DEF Spec

-----------------------------------------------------------------------------
\* Every variable of the sessions keeps its type.
THEOREM TypeCorrect == Spec => []TypeOK
<1>1. IInv => TypeOK
  BY DEF IInv
<1> QED
  BY <1>1, Invariance, PTL

\* No pointer of the table, of the login queue or among the new sessions is to a
\* deleted session, whoever logs in, comes back, is replaced or leaves.
THEOREM NothingDangles == Spec => []NoDanglingSession
<1>1. IInv => NoDanglingSession
  <2> SUFFICES ASSUME IInv PROVE NoDanglingSession
    OBVIOUS
  <2>1. \A s \in ToSet(addSessQueue) : session[s].life = "alive" /\ ~Present(s)
    BY DEF ToSet, IInv, NewOK, TypeOK
  <2>2. \A s \in SessionIds : Waits(m_QueuedPlayer, s) =>
            Present(s) /\ session[s].m_inQueue /\ session[s].init = "no"
    BY WaitersPresent DEF IInv
  <2> QED
    BY <2>1, <2>2 DEF IInv, TableOK, WaitersOK, NoDanglingSession
<1> QED
  BY <1>1, Invariance, PTL

-----------------------------------------------------------------------------
(***************************************************************************)
(* The player limit.                                                       *)
(***************************************************************************)
LEMMA ListedFinite == IsFiniteSet(Listed) /\ Cardinality(Listed) \in Nat
BY FiniteAssumption, FS_Subset, FS_CardinalityType DEF Listed

\* While the queue of n sessions only exists because the limit is reached, what
\* RemoveQueuedPlayer leaves of it does so without one session more.
LEMMA RemovalKeepsFull ==
    ASSUME NEW q \in Seq(SessionIds), IsInjective(q), NEW s, NEW n \in Nat,
           q # <<>> => n - Len(q) >= Limit
    PROVE  LET r == RemoveQueuedPlayer(q, n, s)
           IN /\ q = <<>> => r.queue = <<>> /\ r.accepted = {} /\ ~r.found
              /\ q # <<>> => n - 1 - Len(r.queue) >= Limit
              /\ r.accepted # {} => n - 1 - Len(q) < Limit /\ ~Waits(q, s)
<1> DEFINE r == RemoveQueuedPlayer(q, n, s)
           w == Without(q, s)
           active == SessionsWithout(q, n, s)
<1>1. /\ r.queue \in Seq(SessionIds)
      /\ r.found = Waits(q, s)
      /\ Len(r.queue) = Len(w) - (IF r.accepted = {} THEN 0 ELSE 1)
      /\ r.accepted # {} <=> active < Limit /\ w # <<>>
  BY RemoveQueuedPlayerType
<1>2. w \in Seq(SessionIds) /\ Len(w) = IF Waits(q, s) THEN Len(q) - 1 ELSE Len(q)
  BY WithoutType
<1>3. active = IF ~Waits(q, s) /\ n - Len(q) > 0 THEN n - Len(q) - 1 ELSE n - Len(q)
  BY DEF SessionsWithout
<1>4. Limit \in Nat /\ Limit > 0 /\ Len(q) \in Nat /\ Len(w) \in Nat /\ Len(r.queue) \in Nat
  BY LimitAssumption, <1>1, <1>2
<1> HIDE DEF r, w, active
<1>5. CASE q = <<>>
  <2>1. Len(q) = 0 /\ ~Waits(q, s)
    BY <1>5 DEF Waits
  <2>2. w = <<>>
    BY <1>2, <2>1
  <2>3. r.accepted = {} /\ Len(r.queue) = 0
    BY <1>1, <1>2, <1>4, <2>1, <2>2
  <2> QED
    BY <1>1, <1>5, <2>1, <2>3 DEF r
<1>6. CASE q # <<>>
  <2>1. n - Len(q) >= Limit
    BY <1>6
  <2>2. CASE Waits(q, s)
    <3>1. active = n - Len(q) /\ r.accepted = {}
      BY <1>1, <1>3, <1>4, <2>1, <2>2
    <3>2. Len(r.queue) = Len(q) - 1
      BY <1>1, <1>2, <1>4, <2>2, <3>1
    <3>3. n - 1 - Len(r.queue) >= Limit
      BY <1>4, <2>1, <3>2
    <3> QED
      BY <1>6, <3>1, <3>3 DEF r
  <2>3. CASE ~Waits(q, s)
    <3>1. active = n - Len(q) - 1 /\ w # <<>> /\ Len(w) = Len(q)
      <4>1. Len(q) > 0
        BY <1>4, <1>6
      <4> QED
        BY <1>2, <1>3, <1>4, <2>1, <2>3, <4>1
    <3>2. n - 1 - Len(r.queue) >= Limit
      <4>1. CASE r.accepted = {}
        BY <1>1, <1>4, <3>1, <4>1
      <4>2. CASE r.accepted # {}
        BY <1>1, <1>4, <2>1, <3>1, <4>2
      <4> QED
        BY <4>1, <4>2
    <3>3. r.accepted # {} => n - 1 - Len(q) < Limit
      BY <1>1, <1>4, <3>1
    <3> QED
      BY <1>6, <2>3, <3>2, <3>3 DEF r
  <2> QED
    BY <2>2, <2>3
<1> QED
  BY <1>5, <1>6

\* What RemoveSession does to the queue: the second call lets nobody in.
LEMMA RemovedTwiceKeepsFull ==
    ASSUME NEW q \in Seq(SessionIds), IsInjective(q), NEW s, NEW n \in Nat,
           q # <<>> => n - Len(q) >= Limit
    PROVE  LET first == RemoveQueuedPlayer(q, n, s)
               second == RemoveQueuedPlayer(first.queue, n, s)
           IN /\ second.queue # <<>> => n - 1 - Len(second.queue) >= Limit
              /\ second.accepted = {}
<1> DEFINE first == RemoveQueuedPlayer(q, n, s)
           second == RemoveQueuedPlayer(first.queue, n, s)
<1>1. /\ first.queue \in Seq(SessionIds) /\ IsInjective(first.queue)
      /\ q = <<>> => first.queue = <<>>
      /\ q # <<>> => n - 1 - Len(first.queue) >= Limit
  BY RemoveQueuedPlayerType, RemovalKeepsFull
<1> HIDE DEF first
<1>2. first.queue # <<>> => n - Len(first.queue) >= Limit
  BY <1>1, LimitAssumption
<1>3. /\ second.queue \in Seq(SessionIds)
      /\ first.queue = <<>> => second.queue = <<>> /\ second.accepted = {}
      /\ first.queue # <<>> => n - 1 - Len(second.queue) >= Limit
      /\ second.accepted # {} => n - 1 - Len(first.queue) < Limit
  BY <1>1, <1>2, RemoveQueuedPlayerType, RemovalKeepsFull
<1> HIDE DEF second
<1>4. ASSUME first.queue # <<>> PROVE ~(n - 1 - Len(first.queue) < Limit)
  <2>1. Len(first.queue) \in Nat /\ n - 1 - Len(first.queue) >= Limit /\ Limit \in Nat
    BY <1>1, <1>4, LimitAssumption
  <2>2. \A k \in Nat : n - 1 - k >= Limit => ~(n - 1 - k < Limit)
    BY <2>1
  <2> QED
    BY <2>1, <2>2
<1> QED
  BY <1>3, <1>4 DEF first, second

\* The steps of sessions other than the two that remove or add one.
Quiet ==
    /\ UNCHANGED m_sessions
    /\ m_QueuedPlayer' = m_QueuedPlayer \/ m_QueuedPlayer' = <<>>
    /\ \A t \in SessionIds : session[t].init = "no" => session'[t].init = "no"

\* One session changes: its init is as before, or it was not "no" before.
LEMMA QuietUpdate ==
    ASSUME TypeOK, NEW s \in SessionIds, NEW r,
           session' = [session EXCEPT ![s] = r], session[s].init = "no" => r.init = "no"
    PROVE  \A t \in SessionIds : session[t].init = "no" => session'[t].init = "no"
BY DEF TypeOK

LEMMA QuietNetwork == IInv /\ Network => Quiet
<1> SUFFICES ASSUME IInv, NEW s \in SessionIds,
                    \/ Connect(s) \/ RealmCloses(s) \/ InstanceCloses(s)
                    \/ ClientLogin(s) \/ ClientLogout(s) \/ ClientLink(s)
                    \/ HandleConnectToFailed(s)
             PROVE  Quiet
  BY DEF Network
<1> DEFINE r == session[s]
<1>1. UNCHANGED <<m_sessions, m_QueuedPlayer>>
  BY DEF Connect, RealmCloses, InstanceCloses, ClientLogin, ClientLogout, ClientLink,
         HandleConnectToFailed, world, table
<1>2. r \in Session
  BY DEF IInv, TypeOK
<1>3. \E n : session' = [session EXCEPT ![s] = n] /\ (r.init = "no" => n.init = "no")
  <2>1. CASE Connect(s)
    <3>1. [Unborn EXCEPT !.life = "alive", !.realm = "open"].init = "no"
      BY DEF Unborn
    <3> QED
      BY <2>1, <3>1 DEF Connect
  <2>2. CASE RealmCloses(s)
    <3>1. [r EXCEPT !.realm = "closed"].init = r.init
      BY <1>2 DEF Session
    <3> QED
      BY <2>2, <3>1 DEF RealmCloses, IInv, TypeOK
  <2>3. CASE InstanceCloses(s)
    <3>1. [r EXCEPT !.instance = "closed"].init = r.init
      BY <1>2 DEF Session
    <3> QED
      BY <2>3, <3>1 DEF InstanceCloses, IInv, TypeOK
  <2>4. CASE ClientLogin(s)
    <3> DEFINE q == Append(r._recvQueue, "login")
    <3>1. [r EXCEPT !._recvQueue = q, !.client = "login"].init = r.init
      BY <1>2 DEF Session
    <3> QED
      BY <2>4, <3>1 DEF ClientLogin, IInv, TypeOK
  <2>5. CASE ClientLogout(s)
    <3> DEFINE q == Append(r._recvQueue, "logout")
    <3>1. [r EXCEPT !._recvQueue = q].init = r.init
      BY <1>2 DEF Session
    <3> QED
      BY <2>5, <3>1 DEF ClientLogout, IInv, TypeOK
  <2>6. CASE ClientLink(s)
    <3>1. [r EXCEPT !.linked = TRUE].init = r.init
      BY <1>2 DEF Session
    <3> QED
      BY <2>6, <3>1 DEF ClientLink, IInv, TypeOK
  <2>7. CASE HandleConnectToFailed(s)
    <3>1. AbortLogin(r).init = r.init
      BY <1>2, AbortLoginType DEF Alike
    <3>2. SendConnectToInstance(r, r.serial + 1).init = r.init
      BY <1>2 DEF SendConnectToInstance, Session
    <3> QED
      BY <2>7, <3>1, <3>2 DEF HandleConnectToFailed
  <2> QED
    BY <2>1, <2>2, <2>3, <2>4, <2>5, <2>6, <2>7
<1> QED
  BY <1>1, <1>3, QuietUpdate DEF Quiet, IInv

LEMMA QuietWorld ==
    ASSUME IInv, [Next]_vars, ~AddSession_, ~RemoveSession
    PROVE  Quiet
<1> DEFINE s == Updated
<1>0. TypeOK
  BY DEF IInv
<1>1. CASE UNCHANGED vars \/ LinksDone \/ AddsDone \/ PickSession \/ LoopDone \/ PacketsDone
  BY <1>1 DEF vars, LinksDone, AddsDone, PickSession, LoopDone, PacketsDone, table, Quiet
<1>2. CASE Network
  BY <1>2, QuietNetwork
<1>3. CASE DatabaseWorker
  <2>1. session' = session \/ \E q \in SessionIds : session' = [session EXCEPT ![q].ready = TRUE]
    <3>1. Head(asyncQueue) \in Query
      BY <1>0, <1>3 DEF TypeOK, DatabaseWorker
    <3> QED
      BY <1>3, <3>1 DEF DatabaseWorker, Query
  <2>2. \A t \in SessionIds : session'[t].init = session[t].init
    <3>1. ASSUME NEW q \in SessionIds, session' = [session EXCEPT ![q].ready = TRUE],
                 NEW t \in SessionIds
          PROVE  session'[t].init = session[t].init
      <4>1. session[t] \in Session
        BY <1>0 DEF TypeOK
      <4>2. [session[t] EXCEPT !.ready = TRUE].init = session[t].init
        BY <4>1 DEF Session
      <4>3. session'[t] = IF t = q THEN [session[t] EXCEPT !.ready = TRUE] ELSE session[t]
        BY <1>0, <3>1 DEF TypeOK
      <4> QED
        BY <4>2, <4>3
    <3> QED
      BY <2>1, <3>1
  <2> QED
    BY <1>3, <2>2 DEF DatabaseWorker, world, table, Quiet
<1>4. CASE KickAll
  <2>1. \A t \in SessionIds : session[t] \in Session
    BY <1>0 DEF TypeOK
  <2>2. \A t \in SessionIds : session'[t].init = session[t].init
    BY <1>4, <2>1, KickPlayerType DEF KickAll, Alike
  <2> QED
    BY <1>4, <2>2 DEF KickAll, Quiet
<1>5. CASE RefuseSession
  <2> DEFINE new == Head(addSessQueue)
  <2>1. new \in SessionIds
    BY <1>0, <1>5 DEF TypeOK, RefuseSession
  <2>2. session' = [session EXCEPT ![new] = Deleted] /\ Deleted.init = "no"
    BY <1>5 DEF RefuseSession, Deleted, Unborn
  <2> HIDE DEF new
  <2> QED
    BY <1>0, <1>5, <2>1, <2>2, QuietUpdate DEF RefuseSession, Quiet
<1>6. CASE ProcessLinkInstanceSocket
  <2> DEFINE l == Head(_linkSocketQueue)
             k == m_sessions[AccountOf[l.session]]
             r == [session[k] EXCEPT !.instance = "open"]
  <2>1. l \in Link
    <3>1. _linkSocketQueue \in Seq(Link) /\ _linkSocketQueue # <<>>
      BY <1>0, <1>6 DEF TypeOK, ProcessLinkInstanceSocket
    <3> QED
      BY <3>1
  <2>2. UNCHANGED <<m_sessions, m_QueuedPlayer>>
    BY <1>6 DEF ProcessLinkInstanceSocket, world, table
  <2>3. CASE session' = session
    BY <2>2, <2>3 DEF Quiet
  <2>4. ASSUME k = l.session,
               NEW n, n = KickPlayer(r) \/ n = [r EXCEPT !.load = r.key, !.ready = FALSE],
               session' = [session EXCEPT ![k] = n]
        PROVE  Quiet
    <3>1. k \in SessionIds
      BY <2>1, <2>4 DEF Link
    <3>2. r \in Session /\ r.init = session[k].init
      <4>1. session[k] \in Session
        BY <1>0, <3>1 DEF TypeOK
      <4> QED
        BY <4>1 DEF Session, SocketState
    <3> HIDE DEF r, k
    <3>3. KickPlayer(r).init = r.init /\ [r EXCEPT !.load = r.key, !.ready = FALSE].init = r.init
      BY <3>2, KickPlayerType DEF Alike, Session
    <3>4. n.init = session[k].init
      BY <2>4, <3>2, <3>3
    <3> QED
      BY <1>0, <2>2, <2>4, <3>1, <3>4, QuietUpdate DEF Quiet
  <2>5. CASE UNCHANGED <<session, asyncQueue>>
    BY <2>3, <2>5
  <2>6. CASE k = l.session /\ session' = [session EXCEPT ![k] = KickPlayer(r)]
    BY <2>4, <2>6
  <2>7. CASE k = l.session
             /\ session' = [session EXCEPT ![k] = [r EXCEPT !.load = r.key, !.ready = FALSE]]
    BY <2>4, <2>7
  <2> QED
    BY <1>6, <2>5, <2>6, <2>7 DEF ProcessLinkInstanceSocket
<1>7. CASE HandlePacket
  <2> DEFINE rest == Tail(session[s]._recvQueue)
             r == [session[s] EXCEPT !._recvQueue = rest]
  <2>1. s \in SessionIds /\ session[s] \in Session
    BY <1>7, UpdatedType DEF IInv, HandlePacket
  <2>2. r \in Session /\ r.init = session[s].init
    <3>1. session[s]._recvQueue \in Seq({"login", "logout"}) /\ session[s]._recvQueue # <<>>
      BY <1>7, <2>1 DEF Session, HandlePacket
    <3>2. rest \in Seq({"login", "logout"})
      BY <3>1
    <3> HIDE DEF rest, s
    <3> QED
      BY <2>1, <3>2 DEF Session
  <2>3. r = [session[s] EXCEPT !._recvQueue = Tail(@)]
    BY <2>1 DEF Session
  <2>4. UNCHANGED <<m_sessions, m_QueuedPlayer>>
    BY <1>7 DEF HandlePacket, table
  <2> HIDE DEF s, r
  <2>5. \E n : /\ session' = [session EXCEPT ![s] = n]
               /\ \/ n = r \/ n = HandlePlayerLoginOpcode(r) \/ n = LogoutPlayer(r)
                  \/ \E granted \in BOOLEAN : n = [r EXCEPT !._logoutTime = granted]
    <3>1. CASE session' = [session EXCEPT ![s] =
                    IF r.m_inQueue THEN r ELSE HandlePlayerLoginOpcode(r)]
      BY <3>1
    <3>2. CASE session' = [session EXCEPT ![s] = LogoutPlayer(r)]
      BY <3>2
    <3>3. CASE \E granted \in BOOLEAN :
                    session' = [session EXCEPT ![s] = [r EXCEPT !._logoutTime = granted]]
      BY <3>3
    <3> USE <2>3 DEF s
    <3> QED
      BY <1>7, <3>1, <3>2, <3>3 DEF HandlePacket
  <2>6. /\ HandlePlayerLoginOpcode(r).init = r.init
        /\ LogoutPlayer(r).init = r.init
        /\ \A granted : [r EXCEPT !._logoutTime = granted].init = r.init
    BY <2>2, LoginOpcodeType, LogoutPlayerType DEF Alike, Session
  <2>7. PICK n : session' = [session EXCEPT ![s] = n] /\ n.init = session[s].init
    BY <2>2, <2>5, <2>6
  <2>8. \A t \in SessionIds : session[t].init = "no" => session'[t].init = "no"
    BY <1>0, <2>1, <2>7, QuietUpdate
  <2> QED
    BY <2>4, <2>8 DEF Quiet
<1>8. CASE AccountReady \/ CharacterReady \/ LogoutDue \/ KeepSession
  <2>1. s \in SessionIds /\ session[s] \in Session
    BY <1>8, UpdatedType DEF IInv, AccountReady, CharacterReady, LogoutDue, KeepSession, UpdateEnds
  <2>2. UNCHANGED <<m_sessions, m_QueuedPlayer>>
    BY <1>8 DEF AccountReady, CharacterReady, LogoutDue, KeepSession, world, table
  <2>3. /\ HandlePlayerLogin(session[s]).init = session[s].init
        /\ LoadFails(session[s]).init = session[s].init
        /\ LogoutPlayer(session[s]).init = session[s].init
        /\ \A e : [session[s] EXCEPT !.expireTime = e].init = session[s].init
    <3> HIDE DEF s
    <3> QED
      BY <2>1, PlayerLoginType, LoadFailsType, LogoutPlayerType DEF Alike, Session
  <2>4. CASE AccountReady
    <3>1. session[s].init = "pending"
          /\ session' = [session EXCEPT ![s] = InitializeSessionCallback(session[s])]
      BY <2>1, <2>4, <1>0 DEF AccountReady, TypeOK
    <3> HIDE DEF s
    <3> QED
      BY <1>0, <2>1, <2>2, <3>1, QuietUpdate DEF Quiet
  <2>5. CASE CharacterReady \/ LogoutDue \/ KeepSession
    <3>1. \E n : session' = [session EXCEPT ![s] = n] /\ n.init = session[s].init
      BY <1>0, <2>1, <2>3, <2>5 DEF CharacterReady, LogoutDue, KeepSession, TypeOK
    <3> HIDE DEF s
    <3> QED
      BY <1>0, <2>1, <2>2, <3>1, QuietUpdate DEF Quiet
  <2> QED
    BY <1>8, <2>4, <2>5
<1> QED
  BY <1>1, <1>2, <1>3, <1>4, <1>5, <1>6, <1>7, <1>8 DEF Next, UpdateSessions, Stopped

\* The property, as a part of the invariant that is not expanded.
Full == QueueOnlyWhenFull

LEMMA RemoveFull ==
    ASSUME IInv, Full, RemoveSession
    PROVE  /\ Full'
           /\ Cardinality(Listed') = Cardinality(Listed) - 1
<1> DEFINE n == Cardinality(Listed)
           first == RemoveQueuedPlayer(m_QueuedPlayer, n, Updated)
           second == RemoveQueuedPlayer(first.queue, n, Updated)
<1>1. /\ m_QueuedPlayer \in Seq(SessionIds) /\ IsInjective(m_QueuedPlayer)
      /\ m_QueuedPlayer # <<>> => n - Len(m_QueuedPlayer) >= Limit
      /\ n \in Nat /\ IsFiniteSet(Listed)
  BY ListedFinite DEF IInv, TypeOK, WaitersOK, Full, QueueOnlyWhenFull
<1>2. m_QueuedPlayer' = second.queue
  BY DEF RemoveSession
<1>3. Listed' = Listed \ {current} /\ current \in Listed
  <2>1. current \in Listed /\ current \in Accounts
    BY UpdatedType DEF IInv, PlaceOK, RemoveSession, UpdateEnds
  <2>2. m_sessions' = [m_sessions EXCEPT ![current] = NoSession]
    BY DEF RemoveSession
  <2> QED
    BY <2>1, <2>2 DEF Listed, IInv, TypeOK
<1>4. Cardinality(Listed') = n - 1
  BY <1>1, <1>3, FS_RemoveElement
<1> HIDE DEF n
<1>5. second.queue # <<>> => n - 1 - Len(second.queue) >= Limit
  BY <1>1, RemovedTwiceKeepsFull
<1> HIDE DEF second
<1> QED
  BY <1>2, <1>4, <1>5 DEF Full, QueueOnlyWhenFull, n

\* What AddSession_ does, in terms of what is left of the queue.
AddRemoval ==
    LET old == m_sessions[AccountOf[Head(addSessQueue)]]
    IN IF old = NoSession
       THEN [queue |-> m_QueuedPlayer, accepted |-> {}, found |-> FALSE]
       ELSE RemoveQueuedPlayer(m_QueuedPlayer, Cardinality(Listed), old)

AddWait ==
    LET a == AccountOf[Head(addSessQueue)]
        all == Cardinality(Listed \cup {a})
        others == IF AddRemoval.found THEN all ELSE all - 1
    IN others >= Limit /\ a \notin Privileged

LEMMA AddFacts ==
    ASSUME IInv, Full, AddSession_
    PROVE  LET n == Cardinality(Listed)
               s == Head(addSessQueue)
               a == AccountOf[s]
               all == Cardinality(Listed')
               others == IF AddRemoval.found THEN all ELSE all - 1
           IN /\ s \in SessionIds /\ a \in Accounts
              /\ n \in Nat /\ all \in Nat /\ IsFiniteSet(Listed')
              /\ AddRemoval.queue \in Seq(SessionIds)
              /\ Listed' = Listed \cup {a}
              /\ AddWait <=> others >= Limit /\ a \notin Privileged
              /\ m_QueuedPlayer' = IF AddWait THEN Append(AddRemoval.queue, s) ELSE AddRemoval.queue
              /\ m_QueuedPlayer # <<>> => all - 1 - Len(AddRemoval.queue) >= Limit
              /\ m_QueuedPlayer = <<>> =>
                    AddRemoval.queue = <<>> /\ AddRemoval.accepted = {} /\ ~AddRemoval.found
              /\ AddRemoval.accepted # {} => all - 1 - Len(m_QueuedPlayer) < Limit
<1> DEFINE n == Cardinality(Listed)
           s == Head(addSessQueue)
           a == AccountOf[s]
           old == m_sessions[a]
           all == Cardinality(Listed')
<1>1. /\ m_QueuedPlayer \in Seq(SessionIds) /\ IsInjective(m_QueuedPlayer)
      /\ m_QueuedPlayer # <<>> => n - Len(m_QueuedPlayer) >= Limit
      /\ n \in Nat /\ IsFiniteSet(Listed)
  BY ListedFinite DEF IInv, TypeOK, WaitersOK, Full, QueueOnlyWhenFull
<1>2. s \in SessionIds /\ a \in Accounts
  <2>1. addSessQueue \in Seq(SessionIds) /\ addSessQueue # <<>>
    BY DEF AddSession_, IInv, TypeOK
  <2> QED
    BY <2>1, AccountAssumption
<1>3. Listed' = Listed \cup {a}
  <2>1. m_sessions' = [m_sessions EXCEPT ![a] = s]
    BY DEF AddSession_
  <2> QED
    BY <1>2, <2>1, NoSessionType DEF Listed, IInv, TypeOK
<1>4. IsFiniteSet(Listed') /\ all \in Nat /\ all = IF a \in Listed THEN n ELSE n + 1
  BY <1>1, <1>3, FS_AddElement, FS_CardinalityType
<1>5. a \in Listed <=> old # NoSession
  BY <1>2 DEF Listed
<1>6. m_QueuedPlayer' = IF AddWait THEN Append(AddRemoval.queue, s) ELSE AddRemoval.queue
  BY DEF AddSession_, AddWait, AddRemoval
<1>7. AddWait <=> (IF AddRemoval.found THEN all ELSE all - 1) >= Limit /\ a \notin Privileged
  BY <1>3 DEF AddWait
<1>8. /\ AddRemoval.queue \in Seq(SessionIds)
      /\ m_QueuedPlayer # <<>> => all - 1 - Len(AddRemoval.queue) >= Limit
      /\ m_QueuedPlayer = <<>> =>
            AddRemoval.queue = <<>> /\ AddRemoval.accepted = {} /\ ~AddRemoval.found
      /\ AddRemoval.accepted # {} => all - 1 - Len(m_QueuedPlayer) < Limit
  <2>1. CASE old = NoSession
    <3>1. AddRemoval = [queue |-> m_QueuedPlayer, accepted |-> {}, found |-> FALSE]
      BY <2>1 DEF AddRemoval
    <3>2. all = n + 1
      BY <1>4, <1>5, <2>1
    <3>3. m_QueuedPlayer # <<>> => all - 1 - Len(m_QueuedPlayer) >= Limit
      BY <1>1, <3>2
    <3> QED
      BY <1>1, <3>1, <3>3
  <2>2. CASE old # NoSession
    <3>1. AddRemoval = RemoveQueuedPlayer(m_QueuedPlayer, n, old)
      BY <2>2 DEF AddRemoval
    <3>2. all = n
      BY <1>4, <1>5, <2>2
    <3> DEFINE removal == RemoveQueuedPlayer(m_QueuedPlayer, n, old)
    <3>3. removal.queue \in Seq(SessionIds)
      <4> HIDE DEF n, old
      <4> QED
        BY <1>1, RemoveQueuedPlayerType, Zenon
    <3>4. /\ m_QueuedPlayer # <<>> => n - 1 - Len(removal.queue) >= Limit
          /\ m_QueuedPlayer = <<>> =>
                removal.queue = <<>> /\ removal.accepted = {} /\ ~removal.found
          /\ removal.accepted # {} => n - 1 - Len(m_QueuedPlayer) < Limit
      <4> HIDE DEF n, old
      <4>1. LET r == RemoveQueuedPlayer(m_QueuedPlayer, n, old)
            IN /\ m_QueuedPlayer = <<>> => r.queue = <<>> /\ r.accepted = {} /\ ~r.found
               /\ m_QueuedPlayer # <<>> => n - 1 - Len(r.queue) >= Limit
               /\ r.accepted # {} =>
                    n - 1 - Len(m_QueuedPlayer) < Limit /\ ~Waits(m_QueuedPlayer, old)
        BY <1>1, RemovalKeepsFull, Zenon
      <4> QED
        BY <4>1
    <3> HIDE DEF n, old, all, removal
    <3>5. AddRemoval = removal
      BY <3>1 DEF removal
    <3> QED
      BY <3>2, <3>3, <3>4, <3>5
  <2> QED
    BY <2>1, <2>2
<1> QED
  BY <1>1, <1>2, <1>3, <1>4, <1>6, <1>7, <1>8

LEMMA AddFull == ASSUME IInv, Full, AddSession_ PROVE Full'
<1> DEFINE s == Head(addSessQueue)
           rest == AddRemoval.queue
           all == Cardinality(Listed')
<1>1. /\ s \in SessionIds /\ all \in Nat /\ rest \in Seq(SessionIds)
      /\ AddWait => (IF AddRemoval.found THEN all ELSE all - 1) >= Limit
      /\ m_QueuedPlayer' = IF AddWait THEN Append(rest, s) ELSE rest
      /\ m_QueuedPlayer # <<>> => all - 1 - Len(rest) >= Limit
      /\ m_QueuedPlayer = <<>> => rest = <<>> /\ ~AddRemoval.found
  BY AddFacts
<1>2. Limit \in Nat /\ Limit > 0 /\ Len(rest) \in Nat
  BY <1>1, LimitAssumption
<1>3. ASSUME m_QueuedPlayer' # <<>> PROVE all - Len(m_QueuedPlayer') >= Limit
  <2> HIDE DEF rest, all, s
  <2>1. CASE AddWait
    <3>1. Len(m_QueuedPlayer') = Len(rest) + 1
      BY <1>1, <2>1
    <3>2. CASE m_QueuedPlayer = <<>>
      <4>1. Len(rest) = 0 /\ all - 1 >= Limit
        BY <1>1, <2>1, <3>2
      <4> QED
        BY <1>1, <1>2, <3>1, <4>1
    <3>3. CASE m_QueuedPlayer # <<>>
      BY <1>1, <1>2, <3>1, <3>3
    <3> QED
      BY <3>2, <3>3
  <2>2. CASE ~AddWait
    <3>1. m_QueuedPlayer' = rest /\ m_QueuedPlayer # <<>>
      BY <1>1, <1>3, <2>2
    <3> QED
      BY <1>1, <1>2, <3>1
  <2> QED
    BY <2>1, <2>2
<1> QED
  BY <1>3 DEF Full, QueueOnlyWhenFull

LEMMA FullStep == ASSUME IInv, Full, [Next]_vars PROVE Full'
<1>1. CASE AddSession_
  BY <1>1, AddFull
<1>2. CASE RemoveSession
  BY <1>2, RemoveFull
<1>3. CASE ~AddSession_ /\ ~RemoveSession
  <2>1. Quiet
    BY <1>3, QuietWorld
  <2>2. Listed' = Listed
    BY <2>1 DEF Quiet, Listed
  <2> QED
    BY <2>1, <2>2 DEF Quiet, Full, QueueOnlyWhenFull
<1> QED
  BY <1>1, <1>2, <1>3

LEMMA FullInvariance == Spec => [](IInv /\ Full)
<1>1. Init => Full
  BY DEF Init, Full, QueueOnlyWhenFull
<1> QED
  BY <1>1, InitIInv, NextIInv, FullStep, PTL DEF Spec

\* Nobody waits while a place is free: for any limit, whoever comes, comes back,
\* is replaced or leaves, a session waits only while those outside the queue fill
\* the limit.
THEOREM NobodyWaitsInVain == Spec => []QueueOnlyWhenFull
BY FullInvariance, PTL DEF Full

-----------------------------------------------------------------------------
(***************************************************************************)
(* The order of the queue.                                                 *)
(***************************************************************************)
\* Whoever RemoveQueuedPlayer lets in had nobody before it but the session that
\* goes.
LEMMA FirstIsLetIn ==
    ASSUME NEW q \in Seq(SessionIds), IsInjective(q), NEW size, NEW s,
           NEW t \in RemoveQueuedPlayer(q, size, s).accepted,
           NEW i \in 1 .. Len(q)
    PROVE  \/ ~Waits(RemoveQueuedPlayer(q, size, s).queue, q[i])
           \/ \E j \in 1 .. i - 1 : q[j] = t
<1> DEFINE r == RemoveQueuedPlayer(q, size, s)
<1>1. /\ \A u : Waits(r.queue, u) <=> Waits(q, u) /\ u # s /\ u \notin r.accepted
      /\ r.accepted # {} => r.accepted = {Head(Without(q, s))}
      /\ r.accepted # {} => Without(q, s) # <<>>
  BY RemoveQueuedPlayerType
<1>2. t = Head(Without(q, s)) /\ Without(q, s) # <<>>
  BY <1>1
<1>3. CASE q[i] = s \/ q[i] = t
  BY <1>1, <1>3
<1>4. CASE q[i] # s /\ q[i] # t
  <2>1. PICK j \in 1 .. i : q[j] = t
    BY <1>2, <1>4, WithoutType
  <2>2. j # i
    BY <1>4, <2>1
  <2> QED
    BY <2>1, <2>2
<1> QED
  BY <1>3, <1>4

InOrder ==
    \A s \in SessionIds :
         /\ session[s].init = "no" /\ session'[s].init = "pending"
         /\ AccountOf[s] \notin Privileged
         => \A i \in 1 .. Len(m_QueuedPlayer) :
              \/ m_QueuedPlayer[i] \notin ToSet(m_QueuedPlayer')
              \/ \E j \in 1 .. i - 1 : m_QueuedPlayer[j] = s

LEMMA WaitsToSet == ASSUME NEW q \in Seq(SessionIds), NEW t PROVE t \in ToSet(q) <=> Waits(q, t)
BY DEF ToSet, Waits

LEMMA RemoveInOrder == ASSUME IInv, Full, RemoveSession PROVE InOrder
<1> DEFINE q == m_QueuedPlayer
           n == Cardinality(Listed)
           first == RemoveQueuedPlayer(q, n, Updated)
           second == RemoveQueuedPlayer(first.queue, n, Updated)
<1> SUFFICES ASSUME NEW t \in SessionIds, session[t].init = "no", session'[t].init = "pending",
                    NEW i \in 1 .. Len(q)
             PROVE  \/ q[i] \notin ToSet(m_QueuedPlayer')
                    \/ \E j \in 1 .. i - 1 : q[j] = t
  BY DEF InOrder
<1>1. /\ q \in Seq(SessionIds) /\ IsInjective(q)
      /\ q # <<>> => n - Len(q) >= Limit
      /\ n \in Nat
  BY ListedFinite DEF IInv, TypeOK, WaitersOK, Full, QueueOnlyWhenFull
<1>2. m_QueuedPlayer' = second.queue
      /\ session' = [u \in SessionIds |->
            CASE u = Updated -> Deleted
              [] u \in first.accepted \cup second.accepted -> InitializeSession(session[u])
              [] OTHER -> session[u]]
  BY DEF RemoveSession
<1> HIDE DEF q, n
<1>3. second.accepted = {}
  BY <1>1, RemovedTwiceKeepsFull
<1>4. first.queue \in Seq(SessionIds) /\ IsInjective(first.queue)
  BY <1>1, RemoveQueuedPlayerType
<1>5. second.queue \in Seq(SessionIds) /\ \A u : Waits(second.queue, u) => Waits(first.queue, u)
  <2> HIDE DEF first
  <2> QED
    BY <1>4, RemoveQueuedPlayerType
<1>6. t \in first.accepted
  <2>0. Updated \notin first.accepted
    BY <1>1, RemoveQueuedPlayerType
  <2> HIDE DEF first, second
  <2>1. Deleted.init = "no"
    BY DEF Deleted, Unborn
  <2>2. CASE t = Updated
    <3>1. session'[t] = Deleted
      BY <1>2, <1>3, <2>0, <2>2
    <3> QED
      BY <2>1, <3>1
  <2>3. CASE t # Updated /\ t \notin first.accepted
    <3>1. session'[t] = session[t]
      BY <1>2, <1>3, <2>3
    <3> QED
      BY <3>1
  <2> QED
    BY <2>2, <2>3
<1>7. \/ ~Waits(first.queue, q[i])
      \/ \E j \in 1 .. i - 1 : q[j] = t
  BY <1>1, <1>6, FirstIsLetIn
<1> HIDE DEF second
<1> QED
  BY <1>2, <1>5, <1>7, WaitsToSet

LEMMA AddInOrder == ASSUME IInv, Full, AddSession_ PROVE InOrder
<1> DEFINE q == m_QueuedPlayer
           s == Head(addSessQueue)
           a == AccountOf[s]
           old == m_sessions[a]
           rest == AddRemoval.queue
           all == Cardinality(Listed')
<1> SUFFICES ASSUME NEW t \in SessionIds, session[t].init = "no", session'[t].init = "pending",
                    AccountOf[t] \notin Privileged, NEW i \in 1 .. Len(q)
             PROVE  \/ q[i] \notin ToSet(m_QueuedPlayer')
                    \/ \E j \in 1 .. i - 1 : q[j] = t
  BY DEF InOrder
<1>1. /\ q \in Seq(SessionIds) /\ IsInjective(q)
  BY DEF IInv, TypeOK, WaitersOK
<1>2. /\ s \in SessionIds /\ all \in Nat /\ rest \in Seq(SessionIds)
      /\ AddWait <=> (IF AddRemoval.found THEN all ELSE all - 1) >= Limit /\ a \notin Privileged
      /\ m_QueuedPlayer' = IF AddWait THEN Append(rest, s) ELSE rest
      /\ q # <<>> => all - 1 - Len(rest) >= Limit
  BY AddFacts
<1>3. session' = [u \in SessionIds |->
            CASE u = old -> Deleted
              [] u = s -> IF AddWait THEN [session[u] EXCEPT !.m_inQueue = TRUE]
                                     ELSE InitializeSession(session[u])
              [] u \in AddRemoval.accepted -> InitializeSession(session[u])
              [] OTHER -> session[u]]
  BY DEF AddSession_, AddRemoval, AddWait
<1>4. ~Present(s) /\ ~Waits(q, s)
  <2>1. ~Present(s)
    <3>1. addSessQueue \in Seq(SessionIds) /\ addSessQueue # <<>>
      BY DEF AddSession_, IInv, TypeOK
    <3>2. s = addSessQueue[1] /\ 1 \in 1 .. Len(addSessQueue)
      BY <3>1
    <3> QED
      BY <3>2 DEF IInv, NewOK
  <2> QED
    BY <2>1, WaitersPresent DEF IInv
<1>5. old = NoSession => AddRemoval.accepted = {}
  BY DEF AddRemoval
<1>6. old # NoSession => AddRemoval = RemoveQueuedPlayer(q, Cardinality(Listed), old)
  BY DEF AddRemoval
<1>a. /\ AddRemoval.accepted \subseteq {u \in SessionIds : Waits(q, u)} \ {old}
      /\ old # NoSession => Present(old)
  <2>1. a \in Accounts
    BY AddFacts
  <2>2. old # NoSession => Present(old)
    BY <2>1 DEF Present
  <2>3. CASE old = NoSession
    BY <1>5, <2>2, <2>3
  <2>4. CASE old # NoSession
    <3>1. AddRemoval = RemoveQueuedPlayer(q, Cardinality(Listed), old)
      BY <1>6, <2>4
    <3> HIDE DEF old, q
    <3>2. AddRemoval.accepted \subseteq {u \in SessionIds : Waits(q, u)} \ {old}
      BY <1>1, <3>1, RemoveQueuedPlayerType
    <3> QED
      BY <2>2, <3>2
  <2> QED
    BY <2>3, <2>4
<1> HIDE DEF q, s, old, rest, all
<1>b. s # old /\ s \notin AddRemoval.accepted /\ old \notin AddRemoval.accepted
  BY <1>2, <1>4, <1>a, NoSessionType
<1>7. t # old
  <2>1. Deleted.init = "no"
    BY DEF Deleted, Unborn
  <2>2. ASSUME t = old PROVE session'[t] = Deleted
    BY <1>3, <1>b, <2>2
  <2> QED
    BY <2>1, <2>2
<1>8. q # <<>>
  <2>1. Len(q) \in Nat /\ Len(q) > 0
    BY <1>1
  <2> QED
    BY <2>1
<1>9. t # s
  <2> SUFFICES ASSUME t = s PROVE FALSE
    OBVIOUS
  <2>1. AddWait
    <3>1. a \notin Privileged
      BY DEF s
    <3>2. all - 1 >= Limit
      BY <1>2, <1>8, LimitAssumption
    <3>3. (IF AddRemoval.found THEN all ELSE all - 1) >= Limit
      BY <1>2, <3>2, LimitAssumption
    <3> QED
      BY <1>2, <3>1, <3>3
  <2>2. session'[t] = [session[t] EXCEPT !.m_inQueue = TRUE]
    BY <1>3, <1>7, <1>b, <2>1
  <2>3. session[t] \in Session
    BY DEF IInv, TypeOK
  <2> QED
    BY <2>2, <2>3 DEF Session
<1>10. t \in AddRemoval.accepted
  <2> SUFFICES ASSUME t \notin AddRemoval.accepted PROVE FALSE
    OBVIOUS
  <2>1. session'[t] = session[t]
    BY <1>3, <1>7, <1>9
  <2> QED
    BY <2>1
<1>11. \/ ~Waits(rest, q[i])
       \/ \E j \in 1 .. i - 1 : q[j] = t
  BY <1>1, <1>5, <1>6, <1>10, FirstIsLetIn DEF rest
<1>12. q[i] # s /\ q[i] \in SessionIds
  BY <1>1, <1>4 DEF Waits
<1>13. Waits(m_QueuedPlayer', q[i]) => Waits(rest, q[i])
  <2>1. CASE AddWait
    <3>1. m_QueuedPlayer' = Append(rest, s)
      BY <1>2, <2>1
    <3> QED
      BY <1>2, <1>12, <3>1 DEF Waits
  <2>2. CASE ~AddWait
    BY <1>2, <2>2
  <2> QED
    BY <2>1, <2>2
<1>14. m_QueuedPlayer' \in Seq(SessionIds)
  BY <1>2
<1> QED
  BY <1>11, <1>13, <1>14, WaitsToSet

\* Sessions are let in in the order in which they came: a session that had to
\* mind the limit and is let in leaves nobody behind who waited before it.
THEOREM ServedInOrder == Spec => FirstComeFirstServed
<1>1. ASSUME IInv, Full, [Next]_vars PROVE InOrder
  <2>1. CASE ~AddSession_ /\ ~RemoveSession
    <3>1. Quiet
      BY <2>1, <1>1, QuietWorld
    <3> QED
      BY <3>1 DEF Quiet, InOrder
  <2> QED
    BY <1>1, <2>1, AddInOrder, RemoveInOrder
<1>2. IInv /\ Full /\ [Next]_vars => [InOrder]_vars
  BY <1>1
<1> QED
  BY <1>2, FullInvariance, PTL DEF Spec, FirstComeFirstServed, InOrder

-----------------------------------------------------------------------------
(***************************************************************************)
(* The limit itself.                                                       *)
(***************************************************************************)
\* The accounts that had to mind the limit and have been let in.
Admitted ==
    {a \in Accounts \ Privileged :
        m_sessions[a] # NoSession /\ session[m_sessions[a]].init # "no"}

\* They are not among those that wait, nor are the privileged.
Bound ==
    /\ Cardinality(Admitted) <= Cardinality(Listed) - Len(m_QueuedPlayer)
    /\ \A b \in Listed \cap Privileged : ~Waits(m_QueuedPlayer, m_sessions[b]) =>
            Cardinality(Admitted) <= Cardinality(Listed) - Len(m_QueuedPlayer) - 1

LEMMA AdmittedBound == IInv => Bound
<1> SUFFICES ASSUME IInv PROVE Bound
  OBVIOUS
<1> DEFINE q == m_QueuedPlayer
           D == 1 .. Len(q)
           QA == {AccountOf[q[i]] : i \in D}
           f == [i \in D |-> AccountOf[q[i]]]
<1>1. q \in Seq(SessionIds) /\ Len(q) \in Nat /\ \A i \in D : q[i] \in SessionIds
  BY DEF IInv, TypeOK
<1>2. ASSUME NEW i \in D
      PROVE  /\ AccountOf[q[i]] \in Listed
             /\ m_sessions[AccountOf[q[i]]] = q[i]
             /\ session[q[i]].init = "no"
  <2>1. Present(q[i]) /\ session[q[i]].init = "no"
    BY DEF IInv, WaitersOK
  <2> QED
    BY <1>1, <2>1, NoSessionType DEF IInv, TableOK, Present, Listed
<1>3. QA \subseteq Listed /\ QA \cap Admitted = {}
  BY <1>2 DEF Admitted
<1>4. IsFiniteSet(QA) /\ Cardinality(QA) \in Nat
  BY <1>3, ListedFinite, FS_Subset, FS_CardinalityType
<1>5. Len(q) <= Cardinality(QA)
  <2>1. f \in [D -> QA]
    OBVIOUS
  <2>2. \A i, j \in D : f[i] = f[j] => i = j
    <3>1. IsInjective(q) /\ DOMAIN q = D
      BY <1>1 DEF IInv, WaitersOK
    <3>2. \A i, j \in D : q[i] = q[j] => i = j
      BY <3>1 DEF IsInjective
    <3> QED
      BY <1>2, <3>2
  <2>3. f \in Injection(D, QA)
    BY <2>1, <2>2 DEF Injection, IsInjective
  <2>4. Cardinality(D) <= Cardinality(QA)
    <3> HIDE DEF f, QA, D
    <3> QED
      BY <1>4, <2>3, FS_Injection
  <2>5. Cardinality(D) = Len(q)
    <3>1. 1 \in Int /\ Len(q) \in Int
      BY <1>1
    <3>2. Cardinality(1 .. Len(q)) = IF 1 > Len(q) THEN 0 ELSE Len(q) - 1 + 1
      BY <3>1, FS_Interval
    <3> QED
      BY <1>1, <3>2
  <2> QED
    BY <2>4, <2>5
<1> HIDE DEF q, D, QA
<1>6. Admitted \subseteq Listed \ QA
  BY <1>3 DEF Admitted, Listed
<1>7. ASSUME NEW S, S \subseteq Listed, Admitted \cap S = {}
      PROVE  Cardinality(Admitted) <= Cardinality(Listed) - Cardinality(S)
  <2>1. Listed \cap S = S /\ Admitted \in SUBSET (Listed \ S)
    BY <1>6, <1>7
  <2>2. IsFiniteSet(Listed \ S)
        /\ Cardinality(Listed \ S) = Cardinality(Listed) - Cardinality(S)
    BY <2>1, ListedFinite, FS_Difference
  <2>3. Cardinality(Admitted) <= Cardinality(Listed \ S)
    BY <2>1, <2>2, FS_Subset
  <2> QED
    BY <2>2, <2>3
<1>8. Cardinality(Admitted) \in Nat /\ Cardinality(Listed) \in Nat
  BY <1>6, ListedFinite, FS_Subset, FS_CardinalityType
<1>9. Cardinality(Admitted) <= Cardinality(Listed) - Len(q)
  <2>1. Cardinality(Admitted) <= Cardinality(Listed) - Cardinality(QA)
    BY <1>3, <1>7
  <2> QED
    BY <1>1, <1>4, <1>5, <1>8, <2>1
<1>10. ASSUME NEW b \in Listed \cap Privileged, ~Waits(q, m_sessions[b])
       PROVE  Cardinality(Admitted) <= Cardinality(Listed) - Len(q) - 1
  <2>1. b \notin QA
    BY <1>2, <1>10 DEF Waits, QA, D
  <2>2. QA \cup {b} \subseteq Listed /\ Admitted \cap (QA \cup {b}) = {}
    BY <1>3 DEF Admitted
  <2>3. Cardinality(QA \cup {b}) = Cardinality(QA) + 1
    BY <1>4, <2>1, FS_AddElement
  <2>4. Cardinality(Admitted) <= Cardinality(Listed) - (Cardinality(QA) + 1)
    BY <1>7, <2>2, <2>3
  <2> QED
    BY <1>1, <1>4, <1>5, <1>8, <2>4
<1> QED
  BY <1>9, <1>10 DEF Bound, q

LEMMA AdmittedFewer ==
    ASSUME IInv, Admitted' \subseteq Admitted
    PROVE  Cardinality(Admitted') <= Cardinality(Admitted)
           /\ Cardinality(Admitted) \in Nat /\ Cardinality(Admitted') \in Nat
<1>1. Admitted \subseteq Accounts /\ Admitted' \subseteq Accounts
  BY DEF Admitted
<1>2. IsFiniteSet(Admitted) /\ IsFiniteSet(Admitted')
  BY <1>1, FiniteAssumption, FS_Subset
<1> QED
  BY <1>2, FS_Subset, FS_CardinalityType

\* The property, as a part of the invariant that is not expanded.
LimitOK == LimitRespected

LEMMA LimitMeaning == LimitOK <=> Cardinality(Admitted) <= Limit
BY DEF LimitOK, LimitRespected, Admitted

\* A session goes: nobody is let in, or one takes its place.
LEMMA RemoveLimit ==
    ASSUME IInv, Full, LimitOK, RemoveSession, IInv', Bound'
    PROVE  LimitOK'
<1> DEFINE q == m_QueuedPlayer
           n == Cardinality(Listed)
           s == Updated
           first == RemoveQueuedPlayer(q, n, s)
           second == RemoveQueuedPlayer(first.queue, n, s)
<1>1. /\ q \in Seq(SessionIds) /\ IsInjective(q)
      /\ q # <<>> => n - Len(q) >= Limit
      /\ n \in Nat /\ Len(q) \in Nat
  BY ListedFinite DEF IInv, TypeOK, WaitersOK, Full, QueueOnlyWhenFull
<1>2. /\ m_QueuedPlayer' = second.queue
      /\ session' = [u \in SessionIds |->
            CASE u = s -> Deleted
              [] u \in first.accepted \cup second.accepted -> InitializeSession(session[u])
              [] OTHER -> session[u]]
      /\ m_sessions' = [m_sessions EXCEPT ![current] = NoSession]
  BY DEF RemoveSession
<1>3. Cardinality(Listed') = n - 1
  BY RemoveFull
<1>4. current \in Accounts /\ s = m_sessions[current] /\ s \in SessionIds
  BY UpdatedType DEF IInv, RemoveSession, UpdateEnds, Updated
<1> HIDE DEF q, n, s
<1>5. second.accepted = {}
  BY <1>1, RemovedTwiceKeepsFull
<1>6. CASE first.accepted = {}
  <2>1. Admitted' \subseteq Admitted
    <3> SUFFICES ASSUME NEW a \in Accounts, a \notin Privileged,
                        m_sessions'[a] # NoSession, session'[m_sessions'[a]].init # "no"
                 PROVE  m_sessions[a] # NoSession /\ session[m_sessions[a]].init # "no"
      BY DEF Admitted
    <3>1. m_sessions'[a] = m_sessions[a] /\ m_sessions[a] \in SessionIds
      BY <1>2, <1>4 DEF IInv, TypeOK
    <3>2. m_sessions[a] # s
      <4>1. a # current
        BY <1>2, <1>4 DEF IInv, TypeOK
      <4>2. AccountOf[m_sessions[a]] = a /\ AccountOf[s] = current
        BY <1>4, <3>1, NoSessionType DEF IInv, TableOK
      <4> QED
        BY <4>1, <4>2
    <3> HIDE DEF first, second
    <3>3. session'[m_sessions[a]] = session[m_sessions[a]]
      BY <1>2, <1>5, <1>6, <3>1, <3>2
    <3> QED
      BY <3>1, <3>3
  <2> QED
    BY <2>1, AdmittedFewer, LimitMeaning, LimitAssumption DEF LimitOK, LimitRespected, Admitted
<1>7. CASE first.accepted # {}
  <2>1. /\ Len(first.queue) = Len(Without(q, s)) - 1
        /\ first.queue \in Seq(SessionIds) /\ IsInjective(first.queue)
        /\ ~Waits(first.queue, s)
    BY <1>1, <1>7, RemoveQueuedPlayerType
  <2>2. n - 1 - Len(q) < Limit /\ ~Waits(q, s)
    BY <1>1, <1>7, RemovalKeepsFull
  <2>3. Len(Without(q, s)) = Len(q)
    BY <1>1, <2>2, WithoutType
  <2> HIDE DEF first
  <2>4. /\ second.queue \in Seq(SessionIds)
        /\ Len(second.queue) = Len(Without(first.queue, s))
    <3>1. Len(Without(first.queue, s)) \in Nat
      BY <2>1, WithoutType
    <3>2. /\ second.queue \in Seq(SessionIds)
          /\ Len(second.queue) =
                Len(Without(first.queue, s)) - (IF second.accepted = {} THEN 0 ELSE 1)
      <4> DEFINE f == first.queue
      <4>1. f \in Seq(SessionIds) /\ IsInjective(f)
        BY <2>1
      <4> HIDE DEF f
      <4>2. LET r == RemoveQueuedPlayer(f, n, s)
            IN /\ r.queue \in Seq(SessionIds)
               /\ Len(r.queue) = Len(Without(f, s)) - (IF r.accepted = {} THEN 0 ELSE 1)
        BY <4>1, RemoveQueuedPlayerType
      <4> QED
        BY <4>2 DEF f
    <3> QED
      BY <1>5, <3>1, <3>2
  <2>5. Len(Without(first.queue, s)) = Len(first.queue)
    BY <2>1, WithoutType
  <2> HIDE DEF second
  <2>6. Len(m_QueuedPlayer') = Len(q) - 1
    BY <1>1, <1>2, <2>1, <2>3, <2>4, <2>5
  <2>7. Cardinality(Admitted') <= n - 1 - (Len(q) - 1)
    BY <1>3, <2>6 DEF Bound
  <2>8. Cardinality(Admitted') \in Nat
    BY FiniteAssumption, FS_Subset, FS_CardinalityType DEF Admitted
  <2>9. Cardinality(Admitted') <= Limit
    BY <1>1, <2>2, <2>7, <2>8, LimitAssumption
  <2> QED
    BY <2>9 DEF LimitOK, LimitRespected, Admitted
<1> QED
  BY <1>6, <1>7

\* A session comes: it waits, or need not mind the limit, or is let in below it.
LEMMA AddLimit ==
    ASSUME IInv, Full, LimitOK, AddSession_, IInv', Bound'
    PROVE  LimitOK'
<1> DEFINE q == m_QueuedPlayer
           n == Cardinality(Listed)
           s == Head(addSessQueue)
           a == AccountOf[s]
           old == m_sessions[a]
           rest == AddRemoval.queue
           all == Cardinality(Listed')
           accepted == AddRemoval.accepted
<1>1. /\ s \in SessionIds /\ a \in Accounts /\ all \in Nat /\ rest \in Seq(SessionIds)
      /\ a \in Listed'
      /\ AddWait <=> (IF AddRemoval.found THEN all ELSE all - 1) >= Limit /\ a \notin Privileged
      /\ m_QueuedPlayer' = IF AddWait THEN Append(rest, s) ELSE rest
      /\ q # <<>> => all - 1 - Len(rest) >= Limit
      /\ q = <<>> => rest = <<>> /\ accepted = {} /\ ~AddRemoval.found
      /\ accepted # {} => all - 1 - Len(q) < Limit
  BY AddFacts
<1>2. /\ m_sessions' = [m_sessions EXCEPT ![a] = s]
      /\ session' = [u \in SessionIds |->
            CASE u = old -> Deleted
              [] u = s -> IF AddWait THEN [session[u] EXCEPT !.m_inQueue = TRUE]
                                     ELSE InitializeSession(session[u])
              [] u \in accepted -> InitializeSession(session[u])
              [] OTHER -> session[u]]
  BY DEF AddSession_, AddRemoval, AddWait
<1>3. Limit \in Nat /\ Limit > 0 /\ Len(rest) \in Nat /\ q \in Seq(SessionIds) /\ Len(q) \in Nat
      /\ IsInjective(q) /\ n \in Nat /\ (q # <<>> => n - Len(q) >= Limit)
  <2>1. Limit \in Nat /\ Limit > 0 /\ Len(rest) \in Nat
    BY <1>1, LimitAssumption
  <2>2. q \in Seq(SessionIds) /\ Len(q) \in Nat /\ IsInjective(q) /\ n \in Nat
    BY ListedFinite DEF IInv, TypeOK, WaitersOK
  <2>3. q # <<>> => n - Len(q) >= Limit
    BY DEF Full, QueueOnlyWhenFull
  <2> QED
    BY <2>1, <2>2, <2>3
<1>4. ~Present(s) /\ ~Waits(q, s) /\ session[s].init = "no" /\ session[s] \in Session
  <2>1. addSessQueue \in Seq(SessionIds) /\ addSessQueue # <<>>
    BY DEF AddSession_, IInv, TypeOK
  <2>2. s = addSessQueue[1] /\ 1 \in 1 .. Len(addSessQueue)
    BY <2>1
  <2>3. ~Present(s) /\ session[s].init = "no"
    BY <2>2 DEF IInv, NewOK
  <2> QED
    BY <1>1, <2>3, WaitersPresent DEF IInv, TypeOK
<1>5. CASE accepted = {} /\ (AddWait \/ a \in Privileged)
  <2>1. Admitted' \subseteq Admitted
    <3> SUFFICES ASSUME NEW b \in Accounts, b \notin Privileged,
                        m_sessions'[b] # NoSession, session'[m_sessions'[b]].init # "no"
                 PROVE  m_sessions[b] # NoSession /\ session[m_sessions[b]].init # "no"
      BY DEF Admitted
    <3>1. CASE b = a
      <4>1. m_sessions'[b] = s
        BY <1>1, <1>2, <3>1 DEF IInv, TypeOK
      <4>2. AddWait
        BY <1>5, <3>1
      <4>3. old # s
        BY <1>1, <1>4 DEF Present
      <4> HIDE DEF old, s
      <4>4. session'[s] = [session[s] EXCEPT !.m_inQueue = TRUE]
        BY <1>1, <1>2, <1>5, <4>2, <4>3
      <4>5. session'[s].init = "no"
        BY <1>4, <4>4 DEF Session
      <4> QED
        BY <4>1, <4>5
    <3>2. CASE b # a
      <4>1. m_sessions'[b] = m_sessions[b] /\ m_sessions[b] \in SessionIds
        BY <1>1, <1>2, <3>2 DEF IInv, TypeOK
      <4>2. m_sessions[b] # old
        BY <1>1, <3>2, <4>1, NoSessionType DEF IInv, TableOK
      <4>3. m_sessions[b] # s
        BY <1>4, <4>1 DEF Present
      <4> HIDE DEF old, s, accepted
      <4>4. session'[m_sessions[b]] = session[m_sessions[b]]
        BY <1>2, <1>5, <4>1, <4>2, <4>3
      <4> QED
        BY <4>1, <4>4, NoSessionType
    <3> QED
      BY <3>1, <3>2
  <2> QED
    BY <2>1, AdmittedFewer, LimitMeaning, LimitAssumption DEF LimitOK, LimitRespected, Admitted
<1>a. Cardinality(Admitted') \in Nat
  BY FiniteAssumption, FS_Subset, FS_CardinalityType DEF Admitted
<1>b. Cardinality(Admitted') <= all - Len(m_QueuedPlayer')
  BY DEF Bound
<1>c. ASSUME Cardinality(Admitted') <= Limit PROVE LimitOK'
  BY <1>c DEF LimitOK, LimitRespected, Admitted
<1>6. CASE ~AddWait /\ a \notin Privileged
  <2> HIDE DEF q, s, a, rest, all
  <2>1. q = <<>>
    <3>1. ASSUME q # <<>> PROVE FALSE
      <4>1. all - 1 - Len(rest) >= Limit
        BY <1>1, <3>1
      <4>2. all - 1 >= Limit /\ all >= Limit
        BY <1>1, <1>3, <4>1
      <4> QED
        BY <1>1, <1>6, <4>2
    <3> QED
      BY <3>1
  <2>2. all - 1 < Limit /\ m_QueuedPlayer' = <<>>
    BY <1>1, <1>3, <1>6, <2>1
  <2>3. Cardinality(Admitted') <= Limit
    BY <1>1, <1>3, <1>a, <1>b, <2>2
  <2> QED
    BY <1>c, <2>3
<1>7. CASE accepted # {} /\ (AddWait \/ a \in Privileged)
  <2>1. AddRemoval = RemoveQueuedPlayer(q, n, old)
    BY <1>7 DEF AddRemoval
  <2>2. Len(rest) = Len(q) - 1
    <3> HIDE DEF q, n, old
    <3>1. ~Waits(q, old)
      BY <1>3, <1>7, <2>1, RemovalKeepsFull
    <3>2. Len(Without(q, old)) = Len(q)
      BY <1>3, <3>1, WithoutType
    <3>3. Len(rest) = Len(Without(q, old)) - 1
      BY <1>3, <1>7, <2>1, RemoveQueuedPlayerType
    <3> QED
      BY <3>2, <3>3
  <2>3. all - 1 - Len(q) < Limit
    BY <1>1, <1>7
  <2>4. CASE AddWait
    <3>1. Len(m_QueuedPlayer') = Len(q)
      BY <1>1, <1>3, <2>2, <2>4
    <3>2. Cardinality(Admitted') <= Limit
      BY <1>1, <1>3, <1>a, <1>b, <2>3, <3>1
    <3> QED
      BY <1>c, <3>2
  <2>5. CASE ~AddWait
    <3>1. m_QueuedPlayer' = rest /\ a \in Listed' \cap Privileged
      BY <1>1, <1>7, <2>5
    <3>2. m_sessions'[a] = s
      BY <1>1, <1>2 DEF IInv, TypeOK
    <3>3. ~Waits(rest, s)
      <4> HIDE DEF q, n, s, old
      <4> QED
        BY <1>3, <1>4, <2>1, RemoveQueuedPlayerType
    <3>4. ~Waits(m_QueuedPlayer', m_sessions'[a])
      BY <3>1, <3>2, <3>3
    <3>5. Cardinality(Admitted') <= all - Len(m_QueuedPlayer') - 1
      <4> DEFINE P(b) == ~Waits(m_QueuedPlayer', m_sessions'[b])
      <4>1. \A b \in Listed' \cap Privileged : P(b) =>
                Cardinality(Admitted') <= all - Len(m_QueuedPlayer') - 1
        BY DEF Bound, Waits
      <4> QED
        BY <3>1, <3>4, <4>1
    <3>6. Cardinality(Admitted') <= Limit
      BY <1>1, <1>3, <1>a, <2>2, <2>3, <3>1, <3>5
    <3> QED
      BY <1>c, <3>6
  <2> QED
    BY <2>4, <2>5
<1> QED
  BY <1>5, <1>6, <1>7

LEMMA LimitStep == ASSUME IInv, Full, LimitOK, [Next]_vars, IInv', Bound' PROVE LimitOK'
<1>1. CASE ~AddSession_ /\ ~RemoveSession
  <2>1. Quiet
    BY <1>1, QuietWorld
  <2>2. Admitted' \subseteq Admitted
    <3> SUFFICES ASSUME NEW a \in Accounts, a \notin Privileged,
                        m_sessions[a] # NoSession, session'[m_sessions[a]].init # "no"
                 PROVE  session[m_sessions[a]].init # "no"
      BY <2>1 DEF Admitted, Quiet
    <3>1. m_sessions[a] \in SessionIds
      BY DEF IInv, TypeOK
    <3> QED
      BY <2>1, <3>1 DEF Quiet
  <2> QED
    BY <2>2, AdmittedFewer, LimitMeaning, LimitAssumption DEF LimitOK, LimitRespected, Admitted
<1> QED
  BY <1>1, AddLimit, RemoveLimit

\* The sessions that had to mind the limit and are let in never exceed it,
\* whatever privileged sessions come, go, replace others or are replaced.
THEOREM LimitHolds == Spec => []LimitRespected
<1>1. Init => LimitOK
  <2> SUFFICES ASSUME Init PROVE LimitOK
    OBVIOUS
  <2>1. Admitted = {}
    BY DEF Init, Admitted
  <2> QED
    BY <2>1, LimitMeaning, FS_EmptySet, LimitAssumption
<1>2. IInv /\ Full /\ LimitOK /\ [Next]_vars /\ IInv' /\ Bound' => LimitOK'
  BY LimitStep
<1> QED
  BY <1>1, <1>2, FullInvariance, AdmittedBound, PTL DEF Spec, LimitOK
=============================================================================
