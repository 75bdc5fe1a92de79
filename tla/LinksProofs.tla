----------------------------- MODULE LinksProofs -----------------------------
(***************************************************************************)
(* Proofs about Links: whatever the number of servers and however often    *)
(* connections break, attempts fail and errors are reported, a link has    *)
(* one chain of retries, and the session in the map is the one that lives. *)
(*                                                                         *)
(* The two invariants need each other.  That a reported error starts no    *)
(* second chain rests on status_ being set by the first report; that a     *)
(* new session may take the place of the one in the map rests on the old   *)
(* one being disconnected, which follows from the count: while an attempt  *)
(* to connect is pending nothing else keeps the link going.  LinkInv       *)
(* states both, with the types the arithmetic needs.                       *)
(***************************************************************************)
EXTENDS Links, TLAPS, FiniteSetTheorems, SequenceTheorems

Status == {"CONNECTED", "DISCONNECTED"}

LinkTypes ==
  /\ connects \in [Endpoint -> Nat]
  /\ timers \in [Endpoint -> Nat]
  /\ status_ \in [Endpoint -> Seq(Status)]
  /\ outgoing_sessions_ \in [Endpoint -> Nat]

(* What LinkInv says of one endpoint, in terms of its own values. *)
Alone(running, c, t, status, listed) ==
  /\ listed \in 0..Len(status)
  /\ \A k \in 1..Len(status) : k # listed => status[k] = "DISCONNECTED"
  /\ running => c + t = IF listed # 0 /\ status[listed] = "CONNECTED" THEN 0 ELSE 1
  /\ ~running => c = 0 /\ t = 0 /\ status = <<>> /\ listed = 0

LinkInv ==
  /\ LinkTypes
  /\ \A e \in Endpoint :
       Alone(phase = "RUNNING", connects[e], timers[e], status_[e], outgoing_sessions_[e])

-----------------------------------------------------------------------------
(* A new session is listed in place of one that is disconnected. *)
LEMMA AloneConnects ==
  ASSUME NEW c \in Nat, NEW t \in Nat, NEW s \in Seq(Status), NEW l \in Nat, c > 0,
         Alone(TRUE, c, t, s, l), NEW u, u = Append(s, "CONNECTED")
  PROVE  /\ u \in Seq(Status) /\ c - 1 \in Nat /\ Len(s) + 1 \in Nat
         /\ Alone(TRUE, c - 1, t, u, Len(s) + 1)
<1>1. /\ u \in Seq(Status) /\ Len(u) = Len(s) + 1 /\ Len(s) \in Nat
      /\ \A k \in 1..Len(s) : u[k] = s[k]
      /\ u[Len(s) + 1] = "CONNECTED"
  BY AppendProperties DEF Status
<1>2. c = 1 /\ t = 0 /\ ~(l # 0 /\ s[l] = "CONNECTED")
  BY DEF Alone
<1>3. \A k \in 1..Len(s) : s[k] = "DISCONNECTED"
  <2> SUFFICES ASSUME NEW k \in 1..Len(s), s[k] # "DISCONNECTED" PROVE FALSE
    OBVIOUS
  <2>1. k = l
    BY DEF Alone
  <2>2. s[k] = "CONNECTED"
    BY ElementOfSeq DEF Status
  <2> QED BY <2>1, <2>2, <1>2
<1> QED
  BY <1>1, <1>2, <1>3 DEF Alone

(* A step that touches one endpoint only preserves LinkInv if it preserves what
   LinkInv says of that endpoint. *)
LEMMA OneEndpoint ==
  ASSUME LinkInv, phase' = phase, NEW e \in Endpoint,
         NEW c \in Nat, NEW t \in Nat, NEW s \in Seq(Status), NEW l \in Nat,
         connects' = [connects EXCEPT ![e] = c],
         timers' = [timers EXCEPT ![e] = t],
         status_' = [status_ EXCEPT ![e] = s],
         outgoing_sessions_' = [outgoing_sessions_ EXCEPT ![e] = l],
         Alone(phase = "RUNNING", c, t, s, l)
  PROVE  LinkInv'
<1>1. LinkTypes'
  BY DEF LinkInv, LinkTypes
<1>2. ASSUME NEW f \in Endpoint
      PROVE  Alone(phase = "RUNNING", connects[f], timers[f], status_[f],
                   outgoing_sessions_[f])'
  <2>1. CASE f = e
    <3>1. /\ connects'[f] = c /\ timers'[f] = t /\ status_'[f] = s
          /\ outgoing_sessions_'[f] = l
      BY <2>1 DEF LinkInv, LinkTypes
    <3> QED BY <3>1
  <2>2. CASE f # e
    <3>1. /\ connects'[f] = connects[f] /\ timers'[f] = timers[f]
          /\ status_'[f] = status_[f] /\ outgoing_sessions_'[f] = outgoing_sessions_[f]
      BY <2>2 DEF LinkInv, LinkTypes
    <3> QED BY <3>1 DEF LinkInv
  <2> QED BY <2>1, <2>2
<1> QED BY <1>1, <1>2 DEF LinkInv

(* A step that touches no endpoint, and does not start or stop the manager. *)
LEMMA NoEndpoint ==
  ASSUME LinkInv, (phase = "RUNNING") = (phase' = "RUNNING"),
         UNCHANGED <<connects, timers, status_, outgoing_sessions_>>
  PROVE  LinkInv'
BY DEF LinkInv, LinkTypes

(* Before start() nothing is under way. *)
LEMMA LinkInit == Init => LinkInv
<1> SUFFICES ASSUME Init PROVE LinkInv
  OBVIOUS
<1>1. LinkTypes
  BY DEF Init, LinkTypes
<1>2. ASSUME NEW e \in Endpoint
      PROVE  Alone(phase = "RUNNING", connects[e], timers[e], status_[e],
                   outgoing_sessions_[e])
  <2>1. /\ connects[e] = 0 /\ timers[e] = 0 /\ status_[e] = <<>>
        /\ outgoing_sessions_[e] = 0 /\ phase = "LOADING"
    BY DEF Init
  <2> QED BY <2>1 DEF Alone
<1> QED BY <1>1, <1>2 DEF LinkInv

(* start() is the one step that touches all endpoints. *)
LEMMA LinkStart ==
  ASSUME LinkInv, Start
  PROVE  LinkInv'
<1>1. LinkTypes'
  BY DEF LinkInv, LinkTypes, Start
<1>2. ASSUME NEW e \in Endpoint
      PROVE  Alone(phase = "RUNNING", connects[e], timers[e], status_[e],
                   outgoing_sessions_[e])'
  <2>1. Alone(FALSE, connects[e], timers[e], status_[e], outgoing_sessions_[e])
    BY ZenonT(30) DEF LinkInv, Start
  <2>2. timers[e] = 0 /\ status_[e] = <<>> /\ outgoing_sessions_[e] = 0
    BY <2>1 DEF Alone
  <2>3. /\ connects'[e] = 1 /\ timers'[e] = 0 /\ status_'[e] = <<>>
        /\ outgoing_sessions_'[e] = 0 /\ phase' = "RUNNING"
    BY <2>2 DEF Start
  <2> QED BY <2>3 DEF Alone
<1> QED BY <1>1, <1>2 DEF LinkInv

(* The values of one endpoint, as LinkInv has them. *)
LEMMA AtEndpoint ==
  ASSUME LinkInv, NEW e \in Endpoint
  PROVE  /\ connects[e] \in Nat /\ timers[e] \in Nat /\ status_[e] \in Seq(Status)
         /\ outgoing_sessions_[e] \in Nat
         /\ Alone(phase = "RUNNING", connects[e], timers[e], status_[e],
                  outgoing_sessions_[e])
         /\ connects[e] > 0 \/ timers[e] > 0 => phase = "RUNNING"
BY DEF LinkInv, LinkTypes, Alone

(* The handler of async_connect trades the attempt for a session. *)
LEMMA LinkConnectSucceeds ==
  ASSUME LinkInv, NEW e \in Endpoint, ConnectSucceeds(e)
  PROVE  LinkInv'
<1> DEFINE s == Append(status_[e], "CONNECTED")
<1>1. connects[e] > 0 /\ phase = "RUNNING" /\ phase' = phase
  BY AtEndpoint DEF ConnectSucceeds, configVars
<1>2. /\ s \in Seq(Status) /\ connects[e] - 1 \in Nat /\ Len(status_[e]) + 1 \in Nat
      /\ Alone(TRUE, connects[e] - 1, timers[e], s, Len(status_[e]) + 1)
  <2>1. /\ connects[e] \in Nat /\ timers[e] \in Nat /\ status_[e] \in Seq(Status)
        /\ outgoing_sessions_[e] \in Nat
        /\ Alone(TRUE, connects[e], timers[e], status_[e], outgoing_sessions_[e])
    BY ZenonT(30), <1>1, AtEndpoint
  <2>2. s = Append(status_[e], "CONNECTED")
    OBVIOUS
  <2> HIDE DEF s
  <2> QED BY ZenonT(30), <1>1, <2>1, <2>2, AloneConnects
<1>3. /\ connects' = [connects EXCEPT ![e] = connects[e] - 1]
      /\ timers' = [timers EXCEPT ![e] = timers[e]]
      /\ status_' = [status_ EXCEPT ![e] = s]
      /\ outgoing_sessions_' = [outgoing_sessions_ EXCEPT ![e] = Len(status_[e]) + 1]
  BY DEF ConnectSucceeds, InMap, LinkInv, LinkTypes
<1> QED BY ZenonT(30), <1>1, <1>2, <1>3, AtEndpoint, OneEndpoint

(* ... or, when it failed, for the timer. *)
LEMMA LinkConnectFails ==
  ASSUME LinkInv, NEW e \in Endpoint, ConnectFails(e)
  PROVE  LinkInv'
<1>1. connects[e] > 0 /\ phase = "RUNNING" /\ phase' = phase
  BY AtEndpoint DEF ConnectFails, configVars
<1>2. /\ connects[e] - 1 \in Nat /\ timers[e] + 1 \in Nat
      /\ Alone(phase = "RUNNING", connects[e] - 1, timers[e] + 1, status_[e],
               outgoing_sessions_[e])
  BY <1>1, AtEndpoint DEF Alone
<1>3. /\ connects' = [connects EXCEPT ![e] = connects[e] - 1]
      /\ timers' = [timers EXCEPT ![e] = timers[e] + 1]
      /\ status_' = [status_ EXCEPT ![e] = status_[e]]
      /\ outgoing_sessions_' = [outgoing_sessions_ EXCEPT ![e] = outgoing_sessions_[e]]
  BY DEF ConnectFails, LinkInv, LinkTypes
<1> QED BY ZenonT(30), <1>1, <1>2, <1>3, AtEndpoint, OneEndpoint

(* The timer never fires for nothing: no session is connected then. *)
LEMMA LinkTimerFires ==
  ASSUME LinkInv, NEW e \in Endpoint, TimerFires(e)
  PROVE  LinkInv'
<1>1. timers[e] > 0 /\ phase = "RUNNING" /\ phase' = phase
  BY AtEndpoint DEF TimerFires, configVars
<1>2. ~Connected(e)
  BY <1>1, AtEndpoint DEF Alone, Connected, Listed
<1>3. /\ connects[e] + 1 \in Nat /\ timers[e] - 1 \in Nat
      /\ Alone(phase = "RUNNING", connects[e] + 1, timers[e] - 1, status_[e],
               outgoing_sessions_[e])
  BY <1>1, AtEndpoint DEF Alone
<1>4. /\ connects' = [connects EXCEPT ![e] = connects[e] + 1]
      /\ timers' = [timers EXCEPT ![e] = timers[e] - 1]
      /\ status_' = [status_ EXCEPT ![e] = status_[e]]
      /\ outgoing_sessions_' = [outgoing_sessions_ EXCEPT ![e] = outgoing_sessions_[e]]
  BY <1>2 DEF TimerFires, LinkInv, LinkTypes
<1> QED BY ZenonT(30), <1>1, <1>3, <1>4, AtEndpoint, OneEndpoint

(* The first report of an error starts the timer, a later one does nothing. *)
LEMMA LinkDisconneted ==
  ASSUME LinkInv, NEW e \in Endpoint, NEW k \in DOMAIN status_[e], disconneted(e, k),
         phase' = phase, UNCHANGED <<connects, outgoing_sessions_>>
  PROVE  LinkInv'
<1> DEFINE u == [status_[e] EXCEPT ![k] = "DISCONNECTED"]
           v == IF status_[e][k] = "DISCONNECTED" THEN timers[e] ELSE timers[e] + 1
<1>1. phase = "RUNNING"
  BY AtEndpoint DEF Alone
<1>2. /\ u \in Seq(Status) /\ v \in Nat
      /\ Alone(TRUE, connects[e], v, u, outgoing_sessions_[e])
  <2>1. /\ connects[e] \in Nat /\ timers[e] \in Nat /\ status_[e] \in Seq(Status)
        /\ outgoing_sessions_[e] \in Nat
        /\ Alone(TRUE, connects[e], timers[e], status_[e], outgoing_sessions_[e])
    BY ZenonT(30), <1>1, AtEndpoint
  <2>2. k \in 1..Len(status_[e])
    BY <2>1, LenProperties
  <2>3. /\ u \in Seq(Status) /\ Len(u) = Len(status_[e]) /\ u[k] = "DISCONNECTED"
        /\ \A j \in 1..Len(status_[e]) : j # k => u[j] = status_[e][j]
    BY SMTT(30), <2>1, <2>2, ExceptSeq DEF Status
  <2>4. /\ status_[e][k] = "DISCONNECTED" => v = timers[e]
        /\ status_[e][k] # "DISCONNECTED" => v = timers[e] + 1
    OBVIOUS
  <2>5. Len(status_[e]) \in Nat
    BY <2>1, LenProperties
  <2> HIDE DEF u, v
  <2>6. CASE status_[e][k] = "DISCONNECTED"
    BY SMTT(30), <2>1, <2>2, <2>3, <2>4, <2>5, <2>6 DEF Alone
  <2>7. CASE status_[e][k] # "DISCONNECTED"
    <3>1. /\ outgoing_sessions_[e] = k /\ k # 0
          /\ status_[e][k] = "CONNECTED"
      BY SMTT(30), <2>1, <2>2, <2>5, <2>7, ElementOfSeq DEF Alone, Status
    <3>2. connects[e] = 0 /\ timers[e] = 0
      BY <2>1, <3>1 DEF Alone
    <3> QED BY SMTT(30), <2>1, <2>2, <2>3, <2>4, <2>5, <2>7, <3>1, <3>2 DEF Alone
  <2> QED BY ZenonT(30), <2>6, <2>7
<1>3. /\ connects' = [connects EXCEPT ![e] = connects[e]]
      /\ timers' = [timers EXCEPT ![e] = v]
      /\ status_' = [status_ EXCEPT ![e] = u]
      /\ outgoing_sessions_' = [outgoing_sessions_ EXCEPT ![e] = outgoing_sessions_[e]]
  BY DEF disconneted, LinkInv, LinkTypes
<1>4. connects[e] \in Nat /\ outgoing_sessions_[e] \in Nat
  BY AtEndpoint
<1> HIDE DEF u, v
<1> QED BY ZenonT(30), <1>1, <1>2, <1>3, <1>4, OneEndpoint

(* Every step preserves LinkInv; those on sockets touch none of its variables
   except through disconneted. *)
LEMMA LinkNext == LinkInv /\ [Next]_vars => LinkInv'
<1> SUFFICES ASSUME LinkInv, [Next]_vars PROVE LinkInv'
  OBVIOUS
<1>1. CASE SkipLine \/ BlockLine \/ OtherLine \/ LoadThrows
  BY <1>1, NoEndpoint DEF SkipLine, BlockLine, OtherLine, LoadThrows, linkVars
<1>2. CASE Start
  BY SMTT(30), <1>2, LinkStart
<1>3. CASE write_message \/ broad_cast
  BY ZenonT(30), <1>3, NoEndpoint DEF write_message, broad_cast, Write, configVars
<1>4. ASSUME NEW e \in Endpoint,
             ConnectSucceeds(e) \/ ConnectFails(e) \/ TimerFires(e)
      PROVE  LinkInv'
  BY SMTT(30), <1>4, LinkConnectSucceeds, LinkConnectFails, LinkTimerFires
<1>5. ASSUME NEW e \in Endpoint, NEW k \in DOMAIN status_[e],
             ReadFails(e, k) \/ WriteFails(e, k)
      PROVE  LinkInv'
  <2>1. disconneted(e, k) /\ phase' = phase /\ UNCHANGED <<connects, outgoing_sessions_>>
    BY SMTT(30), <1>5 DEF ReadFails, WriteFails, configVars
  <2> QED BY SMTT(30), <2>1, LinkDisconneted
<1>6. ASSUME NEW e \in Endpoint, NEW k \in DOMAIN status_[e],
             WriteLost(e, k) \/ WriteSome(e, k) \/ Far(e, k) \/ Break(e, k)
      PROVE  LinkInv'
  BY ZenonT(30), <1>6, NoEndpoint DEF WriteLost, WriteSome, Far, PeerReadsHeader, PeerReadsBody,
     PeerDisconnected, Break, configVars
<1>7. CASE UNCHANGED vars
  BY <1>7, NoEndpoint DEF vars, configVars, linkVars
<1> QED
  BY SMTT(30), <1>1, <1>2, <1>3, <1>4, <1>5, <1>6, <1>7 DEF Next, Loading, Near

(* LinkInv is an invariant, for every configuration and every bound. *)
THEOREM LinkInvariant == Spec => []LinkInv
<1>1. Init => LinkInv
  BY LinkInit
<1>2. LinkInv /\ [Next]_vars => LinkInv'
  BY LinkNext
<1> QED BY <1>1, <1>2, PTL DEF Spec

-----------------------------------------------------------------------------
(* Who is connected is listed, since all others are disconnected. *)
LEMMA InvLive == LinkInv => LiveIsListed
<1> SUFFICES ASSUME LinkInv, NEW e \in Endpoint, NEW k \in DOMAIN status_[e],
                    status_[e][k] = "CONNECTED"
             PROVE  outgoing_sessions_[e] = k
  BY DEF LiveIsListed
<1>1. k \in 1..Len(status_[e])
  BY AtEndpoint, LenProperties
<1> QED BY <1>1, AtEndpoint DEF Alone

(* The count of OneChain is that of Alone: at most one session is connected. *)
LEMMA InvChain == LinkInv => OneChain
<1> SUFFICES ASSUME LinkInv, phase = "RUNNING", NEW e \in Endpoint
             PROVE  connects[e] + timers[e]
                      + Cardinality({k \in DOMAIN status_[e] :
                                       status_[e][k] = "CONNECTED"}) = 1
  BY DEF OneChain
<1> DEFINE live == {k \in DOMAIN status_[e] : status_[e][k] = "CONNECTED"}
<1>1. DOMAIN status_[e] = 1..Len(status_[e]) /\ Len(status_[e]) \in Nat
  BY AtEndpoint, LenProperties
<1>2. live \subseteq {outgoing_sessions_[e]}
  BY InvLive DEF LiveIsListed
<1>3. CASE Connected(e)
  <2>1. live = {outgoing_sessions_[e]}
    BY SMTT(30), <1>1, <1>2, <1>3, AtEndpoint DEF Alone, Connected, Listed
  <2>2. Cardinality(live) = 1
    BY ZenonT(30), <2>1, FS_Singleton
  <2>3. connects[e] + timers[e] = 0
    BY <1>3, AtEndpoint DEF Alone, Connected, Listed
  <2> QED BY SMTT(30), <2>2, <2>3, AtEndpoint
<1>4. CASE ~Connected(e)
  <2>1. live = {}
    BY SMTT(30), <1>1, <1>2, <1>4 DEF Connected, Listed
  <2>2. Cardinality(live) = 0
    BY <2>1, FS_EmptySet
  <2>3. connects[e] + timers[e] = 1
    BY <1>4, AtEndpoint DEF Alone, Connected, Listed
  <2> QED BY <2>2, <2>3, AtEndpoint
<1> QED BY <1>3, <1>4

(* A link has exactly one attempt, timer or connected session, however errors of
   reads and writes, failed attempts and timers interleave (connect,
   Session::disconneted). *)
THEOREM OneChainAlways == Spec => []OneChain
BY LinkInvariant, InvChain, PTL

(* The connected session is the one messages are written to (connect,
   write_message). *)
THEOREM LiveIsListedAlways == Spec => []LiveIsListed
BY LinkInvariant, InvLive, PTL
=============================================================================
