--------------------------- MODULE DaemonLinkProofs ---------------------------
(* Both ends of a link agree on what runs, for any number of processes and *)
(* connections and however often the link breaks or the server restarts.   *)
EXTENDS DaemonLink, FiniteSetTheorems, TLAPS

-----------------------------------------------------------------------------
(* Sequences.                                                              *)
LEMMA ToSetAppended ==
  ASSUME NEW S, NEW s \in Seq(S), NEW t \in Seq(S)
  PROVE  ToSet(s \o t) = ToSet(s) \cup ToSet(t)
PROOF
  <1>1. /\ DOMAIN s = 1..Len(s) /\ DOMAIN t = 1..Len(t)
        /\ DOMAIN (s \o t) = 1..(Len(s) + Len(t))
        /\ \A i \in 1..Len(s) : (s \o t)[i] = s[i]
        /\ \A i \in 1..Len(t) : (s \o t)[Len(s) + i] = t[i]
    OBVIOUS
  <1>2. ASSUME NEW x \in ToSet(s \o t)
        PROVE  x \in ToSet(s) \cup ToSet(t)
    <2>1. PICK i \in 1..(Len(s) + Len(t)) : x = (s \o t)[i]
      BY <1>1, <1>2 DEF ToSet
    <2>2. CASE i \in 1..Len(s)
      BY <1>1, <2>1, <2>2 DEF ToSet
    <2>3. CASE i \notin 1..Len(s)
      <3>1. i - Len(s) \in 1..Len(t) /\ Len(s) + (i - Len(s)) = i
        BY <2>3
      <3>2. x = t[i - Len(s)]
        BY <1>1, <2>1, <3>1
      <3> QED  BY <1>1, <3>1, <3>2 DEF ToSet
    <2> QED  BY <2>2, <2>3
  <1>3. ASSUME NEW x \in ToSet(s)
        PROVE  x \in ToSet(s \o t)
    <2>1. PICK i \in 1..Len(s) : x = s[i]
      BY <1>1, <1>3 DEF ToSet
    <2>2. i \in 1..(Len(s) + Len(t)) /\ x = (s \o t)[i]
      BY <1>1, <2>1
    <2> QED  BY <1>1, <2>2 DEF ToSet
  <1>4. ASSUME NEW x \in ToSet(t)
        PROVE  x \in ToSet(s \o t)
    <2>1. PICK i \in 1..Len(t) : x = t[i]
      BY <1>1, <1>4 DEF ToSet
    <2>2. Len(s) + i \in 1..(Len(s) + Len(t)) /\ x = (s \o t)[Len(s) + i]
      BY <1>1, <2>1
    <2> QED  BY <1>1, <2>2 DEF ToSet
  <1> QED  BY <1>2, <1>3, <1>4

LEMMA ToSetOneMore ==
  ASSUME NEW S, NEW s \in Seq(S), NEW x \in S
  PROVE  /\ Append(s, x) \in Seq(S) /\ Len(Append(s, x)) = Len(s) + 1
         /\ ToSet(Append(s, x)) = ToSet(s) \cup {x}
PROOF
  <1>1. /\ Append(s, x) \in Seq(S) /\ Len(Append(s, x)) = Len(s) + 1
        /\ DOMAIN s = 1..Len(s) /\ DOMAIN Append(s, x) = 1..(Len(s) + 1)
        /\ \A i \in 1..Len(s) : Append(s, x)[i] = s[i]
        /\ Append(s, x)[Len(s) + 1] = x
    OBVIOUS
  <1>2. ASSUME NEW y \in ToSet(Append(s, x))
        PROVE  y \in ToSet(s) \cup {x}
    <2>1. PICK i \in 1..(Len(s) + 1) : y = Append(s, x)[i]
      BY <1>1, <1>2 DEF ToSet
    <2>2. i \in 1..Len(s) \/ i = Len(s) + 1
      OBVIOUS
    <2> QED  BY <1>1, <2>1, <2>2 DEF ToSet
  <1>3. ASSUME NEW y \in ToSet(s)
        PROVE  y \in ToSet(Append(s, x))
    <2>1. PICK i \in 1..Len(s) : y = s[i]
      BY <1>1, <1>3 DEF ToSet
    <2>2. i \in 1..(Len(s) + 1) /\ y = Append(s, x)[i]
      BY <1>1, <2>1
    <2> QED  BY <1>1, <2>2 DEF ToSet
  <1>4. x \in ToSet(Append(s, x))
    <2>1. Len(s) + 1 \in 1..(Len(s) + 1)
      OBVIOUS
    <2> QED  BY <1>1, <2>1 DEF ToSet
  <1> QED  BY <1>1, <1>2, <1>3, <1>4

LEMMA ToSetHeadTail ==
  ASSUME NEW S, NEW s \in Seq(S), s # <<>>
  PROVE  /\ Head(s) \in S /\ Tail(s) \in Seq(S) /\ Len(Tail(s)) = Len(s) - 1 /\ Len(s) > 0
         /\ \A i \in 1..Len(Tail(s)) : Tail(s)[i] = s[i + 1]
         /\ ToSet(s) = {Head(s)} \cup ToSet(Tail(s))
PROOF
  <1>1. /\ Head(s) \in S /\ Tail(s) \in Seq(S) /\ Len(Tail(s)) = Len(s) - 1 /\ Len(s) > 0
        /\ \A i \in 1..Len(Tail(s)) : Tail(s)[i] = s[i + 1]
        /\ Head(s) = s[1] /\ DOMAIN s = 1..Len(s) /\ DOMAIN Tail(s) = 1..Len(Tail(s))
    OBVIOUS
  <1>2. ASSUME NEW x \in ToSet(s)
        PROVE  x \in {Head(s)} \cup ToSet(Tail(s))
    <2>1. PICK i \in 1..Len(s) : x = s[i]
      BY <1>1, <1>2 DEF ToSet
    <2>2. CASE i = 1
      BY <1>1, <2>1, <2>2
    <2>3. CASE i # 1
      <3>1. i - 1 \in 1..Len(Tail(s)) /\ (i - 1) + 1 = i
        BY <1>1, <2>3
      <3>2. x = Tail(s)[i - 1]
        BY <1>1, <2>1, <3>1
      <3> QED  BY <1>1, <3>1, <3>2 DEF ToSet
    <2> QED  BY <2>2, <2>3
  <1>3. Head(s) \in ToSet(s)
    <2>1. 1 \in DOMAIN s
      BY <1>1
    <2> QED  BY <1>1, <2>1 DEF ToSet
  <1>4. ASSUME NEW x \in ToSet(Tail(s))
        PROVE  x \in ToSet(s)
    <2>1. PICK i \in 1..Len(Tail(s)) : x = Tail(s)[i]
      BY <1>1, <1>4 DEF ToSet
    <2>2. i + 1 \in DOMAIN s /\ x = s[i + 1]
      BY <1>1, <2>1
    <2> QED  BY <2>2 DEF ToSet
  <1> QED  BY <1>1, <1>2, <1>3, <1>4

LEMMA ToSetOne ==
  ASSUME NEW S, NEW x \in S
  PROVE  <<x>> \in Seq(S) /\ ToSet(<<x>>) = {x} /\ Len(<<x>>) = 1
PROOF
  BY DEF ToSet

LEMMA ToSetEmpty == ToSet(<<>>) = {}
PROOF
  BY DEF ToSet

(* The sequence made of a finite set has its members.                      *)
LEMMA ToSetOfSet ==
  ASSUME NEW S, IsFiniteSet(S)
  PROVE  SetToSeq(S) \in Seq(S) /\ ToSet(SetToSeq(S)) = S
PROOF
  <1> DEFINE n == Cardinality(S)
             f == SetToSeq(S)
  <1>1. n \in Nat /\ ExistsBijection(1..n, S)
    BY FS_CardinalityType
  <1>2. \E g \in [1..n -> S] : IsInjective(g)
    BY <1>1 DEF ExistsBijection, Bijection, Injection
  <1>3. f \in [1..n -> S] /\ IsInjective(f)
    BY <1>2 DEF SetToSeq
  <1>4. f \in Injection(1..n, S)
    BY <1>3 DEF Injection
  <1>5. Cardinality(1..n) = n
    BY <1>1, FS_Interval
  <1> HIDE DEF n, f
  <1>6. f \in Surjection(1..n, S)
    BY <1>4, <1>5, FS_Injection DEF n
  <1>7. ToSet(f) = S
    BY <1>3, <1>6 DEF ToSet, Surjection
  <1>8. f \in Seq(S)
    BY <1>1, <1>3
  <1> QED  BY <1>7, <1>8 DEF f

-----------------------------------------------------------------------------
(* The invariant.                                                          *)
Fresh == {"none", "pending", "admitted", "rejected"}

(* Only the daemon's active socket is not closed, and only its queue holds *)
(* commands: the daemon connects again when it has let the last one go.    *)
Sockets ==
  \A c \in Conns :
    /\ cl[c] \in {"connecting", "open"} <=> c = ws
    /\ cl[c] = "none" <=> srv[c] = "none"
    /\ toDaemon[c] # <<>> => c = ws /\ c \notin cut /\ srv[c] \notin Fresh
    /\ conn = c => srv[c] \in {"open", "closing"}

(* What is on its way to the server was sent, by a process that was asked  *)
(* for.                                                                    *)
Carried ==
  /\ ToSet(buffer) \subseteq sent
  /\ \A c \in Conns : ToSet(toServer[c]) \subseteq sent
  /\ \A m \in sent : m.proc \in asked

(* No spawn is on its way twice.                                           *)
SpawnedOnce ==
  \A c \in Conns : \A i, j \in 1..Len(toDaemon[c]) :
    toDaemon[c][i] = toDaemon[c][j] /\ toDaemon[c][i].cmd = "spawn" => i = j

(* A process neither runs nor has said anything before it is spawned, and  *)
(* does not run when it has said that it ended.                            *)
Quiet ==
  /\ \A x \in Commands : OnItsWay(x) =>
       /\ x.proc \in asked
       /\ x.cmd = "spawn" => x.proc \notin running /\ \A m \in sent : m.proc # x.proc
  /\ \A p \in Procs : [proc |-> p, n |-> End] \in sent => p \notin running

(* A spawn without an entry has its kill behind it, unless a restart left  *)
(* the process unattached.                                                 *)
KillFollows ==
  \A c \in Conns : \A i \in 1..Len(toDaemon[c]) :
    LET p == toDaemon[c][i].proc
    IN  toDaemon[c][i].cmd = "spawn" /\ p \notin known \cup unattached =>
          \/ Killing(p) \in unheard
          \/ \E j \in (i + 1)..Len(toDaemon[c]) : toDaemon[c][j] = Killing(p)

IInv ==
  TypeOK /\ Sockets /\ Carried /\ SpawnedOnce /\ Quiet /\ KillFollows /\ SidesAgree

(* A message that is in the buffer, on its way or lost.                    *)
Somewhere(m) ==
  m \in lost \/ m \in ToSet(buffer) \/ \E c \in Conns : m \in ToSet(toServer[c])

LEMMA Numbers == End \in Nat /\ Final \in Nat /\ End <= Final /\ Conns \subseteq Nat /\ 0 \notin Conns
PROOF
  BY BoundsAssumption DEF End, Final, Conns

LEMMA CommandTypes ==
  \A p \in Procs : /\ Spawning(p) \in Commands /\ Killing(p) \in Commands
                  /\ Spawning(p).cmd = "spawn" /\ Killing(p).cmd = "kill"
                  /\ Spawning(p).proc = p /\ Killing(p).proc = p
                  /\ \A x \in Commands : /\ x.cmd = "spawn" /\ x.proc = p => x = Spawning(p)
                                        /\ x.cmd = "kill" /\ x.proc = p => x = Killing(p)
PROOF
  BY DEF Spawning, Killing, Commands

LEMMA InitIInv == Init => IInv
PROOF
  <1> SUFFICES ASSUME Init PROVE IInv
    OBVIOUS
  <1> USE BoundsAssumption, Numbers, ToSetEmpty DEF Init
  <1>1. TypeOK
    <2>1. /\ conn \in 0..MaxConns /\ ws \in 0..MaxConns /\ faults \in 0..MaxFaults
          /\ buffer \in Seq(Messages) /\ Len(buffer) <= BufferLimit
      OBVIOUS
    <2>2. toDaemon \in [Conns -> Seq(Commands)] /\ toServer \in [Conns -> Seq(Messages)]
      OBVIOUS
    <2> QED  BY <2>1, <2>2 DEF TypeOK
  <1>2. Sockets
    BY DEF Sockets, Fresh
  <1>3. Carried /\ SpawnedOnce /\ Quiet /\ KillFollows /\ SidesAgree
    BY DEF Carried, SpawnedOnce, Quiet, OnItsWay, KillFollows, SidesAgree
  <1> QED  BY <1>1, <1>2, <1>3 DEF IInv

-----------------------------------------------------------------------------
(* Messages.                                                               *)
LEMMA TransmitEffect ==
  ASSUME IInv, ws \in Conns, NEW ms \in Seq(Messages), Transmit(ms)
  PROVE  /\ toServer' \in [Conns -> Seq(Messages)]
         /\ \A c \in Conns : /\ ToSet(toServer'[c]) \subseteq ToSet(toServer[c]) \cup ToSet(ms)
                             /\ ToSet(toServer[c]) \subseteq ToSet(toServer'[c])
         /\ lost \subseteq lost' /\ lost' \subseteq lost \cup ToSet(ms)
         /\ \A m \in ToSet(ms) : m \in lost' \/ \E c \in Conns : m \in ToSet(toServer'[c])
PROOF
  <1>0. toServer \in [Conns -> Seq(Messages)]
    BY DEF IInv, TypeOK
  <1>1. CASE ws \in cut
    BY <1>0, <1>1 DEF Transmit
  <1>2. CASE ws \notin cut
    <2>1. toServer' = [toServer EXCEPT ![ws] = toServer[ws] \o ms] /\ lost' = lost
      BY <1>2 DEF Transmit
    <2>2. toServer[ws] \in Seq(Messages) /\ toServer[ws] \o ms \in Seq(Messages)
      BY <1>0
    <2>3. ToSet(toServer[ws] \o ms) = ToSet(toServer[ws]) \cup ToSet(ms)
      BY <2>2, ToSetAppended
    <2>4. toServer'[ws] = toServer[ws] \o ms /\ \A c \in Conns \ {ws} : toServer'[c] = toServer[c]
      BY <1>0, <2>1
    <2>5. toServer' \in [Conns -> Seq(Messages)]
      BY <1>0, <2>1, <2>2
    <2> QED  BY <2>1, <2>3, <2>4, <2>5
  <1> QED  BY <1>1, <1>2

LEMMA SayEffect ==
  ASSUME IInv, NEW m \in Messages, SendToServer(m)
  PROVE  /\ sent' = sent \cup {m}
         /\ buffer' \in Seq(Messages) /\ Len(buffer') <= BufferLimit
         /\ toServer' \in [Conns -> Seq(Messages)]
         /\ ToSet(buffer') \subseteq sent'
         /\ \A c \in Conns : ToSet(toServer'[c]) \subseteq sent'
         /\ lost' \subseteq sent'
         /\ \A x : Somewhere(x) => Somewhere(x)'
         /\ Somewhere(m)'
PROOF
  <1>0. /\ buffer \in Seq(Messages) /\ Len(buffer) <= BufferLimit /\ ws \in 0..MaxConns
        /\ toServer \in [Conns -> Seq(Messages)] /\ lost \subseteq sent
        /\ ToSet(buffer) \subseteq sent /\ \A c \in Conns : ToSet(toServer[c]) \subseteq sent
    BY DEF IInv, TypeOK, Carried
  <1>1. sent' = sent \cup {m}
    BY DEF SendToServer
  <1>2. <<m>> \in Seq(Messages) /\ ToSet(<<m>>) = {m} /\ Len(<<m>>) = 1
    BY ToSetOne
  <1>3. CASE DaemonOpen /\ Transmit(<<m>>) /\ UNCHANGED buffer
    <2>1. ws \in Conns
      BY <1>0, <1>3, BoundsAssumption DEF DaemonOpen, Conns
    <2> HIDE DEF Transmit
    <2>2. /\ toServer' \in [Conns -> Seq(Messages)]
          /\ \A c \in Conns : /\ ToSet(toServer'[c]) \subseteq ToSet(toServer[c]) \cup {m}
                              /\ ToSet(toServer[c]) \subseteq ToSet(toServer'[c])
          /\ lost \subseteq lost' /\ lost' \subseteq lost \cup {m}
          /\ m \in lost' \/ \E c \in Conns : m \in ToSet(toServer'[c])
      BY <1>2, <1>3, <2>1, TransmitEffect
    <2> QED  BY <1>0, <1>1, <1>3, <2>2 DEF Somewhere
  <1>4. CASE /\ Len(buffer) < BufferLimit
             /\ buffer' = Append(buffer, m)
             /\ UNCHANGED <<toServer, lost>>
    <2>1. /\ Append(buffer, m) \in Seq(Messages) /\ Len(Append(buffer, m)) = Len(buffer) + 1
          /\ ToSet(Append(buffer, m)) = ToSet(buffer) \cup {m}
      BY <1>0, ToSetOneMore
    <2>2. ToSet(buffer') = ToSet(buffer) \cup {m} /\ buffer' \in Seq(Messages)
      BY <1>4, <2>1
    <2>3. Len(buffer') <= BufferLimit
      BY <1>0, <1>4, <2>1, BoundsAssumption
    <2> QED  BY <1>0, <1>1, <1>4, <2>2, <2>3 DEF Somewhere
  <1>5. CASE /\ Len(buffer) >= BufferLimit
             /\ buffer' = Append(Tail(buffer), m)
             /\ lost' = lost \cup {Head(buffer)}
             /\ UNCHANGED toServer
    <2>1. buffer # <<>>
      BY <1>0, <1>5, BoundsAssumption
    <2>2. /\ Tail(buffer) \in Seq(Messages) /\ Len(Tail(buffer)) = Len(buffer) - 1
          /\ ToSet(buffer) = {Head(buffer)} \cup ToSet(Tail(buffer))
      BY <1>0, <2>1, ToSetHeadTail
    <2> DEFINE t == Tail(buffer)
    <2>a. t \in Seq(Messages)
      BY <2>2
    <2> HIDE DEF t
    <2>3. /\ Append(t, m) \in Seq(Messages) /\ Len(Append(t, m)) = Len(t) + 1
          /\ ToSet(Append(t, m)) = ToSet(t) \cup {m}
      BY <2>a, ToSetOneMore
    <2>4. ToSet(buffer') = ToSet(Tail(buffer)) \cup {m} /\ buffer' \in Seq(Messages)
      BY <1>5, <2>3 DEF t
    <2>5. Len(buffer') <= BufferLimit
      <3>1. Len(buffer') = Len(buffer) - 1 + 1
        BY <1>5, <2>2, <2>3 DEF t
      <3>2. Len(buffer) \in Nat
        BY <1>0
      <3> QED  BY <1>0, <3>1, <3>2
    <2> QED  BY <1>0, <1>1, <1>5, <2>2, <2>4, <2>5 DEF Somewhere
  <1> QED  BY <1>3, <1>4, <1>5 DEF SendToServer

LEMMA FlushEffect ==
  ASSUME IInv, Flush, sent' = sent
  PROVE  /\ buffer' \in Seq(Messages) /\ Len(buffer') <= BufferLimit
         /\ toServer' \in [Conns -> Seq(Messages)]
         /\ ToSet(buffer') \subseteq sent
         /\ \A c \in Conns : ToSet(toServer'[c]) \subseteq sent
         /\ lost' \subseteq sent
         /\ \A x : Somewhere(x) => Somewhere(x)'
PROOF
  <1>0. /\ buffer \in Seq(Messages) /\ Len(buffer) <= BufferLimit /\ ws \in 0..MaxConns
        /\ toServer \in [Conns -> Seq(Messages)] /\ lost \subseteq sent
        /\ ToSet(buffer) \subseteq sent /\ \A c \in Conns : ToSet(toServer[c]) \subseteq sent
    BY DEF IInv, TypeOK, Carried
  <1>1. CASE DaemonOpen
    <2>1. ws \in Conns
      BY <1>0, <1>1, BoundsAssumption DEF DaemonOpen, Conns
    <2>2. Transmit(buffer) /\ buffer' = <<>>
      BY <1>1 DEF Flush
    <2>3. /\ toServer' \in [Conns -> Seq(Messages)]
          /\ \A c \in Conns : /\ ToSet(toServer'[c]) \subseteq ToSet(toServer[c]) \cup ToSet(buffer)
                              /\ ToSet(toServer[c]) \subseteq ToSet(toServer'[c])
          /\ lost \subseteq lost' /\ lost' \subseteq lost \cup ToSet(buffer)
          /\ \A m \in ToSet(buffer) : m \in lost' \/ \E c \in Conns : m \in ToSet(toServer'[c])
      BY <1>0, <2>1, <2>2, TransmitEffect
    <2>4. buffer' \in Seq(Messages) /\ Len(buffer') = 0 /\ ToSet(buffer') = {}
      BY <2>2, ToSetEmpty
    <2> QED  BY <1>0, <2>3, <2>4, BoundsAssumption DEF Somewhere
  <1>2. CASE ~DaemonOpen
    <2>1. buffer' = buffer /\ toServer' = toServer /\ lost' = lost
      BY <1>2 DEF Flush
    <2> QED  BY <1>0, <2>1 DEF Somewhere
  <1> QED  BY <1>1, <1>2

(* How many messages a process has sent is a number.                       *)
LEMMA PrintedType ==
  ASSUME sent \subseteq Messages, NEW p \in Procs
  PROVE  Printed(p) \in Nat
PROOF
  <1> DEFINE D == Procs \X (0..Final)
             f == [x \in D |-> [proc |-> x[1], n |-> x[2]]]
  <1>1. IsFiniteSet(0..Final)
    BY Numbers, FS_Interval
  <1>2. IsFiniteSet(D)
    BY <1>1, ProcsAssumption, FS_Product
  <1>3. f \in [D -> Messages]
    BY DEF Messages
  <1>4. ASSUME NEW m \in Messages
        PROVE  \E x \in D : f[x] = m
    <2>1. <<m.proc, m.n>> \in D /\ f[<<m.proc, m.n>>] = m
      BY DEF Messages
    <2> QED  BY <2>1
  <1>5. f \in Surjection(D, Messages)
    BY <1>3, <1>4 DEF Surjection
  <1>6. IsFiniteSet(Messages)
    <2> HIDE DEF f, D
    <2> QED  BY <1>2, <1>5, FS_Surjection
  <1>7. { m \in sent : m.proc = p } \in SUBSET Messages
    OBVIOUS
  <1>8. IsFiniteSet({ m \in sent : m.proc = p })
    BY <1>6, <1>7, FS_Subset
  <1> QED  BY <1>8, FS_CardinalityType DEF Printed

-----------------------------------------------------------------------------
(* Commands.                                                               *)
LEMMA CommandEffect ==
  ASSUME IInv, ServerOpen, NEW ks \in Seq(Commands), Command(ks)
  PROVE  \/ toDaemon' = toDaemon /\ unheard' = unheard \cup ToSet(ks)
         \/ /\ conn \in Conns /\ conn = ws /\ conn \notin cut /\ srv[conn] = "open"
            /\ toDaemon' = [toDaemon EXCEPT ![conn] = toDaemon[conn] \o ks]
            /\ unheard' = unheard
PROOF
  <1>1. /\ conn \in Conns /\ srv[conn] = "open"
        /\ cl \in [Conns -> {"none", "connecting", "open", "closed"}]
    BY BoundsAssumption DEF ServerOpen, IInv, TypeOK, Conns
  <1>2. CASE conn \in cut \/ cl[conn] = "closed"
    BY <1>2 DEF Command
  <1>3. CASE conn \notin cut /\ cl[conn] # "closed"
    <2>1. conn = ws
      BY <1>1, <1>3 DEF IInv, Sockets
    <2> QED  BY <1>1, <1>3, <2>1 DEF Command
  <1> QED  BY <1>2, <1>3

(* What the daemon's queue is when commands were added to it.              *)
LEMMA Queued ==
  ASSUME IInv, conn \in Conns, NEW ks \in Seq(Commands),
         toDaemon' = [toDaemon EXCEPT ![conn] = toDaemon[conn] \o ks]
  PROVE  /\ toDaemon' \in [Conns -> Seq(Commands)]
         /\ \A c \in Conns \ {conn} : toDaemon'[c] = toDaemon[c]
         /\ Len(toDaemon[conn]) \in Nat
         /\ Len(toDaemon'[conn]) = Len(toDaemon[conn]) + Len(ks)
         /\ \A i \in 1..Len(toDaemon[conn]) : toDaemon'[conn][i] = toDaemon[conn][i]
         /\ \A i \in 1..Len(ks) : toDaemon'[conn][Len(toDaemon[conn]) + i] = ks[i]
         /\ \A x : OnItsWay(x)' <=> OnItsWay(x) \/ x \in ToSet(ks)
PROOF
  <1>0. toDaemon \in [Conns -> Seq(Commands)]
    BY DEF IInv, TypeOK
  <1> DEFINE q == toDaemon[conn]
             r == q \o ks
  <1>1. q \in Seq(Commands) /\ Len(q) \in Nat
    BY <1>0
  <1>2. /\ Len(r) = Len(q) + Len(ks) /\ r \in Seq(Commands)
        /\ \A i \in 1..Len(q) : r[i] = q[i]
        /\ \A i \in 1..Len(ks) : r[Len(q) + i] = ks[i]
    BY <1>1
  <1>3. ToSet(r) = ToSet(q) \cup ToSet(ks)
    BY <1>1, ToSetAppended
  <1>4. toDaemon'[conn] = r /\ \A c \in Conns \ {conn} : toDaemon'[c] = toDaemon[c]
    BY <1>0
  <1>5. toDaemon' \in [Conns -> Seq(Commands)]
    BY <1>0, <1>2
  <1> HIDE DEF r
  <1>6. \A x : OnItsWay(x)' <=> OnItsWay(x) \/ x \in ToSet(ks)
    BY <1>3, <1>4 DEF OnItsWay
  <1> QED  BY <1>1, <1>2, <1>4, <1>5, <1>6

(* Kills sent to the daemon.                                               *)
LEMMA KillsSent ==
  ASSUME IInv, ServerOpen, NEW ks \in Seq(Commands), Command(ks),
         \A x \in ToSet(ks) : x.cmd = "kill" /\ x.proc \in asked,
         \A p \in known \ known' : Killing(p) \in ToSet(ks),
         running' = running, asked' = asked, sent' = sent, unattached' = unattached
  PROVE  /\ SpawnedOnce' /\ Quiet' /\ KillFollows'
         /\ toDaemon' \in [Conns -> Seq(Commands)] /\ unheard' \subseteq Commands
         /\ \A x : x \in unheard => x \in unheard'
         /\ \A x : OnItsWay(x) => OnItsWay(x)'
         /\ \A x \in ToSet(ks) : OnItsWay(x)' \/ x \in unheard'
         /\ \A c \in Conns : toDaemon'[c] # <<>> =>
                toDaemon[c] # <<>> \/ (c = ws /\ c \notin cut /\ srv[c] \notin Fresh)
PROOF
  <1>0. /\ toDaemon \in [Conns -> Seq(Commands)] /\ unheard \subseteq Commands
        /\ SpawnedOnce /\ Quiet /\ KillFollows /\ known \subseteq Procs
        /\ \A x \in ToSet(ks) : x \in Commands
    BY DEF IInv, TypeOK, ToSet
  <1>1. CASE toDaemon' = toDaemon /\ unheard' = unheard \cup ToSet(ks)
    <2>1. SpawnedOnce'
      BY <1>0, <1>1 DEF SpawnedOnce
    <2>2. KillFollows'
      <3> SUFFICES ASSUME NEW c \in Conns, NEW i \in 1..Len(toDaemon[c]),
                          toDaemon[c][i].cmd = "spawn",
                          toDaemon[c][i].proc \notin known' \cup unattached'
                   PROVE  \/ Killing(toDaemon[c][i].proc) \in unheard'
                          \/ \E j \in (i + 1)..Len(toDaemon[c]) :
                               toDaemon[c][j] = Killing(toDaemon[c][i].proc)
        BY <1>1 DEF KillFollows, Killing
      <3>1. CASE toDaemon[c][i].proc \in known
        BY <1>1, <3>1
      <3>2. CASE toDaemon[c][i].proc \notin known
        BY <1>0, <1>1, <3>2 DEF KillFollows
      <3> QED  BY <3>1, <3>2
    <2>3. \A x : OnItsWay(x)' <=> OnItsWay(x)
      BY <1>1 DEF OnItsWay
    <2>4. Quiet'
      BY <1>0, <2>3 DEF Quiet
    <2> QED  BY <1>0, <1>1, <2>1, <2>2, <2>3, <2>4
  <1>2. CASE /\ conn \in Conns /\ conn = ws /\ conn \notin cut /\ srv[conn] = "open"
             /\ toDaemon' = [toDaemon EXCEPT ![conn] = toDaemon[conn] \o ks]
             /\ unheard' = unheard
    <2> DEFINE q == toDaemon[conn]
               k == Len(q)
               r == toDaemon'[conn]
    <2>1. /\ toDaemon' \in [Conns -> Seq(Commands)]
          /\ \A c \in Conns \ {conn} : toDaemon'[c] = toDaemon[c]
          /\ k \in Nat /\ Len(r) = k + Len(ks)
          /\ \A i \in 1..k : r[i] = q[i]
          /\ \A i \in 1..Len(ks) : r[k + i] = ks[i]
          /\ \A x : OnItsWay(x)' <=> OnItsWay(x) \/ x \in ToSet(ks)
      BY <1>2, Queued
    <2>2. \A i \in 1..Len(ks) : ks[i] \in ToSet(ks)
      BY DEF ToSet
    <2> HIDE DEF q, k, r
    <2>3. ASSUME NEW i \in 1..Len(r), r[i].cmd = "spawn"
          PROVE  i \in 1..k /\ r[i] = q[i]
      <3>1. CASE i \in 1..k
        BY <2>1, <3>1
      <3>2. CASE i \notin 1..k
        <4>1. i - k \in 1..Len(ks) /\ k + (i - k) = i
          BY <2>1, <3>2
        <4>2. r[i] \in ToSet(ks)
          BY <2>1, <2>2, <4>1
        <4> QED  BY <2>3, <4>2
      <3> QED  BY <3>1, <3>2
    <2>7. SpawnedOnce'
      <3> SUFFICES ASSUME NEW c \in Conns, NEW i \in 1..Len(toDaemon'[c]),
                          NEW j \in 1..Len(toDaemon'[c]),
                          toDaemon'[c][i] = toDaemon'[c][j], toDaemon'[c][i].cmd = "spawn"
                   PROVE  i = j
        BY DEF SpawnedOnce
      <3>1. CASE c = conn
        <4>1. i \in 1..k /\ j \in 1..k /\ q[i] = q[j] /\ q[i].cmd = "spawn"
          BY <2>3, <3>1 DEF r
        <4> QED  BY <1>0, <3>1, <4>1 DEF SpawnedOnce, q, k
      <3>2. CASE c # conn
        BY <1>0, <2>1, <3>2 DEF SpawnedOnce
      <3> QED  BY <3>1, <3>2
    <2>8. KillFollows'
      <3> SUFFICES ASSUME NEW c \in Conns, NEW i \in 1..Len(toDaemon'[c]),
                          toDaemon'[c][i].cmd = "spawn",
                          toDaemon'[c][i].proc \notin known' \cup unattached'
                   PROVE  \/ Killing(toDaemon'[c][i].proc) \in unheard'
                          \/ \E j \in (i + 1)..Len(toDaemon'[c]) :
                               toDaemon'[c][j] = Killing(toDaemon'[c][i].proc)
        BY DEF KillFollows, Killing
      <3>1. CASE c # conn
        <4>1. toDaemon[c] # <<>>
          BY <1>0, <2>1, <3>1
        <4> QED  BY <1>2, <3>1, <4>1 DEF IInv, Sockets
      <3>2. CASE c = conn
        <4>1. i \in 1..k /\ toDaemon'[c][i] = q[i] /\ q[i].cmd = "spawn"
          BY <2>3, <3>2 DEF r
        <4> DEFINE p == q[i].proc
        <4>2. CASE p \in known
          <5>1. Killing(p) \in ToSet(ks)
            BY <4>1, <4>2
          <5>2. PICK j \in 1..Len(ks) : ks[j] = Killing(p)
            BY <5>1 DEF ToSet
          <5>3. k + j \in (i + 1)..Len(r) /\ r[k + j] = Killing(p)
            BY <2>1, <4>1, <5>2
          <5> QED  BY <3>2, <4>1, <5>3 DEF r
        <4>3. CASE p \notin known
          <5>0. p \notin unattached
            BY <3>2, <4>1
          <5>1. \/ Killing(p) \in unheard
                \/ \E j \in (i + 1)..k : q[j] = Killing(p)
            BY <1>0, <1>2, <4>1, <4>3, <5>0 DEF KillFollows, q, k
          <5>2. CASE Killing(p) \in unheard
            BY <1>2, <4>1, <5>2
          <5>3. CASE \E j \in (i + 1)..k : q[j] = Killing(p)
            <6>1. PICK j \in (i + 1)..k : q[j] = Killing(p)
              BY <5>3
            <6>2. j \in (i + 1)..Len(r) /\ r[j] = Killing(p)
              BY <2>1, <4>1, <6>1
            <6> QED  BY <3>2, <4>1, <6>2 DEF r
          <5> QED  BY <5>1, <5>2, <5>3
        <4> QED  BY <4>2, <4>3
      <3> QED  BY <3>1, <3>2
    <2>9. Quiet'
      BY <1>0, <2>1 DEF Quiet
    <2>10. \A c \in Conns : toDaemon'[c] # <<>> =>
                toDaemon[c] # <<>> \/ (c = ws /\ c \notin cut /\ srv[c] \notin Fresh)
      BY <1>2, <2>1 DEF Fresh
    <2> QED  BY <1>0, <1>2, <2>1, <2>7, <2>8, <2>9, <2>10
  <1> QED  BY <1>1, <1>2, CommandEffect

-----------------------------------------------------------------------------
(* What the two sides agree on, with one word for the news of an end.      *)
EndOf(p) == [proc |-> p, n |-> End]

Agreed ==
  /\ \A p \in known :
       \/ p \in running \/ OnItsWay(Spawning(p)) \/ Spawning(p) \in unheard
       \/ Somewhere(EndOf(p))
  /\ \A p \in running \ known :
       \/ p \in signalled \/ OnItsWay(Killing(p)) \/ Killing(p) \in unheard
       \/ p \in unattached

LEMMA AgreedForm == (SidesAgree <=> Agreed) /\ (SidesAgree' <=> Agreed')
PROOF
  BY DEF SidesAgree, Agreed, Ending, Somewhere, EndOf

(* A step that leaves the commands, the children and the spawns alone.     *)
LEMMA SameCommands ==
  ASSUME IInv, UNCHANGED <<toDaemon, unheard, running, asked>>,
         known \cup unattached \subseteq known' \cup unattached', sent' = sent
  PROVE  /\ SpawnedOnce' /\ Quiet' /\ KillFollows'
         /\ \A x : OnItsWay(x)' <=> OnItsWay(x)
PROOF
  <1>1. \A x : OnItsWay(x)' <=> OnItsWay(x)
    BY DEF OnItsWay
  <1>2. SpawnedOnce'
    BY DEF IInv, SpawnedOnce
  <1>3. Quiet'
    BY <1>1 DEF IInv, Quiet
  <1>4. KillFollows'
    BY DEF IInv, KillFollows
  <1> QED  BY <1>1, <1>2, <1>3, <1>4

(* A step of the sockets alone.                                            *)
LEMMA SocketStep ==
  ASSUME IInv, Sockets',
         UNCHANGED <<known, requests, got, running, signalled, buffer, toDaemon, toServer, cut,
                     asked, sent, lost, unheard, unattached, faults, revoked>>,
         conn' \in 0..MaxConns, ws' \in 0..MaxConns, probing' \subseteq Conns,
         srv' \in [Conns -> {"none", "pending", "admitted", "rejected", "open", "closing", "closed"}],
         cl' \in [Conns -> {"none", "connecting", "open", "closed"}]
  PROVE  IInv'
PROOF
  <1>1. TypeOK'
    BY DEF IInv, TypeOK
  <1>2. Carried'
    BY DEF IInv, Carried
  <1>3. SpawnedOnce' /\ Quiet' /\ KillFollows'
    BY SameCommands
  <1>4. SidesAgree'
    BY DEF IInv, SidesAgree, OnItsWay, Ending
  <1> QED  BY <1>1, <1>2, <1>3, <1>4 DEF IInv

LEMMA LinkKeeps ==
  ASSUME IInv, NEW c \in Conns,
         Admit(c) \/ Attach(c) \/ Reject(c) \/ ServerCloses(c) \/ ServerClosed(c) \/ Open(c)
           \/ DaemonCloses(c) \/ Connect
  PROVE  IInv'
PROOF
  <1>0. /\ conn \in 0..MaxConns /\ ws \in 0..MaxConns /\ probing \subseteq Conns
        /\ srv \in [Conns -> {"none", "pending", "admitted", "rejected", "open", "closing", "closed"}]
        /\ cl \in [Conns -> {"none", "connecting", "open", "closed"}]
        /\ Sockets /\ Conns = 1..MaxConns /\ MaxConns \in Nat
    BY BoundsAssumption DEF IInv, TypeOK, Conns
  <1>1. CASE Admit(c)
    <2>1. Sockets'
      BY <1>0, <1>1 DEF Admit, daemon, Sockets, Fresh
    <2> QED  BY <1>0, <1>1, <2>1, SocketStep DEF Admit, daemon
  <1>2. CASE Attach(c)
    <2>0. \A d \in Conns : srv'[d] = IF d = c THEN "open" ELSE IF d = conn THEN "closing" ELSE srv[d]
      BY <1>2 DEF Attach
    <2>1. Sockets'
      BY <1>0, <1>2, <2>0 DEF Attach, daemon, Sockets, Fresh
    <2> QED  BY <1>0, <1>2, <2>1, SocketStep DEF Attach, daemon
  <1>3. CASE Reject(c)
    <2>1. Sockets'
      BY <1>0, <1>3 DEF Reject, daemon, Sockets, Fresh
    <2> QED  BY <1>0, <1>3, <2>1, SocketStep DEF Reject, daemon
  <1>4. CASE ServerCloses(c)
    <2>1. Sockets'
      BY <1>0, <1>4 DEF ServerCloses, daemon, Closing, Sockets, Fresh
    <2> QED  BY <1>0, <1>4, <2>1, SocketStep DEF ServerCloses, daemon, Closing
  <1>5. CASE ServerClosed(c)
    <2>1. Sockets'
      BY <1>0, <1>5 DEF ServerClosed, daemon, RemoveIfCurrent, Sockets, Fresh
    <2> QED  BY <1>0, <1>5, <2>1, SocketStep DEF ServerClosed, daemon, RemoveIfCurrent
  <1>6. CASE Open(c)
    <2>1. Sockets'
      BY <1>0, <1>6 DEF Open, Sockets, Fresh, server
    <2> QED  BY <1>0, <1>6, <2>1, SocketStep DEF Open, server
  <1>7. CASE DaemonCloses(c)
    <2>0. c = ws /\ ws' = 0 /\ toDaemon[c] = <<>>
      BY <1>0, <1>7 DEF DaemonCloses, Sockets, Fresh
    <2>1. Sockets'
      BY <1>0, <1>7, <2>0 DEF DaemonCloses, Sockets, Fresh, server
    <2> QED  BY <1>0, <1>7, <2>0, <2>1, SocketStep DEF DaemonCloses, server
  <1>8. CASE Connect
    <2>0. PICK d \in Conns : /\ cl[d] = "none" /\ ws' = d
                             /\ cl' = [cl EXCEPT ![d] = "connecting"]
                             /\ srv' = [srv EXCEPT ![d] = "pending"]
      BY <1>8 DEF Connect
    <2>1. \A e \in Conns : toDaemon[e] = <<>>
      BY <1>0, <1>8 DEF Connect, Sockets
    <2>2. Sockets'
      BY <1>0, <1>8, <2>0, <2>1 DEF Connect, Sockets, Fresh
    <2> QED  BY <1>0, <1>8, <2>0, <2>2, SocketStep DEF Connect
  <1> QED  BY <1>1, <1>2, <1>3, <1>4, <1>5, <1>6, <1>7, <1>8

-----------------------------------------------------------------------------
(* The server's commands.                                                  *)
LEMMA SpawnKeeps ==
  ASSUME IInv, NEW p \in Procs, Spawn(p)
  PROVE  IInv'
PROOF
  <1> DEFINE x == Spawning(p)
             ks == <<x>>
  <1>0. /\ toDaemon \in [Conns -> Seq(Commands)] /\ unheard \subseteq Commands
        /\ SpawnedOnce /\ Quiet /\ KillFollows /\ Sockets /\ Carried /\ Agreed
        /\ known \subseteq asked /\ running \subseteq asked
    BY AgreedForm DEF IInv, TypeOK
  <1>1. /\ x \in Commands /\ x.cmd = "spawn" /\ x.proc = p
        /\ ks \in Seq(Commands) /\ ToSet(ks) = {x} /\ Len(ks) = 1 /\ ks[1] = x
    BY CommandTypes, ToSetOne
  <1>2. /\ p \notin asked /\ asked' = asked \cup {p}
        /\ known' = known \cup {p} /\ requests' = requests \cup {p}
        /\ UNCHANGED <<conn, srv, revoked, got, daemon, toServer, cut, sent, lost, unattached, faults>>
    BY DEF Spawn
  <1>3. p \notin running /\ \A m \in sent : m.proc # p
    BY <1>0, <1>2 DEF Carried
  <1>4. ~OnItsWay(x)
    BY <1>0, <1>1, <1>2 DEF Quiet
  <1> HIDE DEF x
  <1>5. CASE toDaemon' = toDaemon /\ unheard' = unheard \cup {x}
    <2>1. TypeOK'
      BY <1>1, <1>2, <1>5 DEF IInv, TypeOK, daemon
    <2>2. Sockets'
      BY <1>0, <1>2, <1>5 DEF Sockets, daemon
    <2>3. Carried'
      BY <1>0, <1>2 DEF Carried, daemon
    <2>4. SpawnedOnce'
      BY <1>0, <1>5 DEF SpawnedOnce
    <2>5. \A y : OnItsWay(y)' <=> OnItsWay(y)
      BY <1>5 DEF OnItsWay
    <2>6. Quiet'
      BY <1>0, <1>2, <2>5 DEF Quiet, daemon
    <2>7. KillFollows'
      BY <1>0, <1>2, <1>5 DEF KillFollows
    <2>8. Agreed'
      BY <1>0, <1>2, <1>5, <2>5 DEF Agreed, Somewhere, daemon, x
    <2> QED  BY <2>1, <2>2, <2>3, <2>4, <2>6, <2>7, <2>8, AgreedForm DEF IInv
  <1>6. CASE /\ conn \in Conns /\ conn = ws /\ conn \notin cut /\ srv[conn] = "open"
             /\ toDaemon' = [toDaemon EXCEPT ![conn] = toDaemon[conn] \o ks]
             /\ unheard' = unheard
    <2> DEFINE q == toDaemon[conn]
               k == Len(q)
               r == toDaemon'[conn]
    <2>1. /\ toDaemon' \in [Conns -> Seq(Commands)]
          /\ \A c \in Conns \ {conn} : toDaemon'[c] = toDaemon[c]
          /\ k \in Nat /\ Len(r) = k + 1
          /\ \A i \in 1..k : r[i] = q[i]
          /\ r[k + 1] = x
          /\ \A y : OnItsWay(y)' <=> OnItsWay(y) \/ y = x
      <3>1. 1 \in 1..Len(ks)
        BY <1>1
      <3> HIDE DEF ks
      <3>2. /\ toDaemon' \in [Conns -> Seq(Commands)]
            /\ \A c \in Conns \ {conn} : toDaemon'[c] = toDaemon[c]
            /\ Len(q) \in Nat
            /\ Len(toDaemon'[conn]) = Len(q) + Len(ks)
            /\ \A i \in 1..Len(q) : toDaemon'[conn][i] = q[i]
            /\ \A i \in 1..Len(ks) : toDaemon'[conn][Len(q) + i] = ks[i]
            /\ \A y : OnItsWay(y)' <=> OnItsWay(y) \/ y \in ToSet(ks)
        BY <1>1, <1>6, Queued
      <3>3. toDaemon'[conn][Len(q) + 1] = x
        BY <1>1, <3>1, <3>2
      <3> HIDE DEF q
      <3> QED  BY <1>1, <3>2, <3>3
    <2>2. \A i \in 1..k : q[i] # x
      <3> SUFFICES ASSUME NEW i \in 1..k, q[i] = x PROVE FALSE
        OBVIOUS
      <3>1. OnItsWay(x)
        BY <1>0, <1>6 DEF OnItsWay, ToSet
      <3> QED  BY <1>4, <3>1
    <2> HIDE DEF q, k, r, ks
    <2>3. TypeOK'
      BY <1>2, <1>6, <2>1 DEF IInv, TypeOK, daemon
    <2>4. Sockets'
      BY <1>0, <1>2, <1>6, <2>1 DEF Sockets, daemon, Fresh
    <2>5. Carried'
      BY <1>0, <1>2 DEF Carried, daemon
    <2>6. SpawnedOnce'
      <3> SUFFICES ASSUME NEW c \in Conns, NEW i \in 1..Len(toDaemon'[c]),
                          NEW j \in 1..Len(toDaemon'[c]),
                          toDaemon'[c][i] = toDaemon'[c][j], toDaemon'[c][i].cmd = "spawn"
                   PROVE  i = j
        BY DEF SpawnedOnce
      <3>1. CASE c = conn
        <4>1. /\ i \in 1..k \/ i = k + 1
              /\ j \in 1..k \/ j = k + 1
          BY <2>1, <3>1 DEF r
        <4>2. CASE i \in 1..k /\ j \in 1..k
          <5>1. q[i] = q[j] /\ q[i].cmd = "spawn"
            BY <2>1, <3>1, <4>2 DEF r
          <5> QED  BY <1>0, <3>1, <4>2, <5>1 DEF SpawnedOnce, q, k
        <4> QED  BY <2>1, <2>2, <3>1, <4>1, <4>2 DEF r
      <3>2. CASE c # conn
        BY <1>0, <2>1, <3>2 DEF SpawnedOnce
      <3> QED  BY <3>1, <3>2
    <2>7. Quiet'
      BY <1>0, <1>1, <1>2, <1>3, <2>1 DEF Quiet, daemon
    <2>8. KillFollows'
      <3> SUFFICES ASSUME NEW c \in Conns, NEW i \in 1..Len(toDaemon'[c]),
                          toDaemon'[c][i].cmd = "spawn",
                          toDaemon'[c][i].proc \notin known' \cup unattached'
                   PROVE  \/ Killing(toDaemon'[c][i].proc) \in unheard'
                          \/ \E j \in (i + 1)..Len(toDaemon'[c]) :
                               toDaemon'[c][j] = Killing(toDaemon'[c][i].proc)
        BY DEF KillFollows, Killing
      <3>1. CASE c # conn
        <4>1. toDaemon[c] # <<>>
          BY <1>0, <2>1, <3>1
        <4> QED  BY <1>0, <1>6, <3>1, <4>1 DEF Sockets
      <3>2. CASE c = conn
        <4>1. i # k + 1
          BY <1>1, <1>2, <2>1, <3>2 DEF r
        <4>2. i \in 1..k /\ toDaemon'[c][i] = q[i] /\ q[i].cmd = "spawn"
              /\ q[i].proc \notin known \cup unattached
          BY <1>2, <2>1, <3>2, <4>1 DEF r
        <4>3. \/ Killing(q[i].proc) \in unheard
              \/ \E j \in (i + 1)..k : q[j] = Killing(q[i].proc)
          BY <1>0, <1>6, <4>2 DEF KillFollows, q, k
        <4>4. CASE Killing(q[i].proc) \in unheard
          BY <1>6, <4>2, <4>4
        <4>5. CASE \E j \in (i + 1)..k : q[j] = Killing(q[i].proc)
          <5>1. PICK j \in (i + 1)..k : q[j] = Killing(q[i].proc)
            BY <4>5
          <5>2. j \in (i + 1)..Len(r) /\ r[j] = Killing(q[i].proc)
            BY <2>1, <4>2, <5>1
          <5> QED  BY <3>2, <4>2, <5>2 DEF r
        <4> QED  BY <4>3, <4>4, <4>5
      <3> QED  BY <3>1, <3>2
    <2>9. Agreed'
      BY <1>0, <1>2, <1>6, <2>1 DEF Agreed, Somewhere, daemon, x
    <2> QED  BY <2>3, <2>4, <2>5, <2>6, <2>7, <2>8, <2>9, AgreedForm DEF IInv
  <1>7. \/ toDaemon' = toDaemon /\ unheard' = unheard \cup {x}
        \/ /\ conn \in Conns /\ conn = ws /\ conn \notin cut /\ srv[conn] = "open"
           /\ toDaemon' = [toDaemon EXCEPT ![conn] = toDaemon[conn] \o ks]
           /\ unheard' = unheard
    <2>1. CASE ServerOpen
      <3>1. Command(ks)
        BY <2>1 DEF Spawn, x
      <3> HIDE DEF ks
      <3> QED  BY <1>1, <2>1, <3>1, CommandEffect
    <2>2. CASE ~ServerOpen
      BY <2>2 DEF Spawn, x
    <2> QED  BY <2>1, <2>2
  <1> QED  BY <1>5, <1>6, <1>7

LEMMA KillKeeps ==
  ASSUME IInv, NEW p \in Procs, Kill(p)
  PROVE  IInv'
PROOF
  <1> DEFINE ks == <<Killing(p)>>
  <1>1. /\ ks \in Seq(Commands) /\ ToSet(ks) = {Killing(p)}
        /\ Killing(p).cmd = "kill" /\ Killing(p).proc = p
    BY CommandTypes, ToSetOne
  <1>2. /\ ServerOpen /\ Command(ks) /\ p \in known
        /\ UNCHANGED <<server, daemon, toServer, cut, asked, sent, lost, unattached, faults>>
    BY DEF Kill
  <1>3. known' = known /\ running' = running /\ asked' = asked /\ sent' = sent /\ known \subseteq asked
    BY <1>2 DEF server, daemon, IInv, TypeOK
  <1> HIDE DEF ks
  <1>4. /\ SpawnedOnce' /\ Quiet' /\ KillFollows'
        /\ toDaemon' \in [Conns -> Seq(Commands)] /\ unheard' \subseteq Commands
        /\ \A x : x \in unheard => x \in unheard'
        /\ \A x : OnItsWay(x) => OnItsWay(x)'
        /\ \A c \in Conns : toDaemon'[c] # <<>> =>
               toDaemon[c] # <<>> \/ (c = ws /\ c \notin cut /\ srv[c] \notin Fresh)
    BY <1>1, <1>2, <1>3, KillsSent
  <1>5. TypeOK'
    BY <1>2, <1>4 DEF IInv, TypeOK, server, daemon
  <1>6. Sockets'
    BY <1>2, <1>4 DEF IInv, Sockets, server, daemon
  <1>7. Carried'
    BY <1>2 DEF IInv, Carried, daemon
  <1>8. Agreed'
    BY <1>2, <1>4, AgreedForm DEF IInv, Agreed, Somewhere, server, daemon
  <1> QED  BY <1>4, <1>5, <1>6, <1>7, <1>8, AgreedForm DEF IInv

LEMMA RevokeKeeps ==
  ASSUME IInv, Revoke
  PROVE  IInv'
PROOF
  <1> DEFINE K == { Killing(p) : p \in known }
             ks == SetToSeq(K)
  <1>0. /\ known \subseteq asked /\ asked \subseteq Procs /\ running \subseteq asked
        /\ Sockets /\ Agreed /\ SpawnedOnce /\ Quiet /\ KillFollows
        /\ unheard \subseteq Commands /\ toDaemon \in [Conns -> Seq(Commands)]
        /\ conn \in 0..MaxConns /\ Conns = 1..MaxConns /\ MaxConns \in Nat
        /\ srv \in [Conns -> {"none", "pending", "admitted", "rejected", "open", "closing", "closed"}]
    BY AgreedForm, BoundsAssumption DEF IInv, TypeOK, Conns
  <1>1. IsFiniteSet(K)
    <2>1. IsFiniteSet(known)
      BY <1>0, ProcsAssumption, FS_Subset
    <2> DEFINE f == [p \in known |-> Killing(p)]
    <2>2. f \in Surjection(known, K)
      BY DEF Surjection
    <2> HIDE DEF f, K
    <2> QED  BY <2>1, <2>2, FS_Surjection
  <1>2. K \subseteq Commands /\ \A x \in K : x.cmd = "kill" /\ x.proc \in asked
    BY <1>0, CommandTypes
  <1>3. ks \in Seq(K) /\ ToSet(ks) = K
    <2> HIDE DEF K
    <2> QED  BY <1>1, ToSetOfSet
  <1>4. ks \in Seq(Commands)
    BY <1>2, <1>3
  <1>5. \A p \in known : Killing(p) \in K
    OBVIOUS
  <1>6. /\ revoked' = TRUE /\ known' = {} /\ requests' = {}
        /\ IF conn # 0 THEN srv' = Closing(conn) /\ conn' = 0 ELSE UNCHANGED <<srv, conn>>
        /\ UNCHANGED <<got, daemon, toServer, cut, asked, sent, lost, unattached, faults>>
        /\ IF ServerOpen THEN Command(ks)
           ELSE unheard' = unheard \cup ToSet(ks) /\ UNCHANGED toDaemon
    BY DEF Revoke, Retire
  <1> HIDE DEF K, ks
  <1>7. /\ SpawnedOnce' /\ Quiet' /\ KillFollows'
        /\ toDaemon' \in [Conns -> Seq(Commands)] /\ unheard' \subseteq Commands
        /\ \A x : x \in unheard => x \in unheard'
        /\ \A x : OnItsWay(x) => OnItsWay(x)'
        /\ \A x \in K : OnItsWay(x)' \/ x \in unheard'
        /\ \A c \in Conns : toDaemon'[c] # <<>> =>
               toDaemon[c] # <<>> \/ (c = ws /\ c \notin cut /\ srv[c] \notin Fresh)
    <2>1. running' = running /\ asked' = asked /\ sent' = sent
      BY <1>6 DEF daemon
    <2>2. CASE ServerOpen
      BY <1>2, <1>3, <1>4, <1>5, <1>6, <2>1, <2>2, KillsSent
    <2>3. CASE ~ServerOpen
      <3>1. unheard' = unheard \cup K /\ toDaemon' = toDaemon
        BY <1>3, <1>6, <2>3
      <3>2. \A x : OnItsWay(x)' <=> OnItsWay(x)
        BY <3>1 DEF OnItsWay
      <3>3. SpawnedOnce'
        BY <1>0, <3>1 DEF SpawnedOnce
      <3>4. Quiet'
        BY <1>0, <2>1, <3>2 DEF Quiet
      <3>5. KillFollows'
        <4>1. ASSUME NEW c \in Conns, NEW i \in 1..Len(toDaemon[c]),
                     toDaemon[c][i].cmd = "spawn", toDaemon[c][i].proc \notin unattached
              PROVE  \/ Killing(toDaemon[c][i].proc) \in unheard'
                     \/ \E j \in (i + 1)..Len(toDaemon[c]) :
                          toDaemon[c][j] = Killing(toDaemon[c][i].proc)
          <5>1. CASE toDaemon[c][i].proc \in known
            BY <1>5, <3>1, <5>1
          <5>2. CASE toDaemon[c][i].proc \notin known
            BY <1>0, <3>1, <4>1, <5>2 DEF KillFollows
          <5> QED  BY <5>1, <5>2
        <4> QED  BY <1>6, <3>1, <4>1 DEF KillFollows, Killing
      <3> QED  BY <1>0, <1>2, <3>1, <3>2, <3>3, <3>4, <3>5
    <2> QED  BY <2>2, <2>3
  <1>8. TypeOK'
    <2>1. /\ srv' \in [Conns -> {"none", "pending", "admitted", "rejected", "open", "closing",
                                 "closed"}]
          /\ conn' \in 0..MaxConns
      BY <1>0, <1>6 DEF Closing
    <2> QED  BY <1>6, <1>7, <2>1 DEF IInv, TypeOK, daemon
  <1>9. Sockets'
    <2>1. /\ cl' = cl /\ ws' = ws /\ cut' = cut
      BY <1>6 DEF daemon
    <2>2. CASE conn # 0
      <3>1. /\ conn \in Conns /\ srv'[conn] = "closing" /\ srv[conn] \in {"open", "closing"}
            /\ \A c \in Conns \ {conn} : srv'[c] = srv[c]
            /\ conn' = 0
        BY <1>0, <1>6, <2>2 DEF Closing, Sockets
      <3>2. ASSUME NEW c \in Conns
            PROVE  /\ cl'[c] \in {"connecting", "open"} <=> c = ws'
                   /\ cl'[c] = "none" <=> srv'[c] = "none"
                   /\ toDaemon'[c] # <<>> => c = ws' /\ c \notin cut' /\ srv'[c] \notin Fresh
                   /\ conn' = c => srv'[c] \in {"open", "closing"}
        <4>1. /\ cl[c] \in {"connecting", "open"} <=> c = ws
              /\ cl[c] = "none" <=> srv[c] = "none"
              /\ toDaemon[c] # <<>> => c = ws /\ c \notin cut /\ srv[c] \notin Fresh
          BY <1>0 DEF Sockets
        <4>2. conn' # c
          BY <1>0, <3>1
        <4>3. \/ srv[c] \in {"open", "closing"} /\ srv'[c] = "closing"
              \/ srv'[c] = srv[c]
          BY <3>1
        <4>4. cl'[c] = "none" <=> srv'[c] = "none"
          BY <2>1, <4>1, <4>3
        <4>5. cl'[c] \in {"connecting", "open"} <=> c = ws'
          BY <2>1, <4>1
        <4>6. toDaemon'[c] # <<>> => c = ws' /\ c \notin cut' /\ srv[c] \notin Fresh
          BY <1>7, <2>1, <4>1
        <4>7. srv[c] \notin Fresh => srv'[c] \notin Fresh
          BY <4>3 DEF Fresh
        <4> QED  BY <4>2, <4>4, <4>5, <4>6, <4>7
      <3> QED  BY <3>2 DEF Sockets, Fresh
    <2>3. CASE conn = 0
      BY <1>0, <1>6, <1>7, <2>1, <2>3 DEF Sockets
    <2> QED  BY <2>2, <2>3
  <1>10. Carried'
    BY <1>6 DEF IInv, Carried, daemon
  <1>11. Agreed'
    BY <1>0, <1>5, <1>6, <1>7 DEF Agreed, daemon
  <1> QED  BY <1>7, <1>8, <1>9, <1>10, <1>11, AgreedForm DEF IInv

-----------------------------------------------------------------------------
(* Messages that arrive, and those that do not.                            *)
LEMMA EndTypes ==
  \A p \in Procs : EndOf(p) \in Messages /\ EndOf(p).proc = p /\ EndOf(p).n = End
PROOF
  BY Numbers DEF EndOf, Messages

LEMMA MessageTypes ==
  \A m \in Messages : m.proc \in Procs /\ (m.n = End => m = EndOf(m.proc))
PROOF
  BY DEF EndOf, Messages

LEMMA ReceiveKeeps ==
  ASSUME IInv, NEW c \in Conns, Receive(c)
  PROVE  IInv'
PROOF
  <1> DEFINE q == toServer[c]
             m == Head(q)
  <1>0. /\ toServer \in [Conns -> Seq(Messages)] /\ sent \subseteq Messages
        /\ got \subseteq sent /\ lost \subseteq sent
        /\ requests \subseteq known /\ known \subseteq asked /\ asked \subseteq Procs
        /\ Agreed /\ Quiet /\ KillFollows /\ SpawnedOnce /\ Carried
    BY AgreedForm DEF IInv, TypeOK
  <1>1. /\ q # <<>> /\ toServer' = [toServer EXCEPT ![c] = Tail(q)]
        /\ UNCHANGED <<conn, srv, revoked, daemon, toDaemon, cut, asked, sent, unheard, unattached,
                       faults>>
        /\ \/ /\ m.proc \in known /\ got' = got \cup {m} /\ lost' = lost
              /\ known' = IF m.n = End THEN known \ {m.proc} ELSE known
           \/ lost' = lost \cup {m} /\ got' = got /\ known' = known
    BY DEF Receive, Heard
  <1>2. /\ m \in Messages /\ Tail(q) \in Seq(Messages)
        /\ ToSet(q) = {m} \cup ToSet(Tail(q))
    BY <1>0, <1>1, ToSetHeadTail
  <1>3. m \in sent /\ m.proc \in Procs /\ ToSet(Tail(q)) \subseteq sent
    BY <1>0, <1>2, MessageTypes DEF Carried
  <1>4. /\ toServer'[c] = Tail(q) /\ \A d \in Conns \ {c} : toServer'[d] = toServer[d]
        /\ toServer' \in [Conns -> Seq(Messages)]
    BY <1>0, <1>1, <1>2
  <1> HIDE DEF m, q
  <1>5. \A x : Somewhere(x) => Somewhere(x)' \/ x = m
    BY <1>1, <1>2, <1>4 DEF Somewhere, daemon, q
  <1>6. \A x : OnItsWay(x)' <=> OnItsWay(x)
    BY <1>1 DEF OnItsWay
  <1>7. ASSUME NEW p \in known \ known'
        PROVE  p \notin running /\ ~OnItsWay(Spawning(p))
    <2>1. m.n = End /\ p = m.proc
      BY <1>1, <1>7
    <2>2. EndOf(p) \in sent /\ p \in Procs
      BY <1>2, <1>3, <2>1, MessageTypes
    <2>3. p \notin running
      BY <1>0, <2>2 DEF Quiet, EndOf
    <2>4. ~OnItsWay(Spawning(p))
      BY <1>0, <2>2, CommandTypes, EndTypes DEF Quiet
    <2> QED  BY <2>3, <2>4
  <1>8. TypeOK'
    <2>1. got' \subseteq sent /\ lost' \subseteq sent /\ known' \subseteq asked
      BY <1>0, <1>1, <1>3
    <2>2. requests' \subseteq known'
      BY <1>0 DEF Receive
    <2> QED  BY <1>1, <1>4, <2>1, <2>2 DEF IInv, TypeOK, daemon
  <1>9. Sockets'
    BY <1>1 DEF IInv, Sockets, daemon
  <1>10. Carried'
    BY <1>0, <1>1, <1>3, <1>4 DEF Carried, daemon
  <1>11. SpawnedOnce' /\ Quiet'
    <2>1. SpawnedOnce'
      BY <1>0, <1>1 DEF SpawnedOnce
    <2>2. Quiet'
      BY <1>0, <1>1, <1>6 DEF Quiet, daemon
    <2> QED  BY <2>1, <2>2
  <1>12. KillFollows'
    <2> SUFFICES ASSUME NEW d \in Conns, NEW i \in 1..Len(toDaemon[d]),
                        toDaemon[d][i].cmd = "spawn",
                          toDaemon[d][i].proc \notin known' \cup unattached'
                 PROVE  \/ Killing(toDaemon[d][i].proc) \in unheard
                        \/ \E j \in (i + 1)..Len(toDaemon[d]) :
                             toDaemon[d][j] = Killing(toDaemon[d][i].proc)
      BY <1>1 DEF KillFollows, Killing
    <2>1. toDaemon[d][i] \in Commands /\ OnItsWay(toDaemon[d][i])
      BY DEF IInv, TypeOK, OnItsWay, ToSet
    <2>2. toDaemon[d][i].proc \in Procs /\ toDaemon[d][i] = Spawning(toDaemon[d][i].proc)
      BY <2>1 DEF Commands, Spawning
    <2>3. toDaemon[d][i].proc \notin known \cup unattached
      BY <1>1, <1>7, <2>1, <2>2
    <2> QED  BY <1>0, <2>3 DEF KillFollows
  <1>13. Agreed'
    <2>1. ASSUME NEW p \in known', Somewhere(EndOf(p))
          PROVE  Somewhere(EndOf(p))'
      <3>1. CASE EndOf(p) # m
        BY <1>5, <2>1, <3>1 DEF EndOf
      <3>2. CASE EndOf(p) = m
        <4>1. m.n = End /\ m.proc = p
          BY <3>2 DEF EndOf
        <4>2. lost' = lost \cup {m}
          BY <1>1, <2>1, <4>1
        <4> QED  BY <3>2, <4>2 DEF Somewhere, EndOf
      <3> QED  BY <3>1, <3>2
    <2>2. ASSUME NEW p \in known'
          PROVE  \/ p \in running' \/ OnItsWay(Spawning(p))' \/ Spawning(p) \in unheard'
                 \/ Somewhere(EndOf(p))'
      <3>1. p \in known
        BY <1>1, <2>2
      <3> QED  BY <1>0, <1>1, <1>6, <2>1, <3>1 DEF Agreed, daemon
    <2>3. ASSUME NEW p \in running' \ known'
          PROVE  p \in signalled' \/ OnItsWay(Killing(p))' \/ Killing(p) \in unheard' \/ p \in unattached'
      <3>1. p \in running \ known
        BY <1>1, <1>7, <2>3 DEF daemon
      <3> QED  BY <1>0, <1>1, <1>6, <3>1 DEF Agreed, daemon
    <2> QED  BY <2>2, <2>3 DEF Agreed, EndOf, Spawning, Killing
  <1> QED  BY <1>8, <1>9, <1>10, <1>11, <1>12, <1>13, AgreedForm DEF IInv

LEMMA RestartKeeps ==
  ASSUME IInv, Restart
  PROVE  IInv'
PROOF
  <1>0. /\ toServer \in [Conns -> Seq(Messages)] /\ lost \subseteq sent
        /\ srv \in [Conns -> {"none", "pending", "admitted", "rejected", "open", "closing", "closed"}]
        /\ faults \in 0..MaxFaults /\ MaxFaults \in Nat /\ MaxConns \in Nat /\ Conns = 1..MaxConns
        /\ Agreed /\ Carried /\ Sockets
    BY AgreedForm, BoundsAssumption DEF IInv, TypeOK, Conns
  <1>1. /\ faults < MaxFaults /\ faults' = faults + 1 /\ conn' = 0
        /\ lost' = lost \cup UNION { ToSet(toServer[c]) : c \in Conns }
        /\ toServer' = [c \in Conns |-> <<>>]
        /\ known' \subseteq known /\ unattached' = unattached \cup (known \ known')
        /\ requests' = {}
        /\ UNCHANGED <<revoked, got, daemon, toDaemon, cut, asked, sent, unheard>>
    BY DEF Restart
  <1>2. \A c \in Conns :
          /\ srv'[c] \in {"none", "pending", "admitted", "rejected", "open", "closing", "closed"}
          /\ srv'[c] = "none" <=> srv[c] = "none"
          /\ srv[c] \notin Fresh => srv'[c] \notin Fresh
    BY <1>0 DEF Restart, Fresh
  <1>3. srv' \in [Conns -> {"none", "pending", "admitted", "rejected", "open", "closing", "closed"}]
    BY <1>2 DEF Restart
  <1>4. toServer' \in [Conns -> Seq(Messages)] /\ \A c \in Conns : ToSet(toServer'[c]) = {}
    BY <1>1, ToSetEmpty
  <1>5. lost' \subseteq sent
    BY <1>0, <1>1 DEF Carried
  <1>6. SpawnedOnce' /\ Quiet' /\ KillFollows' /\ \A x : OnItsWay(x)' <=> OnItsWay(x)
    BY <1>1, SameCommands DEF daemon
  <1>7. \A x : Somewhere(x) => Somewhere(x)'
    BY <1>1 DEF Somewhere, daemon
  <1>8. TypeOK'
    BY <1>0, <1>1, <1>3, <1>4, <1>5 DEF IInv, TypeOK, daemon
  <1>9. Sockets'
    BY <1>0, <1>1, <1>2 DEF Sockets, daemon
  <1>10. Carried'
    BY <1>0, <1>1, <1>4 DEF Carried, daemon
  <1>11. Agreed'
    BY <1>0, <1>1, <1>6, <1>7 DEF Agreed, daemon
  <1> QED  BY <1>6, <1>8, <1>9, <1>10, <1>11, AgreedForm DEF IInv

LEMMA ProbeEndsKeeps ==
  ASSUME IInv, NEW c \in Conns, ProbeEnds(c)
  PROVE  IInv'
PROOF
  <1>1. /\ probing' = probing \ {c} /\ Flush
        /\ UNCHANGED <<server, ws, cl, running, signalled, toDaemon, cut, asked, sent, unheard,
                       unattached, faults>>
    BY DEF ProbeEnds
  <1>2. /\ buffer' \in Seq(Messages) /\ Len(buffer') <= BufferLimit
        /\ toServer' \in [Conns -> Seq(Messages)]
        /\ ToSet(buffer') \subseteq sent
        /\ \A d \in Conns : ToSet(toServer'[d]) \subseteq sent
        /\ lost' \subseteq sent
        /\ \A x : Somewhere(x) => Somewhere(x)'
    BY <1>1, FlushEffect
  <1>3. SpawnedOnce' /\ Quiet' /\ KillFollows' /\ \A x : OnItsWay(x)' <=> OnItsWay(x)
    BY <1>1, SameCommands DEF server
  <1>4. TypeOK'
    BY <1>1, <1>2 DEF IInv, TypeOK, server
  <1>5. Sockets'
    BY <1>1 DEF IInv, Sockets, server
  <1>6. Carried'
    BY <1>1, <1>2 DEF IInv, Carried, server
  <1>7. Agreed'
    BY <1>1, <1>2, <1>3, AgreedForm DEF IInv, Agreed, server
  <1> QED  BY <1>3, <1>4, <1>5, <1>6, <1>7, AgreedForm DEF IInv

LEMMA BreakKeeps ==
  ASSUME IInv, NEW c \in Conns, Break(c)
  PROVE  IInv'
PROOF
  <1>0. /\ toServer \in [Conns -> Seq(Messages)] /\ toDaemon \in [Conns -> Seq(Commands)]
        /\ lost \subseteq sent /\ unheard \subseteq Commands
        /\ faults \in 0..MaxFaults /\ MaxFaults \in Nat
        /\ Agreed /\ Carried /\ Sockets /\ SpawnedOnce /\ Quiet /\ KillFollows
    BY AgreedForm, BoundsAssumption DEF IInv, TypeOK
  <1>1. /\ faults < MaxFaults /\ faults' = faults + 1 /\ cut' = cut \cup {c}
        /\ lost' = lost \cup ToSet(toServer[c])
        /\ unheard' = unheard \cup ToSet(toDaemon[c])
        /\ toServer' = [toServer EXCEPT ![c] = <<>>]
        /\ toDaemon' = [toDaemon EXCEPT ![c] = <<>>]
        /\ UNCHANGED <<server, daemon, asked, sent, unattached>>
    BY DEF Break
  <1>2. /\ toDaemon'[c] = <<>> /\ \A d \in Conns \ {c} : toDaemon'[d] = toDaemon[d]
        /\ toServer'[c] = <<>> /\ \A d \in Conns \ {c} : toServer'[d] = toServer[d]
        /\ toDaemon' \in [Conns -> Seq(Commands)] /\ toServer' \in [Conns -> Seq(Messages)]
    BY <1>0, <1>1
  <1>3. /\ \A x : OnItsWay(x)' => OnItsWay(x)
        /\ \A x : OnItsWay(x) => OnItsWay(x)' \/ x \in unheard'
    BY <1>1, <1>2, ToSetEmpty DEF OnItsWay
  <1>4. \A x : Somewhere(x) => Somewhere(x)'
    BY <1>1, <1>2 DEF Somewhere, daemon
  <1>5. TypeOK'
    <2>1. unheard' \subseteq Commands
      BY <1>0, <1>1 DEF ToSet
    <2>2. lost' \subseteq sent
      BY <1>0, <1>1 DEF Carried
    <2>3. faults' \in 0..MaxFaults
      BY <1>0, <1>1
    <2> QED  BY <1>1, <1>2, <2>1, <2>2, <2>3 DEF IInv, TypeOK, server, daemon
  <1>6. Sockets'
    BY <1>0, <1>1, <1>2 DEF Sockets, server, daemon
  <1>7. Carried'
    BY <1>0, <1>1, <1>2, ToSetEmpty DEF Carried, daemon
  <1>8. SpawnedOnce'
    <2> SUFFICES ASSUME NEW d \in Conns, NEW i \in 1..Len(toDaemon'[d]),
                        NEW j \in 1..Len(toDaemon'[d]),
                        toDaemon'[d][i] = toDaemon'[d][j], toDaemon'[d][i].cmd = "spawn"
                 PROVE  i = j
      BY DEF SpawnedOnce
    <2>1. toDaemon'[d] = toDaemon[d]
      BY <1>2
    <2> QED  BY <1>0, <2>1 DEF SpawnedOnce
  <1>9. Quiet'
    BY <1>0, <1>1, <1>3 DEF Quiet, daemon
  <1>10. KillFollows'
    <2> SUFFICES ASSUME NEW d \in Conns, NEW i \in 1..Len(toDaemon'[d]),
                        toDaemon'[d][i].cmd = "spawn",
                          toDaemon'[d][i].proc \notin known' \cup unattached'
                 PROVE  \/ Killing(toDaemon'[d][i].proc) \in unheard'
                        \/ \E j \in (i + 1)..Len(toDaemon'[d]) :
                             toDaemon'[d][j] = Killing(toDaemon'[d][i].proc)
      BY DEF KillFollows, Killing
    <2>1. d # c
      BY <1>2
    <2>2. /\ toDaemon'[d] = toDaemon[d] /\ known' = known /\ unattached' = unattached
          /\ unheard \subseteq unheard'
      BY <1>1, <1>2, <2>1 DEF server
    <2>3. \/ Killing(toDaemon[d][i].proc) \in unheard
          \/ \E j \in (i + 1)..Len(toDaemon[d]) : toDaemon[d][j] = Killing(toDaemon[d][i].proc)
      BY <1>0, <2>2 DEF KillFollows
    <2> QED  BY <2>2, <2>3
  <1>11. Agreed'
    BY <1>0, <1>1, <1>3, <1>4 DEF Agreed, server, daemon
  <1> QED  BY <1>5, <1>6, <1>7, <1>8, <1>9, <1>10, <1>11, AgreedForm DEF IInv

-----------------------------------------------------------------------------
(* The daemon's children, and the commands it obeys.                       *)
LEMMA SayKeeps ==
  ASSUME IInv, NEW m \in Messages, SendToServer(m), m.proc \in asked,
         UNCHANGED <<server, ws, cl, probing, cut, asked, unheard, unattached, faults>>,
         running' \subseteq asked, signalled' \subseteq asked,
         toDaemon' \in [Conns -> Seq(Commands)],
         \A c \in Conns : toDaemon'[c] # <<>> => toDaemon[c] # <<>>
  PROVE  /\ TypeOK' /\ Sockets' /\ Carried'
         /\ sent' = sent \cup {m} /\ Somewhere(m)'
         /\ \A x : Somewhere(x) => Somewhere(x)'
PROOF
  <1> HIDE DEF SendToServer
  <1>1. /\ sent' = sent \cup {m}
        /\ buffer' \in Seq(Messages) /\ Len(buffer') <= BufferLimit
        /\ toServer' \in [Conns -> Seq(Messages)]
        /\ ToSet(buffer') \subseteq sent'
        /\ \A c \in Conns : ToSet(toServer'[c]) \subseteq sent'
        /\ lost' \subseteq sent'
        /\ \A x : Somewhere(x) => Somewhere(x)'
        /\ Somewhere(m)'
    BY SayEffect
  <1>2. TypeOK'
    BY <1>1 DEF IInv, TypeOK, server
  <1>3. Sockets'
    BY DEF IInv, Sockets, server
  <1>4. Carried'
    BY <1>1 DEF IInv, Carried, server
  <1> QED  BY <1>1, <1>2, <1>3, <1>4

LEMMA Print1Keeps ==
  ASSUME IInv, NEW p \in Procs, Print1(p)
  PROVE  IInv'
PROOF
  <1> DEFINE m == [proc |-> p, n |-> Printed(p)]
  <1>0. /\ running \subseteq asked /\ sent \subseteq Messages /\ signalled \subseteq asked
        /\ toDaemon \in [Conns -> Seq(Commands)] /\ SpawnedOnce /\ Quiet /\ KillFollows /\ Agreed
    BY AgreedForm DEF IInv, TypeOK
  <1>1. /\ p \in running /\ Printed(p) <= MaxOutput /\ SendToServer(m)
        /\ UNCHANGED <<server, ws, cl, probing, running, signalled, toDaemon, cut, asked, unheard,
                       unattached, faults>>
    BY DEF Print1
  <1>2. m \in Messages /\ m.proc = p /\ m.n # End
    <2>1. Printed(p) \in Nat
      BY <1>0, PrintedType
    <2>2. Printed(p) \in 0..Final /\ Printed(p) # End
      BY <1>1, <2>1, BoundsAssumption DEF End, Final
    <2> QED  BY <2>2 DEF Messages
  <1> HIDE DEF m
  <1>3. /\ TypeOK' /\ Sockets' /\ Carried'
        /\ sent' = sent \cup {m}
        /\ \A x : Somewhere(x) => Somewhere(x)'
    BY <1>0, <1>1, <1>2, SayKeeps
  <1>4. \A x : OnItsWay(x)' <=> OnItsWay(x)
    BY <1>1 DEF OnItsWay
  <1>5. SpawnedOnce'
    BY <1>0, <1>1 DEF SpawnedOnce
  <1>6. Quiet'
    <2>1. \A r \in Procs : [proc |-> r, n |-> End] # m
      BY <1>2
    <2> QED  BY <1>0, <1>1, <1>2, <1>3, <1>4, <2>1 DEF Quiet
  <1>7. KillFollows'
    BY <1>0, <1>1 DEF KillFollows, server
  <1>8. Agreed'
    BY <1>0, <1>1, <1>3, <1>4 DEF Agreed, server
  <1> QED  BY <1>3, <1>5, <1>6, <1>7, <1>8, AgreedForm DEF IInv

LEMMA ExitKeeps ==
  ASSUME IInv, NEW p \in Procs, Exit(p)
  PROVE  IInv'
PROOF
  <1>0. /\ running \subseteq asked /\ sent \subseteq Messages /\ signalled \subseteq asked
        /\ toDaemon \in [Conns -> Seq(Commands)] /\ SpawnedOnce /\ Quiet /\ KillFollows /\ Agreed
    BY AgreedForm DEF IInv, TypeOK
  <1>1. /\ p \in running /\ running' = running \ {p} /\ SendToServer(EndOf(p))
        /\ UNCHANGED <<server, ws, cl, probing, signalled, toDaemon, cut, asked, unheard, unattached,
                       faults>>
    BY DEF Exit, EndOf
  <1>2. EndOf(p) \in Messages /\ EndOf(p).proc = p
    BY EndTypes
  <1>3. /\ TypeOK' /\ Sockets' /\ Carried'
        /\ sent' = sent \cup {EndOf(p)} /\ Somewhere(EndOf(p))'
        /\ \A x : Somewhere(x) => Somewhere(x)'
    BY <1>0, <1>1, <1>2, SayKeeps
  <1>4. \A x : OnItsWay(x)' <=> OnItsWay(x)
    BY <1>1 DEF OnItsWay
  <1>5. SpawnedOnce'
    BY <1>0, <1>1 DEF SpawnedOnce
  <1>6. Quiet'
    <2>1. \A r \in Procs : [proc |-> r, n |-> End] = EndOf(p) => r = p
      BY DEF EndOf
    <2> QED  BY <1>0, <1>1, <1>2, <1>3, <1>4, <2>1 DEF Quiet
  <1>7. KillFollows'
    BY <1>0, <1>1 DEF KillFollows, server
  <1>8. Agreed'
    <2>1. \A r \in known : r # p =>
            \/ r \in running' \/ OnItsWay(Spawning(r))' \/ Spawning(r) \in unheard'
            \/ Somewhere(EndOf(r))'
      BY <1>0, <1>1, <1>3, <1>4 DEF Agreed
    <2>2. \A r \in running' \ known :
            r \in signalled' \/ OnItsWay(Killing(r))' \/ Killing(r) \in unheard' \/ r \in unattached'
      BY <1>0, <1>1, <1>4 DEF Agreed
    <2>3. known' = known
      BY <1>1 DEF server
    <2> QED  BY <1>3, <2>1, <2>2, <2>3 DEF Agreed, EndOf, Spawning, Killing
  <1> QED  BY <1>3, <1>5, <1>6, <1>7, <1>8, AgreedForm DEF IInv

LEMMA DrainFacts ==
  ASSUME IInv, NEW p \in Procs, Drain(p)
  PROVE  /\ p \notin running /\ p \in asked /\ \E m \in sent : m.proc = p
         /\ \E m \in Messages : /\ m.proc = p /\ m.n \in Nat /\ m.n > End
                                /\ m \notin sent /\ SendToServer(m)
PROOF
  <1> DEFINE S == [proc |-> p, n |-> 0]
  <1>1. p \notin running /\ S \in sent
    BY DEF Drain
  <1>2. S.proc = p
    OBVIOUS
  <1> HIDE DEF S
  <1>3. p \in asked
    BY <1>1, <1>2 DEF IInv, Carried
  <1>4. PICK k \in (End + 1)..Final : /\ [proc |-> p, n |-> k] \notin sent
                                      /\ SendToServer([proc |-> p, n |-> k])
    BY DEF Drain
  <1> DEFINE m == [proc |-> p, n |-> k]
  <1>5. k \in Nat /\ k > End /\ k \in 0..Final
    BY <1>4, Numbers
  <1>6. m \in Messages /\ m.proc = p /\ m.n = k
    BY <1>5 DEF Messages
  <1>7. m \notin sent /\ SendToServer(m)
    BY <1>4
  <1> HIDE DEF m, SendToServer
  <1> QED  BY <1>1, <1>2, <1>3, <1>5, <1>6, <1>7

LEMMA DrainKeeps ==
  ASSUME IInv, NEW p \in Procs, Drain(p)
  PROVE  IInv'
PROOF
  <1>0. /\ running \subseteq asked /\ sent \subseteq Messages /\ signalled \subseteq asked
        /\ toDaemon \in [Conns -> Seq(Commands)] /\ SpawnedOnce /\ Quiet /\ KillFollows /\ Agreed
    BY AgreedForm DEF IInv, TypeOK
  <1>1. UNCHANGED <<server, ws, cl, probing, running, signalled, toDaemon, cut, asked, unheard,
                    unattached, faults>>
    BY DEF Drain
  <1>2. PICK m \in Messages : m.proc = p /\ m.n \in Nat /\ m.n > End /\ SendToServer(m)
    BY DrainFacts
  <1>3. p \in asked /\ \E o \in sent : o.proc = p
    BY DrainFacts
  <1> HIDE DEF SendToServer
  <1>4. m.n # End
    BY <1>2, Numbers
  <1>5. /\ TypeOK' /\ Sockets' /\ Carried'
        /\ sent' = sent \cup {m}
        /\ \A x : Somewhere(x) => Somewhere(x)'
    BY <1>0, <1>1, <1>2, <1>3, SayKeeps
  <1>6. \A x : OnItsWay(x)' <=> OnItsWay(x)
    BY <1>1 DEF OnItsWay
  <1>7. SpawnedOnce'
    BY <1>0, <1>1 DEF SpawnedOnce
  <1>8. Quiet'
    <2>1. \A r \in Procs : [proc |-> r, n |-> End] # m
      BY <1>4
    <2>2. \A x \in Commands : OnItsWay(x) /\ x.cmd = "spawn" => x.proc # p
      BY <1>0, <1>3 DEF Quiet
    <2> QED  BY <1>0, <1>1, <1>2, <1>5, <1>6, <2>1, <2>2 DEF Quiet
  <1>9. KillFollows'
    BY <1>0, <1>1 DEF KillFollows, server
  <1>10. Agreed'
    BY <1>0, <1>1, <1>5, <1>6 DEF Agreed, server
  <1> QED  BY <1>5, <1>7, <1>8, <1>9, <1>10, AgreedForm DEF IInv

(* The daemon's queue when its first command is taken off.                 *)
LEMMA Taken ==
  ASSUME IInv, NEW c \in Conns, NEW x, x = Head(toDaemon[c]), toDaemon[c] # <<>>,
         toDaemon' = [toDaemon EXCEPT ![c] = Tail(toDaemon[c])],
         known' = known, unattached' = unattached, unheard' = unheard
  PROVE  /\ x \in Commands /\ OnItsWay(x)
         /\ toDaemon' \in [Conns -> Seq(Commands)]
         /\ \A d \in Conns : toDaemon'[d] # <<>> => toDaemon[d] # <<>>
         /\ \A y : OnItsWay(y) => OnItsWay(y)' \/ y = x
         /\ \A y : OnItsWay(y)' => OnItsWay(y)
         /\ x.cmd = "spawn" => ~OnItsWay(x)'
         /\ SpawnedOnce' /\ KillFollows'
         /\ x.cmd = "spawn" /\ x.proc \notin known \cup unattached =>
              OnItsWay(Killing(x.proc))' \/ Killing(x.proc) \in unheard
PROOF
  <1> DEFINE q == toDaemon[c]
             r == Tail(q)
  <1>0. /\ toDaemon \in [Conns -> Seq(Commands)] /\ Sockets /\ SpawnedOnce /\ KillFollows
    BY DEF IInv, TypeOK
  <1>1. /\ x \in Commands /\ r \in Seq(Commands) /\ Len(r) = Len(q) - 1 /\ Len(q) > 0
        /\ \A i \in 1..Len(r) : r[i] = q[i + 1]
        /\ ToSet(q) = {x} \cup ToSet(r)
    BY <1>0, ToSetHeadTail
  <1>2. Len(q) \in Nat /\ Len(r) \in Nat /\ Len(q) = Len(r) + 1 /\ q[1] = x
    <2>1. q \in Seq(Commands) /\ Len(q) \in Nat
      BY <1>0
    <2> QED  BY <1>1, <2>1
  <1>3. /\ toDaemon'[c] = r /\ \A d \in Conns \ {c} : toDaemon'[d] = toDaemon[d]
        /\ toDaemon' \in [Conns -> Seq(Commands)]
    BY <1>0, <1>1
  <1>4. \A d \in Conns \ {c} : toDaemon[d] = <<>>
    BY <1>0 DEF Sockets
  <1> HIDE DEF q, r
  <1>5. OnItsWay(x)
    BY <1>1 DEF OnItsWay, q
  <1>6. /\ \A y : OnItsWay(y) => OnItsWay(y)' \/ y = x
        /\ \A y : OnItsWay(y)' => OnItsWay(y)
    BY <1>1, <1>3 DEF OnItsWay, q
  <1>7. ASSUME NEW i \in 1..Len(r), NEW j \in 1..Len(r), r[i] = r[j], r[i].cmd = "spawn"
        PROVE  i = j
    <2>1. i + 1 \in 1..Len(q) /\ j + 1 \in 1..Len(q) /\ r[i] = q[i + 1] /\ r[j] = q[j + 1]
      BY <1>1, <1>2
    <2>2. i + 1 = j + 1
      BY <1>0, <1>7, <2>1 DEF SpawnedOnce, q
    <2> QED  BY <1>2, <2>2
  <1>8. ASSUME x.cmd = "spawn", OnItsWay(x)'
        PROVE  FALSE
    <2>1. x \in ToSet(r)
      <3>1. PICK d \in Conns : x \in ToSet(toDaemon'[d])
        BY <1>8 DEF OnItsWay
      <3> QED  BY <1>3, <1>4, <3>1, ToSetEmpty
    <2>2. PICK i \in 1..Len(r) : r[i] = x
      <3>1. DOMAIN r = 1..Len(r)
        BY <1>1
      <3> QED  BY <2>1, <3>1 DEF ToSet
    <2>3. i + 1 \in 1..Len(q) /\ q[i + 1] = x /\ 1 \in 1..Len(q)
      BY <1>1, <1>2, <2>2
    <2>4. i + 1 = 1
      BY <1>0, <1>2, <1>8, <2>3 DEF SpawnedOnce, q
    <2> QED  BY <1>2, <2>4
  <1>9. SpawnedOnce'
    <2> SUFFICES ASSUME NEW d \in Conns, NEW i \in 1..Len(toDaemon'[d]),
                        NEW j \in 1..Len(toDaemon'[d]),
                        toDaemon'[d][i] = toDaemon'[d][j], toDaemon'[d][i].cmd = "spawn"
                 PROVE  i = j
      BY DEF SpawnedOnce
    <2>1. d = c /\ toDaemon'[d] = r
      BY <1>3, <1>4
    <2>2. /\ i \in 1..Len(r) /\ j \in 1..Len(r)
          /\ r[i] = r[j] /\ r[i].cmd = "spawn"
      BY <2>1
    <2> QED  BY <1>7, <2>2
  <1>10. ASSUME NEW i \in 1..Len(q), q[i].cmd = "spawn", q[i].proc \notin known \cup unattached
         PROVE  \/ Killing(q[i].proc) \in unheard
                \/ \E j \in i..Len(r) : r[j] = Killing(q[i].proc)
    <2>1. \/ Killing(q[i].proc) \in unheard
          \/ \E j \in (i + 1)..Len(q) : q[j] = Killing(q[i].proc)
      BY <1>0, <1>10 DEF KillFollows, q
    <2>2. CASE \E j \in (i + 1)..Len(q) : q[j] = Killing(q[i].proc)
      <3>1. PICK j \in (i + 1)..Len(q) : q[j] = Killing(q[i].proc)
        BY <2>2
      <3>2. j - 1 \in i..Len(r) /\ j - 1 \in 1..Len(r) /\ (j - 1) + 1 = j
        BY <1>2, <3>1
      <3>3. r[j - 1] = q[j]
        BY <1>1, <3>2
      <3> QED  BY <3>1, <3>2, <3>3
    <2> QED  BY <2>1, <2>2
  <1>11. KillFollows'
    <2> SUFFICES ASSUME NEW d \in Conns, NEW i \in 1..Len(toDaemon'[d]),
                        toDaemon'[d][i].cmd = "spawn",
                          toDaemon'[d][i].proc \notin known' \cup unattached'
                 PROVE  \/ Killing(toDaemon'[d][i].proc) \in unheard'
                        \/ \E j \in (i + 1)..Len(toDaemon'[d]) :
                             toDaemon'[d][j] = Killing(toDaemon'[d][i].proc)
      BY DEF KillFollows, Killing
    <2>1. d = c /\ toDaemon'[d] = r
      BY <1>3, <1>4
    <2>2. i + 1 \in 1..Len(q) /\ r[i] = q[i + 1]
      BY <1>1, <1>2, <2>1
    <2>3. \/ Killing(r[i].proc) \in unheard
          \/ \E j \in (i + 1)..Len(r) : r[j] = Killing(r[i].proc)
      <3>1. q[i + 1].cmd = "spawn" /\ q[i + 1].proc \notin known \cup unattached
        BY <2>1, <2>2
      <3> QED  BY <1>10, <2>2, <3>1
    <2> QED  BY <2>1, <2>3
  <1>12. x.cmd = "spawn" /\ x.proc \notin known \cup unattached =>
           OnItsWay(Killing(x.proc))' \/ Killing(x.proc) \in unheard
    <2> SUFFICES ASSUME x.cmd = "spawn", x.proc \notin known \cup unattached,
                        Killing(x.proc) \notin unheard
                 PROVE  OnItsWay(Killing(x.proc))'
      OBVIOUS
    <2>1. 1 \in 1..Len(q)
      BY <1>2
    <2>2. PICK j \in 1..Len(r) : r[j] = Killing(x.proc)
      BY <1>2, <1>10, <2>1
    <2>3. DOMAIN r = 1..Len(r)
      BY <1>1
    <2>4. Killing(x.proc) \in ToSet(r)
      BY <2>2, <2>3 DEF ToSet
    <2> QED  BY <1>3, <2>4 DEF OnItsWay, Killing
  <1> QED  BY <1>1, <1>3, <1>5, <1>6, <1>8, <1>9, <1>11, <1>12 DEF q, r

LEMMA ObeyKeeps ==
  ASSUME IInv, NEW c \in Conns, Obey(c)
  PROVE  IInv'
PROOF
  <1>1. PICK x : x = Head(toDaemon[c])
    OBVIOUS
  <1>2. PICK p : p = x.proc
    OBVIOUS
  <1>3. /\ cl[c] = "open" /\ toDaemon[c] # <<>>
        /\ toDaemon' = [toDaemon EXCEPT ![c] = Tail(toDaemon[c])]
        /\ UNCHANGED <<server, ws, cl, probing, cut, asked, unheard, unattached, faults>>
        /\ \/ /\ x.cmd # "kill" /\ running' = running \cup {p}
              /\ SendToServer([proc |-> p, n |-> 0]) /\ signalled' = signalled
           \/ /\ x.cmd # "kill" /\ SendToServer([proc |-> p, n |-> End])
              /\ running' = running /\ signalled' = signalled
           \/ /\ x.cmd = "kill" /\ signalled' = signalled \cup ({p} \cap running)
              /\ UNCHANGED <<running, sent, buffer, toServer, lost>>
    BY <1>1, <1>2 DEF Obey
  <1>4. known' = known /\ unattached' = unattached /\ unheard' = unheard /\ asked' = asked
    BY <1>3 DEF server
  <1>5. /\ x \in Commands /\ OnItsWay(x)
        /\ toDaemon' \in [Conns -> Seq(Commands)]
        /\ \A d \in Conns : toDaemon'[d] # <<>> => toDaemon[d] # <<>>
        /\ \A y : OnItsWay(y) => OnItsWay(y)' \/ y = x
        /\ \A y : OnItsWay(y)' => OnItsWay(y)
        /\ x.cmd = "spawn" => ~OnItsWay(x)'
        /\ SpawnedOnce' /\ KillFollows'
        /\ x.cmd = "spawn" /\ x.proc \notin known \cup unattached =>
             OnItsWay(Killing(x.proc))' \/ Killing(x.proc) \in unheard
    BY <1>1, <1>3, <1>4, Taken
  <1>6. /\ Quiet /\ Agreed /\ running \subseteq asked /\ signalled \subseteq asked
        /\ sent \subseteq Messages
    BY AgreedForm DEF IInv, TypeOK
  <1>7. /\ p \in Procs /\ p \in asked
        /\ x.cmd # "kill" => x = Spawning(p) /\ x.cmd = "spawn"
        /\ x.cmd = "kill" => x = Killing(p)
    <2>1. p \in asked
      BY <1>2, <1>5, <1>6 DEF Quiet
    <2>2. p \in Procs /\ x.cmd \in {"spawn", "kill"}
      BY <1>2, <1>5 DEF Commands
    <2>4. x \in Commands /\ x.proc = p
      BY <1>2, <1>5
    <2>5. x.cmd # "kill" => x.cmd = "spawn"
      BY <2>2
    <2>6. /\ x.cmd = "spawn" => x = Spawning(p)
          /\ x.cmd = "kill" => x = Killing(p)
      <3>1. PICK k \in {"spawn", "kill"}, r \in Procs : x = [cmd |-> k, proc |-> r]
        BY <2>4 DEF Commands
      <3>2. x.cmd = k /\ r = p
        BY <2>4, <3>1
      <3> QED  BY <3>1, <3>2 DEF Spawning, Killing
    <2> QED  BY <2>1, <2>2, <2>5, <2>6
  <1>8. \A r \in Procs : Spawning(r) # Killing(p) /\ Killing(r) # Spawning(p)
          /\ (Spawning(r) = Spawning(p) => r = p) /\ (Killing(r) = Killing(p) => r = p)
    BY DEF Spawning, Killing
  <1>9. known \subseteq Procs /\ running \subseteq Procs
    BY DEF IInv, TypeOK
  <1>10. CASE x.cmd # "kill"
    <2>1. x = Spawning(p) /\ x.cmd = "spawn" /\ ~OnItsWay(x)'
      BY <1>5, <1>7, <1>10
    <2>2. p \notin running /\ \A m \in sent : m.proc # p
      BY <1>2, <1>5, <1>6, <2>1 DEF Quiet
    <2>3. \A y \in Commands : OnItsWay(y)' /\ y.cmd = "spawn" => y.proc # p
      <3> SUFFICES ASSUME NEW y \in Commands, y.cmd = "spawn", y.proc = p, OnItsWay(y)'
                   PROVE  FALSE
        OBVIOUS
      <3>1. y = x
        BY <1>7, <2>1 DEF Commands, Spawning
      <3> QED  BY <2>1, <3>1 DEF OnItsWay
    <2>4. CASE /\ running' = running \cup {p} /\ signalled' = signalled
               /\ SendToServer([proc |-> p, n |-> 0])
      <3> DEFINE m == [proc |-> p, n |-> 0]
      <3>1. m \in Messages /\ m.proc = p /\ m.n # End
        BY <1>7, Numbers, BoundsAssumption DEF Messages, End
      <3>2. \A r \in Procs : [proc |-> r, n |-> End] # m
        BY <3>1
      <3> HIDE DEF m
      <3>3. SendToServer(m)
        BY <2>4 DEF m
      <3>4. /\ TypeOK' /\ Sockets' /\ Carried'
            /\ sent' = sent \cup {m}
            /\ \A y : Somewhere(y) => Somewhere(y)'
        BY <1>3, <1>5, <1>6, <1>7, <2>4, <3>1, <3>3, SayKeeps
      <3>5. Quiet'
        <4>1. ASSUME NEW y \in Commands, OnItsWay(y)'
              PROVE  /\ y.proc \in asked'
                     /\ y.cmd = "spawn" =>
                          y.proc \notin running' /\ \A o \in sent' : o.proc # y.proc
          BY <1>4, <1>5, <1>6, <2>3, <2>4, <3>1, <3>4, <4>1 DEF Quiet
        <4>2. ASSUME NEW r \in Procs, [proc |-> r, n |-> End] \in sent'
              PROVE  r \notin running'
          <5>1. [proc |-> r, n |-> End] \in sent
            BY <3>2, <3>4, <4>2
          <5>2. r # p /\ r \notin running
            BY <1>6, <2>2, <5>1 DEF Quiet
          <5> QED  BY <2>4, <5>2
        <4> QED  BY <4>1, <4>2 DEF Quiet
      <3>6. Agreed'
        <4>1. ASSUME NEW r \in known'
              PROVE  \/ r \in running' \/ OnItsWay(Spawning(r))' \/ Spawning(r) \in unheard'
                     \/ Somewhere(EndOf(r))'
          BY <1>4, <1>5, <1>6, <1>8, <1>9, <2>1, <2>4, <3>4 DEF Agreed
        <4>2. ASSUME NEW r \in running' \ known'
              PROVE  r \in signalled' \/ OnItsWay(Killing(r))' \/ Killing(r) \in unheard' \/ r \in unattached'
          <5>1. CASE r = p
            BY <1>2, <1>4, <1>5, <2>1, <4>2, <5>1
          <5>2. CASE r # p
            BY <1>4, <1>5, <1>6, <1>8, <1>9, <2>1, <2>4, <4>2, <5>2 DEF Agreed
          <5> QED  BY <5>1, <5>2
        <4> QED  BY <4>1, <4>2 DEF Agreed, EndOf, Spawning, Killing
      <3> QED  BY <1>5, <3>4, <3>5, <3>6, AgreedForm DEF IInv
    <2>5. CASE /\ running' = running /\ signalled' = signalled
               /\ SendToServer([proc |-> p, n |-> End])
      <3>1. EndOf(p) \in Messages /\ EndOf(p).proc = p /\ SendToServer(EndOf(p))
        BY <1>7, <2>5, EndTypes DEF EndOf
      <3>2. /\ TypeOK' /\ Sockets' /\ Carried'
            /\ sent' = sent \cup {EndOf(p)} /\ Somewhere(EndOf(p))'
            /\ \A y : Somewhere(y) => Somewhere(y)'
        BY <1>3, <1>5, <1>6, <1>7, <2>5, <3>1, SayKeeps
      <3>3. \A r \in Procs : [proc |-> r, n |-> End] = EndOf(p) => r = p
        BY DEF EndOf
      <3>4. Quiet'
        <4>1. ASSUME NEW y \in Commands, OnItsWay(y)'
              PROVE  /\ y.proc \in asked'
                     /\ y.cmd = "spawn" =>
                          y.proc \notin running' /\ \A o \in sent' : o.proc # y.proc
          BY <1>4, <1>5, <1>6, <2>3, <2>5, <3>1, <3>2, <4>1 DEF Quiet
        <4>2. ASSUME NEW r \in Procs, [proc |-> r, n |-> End] \in sent'
              PROVE  r \notin running'
          BY <1>6, <2>2, <2>5, <3>2, <3>3, <4>2 DEF Quiet
        <4> QED  BY <4>1, <4>2 DEF Quiet
      <3>5. Agreed'
        <4>1. ASSUME NEW r \in known'
              PROVE  \/ r \in running' \/ OnItsWay(Spawning(r))' \/ Spawning(r) \in unheard'
                     \/ Somewhere(EndOf(r))'
          BY <1>4, <1>5, <1>6, <1>8, <1>9, <2>1, <2>5, <3>2 DEF Agreed
        <4>2. ASSUME NEW r \in running' \ known'
              PROVE  r \in signalled' \/ OnItsWay(Killing(r))' \/ Killing(r) \in unheard' \/ r \in unattached'
          BY <1>4, <1>5, <1>6, <1>8, <1>9, <2>1, <2>5, <4>2 DEF Agreed
        <4> QED  BY <4>1, <4>2 DEF Agreed, EndOf, Spawning, Killing
      <3> QED  BY <1>5, <3>2, <3>4, <3>5, AgreedForm DEF IInv
    <2> QED  BY <1>3, <1>10, <2>4, <2>5
  <1>11. CASE x.cmd = "kill"
    <2>1. /\ signalled' = signalled \cup ({p} \cap running)
          /\ UNCHANGED <<running, sent, buffer, toServer, lost>>
      BY <1>3, <1>11
    <2>2. x = Killing(p)
      BY <1>7, <1>11
    <2>3. TypeOK'
      BY <1>3, <1>5, <1>6, <2>1 DEF IInv, TypeOK, server
    <2>4. Sockets'
      BY <1>3, <1>5 DEF IInv, Sockets, server
    <2>5. Carried'
      BY <1>3, <2>1 DEF IInv, Carried
    <2>6. Quiet'
      BY <1>4, <1>5, <1>6, <2>1 DEF Quiet
    <2>7. Agreed'
      <3>1. ASSUME NEW r \in known'
            PROVE  \/ r \in running' \/ OnItsWay(Spawning(r))' \/ Spawning(r) \in unheard'
                   \/ Somewhere(EndOf(r))'
        <4>1. Somewhere(EndOf(r)) => Somewhere(EndOf(r))'
          BY <2>1 DEF Somewhere, EndOf
        <4> QED  BY <1>4, <1>5, <1>6, <1>8, <1>9, <2>1, <2>2, <4>1 DEF Agreed
      <3>2. ASSUME NEW r \in running' \ known'
            PROVE  r \in signalled' \/ OnItsWay(Killing(r))' \/ Killing(r) \in unheard' \/ r \in unattached'
        BY <1>4, <1>5, <1>6, <1>8, <1>9, <2>1, <2>2, <3>2 DEF Agreed
      <3> QED  BY <3>1, <3>2 DEF Agreed, EndOf, Spawning, Killing
    <2> QED  BY <1>5, <2>3, <2>4, <2>5, <2>6, <2>7, AgreedForm DEF IInv
  <1> QED  BY <1>10, <1>11

-----------------------------------------------------------------------------
(* The invariant is inductive.                                             *)
LEMMA NextIInv == IInv /\ [Next]_vars => IInv'
PROOF
  <1> SUFFICES ASSUME IInv, [Next]_vars PROVE IInv'
    OBVIOUS
  <1>1. ASSUME NEW p \in Procs, Spawn(p) \/ Kill(p) \/ Print1(p) \/ Exit(p) \/ Drain(p)
        PROVE  IInv'
    BY <1>1, SpawnKeeps, KillKeeps, Print1Keeps, ExitKeeps, DrainKeeps
  <1>2. ASSUME NEW c \in Conns, Link(c)
        PROVE  IInv'
    BY <1>2, LinkKeeps, ProbeEndsKeeps DEF Link
  <1>3. ASSUME NEW c \in Conns, Receive(c) \/ Obey(c) \/ Break(c)
        PROVE  IInv'
    BY <1>3, ReceiveKeeps, ObeyKeeps, BreakKeeps
  <1>4. CASE Connect
    <2>1. PICK c \in Conns : TRUE
      BY <1>4 DEF Connect
    <2> QED  BY <1>4, <2>1, LinkKeeps
  <1>5. CASE Revoke
    BY <1>5, RevokeKeeps
  <1>6. CASE Restart
    BY <1>6, RestartKeeps
  <1>7. CASE UNCHANGED vars
    <2>1. SpawnedOnce' /\ Quiet' /\ KillFollows'
      BY <1>7, SameCommands DEF vars, server, daemon
    <2>2. TypeOK' /\ Sockets' /\ Carried'
      BY <1>7 DEF IInv, TypeOK, Sockets, Carried, vars, server, daemon
    <2>3. SidesAgree'
      BY <1>7 DEF IInv, SidesAgree, OnItsWay, Ending, vars, server, daemon
    <2> QED  BY <2>1, <2>2, <2>3 DEF IInv
  <1> QED  BY <1>1, <1>2, <1>3, <1>4, <1>5, <1>6, <1>7 DEF Next

(* The state of the link is well formed however the two ends, the timers   *)
(* and the network interleave.                                             *)
THEOREM TypeCorrect == Spec => []TypeOK
PROOF
  <1>1. IInv => TypeOK
    BY DEF IInv
  <1> QED  BY <1>1, InitIInv, NextIInv, PTL DEF Spec

(* The registry of the server (registry.ts) and the children of the daemon *)
(* (daemon.ts) agree on what runs, but for what a broken link has lost:    *)
(* for any number of processes, connections, restarts and losses.          *)
THEOREM SidesStayAgreed == Spec => []SidesAgree
PROOF
  <1>1. IInv => SidesAgree
    BY DEF IInv
  <1> QED  BY <1>1, InitIInv, NextIInv, PTL DEF Spec
-----------------------------------------------------------------------------
(* Each message in one place.  Queues share no message, repeat none, and   *)
(* hold none that is out.                                                  *)
Apart(b, q, out) ==
  /\ IsInjective(b) /\ ToSet(b) \cap out = {}
  /\ \A c \in Conns : /\ IsInjective(q[c])
                      /\ ToSet(q[c]) \cap (out \cup ToSet(b)) = {}
                      /\ \A d \in Conns \ {c} : ToSet(q[c]) \cap ToSet(q[d]) = {}

(* A message that was sent was passed on, or is somewhere, and only once.  *)
Accounted ==
  /\ Apart(buffer, toServer, got \cup lost)
  /\ got \cap lost = {}
  /\ \A m \in sent : m \in got \/ Somewhere(m)

(* What a child has sent is what it printed, numbered from 0.              *)
Said(p, k) == { [proc |-> p, n |-> i] : i \in 0..(k - 1) }
SaidBy(p, s) == { m \in s : m.proc = p }

Counted == \A p \in running : \E k \in 1..End : SaidBy(p, sent) = Said(p, k)

(* While no connection broke and the pairing holds, the daemon runs and    *)
(* says things over its one open connection only, which is the server's,   *)
(* to processes it knows, and ends each of them last, but for what was in  *)
(* its pipes; which alone is lost, when the server has the end.            *)
EndLast(q) ==
  \A i, j \in DOMAIN q : i < j /\ q[i].n = End => q[j].proc # q[i].proc \/ q[j].n > End
Drained(m) == m.n > End /\ EndOf(m.proc) \in got

CalmLink(c) ==
  /\ cl[c] # "closed" /\ srv[c] \in {"none", "pending", "admitted", "open"}
  /\ srv[c] = "open" => conn = c
  /\ cl[c] = "open" => srv[c] = "open"
CalmQueue(c) ==
  /\ toServer[c] # <<>> => cl[c] = "open"
  /\ \A m \in ToSet(toServer[c]) : m.proc \in known \/ Drained(m)
  /\ EndLast(toServer[c])

Calm ==
  /\ buffer = <<>> /\ cut = {} /\ known \subseteq requests
  /\ \A m \in lost : Drained(m)
  /\ \A c \in Conns : CalmLink(c) /\ CalmQueue(c)
  /\ running # {} \/ sent # {} => DaemonOpen
  /\ \A p \in asked : p \in known \/ EndOf(p) \in got

PInv == IInv /\ Accounted /\ Counted /\ (faults = 0 /\ ~revoked => Calm)

LEMMA InjectiveShort ==
  ASSUME NEW S
  PROVE  IsInjective(<<>>) /\ \A x \in S : IsInjective(<<x>>)
PROOF
  BY DEF IsInjective

LEMMA InjectiveLonger ==
  ASSUME NEW S, NEW s \in Seq(S), NEW t \in Seq(S), IsInjective(s), IsInjective(t),
         ToSet(s) \cap ToSet(t) = {}
  PROVE  IsInjective(s \o t)
PROOF
  <1>1. /\ DOMAIN s = 1..Len(s) /\ DOMAIN t = 1..Len(t)
        /\ Len(s) \in Nat /\ Len(t) \in Nat
        /\ DOMAIN (s \o t) = 1..(Len(s) + Len(t))
        /\ \A i \in 1..Len(s) : (s \o t)[i] = s[i]
        /\ \A i \in 1..Len(t) : (s \o t)[Len(s) + i] = t[i]
    OBVIOUS
  <1> DEFINE r == s \o t
             k == Len(s)
             l == Len(t)
  <1>2. ASSUME NEW i \in 1..(k + l)
        PROVE  \/ i \in 1..k /\ r[i] = s[i] /\ r[i] \in ToSet(s)
               \/ i - k \in 1..l /\ r[i] = t[i - k] /\ r[i] \in ToSet(t)
    <2>1. CASE i \in 1..k
      BY <1>1, <2>1 DEF ToSet
    <2>2. CASE i \notin 1..k
      <3>1. i - k \in 1..l /\ k + (i - k) = i
        BY <1>1, <2>2
      <3>2. r[i] = t[i - k]
        BY <1>1, <3>1
      <3> QED  BY <1>1, <3>1, <3>2 DEF ToSet
    <2> QED  BY <2>1, <2>2
  <1> SUFFICES ASSUME NEW i \in 1..(k + l), NEW j \in 1..(k + l), r[i] = r[j]
               PROVE  i = j
    BY <1>1 DEF IsInjective
  <1> HIDE DEF r, k, l
  <1>3. CASE i \in 1..k /\ r[i] = s[i] /\ r[i] \in ToSet(s)
    <2>1. j \in 1..k /\ r[j] = s[j]
      BY <1>2, <1>3
    <2>2. i \in DOMAIN s /\ j \in DOMAIN s /\ s[i] = s[j]
      BY <1>1, <1>3, <2>1 DEF k
    <2> QED  BY <2>2 DEF IsInjective
  <1>4. CASE i - k \in 1..l /\ r[i] = t[i - k] /\ r[i] \in ToSet(t)
    <2>1. j - k \in 1..l /\ r[j] = t[j - k]
      BY <1>2, <1>4
    <2>2. i - k \in DOMAIN t /\ j - k \in DOMAIN t /\ t[i - k] = t[j - k]
      BY <1>1, <1>4, <2>1 DEF l
    <2>3. i - k = j - k
      BY <2>2 DEF IsInjective
    <2> QED  BY <1>1, <2>3 DEF k, l
  <1> QED  BY <1>2, <1>3, <1>4

LEMMA InjectiveRest ==
  ASSUME NEW S, NEW s \in Seq(S), s # <<>>, IsInjective(s)
  PROVE  IsInjective(Tail(s)) /\ Head(s) \notin ToSet(Tail(s))
PROOF
  <1> DEFINE t == Tail(s)
  <1>1. /\ DOMAIN s = 1..Len(s) /\ DOMAIN t = 1..Len(t)
        /\ Len(s) \in Nat /\ Len(s) > 0 /\ Len(t) = Len(s) - 1
        /\ \A i \in 1..Len(t) : t[i] = s[i + 1]
        /\ Head(s) = s[1]
    BY ToSetHeadTail
  <1> HIDE DEF t
  <1>2. ASSUME NEW i \in DOMAIN t, NEW j \in DOMAIN t, t[i] = t[j]
        PROVE  i = j
    <2>1. i + 1 \in DOMAIN s /\ j + 1 \in DOMAIN s /\ s[i + 1] = s[j + 1]
      BY <1>1, <1>2
    <2>2. i + 1 = j + 1
      BY <2>1 DEF IsInjective
    <2> QED  BY <1>1, <2>2
  <1>3. ASSUME Head(s) \in ToSet(t)
        PROVE  FALSE
    <2>1. PICK i \in DOMAIN t : t[i] = Head(s)
      BY <1>3 DEF ToSet
    <2>2. i + 1 \in DOMAIN s /\ 1 \in DOMAIN s /\ s[i + 1] = s[1]
      BY <1>1, <2>1
    <2>3. i + 1 = 1
      BY <2>2 DEF IsInjective
    <2> QED  BY <1>1, <2>3
  <1> QED  BY <1>2, <1>3 DEF t, IsInjective

(* Messages leave the queues, and go out or are dropped.                   *)
LEMMA ApartLess ==
  ASSUME NEW b, NEW q, NEW out, Apart(b, q, out),
         NEW b2, NEW q2, NEW out2,
         IsInjective(b2), ToSet(b2) \subseteq ToSet(b), ToSet(b2) \cap out2 = {},
         \A c \in Conns : /\ IsInjective(q2[c]) /\ ToSet(q2[c]) \subseteq ToSet(q[c])
                          /\ ToSet(q2[c]) \cap out2 = {}
  PROVE  Apart(b2, q2, out2)
PROOF
  BY DEF Apart

(* Messages that are in no other queue, and not out, go into one.          *)
LEMMA ApartMore ==
  ASSUME NEW b, NEW q \in [Conns -> Seq(Messages)], NEW out, Apart(b, q, out),
         NEW k \in Conns, NEW s \in Seq(Messages), IsInjective(s),
         NEW b2, IsInjective(b2), ToSet(b2) \subseteq ToSet(b), ToSet(s) \cap ToSet(b2) = {},
         ToSet(s) \cap out = {}, \A c \in Conns : ToSet(s) \cap ToSet(q[c]) = {}
  PROVE  Apart(b2, [q EXCEPT ![k] = q[k] \o s], out)
PROOF
  <1> DEFINE r == [q EXCEPT ![k] = q[k] \o s]
  <1>1. r[k] = q[k] \o s /\ \A c \in Conns \ {k} : r[c] = q[c]
    OBVIOUS
  <1>2. q[k] \in Seq(Messages) /\ IsInjective(q[k])
    BY DEF Apart
  <1>3. ToSet(q[k] \o s) = ToSet(q[k]) \cup ToSet(s)
    BY <1>2, ToSetAppended
  <1>4. IsInjective(q[k] \o s)
    BY <1>2, InjectiveLonger
  <1> HIDE DEF r
  <1>5. ASSUME NEW c \in Conns
        PROVE  /\ IsInjective(r[c])
               /\ ToSet(r[c]) \cap (out \cup ToSet(b2)) = {}
               /\ \A d \in Conns \ {c} : ToSet(r[c]) \cap ToSet(r[d]) = {}
    <2>1. CASE c = k
      BY <1>1, <1>3, <1>4, <2>1 DEF Apart
    <2>2. CASE c # k
      BY <1>1, <1>3, <2>2 DEF Apart
    <2> QED  BY <2>1, <2>2
  <1> QED  BY <1>5 DEF Apart, r

LEMMA ApartBuffered ==
  ASSUME NEW b \in Seq(Messages), NEW q, NEW out, Apart(b, q, out), NEW m \in Messages,
         m \notin ToSet(b) \cup out, \A c \in Conns : m \notin ToSet(q[c])
  PROVE  Apart(Append(b, m), q, out)
PROOF
  <1>1. ToSet(Append(b, m)) = ToSet(b) \cup {m}
    BY ToSetOneMore
  <1>2. IsInjective(Append(b, m))
    <2>1. /\ <<m>> \in Seq(Messages) /\ ToSet(<<m>>) = {m} /\ IsInjective(<<m>>)
          /\ IsInjective(b)
      BY ToSetOne, InjectiveShort DEF Apart
    <2>2. IsInjective(b \o <<m>>)
      BY <2>1, InjectiveLonger
    <2>3. Append(b, m) = b \o <<m>>
      OBVIOUS
    <2> QED  BY <2>2, <2>3
  <1> QED  BY <1>1, <1>2 DEF Apart

(* What a new message of the daemon does.                                  *)
LEMMA SayCases ==
  ASSUME IInv, NEW m \in Messages, SendToServer(m)
  PROVE  \/ /\ DaemonOpen /\ ws \in Conns /\ ws \in cut
            /\ lost' = lost \cup {m} /\ UNCHANGED <<buffer, toServer>>
         \/ /\ DaemonOpen /\ ws \in Conns /\ ws \notin cut
            /\ toServer' = [toServer EXCEPT ![ws] = toServer[ws] \o <<m>>]
            /\ UNCHANGED <<buffer, lost>>
         \/ /\ ~DaemonOpen /\ buffer' = Append(buffer, m) /\ UNCHANGED <<toServer, lost>>
         \/ /\ ~DaemonOpen /\ buffer # <<>> /\ buffer' = Append(Tail(buffer), m)
            /\ lost' = lost \cup {Head(buffer)} /\ UNCHANGED toServer
PROOF
  <1>0. /\ buffer \in Seq(Messages) /\ ws \in 0..MaxConns
        /\ toServer \in [Conns -> Seq(Messages)]
    BY DEF IInv, TypeOK
  <1>1. CASE DaemonOpen /\ Transmit(<<m>>) /\ UNCHANGED buffer
    <2>1. ws \in Conns
      BY <1>0, <1>1, BoundsAssumption DEF DaemonOpen, Conns
    <2>2. ToSet(<<m>>) = {m}
      BY ToSetOne
    <2> QED  BY <1>1, <2>1, <2>2 DEF Transmit
  <1>2. CASE /\ ~DaemonOpen /\ buffer' = Append(buffer, m)
             /\ UNCHANGED <<toServer, lost>>
    BY <1>2
  <1>3. CASE /\ ~DaemonOpen /\ Len(buffer) >= BufferLimit
             /\ buffer' = Append(Tail(buffer), m)
             /\ lost' = lost \cup {Head(buffer)}
             /\ UNCHANGED toServer
    <2>1. buffer # <<>>
      BY <1>0, <1>3, BoundsAssumption
    <2> QED  BY <1>3, <2>1
  <1> QED  BY <1>1, <1>2, <1>3 DEF SendToServer

LEMMA SayAccounted ==
  ASSUME IInv, Accounted, NEW m \in Messages, m \notin sent, SendToServer(m), got' = got
  PROVE  Accounted'
PROOF
  <1> DEFINE out == got \cup lost
  <1> HIDE DEF SendToServer
  <1>0. /\ buffer \in Seq(Messages) /\ toServer \in [Conns -> Seq(Messages)]
        /\ got \subseteq sent /\ lost \subseteq sent /\ ToSet(buffer) \subseteq sent
        /\ \A c \in Conns : ToSet(toServer[c]) \subseteq sent
        /\ Apart(buffer, toServer, out) /\ got \cap lost = {}
        /\ \A x \in sent : x \in got \/ Somewhere(x)
    BY DEF IInv, TypeOK, Carried, Accounted
  <1>1. /\ sent' = sent \cup {m} /\ \A x : Somewhere(x) => Somewhere(x)'
        /\ Somewhere(m)'
    BY SayEffect
  <1>2. \A x \in sent' : x \in got' \/ Somewhere(x)'
    BY <1>0, <1>1
  <1>3. m \notin ToSet(buffer) \cup out /\ \A c \in Conns : m \notin ToSet(toServer[c])
    BY <1>0
  <1>4. CASE /\ lost' = lost \cup {m} /\ UNCHANGED <<buffer, toServer>>
    <2>1. Apart(buffer', toServer', got' \cup lost')
      BY <1>0, <1>3, <1>4 DEF Apart
    <2> QED  BY <1>0, <1>2, <1>4, <2>1 DEF Accounted
  <1>5. CASE /\ ws \in Conns
             /\ toServer' = [toServer EXCEPT ![ws] = toServer[ws] \o <<m>>]
             /\ UNCHANGED <<buffer, lost>>
    <2>1. <<m>> \in Seq(Messages) /\ ToSet(<<m>>) = {m} /\ IsInjective(<<m>>)
      BY ToSetOne, InjectiveShort
    <2>2. IsInjective(buffer)
      BY <1>0 DEF Apart
    <2> HIDE DEF out
    <2>3. Apart(buffer, [toServer EXCEPT ![ws] = toServer[ws] \o <<m>>], out)
      <3> DEFINE s == <<m>>
      <3>1. /\ s \in Seq(Messages) /\ IsInjective(s)
            /\ ToSet(s) \cap ToSet(buffer) = {} /\ ToSet(s) \cap out = {}
            /\ \A c \in Conns : ToSet(s) \cap ToSet(toServer[c]) = {}
        BY <1>3, <2>1
      <3> HIDE DEF s
      <3>2. Apart(buffer, [toServer EXCEPT ![ws] = toServer[ws] \o s], out)
        BY <1>0, <1>5, <2>2, <3>1, ApartMore
      <3> QED  BY <3>2 DEF s
    <2> QED  BY <1>0, <1>2, <1>5, <2>3 DEF Accounted, out
  <1>6. CASE buffer' = Append(buffer, m) /\ UNCHANGED <<toServer, lost>>
    <2> HIDE DEF out
    <2>1. Apart(Append(buffer, m), toServer, out)
      BY <1>0, <1>3, ApartBuffered
    <2> QED  BY <1>0, <1>2, <1>6, <2>1 DEF Accounted, out
  <1>7. CASE /\ buffer # <<>> /\ buffer' = Append(Tail(buffer), m)
             /\ lost' = lost \cup {Head(buffer)} /\ UNCHANGED toServer
    <2> DEFINE h == Head(buffer)
               t == Tail(buffer)
    <2>1. /\ t \in Seq(Messages) /\ ToSet(buffer) = {h} \cup ToSet(t)
          /\ IsInjective(t) /\ h \notin ToSet(t)
      BY <1>0, <1>7, ToSetHeadTail, InjectiveRest DEF Apart
    <2> HIDE DEF h, t
    <2>2. Apart(t, toServer, out \cup {h})
      BY <1>0, <2>1 DEF Apart
    <2>3. m # h /\ m \notin ToSet(t)
      BY <1>3, <2>1
    <2>4. Apart(Append(t, m), toServer, out \cup {h})
      BY <1>3, <2>1, <2>2, <2>3, ApartBuffered
    <2>5. h \notin got
      BY <1>0, <2>1 DEF Apart
    <2>6. Apart(buffer', toServer', got' \cup lost')
      <3>1. out \cup {h} = got' \cup lost'
        BY <1>7 DEF h
      <3> HIDE DEF out
      <3> QED  BY <1>7, <2>4, <3>1 DEF t
    <2> QED  BY <1>0, <1>2, <1>7, <2>5, <2>6 DEF Accounted, h
  <1> QED  BY <1>4, <1>5, <1>6, <1>7, SayCases

LEMMA FlushAccounted ==
  ASSUME IInv, Accounted, Flush, sent' = sent, got' = got
  PROVE  Accounted'
PROOF
  <1> DEFINE out == got \cup lost
  <1> HIDE DEF Flush
  <1>0. /\ buffer \in Seq(Messages) /\ toServer \in [Conns -> Seq(Messages)]
        /\ ws \in 0..MaxConns
        /\ Apart(buffer, toServer, out) /\ got \cap lost = {}
        /\ \A x \in sent : x \in got \/ Somewhere(x)
    BY DEF IInv, TypeOK, Accounted
  <1>1. \A x : Somewhere(x) => Somewhere(x)'
    BY FlushEffect
  <1>2. \A x \in sent' : x \in got' \/ Somewhere(x)'
    BY <1>0, <1>1
  <1>3. ToSet(<<>>) = {} /\ IsInjective(<<>>)
    BY ToSetEmpty, InjectiveShort
  <1>4. CASE DaemonOpen /\ ws \in cut
    <2>1. lost' = lost \cup ToSet(buffer) /\ toServer' = toServer /\ buffer' = <<>>
      BY <1>4 DEF Flush, Transmit
    <2>2. Apart(<<>>, toServer, out \cup ToSet(buffer))
      BY <1>0, <1>3 DEF Apart
    <2>3. got \cap ToSet(buffer) = {}
      BY <1>0 DEF Apart
    <2>4. out \cup ToSet(buffer) = got' \cup lost'
      BY <2>1
    <2>5. got' \cap lost' = {}
      BY <1>0, <2>1, <2>3
    <2> HIDE DEF out
    <2> QED  BY <1>2, <2>1, <2>2, <2>4, <2>5 DEF Accounted
  <1>5. CASE DaemonOpen /\ ws \notin cut
    <2>1. /\ toServer' = [toServer EXCEPT ![ws] = toServer[ws] \o buffer]
          /\ lost' = lost /\ buffer' = <<>>
      BY <1>5 DEF Flush, Transmit
    <2>2. ws \in Conns
      BY <1>0, <1>5, BoundsAssumption DEF DaemonOpen, Conns
    <2>3. /\ IsInjective(buffer) /\ ToSet(buffer) \cap out = {}
          /\ \A c \in Conns : ToSet(buffer) \cap ToSet(toServer[c]) = {}
      BY <1>0 DEF Apart
    <2> HIDE DEF out
    <2>4. Apart(<<>>, [toServer EXCEPT ![ws] = toServer[ws] \o buffer], out)
      BY <1>0, <1>3, <2>2, <2>3, ApartMore
    <2> QED  BY <1>0, <1>2, <2>1, <2>4 DEF Accounted, out
  <1>6. CASE ~DaemonOpen
    <2>1. buffer' = buffer /\ toServer' = toServer /\ lost' = lost
      BY <1>6 DEF Flush
    <2> QED  BY <1>0, <1>2, <2>1 DEF Accounted
  <1> QED  BY <1>4, <1>5, <1>6

LEMMA ReceiveAccounted ==
  ASSUME IInv, Accounted, NEW c \in Conns, Receive(c)
  PROVE  Accounted'
PROOF
  <1> DEFINE q == toServer[c]
             out == got \cup lost
  <1>m. PICK m : m = Head(q)
    OBVIOUS
  <1>0. /\ buffer \in Seq(Messages) /\ toServer \in [Conns -> Seq(Messages)]
        /\ Apart(buffer, toServer, out) /\ got \cap lost = {}
        /\ \A x \in sent : x \in got \/ Somewhere(x)
    BY DEF IInv, TypeOK, Accounted
  <1>1. /\ q # <<>> /\ toServer' = [toServer EXCEPT ![c] = Tail(q)]
        /\ buffer' = buffer /\ sent' = sent
        /\ \/ got' = got \cup {m} /\ lost' = lost
           \/ lost' = lost \cup {m} /\ got' = got
    BY <1>m DEF Receive, daemon
  <1>2. /\ Tail(q) \in Seq(Messages) /\ ToSet(q) = {m} \cup ToSet(Tail(q))
        /\ IsInjective(Tail(q)) /\ m \notin ToSet(Tail(q))
    <2>1. q \in Seq(Messages) /\ IsInjective(q)
      BY <1>0 DEF Apart
    <2> HIDE DEF q
    <2> QED  BY <1>m, <1>1, <2>1, ToSetHeadTail, InjectiveRest
  <1>3. toServer'[c] = Tail(q) /\ \A d \in Conns \ {c} : toServer'[d] = toServer[d]
    BY <1>0, <1>1, <1>2
  <1>4. m \notin out /\ m \notin ToSet(buffer) /\ \A d \in Conns \ {c} : m \notin ToSet(toServer[d])
    BY <1>0, <1>2 DEF Apart
  <1> HIDE DEF q
  <1>5. Apart(buffer', toServer', out \cup {m})
    <2>1. /\ IsInjective(buffer') /\ ToSet(buffer') \subseteq ToSet(buffer)
          /\ ToSet(buffer') \cap (out \cup {m}) = {}
      BY <1>0, <1>1, <1>4 DEF Apart
    <2>2. ASSUME NEW d \in Conns
          PROVE  /\ IsInjective(toServer'[d]) /\ ToSet(toServer'[d]) \subseteq ToSet(toServer[d])
                 /\ ToSet(toServer'[d]) \cap (out \cup {m}) = {}
      <3>1. CASE d = c
        BY <1>0, <1>2, <1>3, <3>1 DEF Apart, q
      <3>2. CASE d # c
        BY <1>0, <1>3, <1>4, <3>2 DEF Apart
      <3> QED  BY <3>1, <3>2
    <2> HIDE DEF out
    <2> QED  BY <1>0, <2>1, <2>2, ApartLess
  <1>6. \A x : Somewhere(x) => Somewhere(x)' \/ x = m
    BY <1>1, <1>2, <1>3 DEF Somewhere, q
  <1>7. m \in got' \/ Somewhere(m)'
    BY <1>1 DEF Somewhere
  <1>8. \A x \in sent' : x \in got' \/ Somewhere(x)'
    BY <1>0, <1>1, <1>6, <1>7
  <1>9. out \cup {m} = got' \cup lost' /\ got' \cap lost' = {}
    BY <1>0, <1>1, <1>4
  <1> HIDE DEF out
  <1> QED  BY <1>5, <1>8, <1>9 DEF Accounted

(* Messages that are lost on their way.                                    *)
LEMMA DropAccounted ==
  ASSUME IInv, Accounted, NEW D \in SUBSET Conns,
         toServer' = [c \in Conns |-> IF c \in D THEN <<>> ELSE toServer[c]],
         lost' = lost \cup UNION { ToSet(toServer[c]) : c \in D },
         UNCHANGED <<sent, got, buffer>>
  PROVE  Accounted'
PROOF
  <1> DEFINE out == got \cup lost
             new == UNION { ToSet(toServer[c]) : c \in D }
  <1>0. /\ Apart(buffer, toServer, out) /\ got \cap lost = {}
        /\ \A x \in sent : x \in got \/ Somewhere(x)
    BY DEF Accounted
  <1>1. ToSet(<<>>) = {} /\ IsInjective(<<>>)
    BY ToSetEmpty, InjectiveShort
  <1>2. \A c \in Conns : toServer'[c] = IF c \in D THEN <<>> ELSE toServer[c]
    OBVIOUS
  <1>3. /\ IsInjective(buffer) /\ ToSet(buffer) \cap (out \cup new) = {}
        /\ got \cap new = {}
    BY <1>0 DEF Apart
  <1>4. ASSUME NEW c \in Conns
        PROVE  /\ IsInjective(toServer'[c]) /\ ToSet(toServer'[c]) \subseteq ToSet(toServer[c])
               /\ ToSet(toServer'[c]) \cap (out \cup new) = {}
    BY <1>0, <1>1, <1>2 DEF Apart
  <1>5. \A x : Somewhere(x) => Somewhere(x)'
    BY <1>2 DEF Somewhere
  <1>6. lost' = lost \cup new
    OBVIOUS
  <1>7. out \cup new = got' \cup lost' /\ got' \cap lost' = {}
    BY <1>0, <1>3, <1>6
  <1> HIDE DEF out, new
  <1>8. Apart(buffer, toServer', out \cup new)
    BY <1>0, <1>3, <1>4, ApartLess
  <1> QED  BY <1>0, <1>5, <1>7, <1>8 DEF Accounted

(* The numbers of what a child prints.                                     *)
LEMMA SaidFacts ==
  ASSUME NEW p, NEW k \in Nat
  PROVE  /\ Cardinality(Said(p, k)) = k
         /\ Said(p, k + 1) = Said(p, k) \cup {[proc |-> p, n |-> k]}
         /\ [proc |-> p, n |-> k] \notin Said(p, k)
PROOF
  <1> DEFINE I == 0..(k - 1)
             f == [i \in I |-> [proc |-> p, n |-> i]]
  <1>1. IsFiniteSet(I) /\ Cardinality(I) = k
    BY FS_Interval
  <1>2. f \in [I -> Said(p, k)] /\ \A x \in Said(p, k) : \E i \in I : f[i] = x
    BY DEF Said
  <1>3. \A i, j \in I : f[i] = f[j] => i = j
    <2> SUFFICES ASSUME NEW i \in I, NEW j \in I, f[i] = f[j]
                 PROVE  i = j
      OBVIOUS
    <2>1. [proc |-> p, n |-> i].n = [proc |-> p, n |-> j].n
      OBVIOUS
    <2> QED  BY <2>1
  <1> HIDE DEF f, I
  <1>4. f \in Surjection(I, Said(p, k)) /\ f \in Injection(I, Said(p, k))
    BY <1>2, <1>3 DEF Surjection, Injection, IsInjective
  <1>5. Cardinality(Said(p, k)) = k
    BY <1>1, <1>4, FS_Surjection
  <1>6. 0..((k + 1) - 1) = 0..(k - 1) \cup {k} /\ k \notin 0..(k - 1)
    OBVIOUS
  <1>7. Said(p, k + 1) = Said(p, k) \cup {[proc |-> p, n |-> k]}
    BY <1>6 DEF Said
  <1>8. [proc |-> p, n |-> k] \notin Said(p, k)
    BY <1>6 DEF Said
  <1> QED  BY <1>5, <1>7, <1>8

LEMMA PrintIsNew ==
  ASSUME Counted, NEW p \in running, Printed(p) <= MaxOutput
  PROVE  \E k \in 1..MaxOutput : /\ Printed(p) = k /\ SaidBy(p, sent) = Said(p, k)
                                /\ [proc |-> p, n |-> k] \notin sent
PROOF
  <1>1. PICK k \in 1..End : SaidBy(p, sent) = Said(p, k)
    BY DEF Counted
  <1>2. k \in Nat
    BY <1>1
  <1>3. Printed(p) = Cardinality(SaidBy(p, sent))
    BY DEF Printed, SaidBy
  <1>4. Printed(p) = k
    BY <1>1, <1>2, <1>3, SaidFacts
  <1>5. k \in 1..MaxOutput
    BY <1>2, <1>1, <1>4, BoundsAssumption DEF End
  <1>6. [proc |-> p, n |-> k] \notin SaidBy(p, sent)
    BY <1>1, <1>2, SaidFacts
  <1>7. [proc |-> p, n |-> k] \notin sent
    BY <1>6 DEF SaidBy
  <1> QED  BY <1>1, <1>4, <1>5, <1>7

LEMMA SayCounted ==
  ASSUME Counted, NEW p, NEW m, m.proc = p, sent' = sent \cup {m},
         running' \ {p} \subseteq running,
         p \in running' => \E k \in 1..End : SaidBy(p, sent') = Said(p, k)
  PROVE  Counted'
PROOF
  <1> SUFFICES ASSUME NEW r \in running'
               PROVE  \E k \in 1..End : SaidBy(r, sent') = Said(r, k)
    BY DEF Counted, SaidBy, Said, End
  <1>1. CASE r = p
    BY <1>1
  <1>2. CASE r # p
    <2>1. SaidBy(r, sent') = SaidBy(r, sent)
      BY <1>2 DEF SaidBy
    <2> QED  BY <1>2, <2>1 DEF Counted
  <1> QED  BY <1>1, <1>2

(* The child's steps: what it says is new, and stays counted.              *)
LEMMA ChildSays ==
  ASSUME IInv, Counted, NEW p \in Procs, Print1(p) \/ Exit(p)
  PROVE  \E m \in Messages : /\ m.proc = p /\ m \notin sent /\ SendToServer(m)
                            /\ Counted'
PROOF
  <1>0. sent \subseteq Messages /\ Quiet
    BY DEF IInv, TypeOK
  <1>1. CASE Print1(p)
    <2>1. PICK k \in 1..MaxOutput : /\ Printed(p) = k /\ SaidBy(p, sent) = Said(p, k)
                                    /\ [proc |-> p, n |-> k] \notin sent
      BY <1>1, PrintIsNew DEF Print1
    <2> DEFINE m == [proc |-> p, n |-> k]
    <2>2. SendToServer(m) /\ running' = running /\ p \in running
      BY <1>1, <2>1 DEF Print1
    <2>3. k \in Nat /\ k + 1 \in 1..End /\ k \in 0..Final
      BY <2>1, BoundsAssumption DEF End, Final
    <2>4. m \in Messages /\ m.proc = p
      BY <2>3 DEF Messages
    <2>5. sent' = sent \cup {m}
      BY <2>2 DEF SendToServer
    <2>6. SaidBy(p, sent') = SaidBy(p, sent) \cup {m}
      BY <2>5 DEF SaidBy
    <2>7. SaidBy(p, sent') = Said(p, k + 1)
      BY <2>1, <2>3, <2>6, SaidFacts
    <2>8. m \notin sent
      BY <2>1
    <2> HIDE DEF m, SendToServer
    <2>9. Counted'
      BY <2>2, <2>3, <2>4, <2>5, <2>7, SayCounted
    <2> QED  BY <2>2, <2>4, <2>8, <2>9
  <1>2. CASE Exit(p)
    <2>1. /\ p \in running /\ running' = running \ {p} /\ SendToServer(EndOf(p))
      BY <1>2 DEF Exit, EndOf
    <2>2. EndOf(p) \in Messages /\ EndOf(p).proc = p
      BY EndTypes
    <2>3. EndOf(p) \notin sent
      BY <1>0, <2>1 DEF Quiet, EndOf
    <2>4. sent' = sent \cup {EndOf(p)}
      BY <2>1 DEF SendToServer
    <2> HIDE DEF SendToServer
    <2>5. Counted'
      BY <2>1, <2>2, <2>4, SayCounted
    <2> QED  BY <2>1, <2>2, <2>3, <2>5
  <1> QED  BY <1>1, <1>2

(* A command that makes the daemon speak is a spawn.                       *)
LEMMA ObeySays ==
  ASSUME IInv, Counted, NEW c \in Conns, Obey(c)
  PROVE  \/ UNCHANGED <<running, sent, buffer, toServer, lost>>
         \/ \E m \in Messages : /\ m.proc \in asked /\ (\A x \in sent : x.proc # m.proc)
                               /\ SendToServer(m) /\ Counted'
PROOF
  <1>0. /\ toDaemon \in [Conns -> Seq(Commands)] /\ sent \subseteq Messages /\ Quiet
        /\ asked \subseteq Procs
    BY DEF IInv, TypeOK
  <1>1. PICK x : x = Head(toDaemon[c])
    OBVIOUS
  <1>2. /\ toDaemon[c] # <<>>
        /\ \/ /\ x.cmd # "kill" /\ running' = running \cup {x.proc}
              /\ SendToServer([proc |-> x.proc, n |-> 0])
           \/ /\ x.cmd # "kill" /\ SendToServer([proc |-> x.proc, n |-> End])
              /\ running' = running
           \/ UNCHANGED <<running, sent, buffer, toServer, lost>>
    BY <1>1 DEF Obey
  <1>3. x \in Commands /\ x \in ToSet(toDaemon[c])
    BY <1>0, <1>1, <1>2, ToSetHeadTail
  <1>4. x.proc \in asked /\ (x.cmd = "spawn" => x.proc \notin running /\ \A m \in sent : m.proc # x.proc)
    BY <1>0, <1>3 DEF Quiet, OnItsWay
  <1>5. x.cmd # "kill" => x.cmd = "spawn"
    BY <1>3 DEF Commands
  <1> DEFINE p == x.proc
  <1>6. CASE /\ x.cmd # "kill" /\ running' = running \cup {p}
             /\ SendToServer([proc |-> p, n |-> 0])
    <2> DEFINE m == [proc |-> p, n |-> 0]
    <2>1. m \in Messages /\ m.proc = p
      BY <1>0, <1>4, Numbers DEF Messages
    <2>2. sent' = sent \cup {m} /\ SendToServer(m)
      BY <1>6 DEF SendToServer
    <2>3. \A y \in sent : y.proc # p
      BY <1>4, <1>5, <1>6
    <2>4. SaidBy(p, sent') = Said(p, 1)
      <3>1. SaidBy(p, sent') = {m}
        BY <2>1, <2>2, <2>3 DEF SaidBy
      <3>2. 0..(1 - 1) = {0}
        OBVIOUS
      <3>3. Said(p, 1) = {m}
        BY <3>2 DEF Said
      <3> QED  BY <3>1, <3>3
    <2>5. 1 \in 1..End
      BY BoundsAssumption DEF End
    <2> HIDE DEF m, p, SendToServer
    <2>6. Counted'
      BY <1>6, <2>1, <2>2, <2>4, <2>5, SayCounted
    <2> QED  BY <1>4, <2>1, <2>2, <2>3, <2>6 DEF p
  <1>7. CASE /\ x.cmd # "kill" /\ SendToServer([proc |-> p, n |-> End])
             /\ running' = running
    <2> DEFINE m == [proc |-> p, n |-> End]
    <2>1. m \in Messages /\ m.proc = p
      BY <1>0, <1>4, Numbers DEF Messages
    <2>2. sent' = sent \cup {m} /\ SendToServer(m)
      BY <1>7 DEF SendToServer
    <2>3. p \notin running /\ \A y \in sent : y.proc # p
      BY <1>4, <1>5, <1>7
    <2> HIDE DEF m, p, SendToServer
    <2>4. Counted'
      BY <1>7, <2>1, <2>2, <2>3, SayCounted
    <2> QED  BY <1>4, <2>1, <2>2, <2>3, <2>4 DEF p
  <1> QED  BY <1>2, <1>6, <1>7

-----------------------------------------------------------------------------
(* A calm link.                                                            *)
LEMMA CalmFacts ==
  ASSUME IInv, Calm
  PROVE  \A c \in Conns :
           /\ c \notin cut
           /\ cl[c] \in {"none", "connecting", "open"}
           /\ srv[c] \in {"none", "pending", "admitted", "open"}
           /\ srv[c] = "open" <=> conn = c
           /\ c # ws => srv[c] = "none" /\ cl[c] = "none" /\ toServer[c] = <<>>
           /\ ws = c <=> cl[c] # "none"
PROOF
  <1> SUFFICES ASSUME NEW c \in Conns
               PROVE  /\ c \notin cut
                      /\ cl[c] \in {"none", "connecting", "open"}
                      /\ srv[c] \in {"none", "pending", "admitted", "open"}
                      /\ srv[c] = "open" <=> conn = c
                      /\ c # ws => srv[c] = "none" /\ cl[c] = "none" /\ toServer[c] = <<>>
                      /\ ws = c <=> cl[c] # "none"
    OBVIOUS
  <1>1. /\ cl[c] \in {"connecting", "open"} <=> c = ws
        /\ cl[c] = "none" <=> srv[c] = "none"
        /\ conn = c => srv[c] \in {"open", "closing"}
    BY DEF IInv, Sockets
  <1>2. cl[c] \in {"none", "connecting", "open", "closed"}
    BY DEF IInv, TypeOK
  <1>3. CalmLink(c) /\ CalmQueue(c) /\ c \notin cut
    BY DEF Calm
  <1>4. cl[c] \in {"none", "connecting", "open"}
    BY <1>2, <1>3 DEF CalmLink
  <1> QED  BY <1>1, <1>3, <1>4 DEF CalmLink, CalmQueue

(* A step of the sockets that leaves the messages and children alone.      *)
LEMMA CalmSame ==
  ASSUME Calm, UNCHANGED <<lost, got, buffer, cut, toServer, sent, running>>,
         known \subseteq known', asked' \ asked \subseteq known', known' \subseteq requests',
         \A c \in Conns : CalmLink(c)' /\ (cl[c] = "open" => cl'[c] = "open"),
         running # {} \/ sent # {} => DaemonOpen'
  PROVE  Calm'
PROOF
  <1>1. \A c \in Conns : CalmQueue(c)'
    <2> SUFFICES ASSUME NEW c \in Conns PROVE CalmQueue(c)'
      OBVIOUS
    <2>1. CalmQueue(c)
      BY DEF Calm
    <2> QED  BY <2>1 DEF CalmQueue, EndLast, Drained, EndOf, End
  <1>2. \A p \in asked' : p \in known' \/ EndOf(p) \in got'
    BY DEF Calm
  <1> QED  BY <1>1, <1>2 DEF Calm, Drained, EndOf, End

LEMMA CalmSockets ==
  ASSUME IInv, Calm, ~revoked, NEW c \in Conns,
         Admit(c) \/ Attach(c) \/ Reject(c) \/ ServerCloses(c) \/ ServerClosed(c) \/ Open(c)
           \/ DaemonCloses(c) \/ Connect
  PROVE  Calm'
PROOF
  <1> DEFINE SrvStates == {"none", "pending", "admitted", "rejected", "open", "closing", "closed"}
  <1>0. /\ \A d \in Conns :
             /\ d \notin cut
             /\ cl[d] \in {"none", "connecting", "open"}
             /\ srv[d] \in {"none", "pending", "admitted", "open"}
             /\ srv[d] = "open" <=> conn = d
             /\ d # ws => srv[d] = "none" /\ cl[d] = "none" /\ toServer[d] = <<>>
             /\ ws = d <=> cl[d] # "none"
             /\ CalmLink(d)
        /\ running # {} \/ sent # {} => DaemonOpen
        /\ known \subseteq requests
    BY CalmFacts DEF Calm
  <1>t. /\ srv \in [Conns -> SrvStates] /\ 0 \notin Conns
        /\ cl \in [Conns -> {"none", "connecting", "open", "closed"}]
    BY Numbers DEF IInv, TypeOK
  <1> HIDE DEF SrvStates
  <1>1. CASE Admit(c)
    <2>1. /\ srv' = [srv EXCEPT ![c] = "admitted"] /\ srv[c] = "pending"
          /\ UNCHANGED <<conn, known, requests, got, ws, cl, running, buffer, toServer, cut, asked,
                         sent, lost>>
      BY <1>1 DEF Admit, daemon
    <2>2. \A d \in Conns : CalmLink(d)'
      BY <1>0, <1>t, <2>1 DEF CalmLink
    <2> QED  BY <1>0, <2>1, <2>2, CalmSame DEF DaemonOpen
  <1>2. CASE Attach(c)
    <2>1. /\ srv' = [d \in Conns |-> IF d = c THEN "open" ELSE IF d = conn THEN "closing" ELSE srv[d]]
          /\ srv[c] = "admitted" /\ conn' = c
          /\ UNCHANGED <<known, requests, got, ws, cl, running, buffer, toServer, cut, asked, sent, lost>>
      BY <1>2 DEF Attach, daemon
    <2>2. c = ws
      BY <1>0, <2>1
    <2>3. \A d \in Conns : d # c => d # conn /\ srv'[d] = "none"
      BY <1>0, <2>1, <2>2
    <2>4. srv'[c] = "open"
      BY <2>1
    <2>5. \A d \in Conns : CalmLink(d)'
      BY <1>0, <2>1, <2>2, <2>3, <2>4 DEF CalmLink
    <2> QED  BY <1>0, <2>1, <2>5, CalmSame DEF DaemonOpen
  <1>3. CASE Reject(c)
    BY <1>0, <1>3 DEF Reject
  <1>4. CASE ServerCloses(c)
    BY <1>0, <1>4 DEF ServerCloses
  <1>5. CASE ServerClosed(c)
    BY <1>0, <1>5 DEF ServerClosed
  <1>6. CASE Open(c)
    <2>1. /\ cl' = [cl EXCEPT ![c] = "open"] /\ cl[c] = "connecting"
          /\ srv[c] \in {"open", "closing", "closed"}
          /\ UNCHANGED <<conn, srv, known, requests, got, ws, running, buffer, toServer, cut, asked,
                         sent, lost>>
      BY <1>6 DEF Open, server
    <2>2. srv[c] = "open" /\ conn = c /\ ws = c
      BY <1>0, <2>1
    <2>3. cl'[c] = "open" /\ \A d \in Conns \ {c} : cl'[d] = cl[d]
      BY <1>t, <2>1
    <2>4. \A d \in Conns : CalmLink(d)'
      BY <1>0, <2>1, <2>2, <2>3 DEF CalmLink
    <2>5. DaemonOpen'
      BY <1>t, <2>1, <2>2, <2>3 DEF DaemonOpen
    <2> QED  BY <1>0, <2>1, <2>3, <2>4, <2>5, CalmSame
  <1>7. CASE DaemonCloses(c)
    BY <1>0, <1>7 DEF DaemonCloses
  <1>8. CASE Connect
    <2>1. PICK d \in Conns : /\ ws = 0 /\ ws' = d
                             /\ cl' = [cl EXCEPT ![d] = "connecting"]
                             /\ srv' = [srv EXCEPT ![d] = "pending"]
      BY <1>8 DEF Connect
    <2>2. UNCHANGED <<conn, known, requests, got, running, buffer, toServer, cut, asked, sent, lost>>
      BY <1>8 DEF Connect
    <2>3. running = {} /\ sent = {}
      BY <1>0, <2>1 DEF DaemonOpen
    <2>4. \A e \in Conns : e # ws
      BY <1>t, <2>1
    <2>5. \A e \in Conns : srv[e] = "none" /\ cl[e] = "none" /\ conn # e
      BY <1>0, <2>4
    <2>6. \A e \in Conns : CalmLink(e)'
      BY <1>t, <2>1, <2>2, <2>5 DEF CalmLink
    <2> QED  BY <1>0, <2>2, <2>3, <2>5, <2>6, CalmSame
  <1> QED  BY <1>1, <1>2, <1>3, <1>4, <1>5, <1>6, <1>7, <1>8

LEMMA CalmSays ==
  ASSUME IInv, Calm, NEW m \in Messages, m.proc \in known \/ Drained(m),
         EndOf(m.proc) \notin sent \/ m.n > End, SendToServer(m), DaemonOpen,
         UNCHANGED <<conn, srv, cl, ws, known, requests, got, asked, cut>>
  PROVE  Calm'
PROOF
  <1> HIDE DEF SendToServer
  <1>0. /\ toServer \in [Conns -> Seq(Messages)] /\ \A c \in Conns : ToSet(toServer[c]) \subseteq sent
        /\ buffer = <<>> /\ cut = {} /\ \A x \in lost : Drained(x)
        /\ \A c \in Conns : CalmLink(c) /\ CalmQueue(c)
        /\ \A p \in asked : p \in known \/ EndOf(p) \in got
    BY DEF IInv, TypeOK, Carried, Calm
  <1>1. /\ ws \in Conns /\ buffer' = buffer /\ lost' = lost
        /\ toServer' = [toServer EXCEPT ![ws] = toServer[ws] \o <<m>>]
    BY <1>0, SayCases
  <1>2. cl[ws] = "open" /\ DaemonOpen'
    BY DEF DaemonOpen
  <1>3. sent' = sent \cup {m}
    BY DEF SendToServer
  <1> DEFINE q == toServer[ws]
             r == q \o <<m>>
  <1>4. /\ q \in Seq(Messages) /\ DOMAIN q = 1..Len(q) /\ Len(q) \in Nat
        /\ DOMAIN r = 1..(Len(q) + 1)
        /\ \A i \in 1..Len(q) : r[i] = q[i]
        /\ r[Len(q) + 1] = m
    BY <1>0, <1>1
  <1>5. ToSet(r) = ToSet(q) \cup {m}
    <2> DEFINE s == <<m>>
    <2>1. s \in Seq(Messages) /\ ToSet(s) = {m}
      BY ToSetOne
    <2> HIDE DEF s, q
    <2>2. ToSet(q \o s) = ToSet(q) \cup ToSet(s)
      BY <1>4, <2>1, ToSetAppended
    <2> QED  BY <2>1, <2>2 DEF s
  <1>6. toServer'[ws] = r /\ \A c \in Conns \ {ws} : toServer'[c] = toServer[c]
    BY <1>0, <1>1
  <1> HIDE DEF r
  <1>7. EndLast(r)
    <2> SUFFICES ASSUME NEW i \in DOMAIN r, NEW j \in DOMAIN r, i < j, r[i].n = End,
                        r[j].proc = r[i].proc, ~(r[j].n > End)
                 PROVE  FALSE
      BY DEF EndLast
    <2>1. i \in 1..Len(q) /\ r[i] = q[i]
      BY <1>4
    <2>2. q[i] \in Messages /\ q[i] \in sent
      <3>1. q[i] \in ToSet(q)
        BY <1>4, <2>1 DEF ToSet
      <3>2. q[i] \in Messages
        BY <1>4, <2>1
      <3> QED  BY <1>0, <1>1, <3>1, <3>2
    <2>3. CASE j \in 1..Len(q)
      <3>1. EndLast(q)
        BY <1>0, <1>1 DEF CalmQueue
      <3>2. i \in DOMAIN q /\ j \in DOMAIN q /\ r[j] = q[j]
        BY <1>4, <2>1, <2>3
      <3> QED  BY <2>1, <3>1, <3>2 DEF EndLast
    <2>4. CASE j = Len(q) + 1
      <3>1. q[i].proc = m.proc /\ q[i].n = End
        BY <1>4, <2>1, <2>4
      <3>2. q[i] = EndOf(m.proc)
        BY <2>2, <3>1, MessageTypes
      <3>3. r[j] = m
        BY <1>4, <2>4
      <3> QED  BY <2>2, <3>2, <3>3
    <2> QED  BY <1>4, <2>3, <2>4
  <1>d. \A x : Drained(x)' <=> Drained(x)
    BY DEF Drained, EndOf, End
  <1>8. \A c \in Conns : CalmQueue(c)'
    <2> SUFFICES ASSUME NEW c \in Conns PROVE CalmQueue(c)'
      OBVIOUS
    <2>1. CASE c = ws
      <3>1. \A x \in ToSet(r) : x.proc \in known \/ Drained(x)
        BY <1>0, <1>1, <1>5 DEF CalmQueue
      <3>2. EndLast(toServer'[c])
        BY <1>6, <1>7, <2>1
      <3> QED  BY <1>d, <1>2, <1>6, <2>1, <3>1, <3>2 DEF CalmQueue, EndLast, End
    <2>2. CASE c # ws
      BY <1>d, <1>0, <1>6, <2>2 DEF CalmQueue, EndLast, End
    <2> QED  BY <2>1, <2>2
  <1>9. \A c \in Conns : CalmLink(c)'
    BY <1>0 DEF CalmLink
  <1>10. /\ \A p \in asked' : p \in known' \/ EndOf(p) \in got'
         /\ known' \subseteq requests'
    BY <1>0 DEF Calm
  <1> QED  BY <1>d, <1>0, <1>1, <1>2, <1>8, <1>9, <1>10 DEF Calm, EndOf, End

LEMMA CalmReceives ==
  ASSUME IInv, Calm, NEW c \in Conns, Receive(c)
  PROVE  Calm'
PROOF
  <1> DEFINE q == toServer[c]
  <1>m. PICK m : m = Head(q)
    OBVIOUS
  <1>0. /\ toServer \in [Conns -> Seq(Messages)] /\ ToSet(q) \subseteq sent
        /\ sent \subseteq Messages
        /\ buffer = <<>> /\ cut = {} /\ \A x \in lost : Drained(x)
        /\ \A d \in Conns : CalmLink(d) /\ CalmQueue(d)
        /\ \A p \in asked : p \in known \/ EndOf(p) \in got
        /\ running # {} \/ sent # {} => DaemonOpen
        /\ known \subseteq requests
    BY DEF IInv, TypeOK, Carried, Calm
  <1>1. /\ q # <<>> /\ toServer' = [toServer EXCEPT ![c] = Tail(q)]
        /\ UNCHANGED <<conn, srv, ws, cl, running, buffer, cut, asked, sent>>
        /\ conn = c /\ Heard(m) =>
             LET ended == IF m.n = End THEN {m.proc} ELSE {}
             IN  /\ got' = got \cup {m} /\ lost' = lost
                 /\ known' = known \ ended /\ requests' = requests \ ended
        /\ ~(conn = c /\ Heard(m)) => lost' = lost \cup {m} /\ UNCHANGED <<got, known, requests>>
    BY <1>m DEF Receive, daemon
  <1>2. /\ m \in Messages /\ Tail(q) \in Seq(Messages) /\ ToSet(q) = {m} \cup ToSet(Tail(q))
        /\ Len(Tail(q)) = Len(q) - 1 /\ Len(q) \in Nat /\ Len(q) > 0
        /\ \A i \in 1..Len(Tail(q)) : Tail(q)[i] = q[i + 1]
        /\ q[1] = m /\ DOMAIN q = 1..Len(q) /\ DOMAIN Tail(q) = 1..Len(Tail(q))
    <2>1. q \in Seq(Messages)
      BY <1>0
    <2>2. Head(q) = q[1] /\ DOMAIN q = 1..Len(q) /\ Len(q) \in Nat
      BY <1>1, <2>1
    <2>3. DOMAIN Tail(q) = 1..Len(Tail(q))
      BY <1>1, <2>1
    <2> HIDE DEF q
    <2> QED  BY <1>m, <1>1, <2>1, <2>2, <2>3, ToSetHeadTail
  <1>3. cl[c] = "open" /\ srv[c] = "open" /\ conn = c
    BY <1>0, <1>1 DEF CalmLink, CalmQueue
  <1>4. /\ m.proc \in known \/ Drained(m)
        /\ EndLast(q)
        /\ \A x \in ToSet(q) : x.proc \in known \/ Drained(x)
    BY <1>0, <1>2 DEF CalmQueue
  <1>5. /\ got \subseteq got' /\ known' \subseteq known /\ known' \subseteq requests'
        /\ \A p \in known \ known' : p = m.proc /\ m.n = End /\ m \in got'
        /\ lost' = lost \/ (lost' = lost \cup {m} /\ Drained(m))
    <2>1. CASE m.proc \in known
      <3>1. Heard(m)
        BY <1>0, <2>1 DEF Heard
      <3> QED  BY <1>0, <1>1, <1>3, <3>1
    <2>2. CASE m.proc \notin known
      <3>1. ~Heard(m)
        BY <2>2 DEF Heard
      <3>2. lost' = lost \cup {m} /\ UNCHANGED <<got, known, requests>>
        BY <1>1, <3>1
      <3> QED  BY <1>0, <1>4, <2>2, <3>2
    <2> QED  BY <2>1, <2>2
  <1>d. /\ \A x : Drained(x) => Drained(x)'
        /\ \A p \in known \ known' : EndOf(p) \in got'
    <2>1. \A x : Drained(x) => Drained(x)'
      BY <1>5 DEF Drained, EndOf, End
    <2>2. \A p \in known \ known' : EndOf(p) \in got'
      BY <1>2, <1>5, MessageTypes
    <2> QED  BY <2>1, <2>2
  <1>l. \A x \in lost' : Drained(x)'
    BY <1>0, <1>5, <1>d
  <1>6. toServer'[c] = Tail(q) /\ \A d \in Conns \ {c} : toServer'[d] = toServer[d]
    BY <1>0, <1>1, <1>2
  <1>7. \A d \in Conns \ {c} : toServer[d] = <<>>
    BY <1>0, <1>3, Numbers DEF CalmLink, CalmQueue
  <1> DEFINE t == Tail(q)
  <1> HIDE DEF q, t
  <1>8. \A x \in ToSet(t) : x.proc \in known' \/ Drained(x)'
    <2> SUFFICES ASSUME NEW x \in ToSet(t), x.proc \notin known' PROVE Drained(x)'
      OBVIOUS
    <2>1. x.proc \in known \/ Drained(x)
      BY <1>2, <1>4 DEF t
    <2>2. PICK i \in 1..Len(t) : x = t[i]
      BY <1>2 DEF ToSet, t
    <2>3. /\ i + 1 \in DOMAIN q /\ 1 \in DOMAIN q /\ 1 < i + 1
          /\ x = q[i + 1]
      BY <1>2, <2>2 DEF t
    <2>4. CASE x.proc \in known
      <3>1. x.proc = m.proc /\ m.n = End /\ EndOf(x.proc) \in got'
        BY <1>5, <1>d, <2>4
      <3>2. x.n > End
        BY <1>2, <1>4, <2>3, <3>1 DEF EndLast
      <3> QED  BY <3>1, <3>2 DEF Drained, EndOf, End
    <2> QED  BY <1>d, <2>1, <2>4
  <1>9. EndLast(t)
    <2> SUFFICES ASSUME NEW i \in DOMAIN t, NEW j \in DOMAIN t, i < j, t[i].n = End
                 PROVE  t[j].proc # t[i].proc \/ t[j].n > End
      BY DEF EndLast
    <2>1. /\ i + 1 \in DOMAIN q /\ j + 1 \in DOMAIN q /\ i + 1 < j + 1
          /\ t[i] = q[i + 1] /\ t[j] = q[j + 1]
      BY <1>2 DEF t
    <2> QED  BY <1>4, <2>1 DEF EndLast
  <1>10. \A d \in Conns : CalmQueue(d)'
    <2> SUFFICES ASSUME NEW d \in Conns PROVE CalmQueue(d)'
      OBVIOUS
    <2>1. CASE d = c
      <3>1. toServer'[d] = t /\ cl'[d] = "open"
        BY <1>1, <1>3, <1>6, <2>1 DEF t
      <3> QED  BY <1>8, <1>9, <3>1 DEF CalmQueue, EndLast, End
    <2>2. CASE d # c
      <3>1. toServer'[d] = <<>> /\ ToSet(toServer'[d]) = {}
        BY <1>6, <1>7, <2>2, ToSetEmpty
      <3>2. DOMAIN toServer'[d] = {}
        BY <3>1
      <3>3. EndLast(toServer'[d])
        BY <3>2 DEF EndLast
      <3> QED  BY <3>1, <3>3 DEF CalmQueue, EndLast, End
    <2> QED  BY <2>1, <2>2
  <1>11. \A d \in Conns : CalmLink(d)'
    BY <1>0, <1>1 DEF CalmLink
  <1>12. \A p \in asked' : p \in known' \/ EndOf(p) \in got'
    BY <1>0, <1>1, <1>5, <1>d
  <1> QED  BY <1>0, <1>1, <1>5, <1>l, <1>10, <1>11, <1>12 DEF Calm, DaemonOpen, EndOf, End

-----------------------------------------------------------------------------
LEMMA InitPInv == Init => PInv
PROOF
  <1> SUFFICES ASSUME Init PROVE PInv
    OBVIOUS
  <1> USE Numbers, ToSetEmpty DEF Init
  <1>1. IInv
    BY InitIInv
  <1>2. IsInjective(<<>>) /\ DOMAIN <<>> = {}
    BY InjectiveShort
  <1>3. Accounted
    BY <1>2 DEF Accounted, Apart
  <1>4. Counted
    BY DEF Counted
  <1>5. Calm
    BY <1>2 DEF Calm, CalmLink, CalmQueue, EndLast
  <1> QED  BY <1>1, <1>3, <1>4, <1>5 DEF PInv

(* A step that leaves the messages where they are.                         *)
LEMMA AccountedSame ==
  ASSUME Accounted, UNCHANGED <<sent, got, lost, buffer, toServer>>
  PROVE  Accounted'
PROOF
  BY DEF Accounted, Apart, Somewhere

LEMMA CountedSame ==
  ASSUME Counted, UNCHANGED <<sent, running>>
  PROVE  Counted'
PROOF
  BY DEF Counted, SaidBy, Said, End

LEMMA NextPInv == PInv /\ [Next]_vars => PInv'
PROOF
  <1> SUFFICES ASSUME PInv, [Next]_vars PROVE PInv'
    OBVIOUS
  <1>i. IInv /\ Accounted /\ Counted
    BY DEF PInv
  <1>0. IInv'
    BY <1>i, NextIInv
  <1>t. /\ running \subseteq asked /\ sent \subseteq Messages /\ Quiet /\ known \subseteq asked
        /\ asked \subseteq Procs /\ faults \in Nat /\ revoked \in BOOLEAN
        /\ toServer \in [Conns -> Seq(Messages)] /\ got \subseteq sent
        /\ \A m \in sent : m.proc \in asked
    BY BoundsAssumption DEF IInv, TypeOK, Carried, PInv
  <1> DEFINE Quietly == faults = 0 /\ ~revoked
             Fine == Accounted' /\ Counted' /\ (Quietly' => Calm')
  <1>c. Quietly => Calm
    BY DEF PInv
  <1> SUFFICES Fine
    BY <1>0 DEF PInv
  <1>1. ASSUME NEW p \in Procs, Spawn(p)
        PROVE  Fine
    <2>1. /\ UNCHANGED <<conn, srv, revoked, got, ws, cl, running, buffer, toServer, cut, sent,
                         lost, faults>>
          /\ known' = known \cup {p} /\ requests' = requests \cup {p} /\ asked' = asked \cup {p}
      BY <1>1 DEF Spawn, daemon
    <2>2. Calm => Calm'
      <3>1. ASSUME Calm
            PROVE  /\ \A c \in Conns : CalmLink(c)' /\ (cl[c] = "open" => cl'[c] = "open")
                   /\ running # {} \/ sent # {} => DaemonOpen'
                   /\ known' \subseteq requests'
        BY <2>1, <3>1 DEF Calm, CalmLink, DaemonOpen
      <3> QED  BY <2>1, <3>1, CalmSame
    <2> QED  BY <1>i, <1>c, <2>1, <2>2, AccountedSame, CountedSame
  <1>2. ASSUME NEW p \in Procs, Kill(p)
        PROVE  Fine
    <2>1. UNCHANGED <<conn, srv, revoked, got, ws, cl, running, buffer, toServer, cut, sent,
                      lost, faults, known, requests, asked>>
      BY <1>2 DEF Kill, server, daemon
    <2>2. Calm => Calm'
      BY <2>1 DEF Calm, CalmLink, CalmQueue, DaemonOpen, EndOf, EndLast, End, Drained
    <2> QED  BY <1>i, <1>c, <2>1, <2>2, AccountedSame, CountedSame
  <1>3. ASSUME NEW p \in Procs, Print1(p) \/ Exit(p)
        PROVE  Fine
    <2>1. PICK m \in Messages : /\ m.proc = p /\ m \notin sent /\ SendToServer(m)
                                /\ Counted'
      BY <1>i, <1>3, ChildSays
    <2>2. /\ UNCHANGED <<conn, srv, known, requests, revoked, got, ws, cl, asked, cut, faults>>
          /\ p \in running
      BY <1>3 DEF Print1, Exit, server
    <2> HIDE DEF SendToServer
    <2>3. Accounted'
      BY <1>i, <2>1, <2>2, SayAccounted
    <2>4. ASSUME Calm
          PROVE  Calm'
      <3>1. p \in asked /\ EndOf(p) \notin sent
        BY <1>t, <2>2 DEF Quiet, EndOf
      <3>2. p \in known /\ DaemonOpen
        BY <1>t, <2>2, <2>4, <3>1 DEF Calm
      <3> QED  BY <1>i, <2>1, <2>2, <2>4, <3>1, <3>2, CalmSays
    <2> QED  BY <1>c, <2>1, <2>2, <2>3, <2>4
  <1>13. ASSUME NEW p \in Procs, Drain(p)
         PROVE  Fine
    <2>1. PICK m \in Messages : m.proc = p /\ m.n > End /\ m \notin sent /\ SendToServer(m)
      BY <1>i, <1>13, DrainFacts
    <2>2. p \notin running /\ p \in asked /\ sent # {}
      BY <1>i, <1>13, DrainFacts
    <2>3. UNCHANGED <<conn, srv, known, requests, revoked, got, ws, cl, running, asked, cut, faults>>
      BY <1>13 DEF Drain, server
    <2>4. sent' = sent \cup {m}
      BY <2>1 DEF SendToServer
    <2> HIDE DEF SendToServer
    <2>5. Accounted'
      BY <1>i, <2>1, <2>3, SayAccounted
    <2>6. Counted'
      BY <1>i, <2>1, <2>2, <2>3, <2>4, SayCounted
    <2>7. ASSUME Calm
          PROVE  Calm'
      <3>1. DaemonOpen /\ (p \in known \/ EndOf(p) \in got)
        BY <2>2, <2>7 DEF Calm
      <3>2. m.proc \in known \/ Drained(m)
        BY <2>1, <3>1 DEF Drained
      <3> QED  BY <1>i, <2>1, <2>3, <2>7, <3>1, <3>2, CalmSays
    <2> QED  BY <1>c, <2>3, <2>5, <2>6, <2>7
  <1>4. ASSUME NEW c \in Conns,
               Admit(c) \/ Attach(c) \/ Reject(c) \/ ServerCloses(c) \/ ServerClosed(c)
                 \/ Open(c) \/ DaemonCloses(c) \/ Connect
        PROVE  Fine
    <2>1. UNCHANGED <<got, revoked, faults, running, buffer, toServer, sent, lost>>
      BY <1>4 DEF Admit, Attach, Reject, ServerCloses, ServerClosed, Open, DaemonCloses, Connect,
                  server, daemon
    <2>2. Quietly' => Calm'
      BY <1>i, <1>c, <1>4, <2>1, CalmSockets
    <2> QED  BY <1>i, <2>1, <2>2, AccountedSame, CountedSame
  <1>5. ASSUME NEW c \in Conns, ProbeEnds(c)
        PROVE  Fine
    <2>1. /\ UNCHANGED <<conn, srv, known, requests, revoked, got, ws, cl, running, cut, asked, sent,
                         faults>>
          /\ Flush
      BY <1>5 DEF ProbeEnds, server
    <2>2. ASSUME Calm
          PROVE  Calm'
      <3>1. buffer = <<>> /\ cut = {}
        BY <2>2 DEF Calm
      <3>2. buffer' = buffer /\ lost' = lost
        BY <2>1, <3>1, ToSetEmpty DEF Flush, Transmit
      <3>3. \A c1 \in Conns : toServer'[c1] = toServer[c1]
        <4>1. CASE DaemonOpen
          <5>1. toServer' = [toServer EXCEPT ![ws] = toServer[ws] \o <<>>]
            BY <2>1, <3>1, <4>1 DEF Flush, Transmit
          <5>2. \A c1 \in Conns : toServer[c1] \o <<>> = toServer[c1]
            BY <1>t
          <5> QED  BY <1>t, <5>1, <5>2
        <4>2. CASE ~DaemonOpen
          BY <2>1, <4>2 DEF Flush
        <4> QED  BY <4>1, <4>2
      <3>4. \A c1 \in Conns : CalmLink(c1)' /\ CalmQueue(c1)'
        <4> SUFFICES ASSUME NEW c1 \in Conns PROVE CalmLink(c1)' /\ CalmQueue(c1)'
          OBVIOUS
        <4>1. CalmLink(c1) /\ CalmQueue(c1) /\ toServer'[c1] = toServer[c1]
          BY <2>2, <3>3 DEF Calm
        <4> QED  BY <2>1, <4>1 DEF CalmLink, CalmQueue, EndLast, Drained, EndOf, End
      <3> QED  BY <2>1, <2>2, <3>2, <3>4 DEF Calm, DaemonOpen, Drained, EndOf, End
    <2> HIDE DEF Flush
    <2>3. Accounted'
      BY <1>i, <2>1, FlushAccounted
    <2> QED  BY <1>i, <1>c, <2>1, <2>2, <2>3, CountedSame
  <1>6. ASSUME NEW c \in Conns, Receive(c)
        PROVE  Fine
    <2>1. UNCHANGED <<running, sent, revoked, faults>>
      BY <1>6 DEF Receive, daemon
    <2> QED  BY <1>i, <1>c, <1>6, <2>1, ReceiveAccounted, CountedSame, CalmReceives
  <1>7. ASSUME NEW c \in Conns, Obey(c)
        PROVE  Fine
    <2>1. /\ UNCHANGED <<conn, srv, known, requests, revoked, got, ws, cl, cut, asked, faults>>
          /\ cl[c] = "open"
      BY <1>7 DEF Obey, server
    <2>2. CASE UNCHANGED <<running, sent, buffer, toServer, lost>>
      <3>1. Calm => Calm'
        BY <2>1, <2>2 DEF Calm, CalmLink, CalmQueue, DaemonOpen, EndOf, EndLast, End, Drained
      <3> QED  BY <1>i, <1>c, <2>1, <2>2, <3>1, AccountedSame, CountedSame
    <2>3. ASSUME NEW m \in Messages, m.proc \in asked, \A x \in sent : x.proc # m.proc,
                 SendToServer(m), Counted'
          PROVE  Fine
      <3> HIDE DEF SendToServer
      <3>1. Accounted'
        BY <1>i, <2>1, <2>3, SayAccounted
      <3>2. ASSUME Calm
            PROVE  Calm'
        <4>1. EndOf(m.proc) \notin sent
          BY <1>t, <2>3, EndTypes
        <4>2. m.proc \in known
          BY <1>t, <2>3, <3>2, <4>1 DEF Calm
        <4>3. DaemonOpen
          BY <1>i, <2>1, <3>2, CalmFacts, Numbers DEF DaemonOpen
        <4> QED  BY <1>i, <2>1, <2>3, <3>2, <4>1, <4>2, <4>3, CalmSays
      <3> QED  BY <1>c, <2>1, <2>3, <3>1, <3>2
    <2> QED  BY <1>i, <1>7, <2>2, <2>3, ObeySays
  <1>8. ASSUME NEW c \in Conns, Break(c)
        PROVE  Fine
    <2>1. /\ faults' = faults + 1 /\ lost' = lost \cup ToSet(toServer[c])
          /\ toServer' = [toServer EXCEPT ![c] = <<>>]
          /\ UNCHANGED <<sent, got, buffer, running>>
      BY <1>8 DEF Break, server, daemon
    <2>2. /\ toServer' = [d \in Conns |-> IF d \in {c} THEN <<>> ELSE toServer[d]]
          /\ lost' = lost \cup UNION { ToSet(toServer[d]) : d \in {c} }
          /\ {c} \in SUBSET Conns
      BY <1>t, <2>1
    <2>3. Accounted'
      BY <1>i, <2>1, <2>2, DropAccounted
    <2> QED  BY <1>i, <1>t, <2>1, <2>3, CountedSame
  <1>9. CASE Revoke
    <2>1. revoked' = TRUE /\ UNCHANGED <<got, running, buffer, toServer, sent, lost>>
      BY <1>9 DEF Revoke, Retire, daemon
    <2> QED  BY <1>i, <2>1, AccountedSame, CountedSame
  <1>10. CASE Restart
    <2>1. /\ faults' = faults + 1 /\ UNCHANGED <<sent, got, buffer, running>>
          /\ lost' = lost \cup UNION { ToSet(toServer[c]) : c \in Conns }
          /\ toServer' = [c \in Conns |-> IF c \in Conns THEN <<>> ELSE toServer[c]]
      BY <1>10 DEF Restart, daemon
    <2>2. Accounted'
      BY <1>i, <2>1, DropAccounted
    <2> QED  BY <1>i, <1>t, <2>1, <2>2, CountedSame
  <1>11. CASE UNCHANGED vars
    <2>1. UNCHANGED <<conn, srv, known, requests, revoked, got, ws, cl, running, buffer, toServer,
                      cut, asked, sent, lost, faults>>
      BY <1>11 DEF vars, server, daemon
    <2>2. Calm => Calm'
      BY <2>1 DEF Calm, CalmLink, CalmQueue, DaemonOpen, EndOf, EndLast, End, Drained
    <2> QED  BY <1>i, <1>c, <2>1, <2>2, AccountedSame, CountedSame
  <1>12. CASE Connect
    <2>1. PICK c \in Conns : TRUE
      BY <1>12 DEF Connect
    <2> QED  BY <1>4, <1>12, <2>1
  <1> HIDE DEF Fine
  <1> QED  BY <1>1, <1>2, <1>3, <1>4, <1>5, <1>6, <1>7, <1>8, <1>9, <1>10, <1>11, <1>12,
              <1>13
           DEF Next, Link

(* Where a message is, in numbers.                                         *)
LEMMA OnePlace ==
  ASSUME IInv, Accounted, NEW m \in sent
  PROVE  Cardinality(Places(m)) = IF m \in got \cup lost THEN 0 ELSE 1
PROOF
  <1> DEFINE Q(c) == IF c = 0 THEN buffer ELSE toServer[c]
             At(c) == {c} \X { i \in DOMAIN Q(c) : Q(c)[i] = m }
  <1>0. /\ 0..MaxConns = {0} \cup Conns /\ 0 \notin Conns
        /\ Apart(buffer, toServer, got \cup lost)
        /\ m \in got \/ Somewhere(m)
    BY BoundsAssumption, Numbers DEF Conns, Accounted
  <1>1. Places(m) = UNION { At(c) : c \in 0..MaxConns }
    BY DEF Places
  <1>2. \A c \in 0..MaxConns : /\ IsInjective(Q(c)) /\ ToSet(Q(c)) \cap (got \cup lost) = {}
                               /\ \A d \in 0..MaxConns \ {c} : ToSet(Q(c)) \cap ToSet(Q(d)) = {}
    BY <1>0 DEF Apart
  <1>3. m \notin got \cup lost => \E c \in 0..MaxConns : m \in ToSet(Q(c))
    BY <1>0 DEF Somewhere
  <1> HIDE DEF Q
  <1>4. ASSUME NEW c \in 0..MaxConns
        PROVE  m \in ToSet(Q(c)) <=> At(c) # {}
    <2>1. m \in ToSet(Q(c)) <=> { i \in DOMAIN Q(c) : Q(c)[i] = m } # {}
      BY DEF ToSet
    <2>2. ASSUME NEW S
          PROVE  {c} \X S # {} <=> S # {}
      <3>1. \A x \in S : <<c, x>> \in {c} \X S
        OBVIOUS
      <3>2. \A z \in {c} \X S : z[2] \in S
        OBVIOUS
      <3> QED  BY <3>1, <3>2
    <2> QED  BY <2>1, <2>2
  <1>5. CASE m \in got \cup lost
    <2>1. \A c \in 0..MaxConns : At(c) = {}
      BY <1>2, <1>4, <1>5
    <2>2. Places(m) = {}
      BY <1>1, <2>1
    <2> QED  BY <1>5, <2>2, FS_EmptySet
  <1>6. CASE m \notin got \cup lost
    <2>1. PICK c \in 0..MaxConns : m \in ToSet(Q(c))
      BY <1>3, <1>6
    <2>2. \A d \in 0..MaxConns \ {c} : At(d) = {}
      BY <1>2, <1>4, <2>1
    <2>3. PICK i \in DOMAIN Q(c) : Q(c)[i] = m
      BY <2>1 DEF ToSet
    <2>4. { j \in DOMAIN Q(c) : Q(c)[j] = m } = {i}
      BY <1>2, <2>3 DEF IsInjective
    <2>5. At(c) = {<<c, i>>}
      BY <2>4
    <2> HIDE DEF At
    <2>6. Places(m) = {<<c, i>>}
      BY <1>1, <2>2, <2>5
    <2> QED  BY <1>6, <2>6, FS_Singleton
  <1> QED  BY <1>5, <1>6

(* Whatever breaks, a message of the daemon (daemon.ts, sendToServer and   *)
(* its buffer) is in exactly one place, and is passed on at most once; and *)
(* while nothing breaks, only what a child left in its pipes can be lost,  *)
(* after the server has been told of its exit: for any number of           *)
(* processes, messages, connections and faults, and a buffer of any size.  *)
THEOREM OneMessageOnePlace == Spec => []EachInOnePlace
PROOF
  <1>1. PInv => EachInOnePlace
    <2> SUFFICES ASSUME PInv PROVE EachInOnePlace
      OBVIOUS
    <2>1. IInv /\ Accounted /\ TypeOK /\ (faults = 0 /\ ~revoked => Calm)
      BY DEF PInv, IInv
    <2>2. got \cap lost = {} /\ (faults = 0 /\ ~revoked => \A m \in lost : Drained(m))
      BY <2>1 DEF Accounted, Calm
    <2> QED  BY <2>1, <2>2, OnePlace DEF EachInOnePlace, Drained, EndOf
  <1> QED  BY <1>1, InitPInv, NextPInv, PTL DEF Spec
=============================================================================
