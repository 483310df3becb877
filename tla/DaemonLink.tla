----------------------------- MODULE DaemonLink -----------------------------
(***************************************************************************)
(* The link between the server and the daemon of one machine: the registry *)
(* of agent processes (modules/agents/daemon/registry.ts), the daemon that *)
(* runs them as its children (packages/hammurabi-cli/src/daemon.ts), and   *)
(* the WebSocket connections, one after another, between the two.          *)
(*                                                                         *)
(* What a process prints is numbered; the daemon's "spawned" is number 0   *)
(* and its "exit" or "error", which end the process for the server, End.   *)
(* A child's "exit" may come before its pipes are empty: what the daemon   *)
(* still reads from them then has the numbers above End.                   *)
(* Input and resizing, the welcome, hello and heartbeats change nothing    *)
(* that is modelled here.                                                  *)
(***************************************************************************)
EXTENDS Naturals, FiniteSets, SequencesExt

CONSTANTS Procs,        \* the processes that are spawned
          MaxOutput,    \* bound: what a process prints
          MaxLate,      \* bound: what is in the pipes of a process when it exits
          BufferLimit,  \* maxBufferedMessages
          MaxConns,     \* bound: connections
          MaxFaults     \* bound: broken connections and restarts of the server

ASSUME ProcsAssumption == IsFiniteSet(Procs)

ASSUME BoundsAssumption ==
  /\ MaxOutput \in Nat /\ MaxLate \in Nat /\ MaxConns \in Nat /\ MaxFaults \in Nat
  /\ BufferLimit \in Nat \ {0}

Conns == 1..MaxConns
End == MaxOutput + 1
Final == End + MaxLate
Messages == [proc : Procs, n : 0..Final]
Commands == [cmd : {"spawn", "kill"}, proc : Procs]

VARIABLES
  conn,      \* the server's: connections.get(machineId); 0: none
  srv,       \*   its socket of each connection
  known,     \*   the processes it has entries for
  requests,  \*   those of them whose spawn's request id it has (spawnRequests)
  revoked,   \*   the pairing was revoked
  got,       \*   the messages it passed to their processes
  ws,        \* the daemon's: activeWs; 0: null
  cl,        \*   its socket of each connection
  probing,   \*   the connections whose hello waits for the provider probes
  running,   \*   its children
  signalled, \*   those that were sent a kill
  buffer,    \*   bufferedClientMessages
  toDaemon, toServer, cut,            \* the network: queues, broken connections
  asked, sent, lost, unheard,  \* history: spawns, messages and their end, lost commands
  unattached, \*   the processes that a restart left without an entry
  faults     \* counter

server == <<conn, srv, known, requests, revoked, got>>
daemon == <<ws, cl, probing, running, signalled, buffer>>
vars == <<server, daemon, toDaemon, toServer, cut, asked, sent, lost, unheard, unattached,
          faults>>

Init ==
  /\ conn = 0 /\ srv = [c \in Conns |-> "none"]
  /\ known = {} /\ requests = {} /\ revoked = FALSE /\ got = {}
  /\ ws = 0 /\ cl = [c \in Conns |-> "none"]
  /\ probing = {} /\ running = {} /\ signalled = {} /\ buffer = <<>>
  /\ toDaemon = [c \in Conns |-> <<>>] /\ toServer = [c \in Conns |-> <<>>]
  /\ cut = {} /\ faults = 0
  /\ asked = {} /\ sent = {} /\ lost = {} /\ unheard = {} /\ unattached = {}

-----------------------------------------------------------------------------
(* Sending.  A socket that is open takes a message, also when its          *)
(* connection is broken or the other end has closed and it does not know.  *)
Spawning(p) == [cmd |-> "spawn", proc |-> p]
Killing(p) == [cmd |-> "kill", proc |-> p]

ServerOpen == conn # 0 /\ srv[conn] = "open"

Command(cmds) ==
  IF conn \in cut \/ cl[conn] = "closed"
    THEN unheard' = unheard \cup ToSet(cmds) /\ UNCHANGED toDaemon
    ELSE toDaemon' = [toDaemon EXCEPT ![conn] = @ \o cmds] /\ UNCHANGED unheard

DaemonOpen == ws # 0 /\ cl[ws] = "open"

Transmit(ms) ==
  IF ws \in cut
    THEN lost' = lost \cup ToSet(ms) /\ UNCHANGED toServer
    ELSE toServer' = [toServer EXCEPT ![ws] = @ \o ms] /\ UNCHANGED lost

(* sendToServer: over the active socket, or else into the buffer, from     *)
(* which the oldest message falls when it is full.                         *)
SendToServer(m) ==
  /\ sent' = sent \cup {m}
  /\ \/ DaemonOpen /\ Transmit(<<m>>) /\ UNCHANGED buffer
     \/ /\ ~DaemonOpen /\ Len(buffer) < BufferLimit
        /\ buffer' = Append(buffer, m)
        /\ UNCHANGED <<toServer, lost>>
     \/ /\ ~DaemonOpen /\ Len(buffer) >= BufferLimit
        /\ buffer' = Append(Tail(buffer), m)
        /\ lost' = lost \cup {Head(buffer)}
        /\ UNCHANGED toServer

-----------------------------------------------------------------------------
(* The server: spawnProcess for a machine that has a connection.  The      *)
(* entry is made before the send, which throws when the socket is closing. *)
Spawn(p) ==
  /\ p \notin asked /\ conn # 0
  /\ asked' = asked \cup {p}
  /\ known' = known \cup {p} /\ requests' = requests \cup {p}
  /\ IF ServerOpen THEN Command(<<Spawning(p)>>)
     ELSE unheard' = unheard \cup {Spawning(p)} /\ UNCHANGED toDaemon
  /\ UNCHANGED <<conn, srv, revoked, got, daemon, toServer, cut, sent, lost, unattached, faults>>

(* kill() of a process; it throws when the machine is not connected.       *)
Kill(p) ==
  /\ p \in known /\ ServerOpen
  /\ Killing(p) \notin unheard \cup ToSet(toDaemon[conn]) /\ p \notin signalled  \* bound
  /\ Command(<<Killing(p)>>)
  /\ UNCHANGED <<server, daemon, toServer, cut, asked, sent, lost, unattached, faults>>

Closing(c) == [srv EXCEPT ![c] = "closing"]

Retire ==
  /\ ~revoked
  /\ revoked' = TRUE
  /\ known' = {} /\ requests' = {}
  /\ IF conn # 0 THEN srv' = Closing(conn) /\ conn' = 0 ELSE UNCHANGED <<srv, conn>>
  /\ UNCHANGED <<got, daemon, toServer, cut, asked, sent, lost, unattached, faults>>

(* Mutant: the entries are forgotten before the kills are sent.            *)
RevokeSilently == Retire /\ UNCHANGED <<toDaemon, unheard>>

(* Revoking the pairing: disconnect() kills and forgets every process and  *)
(* closes the connection, if there is one.                                 *)
Revoke ==
  LET kills == SetToSeq({ Killing(p) : p \in known })
  IN  /\ Retire
      /\ IF ServerOpen THEN Command(kills)
         ELSE unheard' = unheard \cup ToSet(kills) /\ UNCHANGED toDaemon

(* An upgrade reads the machines' registry and finds the pairing valid ... *)
Admit(c) ==
  /\ srv[c] = "pending" /\ ~revoked
  /\ srv' = [srv EXCEPT ![c] = "admitted"]
  /\ UNCHANGED <<conn, known, requests, revoked, got, daemon, toDaemon, toServer, cut, asked,
                 sent, lost, unheard, unattached, faults>>

(* ... and attach() then closes the connection there was, whose messages   *)
(* are dropped from now on.                                                *)
Attach(c) ==
  /\ srv[c] = "admitted"
  /\ srv' = [d \in Conns |-> IF d = c THEN "open" ELSE IF d = conn THEN "closing" ELSE srv[d]]
  /\ conn' = c
  /\ UNCHANGED <<known, requests, revoked, got, daemon, toDaemon, toServer, cut, asked, sent,
                 lost, unheard, unattached, faults>>

(* Or it is refused, for the pairing or because its socket is gone.        *)
Reject(c) ==
  /\ \/ srv[c] = "pending" /\ revoked
     \/ srv[c] \in {"pending", "admitted"} /\ c \in cut
  /\ srv' = [srv EXCEPT ![c] = "rejected"]
  /\ UNCHANGED <<conn, known, requests, revoked, got, daemon, toDaemon, toServer, cut, asked,
                 sent, lost, unheard, unattached, faults>>

(* A message is for a process that has an entry, and a "spawned" answers a *)
(* request that is still known.                                            *)
Heard(m) == m.proc \in known /\ (m.n = 0 => m.proc \in requests)

(* A message arrives; a process that ended is forgotten.                   *)
Receive(c) ==
  LET m == Head(toServer[c])
      ended == IF m.n = End THEN {m.proc} ELSE {}
  IN  /\ toServer[c] # <<>>
      /\ toServer' = [toServer EXCEPT ![c] = Tail(@)]
      /\ IF conn = c /\ Heard(m)
           THEN /\ got' = got \cup {m}
                /\ known' = known \ ended /\ requests' = requests \ ended
                /\ UNCHANGED lost
           ELSE lost' = lost \cup {m} /\ UNCHANGED <<got, known, requests>>
      /\ UNCHANGED <<conn, srv, revoked, daemon, toDaemon, cut, asked, sent, unheard, unattached,
                     faults>>

(* The server's socket learns that the other end is gone ...               *)
ServerCloses(c) ==
  /\ srv[c] = "open" /\ toServer[c] = <<>>
  /\ c \in cut \/ cl[c] = "closed"
  /\ srv' = Closing(c)
  /\ UNCHANGED <<conn, known, requests, revoked, got, daemon, toDaemon, toServer, cut, asked,
                 sent, lost, unheard, unattached, faults>>

(* Mutant: whatever connection the machine has is taken out of the map.    *)
RemoveBlindly(c) == 0

RemoveIfCurrent(c) == IF conn = c THEN 0 ELSE conn

(* ... or was closed here; and it emits its close event.                   *)
ServerClosed(c) ==
  /\ srv[c] = "closing"
  /\ srv' = [srv EXCEPT ![c] = "closed"]
  /\ conn' = RemoveIfCurrent(c)
  /\ UNCHANGED <<known, requests, revoked, got, daemon, toDaemon, toServer, cut, asked, sent,
                 lost, unheard, unattached, faults>>

(* The server shuts down, which closes the connection and tells the daemon *)
(* nothing, and starts again; attachProcess restores the entries of some   *)
(* processes, without their requests, before any upgrade is accepted.      *)
(* Terminals, the processes of other runtimes than Claude's and those of   *)
(* sessions that are not persisted run on unattached.                      *)
Restart ==
  /\ faults < MaxFaults
  /\ faults' = faults + 1
  /\ conn' = 0
  /\ srv' = [c \in Conns |-> CASE srv[c] = "none" -> "none"
                               [] srv[c] \in {"pending", "admitted", "rejected"} -> "rejected"
                               [] OTHER -> "closed"]
  /\ lost' = lost \cup UNION { ToSet(toServer[c]) : c \in Conns }
  /\ toServer' = [c \in Conns |-> <<>>]
  /\ \E kept \in SUBSET known : known' = kept /\ unattached' = unattached \cup (known \ kept)
  /\ requests' = {}
  /\ UNCHANGED <<revoked, got, daemon, toDaemon, cut, asked, sent, unheard>>

-----------------------------------------------------------------------------
(* The daemon: connect(), at first and on the reconnect timer.             *)
Connect ==
  /\ ws = 0
  /\ \E c \in Conns :
       /\ cl[c] = "none" /\ \A d \in 1..(c - 1) : cl[d] # "none"
       /\ ws' = c
       /\ cl' = [cl EXCEPT ![c] = "connecting"]
       /\ srv' = [srv EXCEPT ![c] = "pending"]
  /\ UNCHANGED <<conn, known, requests, revoked, got, probing, running, signalled, buffer,
                 toDaemon, toServer, cut, asked, sent, lost, unheard, unattached, faults>>

(* The open event: the hello waits for the probes of the providers.        *)
Open(c) ==
  /\ cl[c] = "connecting" /\ srv[c] \in {"open", "closing", "closed"} /\ c \notin cut
  /\ cl' = [cl EXCEPT ![c] = "open"]
  /\ probing' = probing \cup {c}
  /\ UNCHANGED <<server, ws, running, signalled, buffer, toDaemon, toServer, cut, asked, sent,
                 lost, unheard, unattached, faults>>

(* Mutant: the messages stay in the buffer.                                *)
FlushKeeps ==
  IF DaemonOpen THEN Transmit(buffer) /\ UNCHANGED buffer
  ELSE UNCHANGED <<buffer, toServer, lost>>

(* flushBufferedClientMessages: all of them, over the active socket.       *)
Flush ==
  IF DaemonOpen THEN Transmit(buffer) /\ buffer' = <<>>
  ELSE UNCHANGED <<buffer, toServer, lost>>

ProbeEnds(c) ==
  /\ c \in probing
  /\ probing' = probing \ {c}
  /\ Flush
  /\ UNCHANGED <<server, ws, cl, running, signalled, toDaemon, cut, asked, sent, unheard,
                 unattached, faults>>

(* A command arrives: a child is spawned, or cannot be, or is sent a kill. *)
Obey(c) ==
  LET p == Head(toDaemon[c]).proc
      kill == Head(toDaemon[c]).cmd = "kill"
      Says(n) == SendToServer([proc |-> p, n |-> n])
  IN  /\ cl[c] = "open" /\ toDaemon[c] # <<>>
      /\ toDaemon' = [toDaemon EXCEPT ![c] = Tail(@)]
      /\ \/ ~kill /\ running' = running \cup {p} /\ Says(0) /\ UNCHANGED signalled
         \/ ~kill /\ Says(End) /\ UNCHANGED <<running, signalled>>
         \/ /\ kill /\ signalled' = signalled \cup ({p} \cap running)
            /\ UNCHANGED <<running, sent, buffer, toServer, lost>>
      /\ UNCHANGED <<server, ws, cl, probing, cut, asked, unheard, unattached, faults>>

Printed(p) == Cardinality({ m \in sent : m.proc = p })

Print1(p) ==
  /\ p \in running /\ Printed(p) <= MaxOutput
  /\ SendToServer([proc |-> p, n |-> Printed(p)])
  /\ UNCHANGED <<server, ws, cl, probing, running, signalled, toDaemon, cut, asked, unheard,
                 unattached, faults>>

Exit(p) ==
  /\ p \in running
  /\ running' = running \ {p}
  /\ SendToServer([proc |-> p, n |-> End])
  /\ UNCHANGED <<server, ws, cl, probing, signalled, toDaemon, cut, asked, unheard, unattached,
                 faults>>

(* The pipes of a child that has exited are read until they are empty.     *)
Drain(p) ==
  LET Left == { n \in (End + 1)..Final : [proc |-> p, n |-> n] \notin sent }
  IN  /\ p \notin running /\ [proc |-> p, n |-> 0] \in sent
      /\ \E n \in Left : (\A k \in Left : n <= k) /\ SendToServer([proc |-> p, n |-> n])
      /\ UNCHANGED <<server, ws, cl, probing, running, signalled, toDaemon, cut, asked, unheard,
                     unattached, faults>>

(* The error or close event of a socket: markDisconnected.                 *)
DaemonCloses(c) ==
  /\ cl[c] \in {"connecting", "open"}
  /\ \/ c \in cut \/ srv[c] = "rejected"
     \/ cl[c] = "open" /\ srv[c] \in {"closing", "closed"} /\ toDaemon[c] = <<>>
  /\ cl' = [cl EXCEPT ![c] = "closed"]
  /\ ws' = IF ws = c THEN 0 ELSE ws
  /\ UNCHANGED <<server, probing, running, signalled, buffer, toDaemon, toServer, cut, asked,
                 sent, lost, unheard, unattached, faults>>

-----------------------------------------------------------------------------
(* A connection breaks, with all that is on its way; the two ends learn of *)
(* it later, each for itself.                                              *)
Break(c) ==
  /\ faults < MaxFaults /\ c \notin cut
  /\ cl[c] \in {"connecting", "open"} \/ srv[c] \in {"pending", "admitted", "open"}
  /\ faults' = faults + 1
  /\ cut' = cut \cup {c}
  /\ lost' = lost \cup ToSet(toServer[c])
  /\ unheard' = unheard \cup ToSet(toDaemon[c])
  /\ toServer' = [toServer EXCEPT ![c] = <<>>]
  /\ toDaemon' = [toDaemon EXCEPT ![c] = <<>>]
  /\ UNCHANGED <<server, daemon, asked, sent, unattached>>

Link(c) == \/ Admit(c) \/ Attach(c) \/ Reject(c) \/ ServerCloses(c) \/ ServerClosed(c)
           \/ Open(c) \/ ProbeEnds(c) \/ DaemonCloses(c)

Next ==
  \/ \E p \in Procs : Spawn(p) \/ Kill(p) \/ Print1(p) \/ Exit(p) \/ Drain(p)
  \/ \E c \in Conns : Link(c) \/ Receive(c) \/ Obey(c) \/ Break(c)
  \/ Connect \/ Revoke \/ Restart

Spec == Init /\ [][Next]_vars

(* Sockets, timers and probes go on; nobody need spawn, print or end.      *)
FairSpec ==
  /\ Spec
  /\ WF_vars(Connect)
  /\ \A c \in Conns : WF_vars(Link(c)) /\ WF_vars(Receive(c)) /\ WF_vars(Obey(c))

-----------------------------------------------------------------------------
TypeOK ==
  /\ conn \in 0..MaxConns /\ ws \in 0..MaxConns
  /\ srv \in [Conns -> {"none", "pending", "admitted", "rejected", "open", "closing", "closed"}]
  /\ cl \in [Conns -> {"none", "connecting", "open", "closed"}]
  /\ requests \subseteq known /\ known \subseteq asked /\ asked \subseteq Procs
  /\ unattached \subseteq asked /\ revoked \in BOOLEAN
  /\ probing \subseteq Conns /\ cut \subseteq Conns
  /\ running \subseteq asked /\ signalled \subseteq asked
  /\ buffer \in Seq(Messages) /\ Len(buffer) <= BufferLimit
  /\ toDaemon \in [Conns -> Seq(Commands)] /\ toServer \in [Conns -> Seq(Messages)]
  /\ got \subseteq sent /\ lost \subseteq sent /\ sent \subseteq Messages
  /\ unheard \subseteq Commands /\ faults \in 0..MaxFaults

\* where m is: the queue, 0 for the buffer, and the position
Places(m) ==
  LET Queue(c) == IF c = 0 THEN buffer ELSE toServer[c]
  IN  UNION { {c} \X { i \in DOMAIN Queue(c) : Queue(c)[i] = m } : c \in 0..MaxConns }

(* However often the link breaks, a message of the daemon is in one place: *)
(* in its buffer, on its way, passed to its process, or lost.  None is     *)
(* replayed twice, and while no connection breaks or closes none is lost   *)
(* but what a process left in its pipes, when the server has been told of  *)
(* its exit: nothing the process said while it ran, and not its end.       *)
EachInOnePlace ==
  /\ TypeOK
  /\ got \cap lost = {}
  /\ \A m \in sent : Cardinality(Places(m)) = IF m \in got \cup lost THEN 0 ELSE 1
  /\ faults = 0 /\ ~revoked =>
       \A m \in lost : m.n > End /\ [proc |-> m.proc, n |-> End] \in got

OnItsWay(cmd) == \E c \in Conns : cmd \in ToSet(toDaemon[c])
Ending(p) == LET m == [proc |-> p, n |-> End]
             IN  m \in ToSet(buffer) \/ \E c \in Conns : m \in ToSet(toServer[c])

(* Server and daemon agree on what runs, but for what the link has lost: a *)
(* process with an entry runs, or is about to, or the news of its end is   *)
(* on the way; and a child without an entry was killed, or is about to be, *)
(* unless a restart of the server is what left it without.                 *)
(* Otherwise a session waits for a process that is gone, or an agent works *)
(* on unattended.                                                          *)
SidesAgree ==
  /\ \A p \in known :
       \/ p \in running \/ OnItsWay(Spawning(p)) \/ Ending(p)
       \/ Spawning(p) \in unheard \/ [proc |-> p, n |-> End] \in lost
  /\ \A p \in running \ known :
       \/ p \in signalled \/ OnItsWay(Killing(p)) \/ Killing(p) \in unheard
       \/ p \in unattached

(* Unless the pairing is revoked, the two are connected in the end, by one *)
(* connection for both, and the buffer has been sent.                      *)
Reconnects ==
  <>[](revoked \/ (conn # 0 /\ conn = ws /\ cl[ws] = "open" /\ buffer = <<>>))
=============================================================================
