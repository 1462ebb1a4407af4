----------------------------- MODULE Rendezvous -----------------------------
(***************************************************************************)
(* How the parties get connected (Networking/Server.cpp, ServerSocket.cpp, *)
(* Names and MultiPlayer::setup_sockets of Player.cpp, sockets.cpp, and    *)
(* the constructor of CryptoPlayer).                                       *)
(*                                                                         *)
(* Party 0 runs a coordinator that hands out the parties' addresses; then  *)
(* every party opens a server of its own, connects to itself and to every  *)
(* party of a higher number, and takes from its server the connections of  *)
(* the parties of lower ones.  A server has a thread that accepts clients, *)
(* reads the number each one sends and files its connection under it; a    *)
(* client whose number has not arrived yet gets a thread of its own.       *)
(* CryptoPlayer does all of this twice, with numbers N apart, to have one  *)
(* connection per direction.                                               *)
(***************************************************************************)
EXTENDS Parties, Sequences, FiniteSets

CONSTANTS Starts, \* how the parties may be started: records [late, layers]
          None    \* no connection

ASSUME StartsAssumption == \A s \in Starts : s.layers \in {1, 2}

Coord == N                    \* the coordinator's thread, in the process of party 0
Host  == Party \cup {Coord}   \* where a server may listen

ProcessOf(x) == IF x = Coord THEN 0 ELSE x

(* The number a client sends: id_base + player_no, with the id_base of      *)
(* plaintext_player and other_player.                                       *)
IdBase(l) == l * N

\* A connection, named by its client, its server and the player object it is of.
Conn == [from : Party, to : Host, layer : Layer]
Link(p, x, l) == [from |-> p, to |-> x, layer |-> l]
Id(c) == IdBase(c.layer) + c.from

VARIABLES pc,       \* where the main thread of a party, or the coordinator, is
          i,        \* its loop over the others
          layer,    \* the player object under construction
          late,     \* the parties that may be started too late, or never
          layers,   \* 1 for PlainPlayer, 2 for CryptoPlayer (the option -e)
          up,       \* the servers that listen
          backlog,  \* accepted by the kernel, in order
          jobs,     \* connections a ServerJob waits on
          answered, \* the clients the coordinator has sent all names
          clients,  \* ServerSocket::clients, from numbers to connections
          used,     \* ServerSocket::used
          sock      \* sockets[i] of each player object

start   == <<late, layers>>
servers == <<up, backlog, jobs, clients, used>>
vars    == <<pc, i, layer, start, servers, answered, sock>>

Init ==
  /\ \E s \in Starts : late = s.late /\ layers = s.layers
  /\ pc = [x \in Host |-> "off"] /\ i = [x \in Host |-> 0]
  /\ layer = [x \in Host |-> 0]
  /\ up = {} /\ answered = {}
  /\ backlog = [x \in Host |-> <<>>] /\ jobs = [x \in Host |-> {}]
  /\ clients = [x \in Host |-> [id \in {} |-> None]]
  /\ used = [x \in Host |-> {}]
  /\ sock = [p \in Party |-> [l \in Layer |-> [q \in Party |-> None]]]

Failed(x) == pc[ProcessOf(x)] = "failed" \/ pc[x] = "failed"

(* The number the main thread of x asks its server for next.                *)
Wanted(x) == IF x = Coord THEN i[x] ELSE IdBase(layer[x]) + i[x]

(* The main thread of x waits for another thread or process, or is over.    *)
Waits(x) ==
  \/ pc[x] = "off" /\ (x = Coord \/ x \in late)
  \/ pc[x] = "greet" /\ Coord \notin up
  \/ pc[x] = "await" /\ x \notin answered /\ ~Failed(Coord)
  \/ pc[x] = "join" /\ (pc[Coord] # "done" \/ Coord \in up)
  \/ pc[x] = "connect" /\ i[x] \notin up
  \/ pc[x] = "serve" /\ Wanted(x) \notin used[x] \cup DOMAIN clients[x]
  \/ pc[x] = "done" /\ (x = Coord => Coord \notin up)
  \/ pc[x] = "failed"

(* The set-up stands still, its servers as well: only time goes on.         *)
Stuck == \A x \in Host : /\ Waits(x)
                         /\ x \in up => backlog[x] = <<>> /\ jobs[x] = {}

(* 60 seconds of connecting and 600 of waiting are over when nothing else   *)
(* can happen.  Before that only if someone is late or has given up: the    *)
(* steps of parties that are started in time take less.                     *)
TimesOut == late # {} \/ (\E x \in Host : pc[x] = "failed") \/ Stuck

\* The process ends with an uncaught exception, and its servers with it.
Fail(x) == LET p == ProcessOf(x) IN
  /\ pc' = [pc EXCEPT ![p] = "failed", ![Coord] = IF p = 0 THEN "failed" ELSE @]
  /\ up' = up \ {y \in Host : ProcessOf(y) = p}
  /\ UNCHANGED <<i, layer, start, backlog, jobs, clients, used, answered, sock>>

-----------------------------------------------------------------------------
(***************************************************************************)
(* The threads of a server x.                                              *)
(***************************************************************************)
(* process_connection, in the accept thread or in a job's.                  *)
RegisterByArrival(x, c) ==    \* mutant: filed in the order the numbers arrive
  clients' = [clients EXCEPT ![x] =
                [id \in DOMAIN @ \cup {Cardinality(DOMAIN @)} |->
                   IF id = Cardinality(DOMAIN @) THEN c ELSE @[id]]]
Register(x, c) ==
  clients' = [clients EXCEPT ![x] =
                [id \in DOMAIN @ \cup {Id(c)} |-> IF id = Id(c) THEN c ELSE @[id]]]

(* accept_clients: the number is there in whole, or a thread waits for it.  *)
AcceptClientDropsLate(x) ==   \* mutant: a client whose number is late is forgotten
  /\ x \in up /\ backlog[x] # <<>>
  /\ backlog' = [backlog EXCEPT ![x] = Tail(@)]
  /\ Register(x, Head(backlog[x])) \/ UNCHANGED clients
  /\ UNCHANGED <<pc, i, layer, start, up, jobs, used, answered, sock>>
AcceptClient(x) ==
  /\ x \in up /\ backlog[x] # <<>>
  /\ backlog' = [backlog EXCEPT ![x] = Tail(@)]
  /\ LET c == Head(backlog[x]) IN
     \/ Register(x, c) /\ UNCHANGED jobs
     \/ jobs' = [jobs EXCEPT ![x] = @ \cup {c}] /\ UNCHANGED clients
  /\ UNCHANGED <<pc, i, layer, start, up, used, answered, sock>>

(* wait_for_client_id: the number, sent right after connecting, arrives.    *)
ServeJob(x, c) ==
  /\ x \in up /\ c \in jobs[x]
  /\ Register(x, c)
  /\ jobs' = [jobs EXCEPT ![x] = @ \ {c}]
  /\ UNCHANGED <<pc, i, layer, start, up, backlog, used, answered, sock>>

(***************************************************************************)
(* get_connection_socket(id), called by the main thread of x: then(c) is   *)
(* what x does with the connection.  The thread waits until the number is  *)
(* filed; a time-out is final even if the client arrives before the thread *)
(* holds the lock again.  Both exceptions leave the lock taken, which      *)
(* nobody can notice any more: they end the process.                       *)
(***************************************************************************)
GetConnectionSocket(x, id, then(_)) ==
  /\ pc[x] = "serve"
  /\ \/ /\ id \in used[x] /\ Fail(x)
     \/ /\ id \notin used[x] /\ id \in DOMAIN clients[x]
        /\ then(clients[x][id])
        /\ used' = [used EXCEPT ![x] = @ \cup {id}]
        /\ UNCHANGED <<start, up, backlog, jobs, clients, answered>>
     \/ /\ id \notin used[x] /\ id \notin DOMAIN clients[x] /\ TimesOut
        /\ pc' = [pc EXCEPT ![x] = "timed_out"]
        /\ UNCHANGED <<i, layer, start, servers, answered, sock>>

TimedOut(x) == pc[x] = "timed_out" /\ Fail(x)

-----------------------------------------------------------------------------
(***************************************************************************)
(* The coordinator (Server::start) in party 0's process: collect the       *)
(* connections, then the names, then send all names to everyone.           *)
(***************************************************************************)
Then(x, n, next) == \* one more round of a loop over the parties, or on
  IF n + 1 < N THEN i' = [i EXCEPT ![x] = n + 1] /\ UNCHANGED pc
  ELSE i' = [i EXCEPT ![x] = 0] /\ pc' = [pc EXCEPT ![x] = next]

CollectClient ==
  GetConnectionSocket(Coord, Wanted(Coord),
    LAMBDA c : Then(Coord, i[Coord], "names") /\ UNCHANGED <<layer, sock>>)

(* The names the clients sent after their numbers are read, and not used.   *)
GetNames ==
  /\ pc[Coord] = "names"
  /\ pc' = [pc EXCEPT ![Coord] = "send"]
  /\ UNCHANGED <<i, layer, start, servers, answered, sock>>

SendNames ==
  /\ pc[Coord] = "send"
  /\ answered' = answered \cup {i[Coord]}
  /\ Then(Coord, i[Coord], "done")
  /\ UNCHANGED <<layer, start, servers, sock>>

CloseServer == \* the end of Server::start
  /\ pc[Coord] = "done" /\ Coord \in up
  /\ up' = up \ {Coord}
  /\ UNCHANGED <<pc, i, layer, start, backlog, jobs, clients, used, answered, sock>>

CoordinatorStep == CollectClient \/ GetNames \/ SendNames
                     \/ TimedOut(Coord) \/ CloseServer

-----------------------------------------------------------------------------
(***************************************************************************)
(* A party.                                                                *)
(***************************************************************************)
(* start_networking: party 0 starts the coordinator as well.                *)
Start(p) ==
  /\ pc[p] = "off"
  /\ pc' = [pc EXCEPT ![p] = "greet", ![Coord] = IF p = 0 THEN "serve" ELSE @]
  /\ up' = IF p = 0 THEN up \cup {Coord} ELSE up
  /\ UNCHANGED <<i, layer, start, backlog, jobs, clients, used, answered, sock>>

(* set_up_client_socket, once the server listens; the number follows.       *)
Connect(p, x) ==
  /\ x \in up
  /\ backlog' = [backlog EXCEPT ![x] = Append(@, Link(p, x, layer[p]))]
  /\ UNCHANGED <<layer, start, up, jobs, clients, used, answered>>

GiveUp(p, x) == \* the 60 seconds are over
  x \notin up /\ TimesOut /\ Fail(p)

(* setup_names, first half: connect, send the number and a name.            *)
Greet(p) ==
  /\ pc[p] = "greet"
  /\ \/ Connect(p, Coord) /\ pc' = [pc EXCEPT ![p] = "await"] /\ UNCHANGED <<i, sock>>
     \/ GiveUp(p, Coord)

(* setup_names, second half, and setup_server; party 0 then has to join the *)
(* coordinator's thread.                                                    *)
Await(p) ==
  /\ pc[p] = "await" /\ p \in answered
  /\ up' = up \cup {p}
  /\ pc' = [pc EXCEPT ![p] = IF p = 0 THEN "join" ELSE "connect"]
  /\ i' = [i EXCEPT ![p] = p]
  /\ UNCHANGED <<layer, start, backlog, jobs, clients, used, answered, sock>>

Join ==
  /\ pc[0] = "join" /\ pc[Coord] = "done" /\ Coord \notin up
  /\ pc' = [pc EXCEPT ![0] = "connect"]
  /\ UNCHANGED <<i, layer, start, servers, answered, sock>>

NoNames(p) == \* the coordinator has died: closed_connection
  pc[p] = "await" /\ p \notin answered /\ Failed(Coord) /\ Fail(p)

(* setup_sockets, the client side: from the party itself upwards.           *)
ConnectTo(p) ==
  /\ pc[p] = "connect"
  /\ \/ /\ Connect(p, i[p])
        /\ sock' = [sock EXCEPT ![p][layer[p]][i[p]] = Link(p, i[p], layer[p])]
        /\ IF i[p] + 1 < N THEN i' = [i EXCEPT ![p] = @ + 1] /\ UNCHANGED pc
           ELSE i' = [i EXCEPT ![p] = 0] /\ pc' = [pc EXCEPT ![p] = "serve"]
     \/ GiveUp(p, i[p])

(* setup_sockets, the server side: up to the party itself, whose own end    *)
(* replaces the client end; then the next player object.                    *)
NextPlayer(p) ==
  IF layer[p] + 1 < layers
  THEN /\ pc' = [pc EXCEPT ![p] = "connect"] /\ i' = [i EXCEPT ![p] = p]
       /\ layer' = [layer EXCEPT ![p] = @ + 1]
  ELSE pc' = [pc EXCEPT ![p] = "done"] /\ UNCHANGED <<i, layer>>

TakeClient(p) ==
  GetConnectionSocket(p, Wanted(p),
    LAMBDA c :
      /\ sock' = [sock EXCEPT ![p][layer[p]][i[p]] = c]
      /\ IF i[p] < p THEN i' = [i EXCEPT ![p] = @ + 1] /\ UNCHANGED <<pc, layer>>
         ELSE NextPlayer(p))

PartyStep(p) ==
  \/ Greet(p) \/ Await(p) \/ NoNames(p) \/ ConnectTo(p) \/ TakeClient(p) \/ TimedOut(p)
  \/ p = 0 /\ Join

ServerStep(x) == AcceptClient(x) \/ \E c \in jobs[x] : ServeJob(x, c)

Ended(p) == pc[p] \in {"done", "failed"} \/ (pc[p] = "off" /\ p \in late)
AllEnded == (\A p \in Party : Ended(p)) /\ UNCHANGED vars

Setup == \/ \E p \in Party : (p \notin late /\ Start(p)) \/ PartyStep(p)
         \/ CoordinatorStep
         \/ \E x \in Host : ServerStep(x)
LateStart == \E p \in Party : p \in late /\ Start(p)
Step == Setup \/ LateStart
Next == Step \/ AllEnded

Spec == Init /\ [][Next]_vars

-----------------------------------------------------------------------------
(* CryptoPlayer: the socket a party sends to q on, and the one it receives  *)
(* from q on, with two player objects.                                      *)
SendLayerByReceiver(p, q) == 0   \* mutant: both directions on one connection
SendLayer(p, q) == IF q < p THEN 0 ELSE layers - 1
ReceiveLayer(p, q) == IF q < p THEN layers - 1 ELSE 0

(* What party p calls its socket to or from q is the other end of what q    *)
(* calls its socket from or to p, whoever connected first and whichever     *)
(* thread filed the connection (setup_sockets, process_connection).         *)
SocketsFit ==
  \A p, q \in Party : p # q /\ pc[p] = "done" /\ pc[q] = "done" =>
    /\ sock[p][SendLayer(p, q)][q] = sock[q][ReceiveLayer(q, p)][p]
    /\ \A l \in 0 .. layers - 1 : {sock[p][l][q].from, sock[p][l][q].to} = {p, q}

(* Nobody gives up unless someone is late.  In time, every connection a      *)
(* party asks for is made, is filed under the number it asks for, whatever  *)
(* the order of the accept thread and the jobs, and is not asked for twice  *)
(* ("already used"); and no circle of parties waits for one another's       *)
(* servers, names or connections until the time is out                      *)
(* (get_connection_socket, accept_clients, setup_names, setup_sockets).     *)
FailsOnlyIfLate == late = {} => \A x \in Host : pc[x] # "failed"
=============================================================================
