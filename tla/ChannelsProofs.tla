--------------------------- MODULE ChannelsProofs ---------------------------
(***************************************************************************)
(* What Rendezvous and Channels promise, for any number of parties, any    *)
(* programs of rounds and connections of any capacity, with a PlainPlayer  *)
(* or a CryptoPlayer: the parties set up the connections they mean to,     *)
(* every party receives the bytes the other one sends it in this round,    *)
(* and a check of broadcasts passes only where all parties have been shown *)
(* the same.  The set-up comes first.                                      *)
(*                                                                         *)
(* For the rounds, the argument: a connection is a log.  The program, and  *)
(* who lies to whom, decide which units go into it and in which order      *)
(* (Unit, Base); what a party has done of its round decides how many of    *)
(* them it has put in (In) and taken out (Out); what is on the connection  *)
(* is always the difference (Flow).  So a party that reads a length reads  *)
(* that of its own round, however far the other end has gone on, and what  *)
(* it has received is a beginning of what was sent.  What a party has      *)
(* hashed follows from the program as well (Hashed), and two parties hash  *)
(* different things exactly if someone lied since the last check.          *)
(*                                                                         *)
(* In place of recursion over the program there are courses: functions     *)
(* over its operations that begin somewhere and take a given step at each  *)
(* one (IsCourse).  They exist because there is no least length without    *)
(* one (WellFoundedInduction).                                             *)
(***************************************************************************)
EXTENDS Channels, WellFoundedInduction, TLAPS

-----------------------------------------------------------------------------
(***************************************************************************)
(* The set-up (Rendezvous), for every number of parties and every way to   *)
(* start them: the two ends of a connection take it for the same one, and  *)
(* nobody gives up unless someone is late.                                 *)
(*                                                                         *)
(* The argument: a server files a connection under the number its client   *)
(* sends, and the numbers of two connections to one server differ (the     *)
(* lemma IdUnique); so a party that asks for number IdBase(l) + q gets the *)
(* connection q opened for its player object l, and asks for it once.      *)
(* What a client has connected to, the server has somewhere (Kept), so the *)
(* set-up never stands still with a party waiting (NeverStuck), and the    *)
(* first to give up must have waited for one that is late.                 *)
(***************************************************************************)

Places == {"off", "greet", "await", "join", "connect", "serve", "names", "send",
           "timed_out", "failed", "done"}

TypeOK ==
  /\ pc \in [Host -> Places] /\ i \in [Host -> Int] /\ layer \in [Host -> Layer]
  /\ layers \in {1, 2}
  /\ backlog \in [Host -> Seq(Conn)] /\ jobs \in [Host -> SUBSET Conn]
  /\ clients = [x \in Host |-> clients[x]]
  /\ \A x \in Host : /\ DOMAIN clients[x] \subseteq Int
                     /\ clients[x] \in [DOMAIN clients[x] -> Conn]
  /\ used \in [Host -> SUBSET Int]
  /\ sock \in [Party -> [Layer -> [Party -> Conn \cup {None}]]]

\* Where the loops are.
CursorOK ==
  /\ \A p \in Party : /\ layer[p] < layers
                      /\ pc[p] = "connect" => i[p] \in p .. N - 1
                      /\ pc[p] = "join" => i[p] = p
                      /\ pc[p] = "serve" => i[p] \in 0 .. p
  /\ pc[Coord] \in {"off", "serve"} => i[Coord] \in Party
  /\ pc[0] = "off" => pc[Coord] = "off"

\* A server has the connections made to it, each under its number.
FiledOK == \A x \in Host :
  /\ \A k \in 1 .. Len(backlog[x]) : backlog[x][k].to = x
  /\ \A c \in jobs[x] : c.to = x
  /\ \A id \in DOMAIN clients[x] : clients[x][id].to = x /\ Id(clients[x][id]) = id

\* The connection two parties have, and the sockets that are set.
Common(p, q, l) == IF p < q THEN Link(p, q, l) ELSE Link(q, p, l)
Has(p, q, l)    == sock[p][l][q] = Common(p, q, l)

SockOK == \A p, q \in Party :
  /\ \A l \in Layer : l < layer[p] => Has(p, q, l)
  /\ pc[p] = "connect" /\ p < q /\ q < i[p] => Has(p, q, layer[p])
  /\ pc[p] = "serve" /\ (p < q \/ q < i[p]) => Has(p, q, layer[p])
  /\ pc[p] = "done" => layer[p] = layers - 1 /\ Has(p, q, layer[p])

\* A number that was asked for is behind the cursor.
UsedOK ==
  /\ \A p, q \in Party : \A l \in Layer :
       IdBase(l) + q \in used[p] =>
         /\ pc[p] \in {"off", "greet", "await", "join", "connect"} => l < layer[p]
         /\ pc[p] = "serve" => l < layer[p] \/ (l = layer[p] /\ q < i[p])
  /\ \A q \in Party : pc[Coord] \in {"off", "serve"} /\ q \in used[Coord] => q < i[Coord]

CalmOK == late = {} => \A x \in Host : pc[x] \notin {"failed", "timed_out"}

Loops == TypeOK /\ CursorOK /\ FiledOK /\ SockOK /\ UsedOK /\ CalmOK

\* The server of x has connection c, in whatever stage.
Held(x, c) == \/ \E k \in 1 .. Len(backlog[x]) : backlog[x][k] = c
              \/ c \in jobs[x]
              \/ Id(c) \in DOMAIN clients[x]

\* p has connected to the server of q for player object l.
Connected(p, q, l) ==
  /\ p <= q
  /\ \/ l < layer[p]
     \/ l = layer[p] /\ (pc[p] \in {"serve", "done"} \/ (pc[p] = "connect" /\ q < i[p]))

\* A connection that was made is not lost.
KeptOK ==
  /\ \A p \in Party : pc[p] \in {"await", "join", "connect", "serve", "done"}
                        => Held(Coord, Link(p, Coord, 0))
  /\ \A p, q \in Party : \A l \in Layer : Connected(p, q, l) => Held(q, Link(p, q, l))

\* Who listens, and for which player object the parties are at work.
UpOK ==
  /\ \A p \in Party : /\ pc[p] \in {"off", "greet", "await", "join"} => layer[p] = 0
                      /\ pc[p] \in {"join", "connect", "serve", "done"} => p \in up
  /\ pc[Coord] \in {"serve", "names", "send"} => Coord \in up
  /\ pc[Coord] \notin {"greet", "await", "join", "connect"}
  /\ pc[Coord] = "off" => pc[0] = "off" /\ i[Coord] = 0
  /\ pc[Coord] = "names" => i[Coord] = 0
  /\ pc[Coord] = "send" => i[Coord] \in Party

\* The coordinator has no connection of q.
NoneFrom(q) == /\ \A k \in 1 .. Len(backlog[Coord]) : backlog[Coord][k].from # q
               /\ \A c \in jobs[Coord] : c.from # q
               /\ \A id \in DOMAIN clients[Coord] : clients[Coord][id].from # q

\* The coordinator takes only connections of parties that have made one, and
\* is through when it has answered everyone.
AnsweredOK ==
  /\ \A q \in Party :
       pc[q] \in {"off", "greet"} =>
         /\ NoneFrom(q)
         /\ pc[Coord] = "serve" => i[Coord] <= q
         /\ pc[Coord] \notin {"names", "send", "done"}
  /\ \A q \in Party : /\ pc[Coord] = "send" /\ q < i[Coord] => q \in answered
                      /\ pc[Coord] = "done" => q \in answered

Kept == KeptOK /\ UpOK /\ AnsweredOK

IInv == Loops /\ Kept

-----------------------------------------------------------------------------
(* The sets of places and numbers.                                          *)
LEMMA Sizes ==
  /\ Coord \in Host /\ Coord \notin Party /\ Party \subseteq Host
  /\ 0 \in Party /\ Party \subseteq Int /\ N \in Nat /\ N > 0
  BY SizeAssumption DEF Host, Party, Coord

(* The numbers of different clients and player objects differ.              *)
LEMMA IdUnique ==
  ASSUME NEW p \in Party, NEW q \in Party, NEW l \in Layer, NEW m \in Layer,
         IdBase(l) + p = IdBase(m) + q
  PROVE  l = m /\ p = q
<1>1. IdBase(0) = 0 /\ IdBase(1) = N
  BY SizeAssumption DEF IdBase
<1>2. CASE l = m
  BY <1>1, <1>2, SizeAssumption DEF Party, Layer
<1>3. CASE l # m
  BY <1>1, <1>3, SizeAssumption DEF Party, Layer
<1>4. QED
  BY <1>2, <1>3

(* A connection is its client, its server and its player object.            *)
LEMMA LinkConn ==
  ASSUME NEW p \in Party, NEW x \in Host, NEW l \in Layer
  PROVE  /\ Link(p, x, l) \in Conn
         /\ Link(p, x, l).to = x
         /\ Id(Link(p, x, l)) = IdBase(l) + p
  BY DEF Link, Conn, Id

LEMMA IdInt ==
  ASSUME NEW l \in Layer
  PROVE  IdBase(l) \in Int /\ \A p \in Party : IdBase(l) + p \in Int
<1>1. IdBase(0) = 0 /\ IdBase(1) = N
  BY SizeAssumption DEF IdBase
<1>2. QED
  BY <1>1, SizeAssumption DEF Party, Layer

(* What is filed under the number of q for object l is q's connection.      *)
LEMMA FiledIsLink ==
  ASSUME FiledOK, TypeOK, NEW p \in Party, NEW q \in Party, NEW l \in Layer,
         IdBase(l) + q \in DOMAIN clients[p]
  PROVE  clients[p][IdBase(l) + q] = Link(q, p, l)
<1> DEFINE id == IdBase(l) + q
           c  == clients[p][id]
<1>1. p \in Host
  BY DEF Host
<1>2. c \in Conn /\ c.to = p /\ Id(c) = id
  BY <1>1 DEF FiledOK, TypeOK
<1>3. c.from \in Party /\ c.layer \in Layer /\ c = [from |-> c.from, to |-> c.to, layer |-> c.layer]
  BY <1>2 DEF Conn
<1>4. IdBase(c.layer) + c.from = IdBase(l) + q
  BY <1>2 DEF Id
<1>5. c.layer = l /\ c.from = q
  BY <1>3, <1>4, IdUnique
<1>6. QED
  BY <1>2, <1>3, <1>5 DEF Link

LEMMA InitLoops == Init => Loops
<1> SUFFICES ASSUME Init PROVE Loops
  OBVIOUS
<1>1. TypeOK
  <2>1. pc \in [Host -> Places] /\ i \in [Host -> Int] /\ layer \in [Host -> Layer]
    BY DEF Init, Layer, Places
  <2>2. layers \in {1, 2}
    BY StartsAssumption DEF Init
  <2>3. backlog \in [Host -> Seq(Conn)] /\ jobs \in [Host -> SUBSET Conn]
    BY DEF Init
  <2>4. /\ clients = [x \in Host |-> clients[x]]
        /\ \A x \in Host : /\ DOMAIN clients[x] \subseteq Int
                           /\ clients[x] \in [DOMAIN clients[x] -> Conn]
    BY DEF Init
  <2>5. used \in [Host -> SUBSET Int]
    BY DEF Init
  <2>6. sock \in [Party -> [Layer -> [Party -> Conn \cup {None}]]]
    BY DEF Init
  <2>7. QED
    BY <2>1, <2>2, <2>3, <2>4, <2>5, <2>6 DEF TypeOK
<1>2. CursorOK
  BY SizeAssumption, StartsAssumption DEF Init, CursorOK, Host, Party, Coord
<1>3. FiledOK
  BY DEF Init, FiledOK
<1>4. SockOK
  BY DEF Init, SockOK, Host, Layer, Party
<1>5. UsedOK
  BY DEF Init, UsedOK, Host, Coord
<1>6. CalmOK
  BY DEF Init, CalmOK
<1>7. QED
  BY <1>1, <1>2, <1>3, <1>4, <1>5, <1>6 DEF Loops

-----------------------------------------------------------------------------
(* Giving up: possible only when someone is late or has given up before.    *)
LEMMA FailKeeps ==
  ASSUME IInv, NEW x \in Host, Fail(x), late # {}
  PROVE  Loops'
<1> USE DEF IInv, Loops, Fail
<1> DEFINE p == ProcessOf(x)
<1>0. p \in Host /\ p \in Party /\ Coord \in Host /\ Coord \notin Party /\ Party \subseteq Host
  BY SizeAssumption DEF ProcessOf, Host, Party, Coord
<1>1. pc' \in [Host -> Places]
  BY <1>0 DEF TypeOK, Places
<1>2. \A y \in Host : pc'[y] = pc[y] \/ pc'[y] = "failed"
  BY <1>0, <1>1 DEF TypeOK
<1>3. TypeOK'
  BY <1>1 DEF TypeOK, start, Layer
<1>4. CursorOK'
  <2>1. pc'[0] = "off" => pc'[Coord] = pc[Coord]
    BY <1>0, <1>1, Sizes DEF TypeOK
  <2>2. QED
    BY <1>0, <1>2, <2>1, Sizes DEF CursorOK, start
<1>5. FiledOK'
  BY DEF FiledOK
<1>6. SockOK'
  <2> SUFFICES ASSUME NEW r \in Party, NEW q \in Party
               PROVE  /\ \A l \in Layer : l < layer'[r] => Has(r, q, l)'
                      /\ pc'[r] = "connect" /\ r < q /\ q < i'[r] => Has(r, q, layer[r])'
                      /\ pc'[r] = "serve" /\ (r < q \/ q < i'[r]) => Has(r, q, layer[r])'
                      /\ pc'[r] = "done" => layer'[r] = layers' - 1 /\ Has(r, q, layer[r])'
    BY DEF SockOK
  <2>1. pc'[r] = pc[r] \/ pc'[r] = "failed"
    BY <1>0, <1>2
  <2>2. QED
    BY <2>1 DEF SockOK, Has, start
<1>7. UsedOK'
  BY <1>0, <1>2 DEF UsedOK
<1>8. CalmOK'
  BY DEF CalmOK, start
<1>9. QED
  BY <1>3, <1>4, <1>5, <1>6, <1>7, <1>8

(* While nobody is late, nobody's time is out: the set-up never stands      *)
(* still with somebody waiting.  If it did, the coordinator would not be    *)
(* collecting, for the connection it waits for is made, or can be, and has  *)
(* been filed; so it has answered everyone, and all parties are connected   *)
(* or take connections; and of those that take them, one at the first       *)
(* player object that is not through waits for one that was made.           *)
LEMMA NeverStuck ==
  ASSUME IInv, late = {}, Stuck, NEW x \in Host, pc[x] \in {"greet", "serve", "connect"}
  PROVE  FALSE
<1> USE DEF IInv, Loops, Kept
<1>1. \A y \in Host : /\ Waits(y) /\ pc[y] \notin {"failed", "timed_out"}
                      /\ y \in up => backlog[y] = <<>> /\ jobs[y] = {}
  BY DEF Stuck, CalmOK
<1>2. \A p \in Party : pc[p] # "off" /\ p \in Host /\ p # Coord
  BY <1>1, Sizes DEF Waits
<1>3. ASSUME NEW y \in Host, y \in up, NEW c, Held(y, c) PROVE Id(c) \in DOMAIN clients[y]
  BY <1>1, <1>3 DEF Held
<1>4. IdBase(0) = 0
  BY SizeAssumption DEF IdBase
<1>5. pc[Coord] # "serve"
  <2> SUFFICES ASSUME pc[Coord] = "serve" PROVE FALSE
    OBVIOUS
  <2>1. PICK q \in Party : q = i[Coord]
    BY DEF CursorOK
  <2>2. Coord \in up /\ Coord \in Host
    BY Sizes DEF UpOK
  <2>3. q \notin DOMAIN clients[Coord]
    BY <1>1, <2>1, <2>2 DEF Waits, Wanted
  <2>4. pc[q] \in {"await", "join", "connect", "serve", "done"}
    <3>1. pc[q] \in Places /\ Waits(q)
      BY <1>1, <1>2 DEF TypeOK
    <3>2. pc[q] # "greet"
      BY <2>2, <3>1 DEF Waits
    <3> QED BY <1>1, <1>2, <3>1, <3>2 DEF Waits, Places
  <2>5. Held(Coord, Link(q, Coord, 0))
    BY <2>4 DEF KeptOK
  <2>6. Id(Link(q, Coord, 0)) = q
    BY <1>4, Sizes DEF Id, Link
  <2> QED BY <1>3, <2>2, <2>3, <2>5, <2>6
<1>6. pc[Coord] = "done" /\ Coord \notin up
  <2>1. pc[Coord] \in Places /\ Waits(Coord)
    BY <1>1, Sizes DEF TypeOK
  <2>2. pc[Coord] # "off"
    BY <1>2, Sizes DEF UpOK
  <2>3. pc[Coord] \notin {"greet", "await", "join", "connect"}
    BY DEF UpOK
  <2> QED BY <1>1, <1>5, <2>1, <2>2, <2>3, Sizes DEF Waits, Places
<1>7. \A q \in Party : pc[q] \in {"connect", "serve", "done"} /\ q \in up
  <2> SUFFICES ASSUME NEW q \in Party PROVE pc[q] \in {"connect", "serve", "done"} /\ q \in up
    OBVIOUS
  <2>1. pc[q] \in Places /\ Waits(q) /\ q \in Host
    BY <1>1, <1>2 DEF TypeOK
  <2>2. pc[q] \notin {"off", "greet"} /\ q \in answered
    BY <1>6 DEF AnsweredOK
  <2>3. pc[q] \notin {"await", "join"}
    BY <1>6, <2>1, <2>2 DEF Waits
  <2>4. pc[q] \in {"connect", "serve", "done"}
    BY <1>1, <2>1, <2>2, <2>3 DEF Waits, Places
  <2> QED BY <2>4 DEF UpOK
<1>8. \A q \in Party : pc[q] \in {"serve", "done"}
  <2> SUFFICES ASSUME NEW q \in Party, pc[q] = "connect" PROVE FALSE
    BY <1>7
  <2>1. i[q] \in q .. N - 1
    BY DEF CursorOK
  <2>2. i[q] \in Party
    BY <2>1, Sizes DEF Party
  <2>3. i[q] \in up
    BY <1>7, <2>2
  <2>4. Waits(q)
    BY <1>1, <1>2
  <2> QED BY <2>3, <2>4 DEF Waits
<1>9. ASSUME NEW p \in Party, pc[p] = "serve",
             \A q \in Party : layer[p] < layer[q] \/ layer[p] = layer[q]
      PROVE  FALSE
  <2>1. PICK q \in Party : q = i[p] /\ q <= p
    <3>1. i[p] \in 0 .. p
      BY <1>9 DEF CursorOK
    <3>2. i[p] \in Party /\ i[p] <= p
      BY <3>1, Sizes DEF Party
    <3> QED BY <3>2
  <2>2. PICK l \in Layer : l = layer[p]
    BY <1>2 DEF TypeOK
  <2>3. Connected(q, p, l)
    BY <1>8, <1>9, <2>1, <2>2 DEF Connected
  <2>4. Held(p, Link(q, p, l))
    BY <2>3 DEF KeptOK
  <2>5. Id(Link(q, p, l)) = IdBase(l) + q
    BY DEF Id, Link
  <2>6. IdBase(l) + q \in DOMAIN clients[p]
    BY <1>2, <1>3, <1>7, <2>4, <2>5
  <2>7. Waits(p)
    BY <1>1, <1>2
  <2> QED BY <1>2, <1>9, <2>1, <2>2, <2>6, <2>7 DEF Waits, Wanted
<1>10. PICK p \in Party : pc[p] = "serve"
  <2>1. x \in Party
    BY <1>6 DEF Host
  <2> QED BY <1>8, <2>1
<1>11. layers \in {1, 2} /\ \A q \in Party : layer[q] \in {0, 1} /\ (pc[q] = "done" => layer[q] = layers - 1)
  BY <1>2 DEF TypeOK, Layer, SockOK
<1>12. CASE \E q \in Party : pc[q] = "serve" /\ layer[q] = 0
  <2>1. PICK q \in Party : pc[q] = "serve" /\ layer[q] = 0
    BY <1>12
  <2>2. \A r \in Party : layer[q] < layer[r] \/ layer[q] = layer[r]
    BY <1>11, <2>1
  <2> QED BY <1>9, <2>1, <2>2
<1>13. CASE ~ \E q \in Party : pc[q] = "serve" /\ layer[q] = 0
  <2>1. layer[p] = 1
    BY <1>10, <1>11, <1>13
  <2>2. layers = 2
    BY <1>11, <2>1 DEF CursorOK
  <2>3. \A r \in Party : layer[r] = 1
    BY <1>8, <1>11, <1>13, <2>2
  <2> QED BY <1>9, <1>10, <2>1, <2>3
<1> QED BY <1>12, <1>13

LEMMA TimesOutWhenLate ==
  ASSUME IInv, TimesOut, NEW x \in Host, pc[x] \in {"greet", "serve", "connect"}
  PROVE  late # {}
  BY NeverStuck DEF TimesOut, IInv, Loops, CalmOK

(* Filing a connection where it belongs.                                    *)
LEMMA RegisterKeeps ==
  ASSUME TypeOK, FiledOK, NEW x \in Host, NEW c \in Conn, c.to = x, Register(x, c)
  PROVE  /\ clients' = [y \in Host |-> clients'[y]]
         /\ \A y \in Host : /\ DOMAIN clients'[y] \subseteq Int
                            /\ clients'[y] \in [DOMAIN clients'[y] -> Conn]
                            /\ \A id \in DOMAIN clients'[y] :
                                 clients'[y][id].to = y /\ Id(clients'[y][id]) = id
<1> DEFINE new == [id \in DOMAIN clients[x] \cup {Id(c)} |->
                     IF id = Id(c) THEN c ELSE clients[x][id]]
<1>1. Id(c) \in Int
  BY IdInt DEF Id, Conn
<1>2. clients' = [clients EXCEPT ![x] = new]
  BY DEF Register
<1>3. clients'[x] = new /\ \A y \in Host : y # x => clients'[y] = clients[y]
  BY <1>2 DEF TypeOK
<1>4. /\ DOMAIN new \subseteq Int /\ new \in [DOMAIN new -> Conn]
      /\ \A id \in DOMAIN new : new[id].to = x /\ Id(new[id]) = id
  BY <1>1 DEF TypeOK, FiledOK
<1>5. clients' = [y \in Host |-> clients'[y]]
  BY <1>2 DEF TypeOK
<1> HIDE DEF new
<1>6. ASSUME NEW y \in Host
      PROVE  /\ DOMAIN clients'[y] \subseteq Int
             /\ clients'[y] \in [DOMAIN clients'[y] -> Conn]
             /\ \A id \in DOMAIN clients'[y] :
                  clients'[y][id].to = y /\ Id(clients'[y][id]) = id
  <2>1. CASE y = x
    BY <1>3, <1>4, <2>1
  <2>2. CASE y # x
    <3>1. clients'[y] = clients[y]
      BY <1>3, <2>2
    <3>2. QED
      BY <3>1 DEF TypeOK, FiledOK
  <2>3. QED
    BY <2>1, <2>2
<1>7. QED
  BY <1>5, <1>6

(* The threads of a server move connections from the queue to their number.  *)
LEMMA ServerKeeps ==
  ASSUME IInv, NEW x \in Host, ServerStep(x)
  PROVE  Loops'
<1> USE DEF IInv, Loops
<1>1. CASE AcceptClient(x)
  <2> DEFINE c == Head(backlog[x])
  <2>1. /\ backlog[x] \in Seq(Conn) /\ backlog[x] # <<>>
        /\ backlog' = [backlog EXCEPT ![x] = Tail(backlog[x])]
        /\ UNCHANGED <<pc, i, layer, start, up, used, answered, sock>>
    BY <1>1 DEF AcceptClient, TypeOK
  <2>2. c \in Conn /\ c.to = x
    BY <2>1 DEF FiledOK
  <2>3. /\ Tail(backlog[x]) \in Seq(Conn)
        /\ Len(Tail(backlog[x])) = Len(backlog[x]) - 1
        /\ \A k \in 1 .. Len(Tail(backlog[x])) : Tail(backlog[x])[k] = backlog[x][k + 1]
    BY <2>1
  <2>4. \A k \in 1 .. Len(Tail(backlog[x])) : Tail(backlog[x])[k].to = x
    BY <2>1, <2>3 DEF FiledOK
  <2>5. /\ backlog' \in [Host -> Seq(Conn)]
        /\ \A y \in Host : \A k \in 1 .. Len(backlog'[y]) : backlog'[y][k].to = y
    BY <2>1, <2>3, <2>4 DEF TypeOK, FiledOK
  <2>6. CASE Register(x, c) /\ UNCHANGED jobs
    <3>1. TypeOK'
      BY <2>1, <2>2, <2>5, <2>6, RegisterKeeps DEF TypeOK, start
    <3>2. FiledOK'
      BY <2>1, <2>2, <2>5, <2>6, RegisterKeeps DEF FiledOK
    <3>3. CursorOK' /\ SockOK' /\ UsedOK' /\ CalmOK'
      BY <2>1 DEF CursorOK, SockOK, Has, UsedOK, CalmOK, start
    <3>4. QED
      BY <3>1, <3>2, <3>3
  <2>7. CASE jobs' = [jobs EXCEPT ![x] = @ \cup {c}] /\ UNCHANGED clients
    <3>1. TypeOK'
      BY <2>1, <2>2, <2>5, <2>7 DEF TypeOK, start
    <3>2. FiledOK'
      BY <2>1, <2>2, <2>5, <2>7 DEF FiledOK, TypeOK
    <3>3. CursorOK' /\ SockOK' /\ UsedOK' /\ CalmOK'
      BY <2>1 DEF CursorOK, SockOK, Has, UsedOK, CalmOK, start
    <3>4. QED
      BY <3>1, <3>2, <3>3
  <2>8. QED
    BY <1>1, <2>6, <2>7 DEF AcceptClient
<1>2. ASSUME NEW c \in jobs[x], ServeJob(x, c)
      PROVE  Loops'
  <2>1. c \in Conn /\ c.to = x
    BY DEF TypeOK, FiledOK
  <2>2. /\ Register(x, c)
        /\ jobs' = [jobs EXCEPT ![x] = @ \ {c}]
        /\ UNCHANGED <<pc, i, layer, start, up, backlog, used, answered, sock>>
    BY <1>2 DEF ServeJob
  <2>3. /\ jobs' \in [Host -> SUBSET Conn]
        /\ \A y \in Host : jobs'[y] \subseteq jobs[y]
    BY <2>2 DEF TypeOK
  <2>4. TypeOK'
    BY <2>1, <2>2, <2>3, RegisterKeeps DEF TypeOK, start
  <2>5. FiledOK'
    BY <2>1, <2>2, <2>3, RegisterKeeps DEF FiledOK
  <2>6. CursorOK' /\ SockOK' /\ UsedOK' /\ CalmOK'
    BY <2>2 DEF CursorOK, SockOK, Has, UsedOK, CalmOK, start
  <2>7. QED
    BY <2>4, <2>5, <2>6
<1>3. QED
  BY <1>1, <1>2 DEF ServerStep

(* The coordinator's loops over the parties, with no number asked for twice. *)
LEMMA CollectKeeps == ASSUME IInv, CollectClient PROVE Loops'
<1> USE DEF IInv, Loops
<1>1. pc[Coord] = "serve" /\ i[Coord] \in Party
  BY DEF CollectClient, GetConnectionSocket, CursorOK
<1>2. CASE i[Coord] \in used[Coord]
  BY <1>1, <1>2, Sizes DEF UsedOK, TypeOK
<1>3. CASE /\ i[Coord] \notin used[Coord] /\ i[Coord] \in DOMAIN clients[Coord]
           /\ Then(Coord, i[Coord], "names") /\ UNCHANGED <<layer, sock>>
           /\ used' = [used EXCEPT ![Coord] = @ \cup {i[Coord]}]
           /\ UNCHANGED <<start, up, backlog, jobs, clients, answered>>
  <2>1. /\ \A p \in Party : pc'[p] = pc[p] /\ i'[p] = i[p]
        /\ pc' \in [Host -> Places] /\ i' \in [Host -> Int]
        /\ \/ pc' = pc /\ i'[Coord] = i[Coord] + 1 /\ i[Coord] + 1 < N
           \/ pc'[Coord] = "names"
    <3>1. CASE i[Coord] + 1 < N
      <4>1. i' = [i EXCEPT ![Coord] = i[Coord] + 1] /\ pc' = pc
        BY <1>3, <3>1 DEF Then
      <4>i. i[Coord] \in Int
        BY Sizes DEF TypeOK
      <4>2. i[Coord] + 1 \in Int
        BY <4>i
      <4>3. i' \in [Host -> Int] /\ i'[Coord] = i[Coord] + 1 /\ \A p \in Party : i'[p] = i[p]
        BY <4>1, <4>2, Sizes DEF TypeOK
      <4>4. QED
        BY <3>1, <4>1, <4>3 DEF TypeOK
    <3>2. CASE ~(i[Coord] + 1 < N)
      <4>1. i' = [i EXCEPT ![Coord] = 0] /\ pc' = [pc EXCEPT ![Coord] = "names"]
        BY <1>3, <3>2 DEF Then
      <4>2. QED
        BY <4>1, Sizes DEF TypeOK, Places
    <3>3. QED
      BY <3>1, <3>2
  <2>u. /\ used' \in [Host -> SUBSET Int]
        /\ used'[Coord] = used[Coord] \cup {i[Coord]}
        /\ \A p \in Party : used'[p] = used[p]
    BY <1>1, <1>3, Sizes DEF TypeOK
  <2>2. TypeOK'
    BY <1>3, <2>1, <2>u DEF TypeOK, start
  <2>3. CursorOK'
    BY <1>1, <1>3, <2>1, Sizes DEF CursorOK, start, Party
  <2>4. FiledOK'
    BY <1>3 DEF FiledOK
  <2>5. SockOK'
    BY <1>3, <2>1 DEF SockOK, Has, start
  <2>6. UsedOK'
    <3>1. ASSUME NEW q \in Party, pc'[Coord] \in {"off", "serve"}, q \in used'[Coord]
          PROVE  q < i'[Coord]
      <4>1. i'[Coord] = i[Coord] + 1
        BY <2>1, <3>1
      <4>2. q = i[Coord] \/ q < i[Coord]
        BY <1>1, <2>u, <3>1 DEF UsedOK
      <4>3. q \in Int /\ i[Coord] \in Int
        BY <1>1, Sizes
      <4>4. QED
        BY <4>1, <4>2, <4>3
    <3>2. QED
      BY <1>3, <2>1, <2>u, <3>1 DEF UsedOK, start
  <2>7. CalmOK'
    BY <1>3, <2>1, Sizes DEF CalmOK, start, Host
  <2>8. QED
    BY <2>2, <2>3, <2>4, <2>5, <2>6, <2>7
<1>4. CASE /\ TimesOut /\ pc' = [pc EXCEPT ![Coord] = "timed_out"]
           /\ UNCHANGED <<i, layer, start, servers, answered, sock>>
  <2>1. late # {}
    BY <1>1, <1>4, Sizes, TimesOutWhenLate
  <2>2. /\ \A p \in Party : pc'[p] = pc[p]
        /\ pc' \in [Host -> Places] /\ pc'[Coord] = "timed_out"
    BY <1>4, Sizes DEF TypeOK, Places
  <2>3. TypeOK'
    BY <1>4, <2>2 DEF TypeOK, start, servers
  <2>4. UNCHANGED <<i, layer, late, layers, backlog, jobs, clients, used, sock>>
    BY <1>4 DEF start, servers
  <2>5. CursorOK'
    BY <1>1, <2>2, <2>4, Sizes DEF CursorOK
  <2>6. FiledOK' /\ UsedOK' /\ CalmOK'
    BY <2>1, <2>2, <2>4 DEF FiledOK, UsedOK, CalmOK
  <2>7. SockOK'
    BY <2>2, <2>4 DEF SockOK, Has
  <2>8. QED
    BY <2>3, <2>5, <2>6, <2>7
<1>5. QED
  BY <1>2, <1>3, <1>4 DEF CollectClient, GetConnectionSocket, Wanted

LEMMA CoordinatorKeeps == ASSUME IInv, CoordinatorStep PROVE Loops'
<1> USE DEF IInv, Loops
<1>1. CASE GetNames
  <2>1. /\ \A p \in Party : pc'[p] = pc[p]
        /\ pc' \in [Host -> Places] /\ pc'[Coord] = "send"
    BY <1>1, Sizes DEF GetNames, TypeOK, Places
  <2>2. TypeOK'
    BY <1>1, <2>1 DEF GetNames, TypeOK, start, servers
  <2>3. CursorOK' /\ FiledOK' /\ SockOK' /\ UsedOK'
    BY <1>1, <2>1 DEF GetNames, CursorOK, FiledOK, SockOK, Has, UsedOK, start, servers
  <2>4. CalmOK'
    BY <1>1, <2>1 DEF GetNames, CalmOK, start, Host
  <2>5. QED
    BY <2>2, <2>3, <2>4
<1>2. CASE SendNames
  <2>1. /\ \A p \in Party : pc'[p] = pc[p] /\ i'[p] = i[p]
        /\ pc' \in [Host -> Places] /\ pc'[Coord] \in {"send", "done"}
        /\ i' \in [Host -> Int]
    <3>1. CASE i[Coord] + 1 < N
      BY <1>2, <3>1, Sizes DEF SendNames, Then, TypeOK, Places
    <3>2. CASE ~(i[Coord] + 1 < N)
      BY <1>2, <3>2, Sizes DEF SendNames, Then, TypeOK, Places
    <3>3. QED
      BY <3>1, <3>2
  <2>2. TypeOK'
    BY <1>2, <2>1 DEF SendNames, TypeOK, start, servers
  <2>3. CursorOK'
    BY <1>2, <2>1, Sizes DEF SendNames, CursorOK, start
  <2>f. FiledOK' /\ UsedOK'
    BY <1>2, <2>1 DEF SendNames, FiledOK, UsedOK, start, servers
  <2>s. SockOK'
    <3>1. UNCHANGED <<layer, layers, sock>>
      BY <1>2 DEF SendNames, start
    <3>2. QED
      BY <2>1, <3>1 DEF SockOK, Has
  <2>4. CalmOK'
    BY <1>2, <2>1 DEF SendNames, CalmOK, start, Host
  <2>5. QED
    BY <2>2, <2>3, <2>f, <2>s, <2>4
<1>3. CASE TimedOut(Coord)
  <2>1. late # {}
    BY <1>3, Sizes DEF TimedOut, CalmOK
  <2>2. QED
    BY <1>3, <2>1, Sizes, FailKeeps DEF TimedOut
<1>4. CASE CloseServer
  BY <1>4 DEF CloseServer, TypeOK, CursorOK, FiledOK, SockOK, Has, UsedOK, CalmOK, start
<1>5. QED
  BY <1>1, <1>2, <1>3, <1>4, CollectKeeps DEF CoordinatorStep

-----------------------------------------------------------------------------
(* A party connects to a server that is up.                                 *)
LEMMA ConnectKeeps ==
  ASSUME TypeOK, FiledOK, NEW p \in Party, NEW x \in Host, Connect(p, x)
  PROVE  /\ backlog' \in [Host -> Seq(Conn)]
         /\ \A y \in Host : \A k \in 1 .. Len(backlog'[y]) : backlog'[y][k].to = y
         /\ UNCHANGED <<layer, late, layers, jobs, clients, used>>
<1> DEFINE c == Link(p, x, layer[p])
<1>1. layer[p] \in Layer /\ backlog[x] \in Seq(Conn)
  BY Sizes DEF TypeOK
<1>2. c \in Conn /\ c.to = x
  BY <1>1, LinkConn
<1>3. backlog' = [backlog EXCEPT ![x] = Append(backlog[x], c)]
  BY DEF Connect
<1> HIDE DEF c
<1>4. /\ Append(backlog[x], c) \in Seq(Conn)
      /\ \A k \in 1 .. Len(Append(backlog[x], c)) : Append(backlog[x], c)[k].to = x
  BY <1>1, <1>2 DEF FiledOK
<1>5. /\ backlog' \in [Host -> Seq(Conn)]
      /\ \A y \in Host : \A k \in 1 .. Len(backlog'[y]) : backlog'[y][k].to = y
  BY <1>3, <1>4 DEF TypeOK, FiledOK
<1>6. QED
  BY <1>5 DEF Connect, start

(* The steps before a party's own connections.                              *)
LEMMA EarlyKeeps ==
  ASSUME IInv, NEW p \in Party, Start(p) \/ Greet(p) \/ Await(p) \/ NoNames(p) \/ (p = 0 /\ Join)
  PROVE  Loops'
<1> USE DEF IInv, Loops
<1>1. CASE Start(p)
  <2>1. /\ pc' \in [Host -> Places] /\ pc'[p] = "greet" /\ pc[p] = "off"
        /\ \A q \in Party : q # p => pc'[q] = pc[q]
        /\ pc'[Coord] = pc[Coord] \/ (p = 0 /\ pc[Coord] = "off" /\ pc'[Coord] = "serve")
    BY <1>1, Sizes DEF Start, TypeOK, CursorOK, Places
  <2>2. TypeOK'
    BY <1>1, <2>1 DEF Start, TypeOK, start
  <2>3. CursorOK'
    BY <1>1, <2>1, Sizes DEF Start, CursorOK, start
  <2>4. FiledOK' /\ SockOK'
    <3>1. FiledOK'
      BY <1>1 DEF Start, FiledOK
    <3>2. UNCHANGED <<i, layer, layers, sock>>
      BY <1>1 DEF Start, start
    <3>3. QED
      BY <2>1, <3>1, <3>2 DEF SockOK, Has
  <2>5. UsedOK'
    BY <1>1, <2>1 DEF Start, UsedOK, start
  <2>6. CalmOK'
    BY <1>1, <2>1 DEF Start, CalmOK, start, Host
  <2>7. QED
    BY <2>2, <2>3, <2>4, <2>5, <2>6
<1>2. CASE Greet(p)
  <2>1. CASE GiveUp(p, Coord)
    <3>1. late # {}
      BY <1>2, <2>1, Sizes, TimesOutWhenLate DEF GiveUp, Greet
    <3>2. QED
      BY <2>1, <3>1, Sizes, FailKeeps DEF GiveUp
  <2>2. CASE Connect(p, Coord) /\ pc' = [pc EXCEPT ![p] = "await"] /\ UNCHANGED <<i, sock>>
    <3>1. /\ pc' \in [Host -> Places] /\ pc'[p] = "await" /\ pc[p] = "greet"
          /\ \A q \in Host : q # p => pc'[q] = pc[q]
      BY <1>2, <2>2, Sizes DEF Greet, TypeOK, Places
    <3>2. TypeOK'
      BY <2>2, <3>1, ConnectKeeps, Sizes DEF TypeOK
    <3>3. CursorOK'
      BY <2>2, <3>1, ConnectKeeps, Sizes DEF CursorOK
    <3>4. FiledOK'
      BY <2>2, ConnectKeeps, Sizes DEF FiledOK
    <3>5. SockOK'
      BY <2>2, <3>1, ConnectKeeps, Sizes DEF SockOK, Has
    <3>6. UsedOK'
      BY <2>2, <3>1, ConnectKeeps, Sizes DEF UsedOK
    <3>7. CalmOK'
      BY <2>2, <3>1, ConnectKeeps, Sizes DEF CalmOK
    <3>8. QED
      BY <3>2, <3>3, <3>4, <3>5, <3>6, <3>7
  <2>3. QED
    BY <1>2, <2>1, <2>2 DEF Greet
<1>3. CASE Await(p)
  <2>1. /\ pc' \in [Host -> Places] /\ pc'[p] \in {"join", "connect"} /\ pc[p] = "await"
        /\ \A q \in Host : q # p => pc'[q] = pc[q] /\ i'[q] = i[q]
        /\ i' \in [Host -> Int] /\ i'[p] = p
    BY <1>3, Sizes DEF Await, TypeOK, Places
  <2>2. TypeOK'
    BY <1>3, <2>1 DEF Await, TypeOK, start
  <2>3. CursorOK'
    BY <1>3, <2>1, Sizes DEF Await, CursorOK, start, Party
  <2>4. FiledOK'
    BY <1>3 DEF Await, FiledOK
  <2>5. SockOK'
    <3>1. UNCHANGED <<layer, layers, sock>>
      BY <1>3 DEF Await, start
    <3>2. p \in Int /\ \A q \in Party : ~(p < q /\ q < i'[p])
      BY <2>1, Sizes
    <3>3. \A q \in Party : q # p => pc'[q] = pc[q] /\ i'[q] = i[q]
      BY <2>1, Sizes
    <3> SUFFICES ASSUME NEW r \in Party, NEW q \in Party
                 PROVE  /\ \A l \in Layer : l < layer'[r] => Has(r, q, l)'
                        /\ pc'[r] = "connect" /\ r < q /\ q < i'[r] => Has(r, q, layer[r])'
                        /\ pc'[r] = "serve" /\ (r < q \/ q < i'[r]) => Has(r, q, layer[r])'
                        /\ pc'[r] = "done" => layer'[r] = layers' - 1 /\ Has(r, q, layer[r])'
      BY DEF SockOK
    <3>4. CASE r = p
      <4>1. pc'[r] \notin {"serve", "done"} /\ ~(r < q /\ q < i'[r])
        BY <2>1, <3>2, <3>4
      <4>2. QED
        BY <3>1, <4>1 DEF SockOK, Has
    <3>5. CASE r # p
      <4>1. pc'[r] = pc[r] /\ i'[r] = i[r]
        BY <3>3, <3>5
      <4>2. QED
        BY <3>1, <4>1 DEF SockOK, Has
    <3>6. QED
      BY <3>4, <3>5
  <2>6. UsedOK'
    BY <1>3, <2>1, Sizes DEF Await, UsedOK, start
  <2>7. CalmOK'
    BY <1>3, <2>1, Sizes DEF Await, CalmOK, start
  <2>8. QED
    BY <2>2, <2>3, <2>4, <2>5, <2>6, <2>7
<1>4. CASE NoNames(p)
  <2>1. ProcessOf(Coord) \in Host
    BY Sizes DEF ProcessOf
  <2>2. late # {}
    BY <1>4, <2>1, Sizes DEF NoNames, Failed, CalmOK
  <2>3. QED
    BY <1>4, <2>2, Sizes, FailKeeps DEF NoNames
<1>5. CASE p = 0 /\ Join
  <2>1. /\ pc' \in [Host -> Places] /\ pc'[p] = "connect" /\ pc[p] = "join"
        /\ \A q \in Host : q # p => pc'[q] = pc[q]
    BY <1>5, Sizes DEF Join, TypeOK, Places
  <2>2. TypeOK' /\ CursorOK' /\ FiledOK'
    BY <1>5, <2>1, Sizes DEF Join, TypeOK, CursorOK, FiledOK, start, servers
  <2>3. SockOK'
    <3>1. i[p] = p
      BY <2>1 DEF CursorOK
    <3>2. \A q \in Party : ~(p < q /\ q < i[p])
      BY <3>1, Sizes
    <3>3. \A q \in Party : q # p => pc'[q] = pc[q]
      BY <2>1, Sizes
    <3>4. pc'[p] = "connect" /\ UNCHANGED <<i, layer, layers, sock>>
      BY <1>5, <2>1 DEF Join, start
    <3>5. QED
      BY <3>2, <3>3, <3>4 DEF SockOK, Has
  <2>4. UsedOK' /\ CalmOK'
    BY <1>5, <2>1, Sizes DEF Join, UsedOK, CalmOK, start, servers
  <2>5. QED
    BY <2>2, <2>3, <2>4
<1>6. QED
  BY <1>1, <1>2, <1>3, <1>4, <1>5

(* The client side of setup_sockets sets the sockets from p upwards.        *)
LEMMA ConnectToKeeps ==
  ASSUME IInv, NEW p \in Party, ConnectTo(p)
  PROVE  Loops'
<1> USE DEF IInv, Loops
<1> DEFINE q0 == i[p]
           l0 == layer[p]
<1>1. pc[p] = "connect" /\ q0 \in p .. N - 1 /\ q0 \in Party /\ q0 \in Host /\ l0 \in Layer /\ p \in Host
  BY Sizes DEF ConnectTo, CursorOK, TypeOK, Party
<1>n. p \in Int /\ q0 \in Int /\ N \in Int /\ 0 <= p /\ p <= q0 /\ q0 < N
  BY <1>1, Sizes DEF Party
<1>2. CASE GiveUp(p, q0)
  <2>1. late # {}
    BY <1>1, <1>2, Sizes, TimesOutWhenLate DEF GiveUp
  <2>2. QED
    BY <1>1, <1>2, <2>1, FailKeeps DEF GiveUp
<1>3. CASE /\ Connect(p, q0)
           /\ sock' = [sock EXCEPT ![p][l0][q0] = Link(p, q0, l0)]
           /\ IF q0 + 1 < N THEN i' = [i EXCEPT ![p] = @ + 1] /\ UNCHANGED pc
              ELSE i' = [i EXCEPT ![p] = 0] /\ pc' = [pc EXCEPT ![p] = "serve"]
  <2>1. UNCHANGED <<layer, late, layers, jobs, clients, used>>
    BY <1>1, <1>3, ConnectKeeps
  <2>2. /\ i' \in [Host -> Int] /\ pc' \in [Host -> Places]
        /\ \A x \in Host : x # p => pc'[x] = pc[x] /\ i'[x] = i[x]
        /\ \/ q0 + 1 < N /\ i'[p] = q0 + 1 /\ pc'[p] = "connect"
           \/ q0 = N - 1 /\ i'[p] = 0 /\ pc'[p] = "serve"
    <3>1. CASE q0 + 1 < N
      BY <1>1, <1>n, <1>3, <3>1 DEF TypeOK
    <3>2. CASE ~(q0 + 1 < N)
      <4>1. q0 = N - 1
        BY <1>n, <3>2
      <4>2. i' = [i EXCEPT ![p] = 0] /\ pc' = [pc EXCEPT ![p] = "serve"]
        BY <1>3, <3>2
      <4>3. QED
        BY <1>1, <4>1, <4>2 DEF TypeOK, Places
    <3>3. QED
      BY <3>1, <3>2
  <2>3. Link(p, q0, l0) \in Conn
    BY <1>1, LinkConn
  <2>4. /\ sock' \in [Party -> [Layer -> [Party -> Conn \cup {None}]]]
        /\ sock'[p][l0][q0] = Link(p, q0, l0)
        /\ \A r, q \in Party : \A l \in Layer :
             r # p \/ q # q0 \/ l # l0 => sock'[r][l][q] = sock[r][l][q]
    BY <1>1, <1>3, <2>3 DEF TypeOK
  <2>5. TypeOK'
    BY <1>1, <1>3, <2>1, <2>2, <2>4, ConnectKeeps DEF TypeOK
  <2>6. CursorOK'
    <3>1. i'[p] \in Int /\ (pc'[p] = "connect" => i'[p] \in p .. N - 1)
                       /\ (pc'[p] = "serve" => i'[p] \in 0 .. p)
      BY <1>n, <2>2
    <3>2. pc'[p] \in {"connect", "serve"}
      BY <2>2
    <3>3. QED
      BY <2>1, <2>2, <3>1, <3>2, Sizes DEF CursorOK
  <2>7. FiledOK'
    BY <1>1, <1>3, <2>1, ConnectKeeps DEF FiledOK
  <2>8. SockOK'
    <3> SUFFICES ASSUME NEW r \in Party, NEW q \in Party
                 PROVE  /\ \A l \in Layer : l < layer'[r] => Has(r, q, l)'
                        /\ pc'[r] = "connect" /\ r < q /\ q < i'[r] => Has(r, q, layer[r])'
                        /\ pc'[r] = "serve" /\ (r < q \/ q < i'[r]) => Has(r, q, layer[r])'
                        /\ pc'[r] = "done" => layer'[r] = layers' - 1 /\ Has(r, q, layer[r])'
      BY DEF SockOK
    <3>1. layer[r] \in Layer /\ r \in Host /\ r \in Int /\ q \in Int /\ p \in Int /\ q0 \in Int
      BY <1>1, Sizes DEF TypeOK
    <3>2. CASE r # p
      <4>1. \A l \in Layer : Has(r, q, l)' <=> Has(r, q, l)
        BY <2>4, <3>2 DEF Has
      <4>2. Has(r, q, layer[r])' <=> Has(r, q, layer[r])
        BY <2>1, <3>1, <4>1 DEF Has
      <4>3. QED
        BY <2>1, <2>2, <3>1, <3>2, <4>1, <4>2 DEF SockOK
    <3>3. CASE r = p
      <4>1. ASSUME NEW l \in Layer, l < layer'[r] PROVE Has(r, q, l)'
        <5>1. l < layer[r] /\ l # l0
          BY <2>1, <3>1, <3>3, <4>1 DEF Layer
        <5>2. Has(r, q, l)
          BY <5>1 DEF SockOK
        <5>3. QED
          BY <2>4, <5>1, <5>2 DEF Has
      <4>2. ASSUME p < q, q < i'[p] \/ pc'[p] = "serve" PROVE Has(r, q, layer[r])'
        <5>1. q < q0 \/ q = q0
          BY <1>1, <2>2, <3>1, <4>2, Sizes DEF Party
        <5>2. CASE q = q0
          BY <1>1, <2>1, <2>4, <3>3, <4>2, <5>2 DEF Has, Common
        <5>3. CASE q # q0
          <6>1. Has(p, q, layer[p])
            BY <1>1, <4>2, <5>1, <5>3 DEF SockOK
          <6>2. sock'[p][layer[p]][q] = sock[p][layer[p]][q] /\ layer' = layer
            BY <1>1, <2>1, <2>4, <5>3
          <6>3. QED
            BY <3>3, <6>1, <6>2 DEF Has
        <5>4. QED
          BY <5>2, <5>3
      <4>3. ~(q < 0)
        BY DEF Party
      <4>4. QED
        BY <2>2, <3>3, <4>1, <4>2, <4>3
    <3>4. QED
      BY <3>2, <3>3
  <2>9. UsedOK'
    <3>1. \A r \in Party : \A l \in Layer : \A q \in Party :
            pc[r] = "connect" /\ IdBase(l) + q \in used[r] => l < layer[r]
      BY DEF UsedOK
    <3>2. QED
      BY <1>1, <2>1, <2>2, <3>1, Sizes DEF UsedOK
  <2>10. CalmOK'
    BY <1>1, <2>1, <2>2 DEF CalmOK
  <2>11. QED
    BY <2>5, <2>6, <2>7, <2>8, <2>9, <2>10
<1>4. QED
  BY <1>2, <1>3 DEF ConnectTo

(* The server side sets the others, with what is filed under their numbers. *)
LEMMA TakeClientKeeps ==
  ASSUME IInv, NEW p \in Party, TakeClient(p)
  PROVE  Loops'
<1> USE DEF IInv, Loops
<1> DEFINE q0 == i[p]
           l0 == layer[p]
           id == IdBase(l0) + q0
<1>1. pc[p] = "serve" /\ q0 \in 0 .. p /\ q0 \in Party /\ l0 \in Layer /\ p \in Host
  BY Sizes DEF TakeClient, GetConnectionSocket, CursorOK, TypeOK, Party
<1>n. p \in Int /\ q0 \in Int /\ N \in Int /\ 0 <= q0 /\ q0 <= p /\ p < N
  BY <1>1, Sizes DEF Party
<1>2. CASE id \in used[p]
  <2>1. l0 < l0 \/ (l0 = l0 /\ q0 < q0)
    BY <1>1, <1>2 DEF UsedOK
  <2>2. QED
    BY <1>n, <1>1, <2>1 DEF Layer
<1>3. CASE /\ id \in DOMAIN clients[p]
           /\ sock' = [sock EXCEPT ![p][l0][q0] = clients[p][id]]
           /\ IF q0 < p THEN i' = [i EXCEPT ![p] = @ + 1] /\ UNCHANGED <<pc, layer>>
              ELSE NextPlayer(p)
           /\ used' = [used EXCEPT ![p] = @ \cup {id}]
           /\ UNCHANGED <<start, up, backlog, jobs, clients, answered>>
  <2>1. UNCHANGED <<late, layers, backlog, jobs, clients>>
    BY <1>3 DEF start
  <2>2. /\ clients[p][id] = Link(q0, p, l0)
        /\ Link(q0, p, l0) \in Conn /\ id \in Int
    BY <1>1, <1>3, FiledIsLink, LinkConn, IdInt
  <2>3. /\ sock' \in [Party -> [Layer -> [Party -> Conn \cup {None}]]]
        /\ sock'[p][l0][q0] = Link(q0, p, l0)
        /\ \A r, q \in Party : \A l \in Layer :
             r # p \/ q # q0 \/ l # l0 => sock'[r][l][q] = sock[r][l][q]
    BY <1>1, <1>3, <2>2 DEF TypeOK
  <2>4. /\ used' \in [Host -> SUBSET Int]
        /\ used'[p] = used[p] \cup {id}
        /\ \A x \in Host : x # p => used'[x] = used[x]
    BY <1>1, <1>3, <2>2 DEF TypeOK
  <2>5. /\ i' \in [Host -> Int] /\ pc' \in [Host -> Places] /\ layer' \in [Host -> Layer]
        /\ \A x \in Host : x # p => pc'[x] = pc[x] /\ i'[x] = i[x] /\ layer'[x] = layer[x]
        /\ \/ q0 < p /\ i'[p] = q0 + 1 /\ pc'[p] = "serve" /\ layer'[p] = l0
           \/ q0 = p /\ l0 + 1 < layers /\ i'[p] = p /\ pc'[p] = "connect" /\ layer'[p] = l0 + 1
           \/ q0 = p /\ l0 = layers - 1 /\ pc'[p] = "done" /\ layer'[p] = l0
    <3>1. CASE q0 < p
      BY <1>1, <1>n, <1>3, <3>1 DEF TypeOK
    <3>2. CASE ~(q0 < p)
      <4>1. q0 = p /\ NextPlayer(p) /\ layers \in {1, 2} /\ l0 < layers
        BY <1>1, <1>n, <1>3, <3>2 DEF TypeOK, CursorOK
      <4>2. CASE l0 + 1 < layers
        <5>1. l0 + 1 \in Layer
          BY <1>1, <4>1, <4>2 DEF Layer
        <5>2. /\ pc' = [pc EXCEPT ![p] = "connect"] /\ i' = [i EXCEPT ![p] = p]
              /\ layer' = [layer EXCEPT ![p] = l0 + 1]
          BY <4>1, <4>2 DEF NextPlayer
        <5>3. QED
          BY <1>1, <1>n, <4>1, <4>2, <5>1, <5>2 DEF TypeOK, Places
      <4>3. CASE ~(l0 + 1 < layers)
        <5>1. l0 = layers - 1
          BY <1>1, <4>1, <4>3 DEF Layer
        <5>2. pc' = [pc EXCEPT ![p] = "done"] /\ UNCHANGED <<i, layer>>
          BY <4>1, <4>3 DEF NextPlayer
        <5>3. QED
          BY <1>1, <1>n, <4>1, <5>1, <5>2 DEF TypeOK, Places
      <4>4. QED
        BY <4>2, <4>3
    <3>3. QED
      BY <3>1, <3>2
  <2>6. TypeOK'
    BY <2>1, <2>3, <2>4, <2>5 DEF TypeOK
  <2>7. CursorOK'
    <3>1. /\ layer'[p] < layers
          /\ pc'[p] = "connect" => i'[p] \in p .. N - 1
          /\ pc'[p] = "serve" => i'[p] \in 0 .. p
      BY <1>1, <1>n, <2>5 DEF CursorOK, TypeOK, Layer
    <3>2. pc'[p] \in {"connect", "serve", "done"}
      BY <2>5
    <3>3. QED
      BY <2>1, <2>5, <3>1, <3>2, Sizes DEF CursorOK
  <2>8. FiledOK'
    BY <2>1 DEF FiledOK
  <2>9. SockOK'
    <3> SUFFICES ASSUME NEW r \in Party, NEW q \in Party
                 PROVE  /\ \A l \in Layer : l < layer'[r] => Has(r, q, l)'
                        /\ pc'[r] = "connect" /\ r < q /\ q < i'[r] => Has(r, q, layer[r])'
                        /\ pc'[r] = "serve" /\ (r < q \/ q < i'[r]) => Has(r, q, layer[r])'
                        /\ pc'[r] = "done" => layer'[r] = layers' - 1 /\ Has(r, q, layer[r])'
      BY DEF SockOK
    <3>1. layer[r] \in Layer /\ layer'[r] \in Layer /\ r \in Host /\ r \in Int /\ q \in Int
      BY <2>5, Sizes DEF TypeOK
    <3>2. CASE r # p
      <4>1. \A l \in Layer : Has(r, q, l)' <=> Has(r, q, l)
        BY <2>3, <3>2 DEF Has
      <4>2. layer'[r] = layer[r] /\ (Has(r, q, layer[r])' <=> Has(r, q, layer[r]))
        BY <2>5, <3>1, <3>2, <4>1 DEF Has
      <4>3. QED
        BY <2>1, <2>5, <3>1, <3>2, <4>1, <4>2 DEF SockOK
    <3>3. CASE r = p
      <4>0. PICK m \in Layer : m = l0   \* the layer before the step
        BY <1>1
      <4>1. ASSUME NEW l \in Layer, l < l0 PROVE Has(p, q, l)'
        <5>1. l # l0 /\ Has(p, q, l)
          BY <1>1, <4>1 DEF SockOK, Layer
        <5>2. QED
          BY <2>3, <5>1 DEF Has
      <4>2. ASSUME p < q \/ q < q0 \/ q = q0 PROVE Has(p, q, m)'
        <5>1. CASE q = q0
          BY <1>1, <1>n, <2>3, <4>0, <5>1 DEF Has, Common
        <5>2. CASE q # q0
          <6>1. Has(p, q, m)
            BY <1>1, <4>0, <4>2, <5>2 DEF SockOK
          <6>2. QED
            BY <1>1, <2>3, <5>2, <6>1 DEF Has
        <5>3. QED
          BY <5>1, <5>2
      <4>3. CASE q0 < p /\ i'[p] = q0 + 1 /\ pc'[p] = "serve" /\ layer'[p] = l0
        <5>1. q < i'[p] => q < q0 \/ q = q0
          BY <1>n, <3>1, <4>3
        <5>2. p < q \/ q < i'[p] => Has(r, q, layer[r])'
          BY <3>3, <4>0, <4>2, <4>3, <5>1 DEF Has
        <5>3. QED
          BY <3>3, <4>1, <4>3, <5>2
      <4>4. p < q \/ q < p \/ q = p
        BY <3>1, <1>n
      <4>5. CASE q0 = p /\ l0 + 1 < layers /\ i'[p] = p /\ pc'[p] = "connect" /\ layer'[p] = l0 + 1
        <5>1. Has(p, q, m)'
          BY <4>2, <4>4, <4>5
        <5>2. \A l \in Layer : l < layer'[p] => l < l0 \/ l = m
          BY <1>1, <4>0, <4>5 DEF Layer
        <5>3. \A l \in Layer : l < layer'[p] => Has(p, q, l)'
          BY <4>1, <5>1, <5>2
        <5>4. ~(p < q /\ q < i'[p])
          BY <1>n, <3>1, <4>5
        <5>5. QED
          BY <3>3, <4>5, <5>3, <5>4
      <4>6. CASE q0 = p /\ l0 = layers - 1 /\ pc'[p] = "done" /\ layer'[p] = l0
        <5>1. Has(r, q, layer[r])'
          BY <3>3, <4>0, <4>2, <4>4, <4>6 DEF Has
        <5>2. QED
          BY <2>1, <3>3, <4>1, <4>6, <5>1
      <4>7. QED
        BY <2>5, <4>3, <4>5, <4>6
    <3>4. QED
      BY <3>2, <3>3
  <2>10. UsedOK'
    <3>1. ASSUME NEW q \in Party, NEW l \in Layer, IdBase(l) + q \in used'[p]
          PROVE  l < l0 \/ (l = l0 /\ (q < q0 \/ q = q0))
      <4>1. CASE IdBase(l) + q \in used[p]
        BY <1>1, <4>1 DEF UsedOK
      <4>2. CASE IdBase(l) + q = id
        BY <1>1, <4>2, IdUnique
      <4>3. QED
        BY <2>4, <3>1, <4>1, <4>2
    <3>2. ASSUME NEW q \in Party, NEW l \in Layer, IdBase(l) + q \in used'[p]
          PROVE  /\ pc'[p] \in {"off", "greet", "await", "join", "connect"} => l < layer'[p]
                 /\ pc'[p] = "serve" => l < layer'[p] \/ (l = layer'[p] /\ q < i'[p])
      <4>1. q \in Int /\ (l < l0 \/ (l = l0 /\ (q < q0 \/ q = q0)))
        BY <3>1, <3>2, Sizes
      <4>2. CASE q0 < p /\ i'[p] = q0 + 1 /\ pc'[p] = "serve" /\ layer'[p] = l0
        BY <1>n, <4>1, <4>2
      <4>3. CASE pc'[p] = "connect" /\ layer'[p] = l0 + 1
        BY <1>1, <4>1, <4>3 DEF Layer
      <4>4. CASE pc'[p] = "done"
        BY <4>4
      <4>5. QED
        BY <2>5, <4>2, <4>3, <4>4
    <3>3. QED
      BY <2>4, <2>5, <3>2, Sizes DEF UsedOK
  <2>11. CalmOK'
    BY <1>1, <2>1, <2>5 DEF CalmOK
  <2>12. QED
    BY <2>6, <2>7, <2>8, <2>9, <2>10, <2>11
<1>4. CASE /\ TimesOut /\ pc' = [pc EXCEPT ![p] = "timed_out"]
           /\ UNCHANGED <<i, layer, start, servers, answered, sock>>
  <2>1. late # {}
    BY <1>1, <1>4, Sizes, TimesOutWhenLate
  <2>2. UNCHANGED <<i, layer, late, layers, backlog, jobs, clients, used, sock>>
    BY <1>4 DEF start, servers
  <2>3. /\ pc' \in [Host -> Places] /\ pc'[p] = "timed_out"
        /\ \A x \in Host : x # p => pc'[x] = pc[x]
    BY <1>1, <1>4 DEF TypeOK, Places
  <2>4. TypeOK' /\ FiledOK' /\ CalmOK'
    BY <2>1, <2>2, <2>3 DEF TypeOK, FiledOK, CalmOK
  <2>5. CursorOK'
    BY <2>2, <2>3, Sizes DEF CursorOK
  <2>6. UsedOK'
    BY <2>2, <2>3, Sizes DEF UsedOK
  <2>7. SockOK'
    <3>1. \A r \in Party : pc'[r] = pc[r] \/ pc'[r] = "timed_out"
      BY <2>3, Sizes
    <3>2. QED
      BY <2>2, <3>1 DEF SockOK, Has
  <2>8. QED
    BY <2>4, <2>5, <2>6, <2>7
<1>5. QED
  BY <1>2, <1>3, <1>4, Sizes DEF TakeClient, GetConnectionSocket, Wanted

-----------------------------------------------------------------------------
-----------------------------------------------------------------------------
(***************************************************************************)
(* No connection is lost: Kept.                                            *)
(***************************************************************************)
LEMMA InitKept == Init => Kept
<1> SUFFICES ASSUME Init PROVE Kept
  OBVIOUS
<1>1. \A x \in Host : /\ pc[x] = "off" /\ i[x] = 0 /\ layer[x] = 0
                      /\ backlog[x] = <<>> /\ jobs[x] = {} /\ DOMAIN clients[x] = {}
  BY DEF Init
<1>2. \A q \in Party : NoneFrom(q)
  BY <1>1, Sizes DEF NoneFrom
<1>3. KeptOK
  BY <1>1, Sizes DEF KeptOK, Connected, Layer
<1>4. UpOK /\ AnsweredOK
  BY <1>1, <1>2, Sizes DEF UpOK, AnsweredOK
<1> QED BY <1>3, <1>4 DEF Kept

\* The servers lose nothing, and get nothing from a party that has not connected.
NothingLost == \A y \in Host : \A c \in Conn : Held(y, c) => Held(y, c)'
NothingNew  == \A q \in Party : pc'[q] \in {"off", "greet"} /\ NoneFrom(q) => NoneFrom(q)'

LEMMA SameQueues == UNCHANGED <<backlog, jobs, clients>> => NothingLost /\ NothingNew
  BY DEF NothingLost, NothingNew, Held, NoneFrom

LEMMA Links ==
  \A p, q \in Party : \A l \in Layer :
    /\ Link(p, q, l) \in Conn /\ Link(p, Coord, l) \in Conn
    /\ 0 \in Layer
  BY Sizes, LinkConn DEF Layer

(* Where nobody has connected to a party in this step, KeptOK stays.        *)
LEMMA KeptWhen ==
  ASSUME KeptOK, NothingLost,
         \A p \in Party : pc'[p] \in {"await", "join", "connect", "serve", "done"}
           => \/ pc[p] \in {"await", "join", "connect", "serve", "done"}
              \/ Held(Coord, Link(p, Coord, 0))',
         \A p, q \in Party : \A l \in Layer : Connected(p, q, l)' => Connected(p, q, l)
  PROVE  KeptOK'
<1>1. ASSUME NEW p \in Party, pc'[p] \in {"await", "join", "connect", "serve", "done"}
      PROVE  Held(Coord, Link(p, Coord, 0))'
  <2>1. CASE pc[p] \in {"await", "join", "connect", "serve", "done"}
    <3>1. Held(Coord, Link(p, Coord, 0))
      BY <2>1 DEF KeptOK
    <3>2. Link(p, Coord, 0) \in Conn /\ Coord \in Host
      BY Sizes, LinkConn DEF Layer
    <3>3. PICK c \in Conn : c = Link(p, Coord, 0)
      BY <3>2
    <3>4. Held(Coord, c)'
      BY <3>1, <3>2, <3>3 DEF NothingLost
    <3> QED BY <3>3, <3>4 DEF Held
  <2> QED BY <1>1, <2>1
<1>2. ASSUME NEW p \in Party, NEW q \in Party, NEW l \in Layer, Connected(p, q, l)'
      PROVE  Held(q, Link(p, q, l))'
  <2>1. Held(q, Link(p, q, l))
    BY <1>2 DEF KeptOK
  <2>2. Link(p, q, l) \in Conn /\ q \in Host
    BY Sizes, Links
  <2>3. PICK c \in Conn : c = Link(p, q, l)
    BY <2>2
  <2>4. Held(q, c)'
    BY <2>1, <2>2, <2>3 DEF NothingLost
  <2> QED BY <2>3, <2>4 DEF Held
<1> QED BY <1>1, <1>2 DEF KeptOK

(* The threads of a server.                                                 *)
LEMMA RegisterHolds ==
  ASSUME TypeOK, NEW x \in Host, NEW c, Register(x, c)
  PROVE  /\ Id(c) \in DOMAIN clients'[x]
         /\ \A y \in Host : DOMAIN clients[y] \subseteq DOMAIN clients'[y]
         /\ \A y \in Host : \A id \in DOMAIN clients'[y] :
              \/ y = x /\ clients'[y][id] = c
              \/ id \in DOMAIN clients[y] /\ clients'[y][id] = clients[y][id]
<1> DEFINE new == [id \in DOMAIN clients[x] \cup {Id(c)} |->
                     IF id = Id(c) THEN c ELSE clients[x][id]]
<1>1. clients' = [clients EXCEPT ![x] = new]
  BY DEF Register
<1>2. clients'[x] = new /\ \A y \in Host : y # x => clients'[y] = clients[y]
  BY <1>1 DEF TypeOK
<1>3. /\ Id(c) \in DOMAIN new /\ DOMAIN clients[x] \subseteq DOMAIN new
      /\ \A id \in DOMAIN new : new[id] = c \/ (id \in DOMAIN clients[x] /\ new[id] = clients[x][id])
  OBVIOUS
<1> HIDE DEF new
<1> QED BY <1>2, <1>3

LEMMA ServerHolds ==
  ASSUME TypeOK, NEW x \in Host, ServerStep(x)
  PROVE  NothingLost /\ NothingNew /\ UNCHANGED <<pc, i, layer, up, answered>>
<1>1. CASE AcceptClient(x)
  <2> DEFINE c == Head(backlog[x])
  <2>1. /\ backlog[x] \in Seq(Conn) /\ backlog[x] # <<>>
        /\ backlog' = [backlog EXCEPT ![x] = Tail(backlog[x])]
        /\ UNCHANGED <<pc, i, layer, up, answered>>
    BY <1>1 DEF AcceptClient, TypeOK
  <2>2. /\ backlog'[x] = Tail(backlog[x]) /\ \A y \in Host : y # x => backlog'[y] = backlog[y]
    BY <2>1 DEF TypeOK
  <2>3. /\ c = backlog[x][1] /\ 1 \in 1 .. Len(backlog[x])
        /\ Len(Tail(backlog[x])) = Len(backlog[x]) - 1 /\ Len(backlog[x]) \in Nat
        /\ \A k \in 1 .. Len(Tail(backlog[x])) :
             k + 1 \in 1 .. Len(backlog[x]) /\ Tail(backlog[x])[k] = backlog[x][k + 1]
    BY <2>1
  <2>4. \A k \in 1 .. Len(backlog[x]) :
          backlog[x][k] = c \/ \E j \in 1 .. Len(backlog'[x]) : backlog'[x][j] = backlog[x][k]
    <3> SUFFICES ASSUME NEW k \in 1 .. Len(backlog[x]), k # 1
                 PROVE  \E j \in 1 .. Len(backlog'[x]) : backlog'[x][j] = backlog[x][k]
      BY <2>3
    <3>1. k - 1 \in 1 .. Len(Tail(backlog[x])) /\ Tail(backlog[x])[k - 1] = backlog[x][(k - 1) + 1]
      BY <2>3
    <3>2. (k - 1) + 1 = k
      OBVIOUS
    <3> QED BY <2>2, <3>1, <3>2
  <2>5. \A k \in 1 .. Len(backlog'[x]) :
          \E j \in 1 .. Len(backlog[x]) : backlog'[x][k] = backlog[x][j]
    BY <2>2, <2>3
  <2> HIDE DEF c
  <2>6. CASE Register(x, c) /\ UNCHANGED jobs
    <3>1. /\ Id(c) \in DOMAIN clients'[x]
          /\ \A y \in Host : DOMAIN clients[y] \subseteq DOMAIN clients'[y]
          /\ \A y \in Host : \A id \in DOMAIN clients'[y] :
               \/ y = x /\ clients'[y][id] = c
               \/ id \in DOMAIN clients[y] /\ clients'[y][id] = clients[y][id]
      BY <2>6, RegisterHolds
    <3>2. NothingLost
      <4> SUFFICES ASSUME NEW y \in Host, NEW d \in Conn, Held(y, d) PROVE Held(y, d)'
        BY DEF NothingLost
      <4>1. CASE \E k \in 1 .. Len(backlog[y]) : backlog[y][k] = d
        <5>1. CASE y = x /\ d # c
          <6>1. \E j \in 1 .. Len(backlog'[x]) : backlog'[x][j] = d
            BY <2>4, <4>1, <5>1
          <6>2. (\E j \in 1 .. Len(backlog[x]) : backlog[x][j] = d)' => Held(x, d)'
            BY DEF Held
          <6> QED BY <5>1, <6>1, <6>2
        <5>2. CASE y = x /\ d = c
          BY <3>1, <5>2 DEF Held
        <5>3. CASE y # x
          BY <2>2, <4>1, <5>3 DEF Held
        <5> QED BY <5>1, <5>2, <5>3
      <4>2. CASE d \in jobs[y]
        BY <2>6, <4>2 DEF Held
      <4>3. CASE Id(d) \in DOMAIN clients[y]
        BY <3>1, <4>3 DEF Held
      <4> QED BY <4>1, <4>2, <4>3 DEF Held
    <3>3. NothingNew
      <4> SUFFICES ASSUME NEW q \in Party, NoneFrom(q) PROVE NoneFrom(q)'
        BY DEF NothingNew
      <4>1. x = Coord => c.from # q
        BY <2>3 DEF NoneFrom
      <4>2. \A n \in 1 .. Len(backlog'[Coord]) : backlog'[Coord][n].from # q
        <5> SUFFICES ASSUME NEW n \in 1 .. Len(backlog'[Coord])
                     PROVE  \E j \in 1 .. Len(backlog[Coord]) : backlog'[Coord][n] = backlog[Coord][j]
          BY DEF NoneFrom
        <5>1. CASE x = Coord
          BY <2>5, <5>1
        <5>2. CASE x # Coord
          BY <2>2, <5>2, Sizes
        <5> QED BY <5>1, <5>2
      <4>3. \A d \in jobs'[Coord] : d.from # q
        BY <2>6, <3>1, <4>1, Sizes DEF NoneFrom
      <4>4. \A id \in DOMAIN clients'[Coord] : clients'[Coord][id].from # q
        BY <2>6, <3>1, <4>1, Sizes DEF NoneFrom
      <4> QED BY <4>2, <4>3, <4>4 DEF NoneFrom
    <3> QED BY <2>1, <3>2, <3>3
  <2>7. CASE jobs' = [jobs EXCEPT ![x] = @ \cup {c}] /\ UNCHANGED clients
    <3>1. jobs'[x] = jobs[x] \cup {c} /\ \A y \in Host : y # x => jobs'[y] = jobs[y]
      BY <2>7 DEF TypeOK
    <3>2. NothingLost
      BY <2>2, <2>4, <2>7, <3>1 DEF NothingLost, Held
    <3>3. NothingNew
      <4> SUFFICES ASSUME NEW q \in Party, NoneFrom(q) PROVE NoneFrom(q)'
        BY DEF NothingNew
      <4>1. x = Coord => c.from # q
        BY <2>3 DEF NoneFrom
      <4>2. \A n \in 1 .. Len(backlog'[Coord]) : backlog'[Coord][n].from # q
        <5> SUFFICES ASSUME NEW n \in 1 .. Len(backlog'[Coord])
                     PROVE  \E j \in 1 .. Len(backlog[Coord]) : backlog'[Coord][n] = backlog[Coord][j]
          BY DEF NoneFrom
        <5>1. CASE x = Coord
          BY <2>5, <5>1
        <5>2. CASE x # Coord
          BY <2>2, <5>2, Sizes
        <5> QED BY <5>1, <5>2
      <4>3. \A d \in jobs'[Coord] : d.from # q
        BY <2>7, <3>1, <4>1, Sizes DEF NoneFrom
      <4>4. \A id \in DOMAIN clients'[Coord] : clients'[Coord][id].from # q
        BY <2>7, <3>1, <4>1, Sizes DEF NoneFrom
      <4> QED BY <4>2, <4>3, <4>4 DEF NoneFrom
    <3> QED BY <2>1, <3>2, <3>3
  <2> QED BY <1>1, <2>6, <2>7 DEF AcceptClient, c
<1>2. ASSUME NEW c \in jobs[x], ServeJob(x, c)
      PROVE  NothingLost /\ NothingNew /\ UNCHANGED <<pc, i, layer, up, answered>>
  <2>1. /\ Register(x, c) /\ jobs' = [jobs EXCEPT ![x] = @ \ {c}]
        /\ UNCHANGED <<pc, i, layer, up, backlog, answered>>
    BY <1>2 DEF ServeJob
  <2>2. jobs'[x] = jobs[x] \ {c} /\ \A y \in Host : y # x => jobs'[y] = jobs[y]
    BY <2>1 DEF TypeOK
  <2>3. /\ Id(c) \in DOMAIN clients'[x]
        /\ \A y \in Host : DOMAIN clients[y] \subseteq DOMAIN clients'[y]
        /\ \A y \in Host : \A id \in DOMAIN clients'[y] :
             \/ y = x /\ clients'[y][id] = c
             \/ id \in DOMAIN clients[y] /\ clients'[y][id] = clients[y][id]
    BY <2>1, RegisterHolds
  <2>4. NothingLost
    BY <2>1, <2>2, <2>3 DEF NothingLost, Held
  <2>5. NothingNew
    <3> SUFFICES ASSUME NEW q \in Party, NoneFrom(q) PROVE NoneFrom(q)'
      BY DEF NothingNew
    <3>1. x = Coord => c.from # q
      BY DEF NoneFrom
    <3> QED BY <2>1, <2>2, <2>3, <3>1, Sizes DEF NoneFrom
  <2> QED BY <2>1, <2>4, <2>5
<1> QED BY <1>1, <1>2 DEF ServerStep

(* A new connection.                                                        *)
LEMMA ConnectHolds ==
  ASSUME TypeOK, NEW p \in Party, NEW x \in Host, Connect(p, x), pc'[p] \notin {"off", "greet"}
  PROVE  /\ NothingLost /\ NothingNew
         /\ Held(x, Link(p, x, layer[p]))'
         /\ UNCHANGED <<layer, up, answered>>
<1>1. PICK c : c = Link(p, x, layer[p])
  OBVIOUS
<1>2. backlog[x] \in Seq(Conn) /\ c \in Conn /\ c.from = p
  <2>1. layer[p] \in Layer
    BY Sizes DEF TypeOK
  <2> QED BY <1>1, <2>1, LinkConn DEF TypeOK, Link
<1>3. backlog' = [backlog EXCEPT ![x] = Append(backlog[x], c)] /\ UNCHANGED <<layer, up, answered, jobs, clients>>
  BY <1>1 DEF Connect
<1>4. backlog'[x] = Append(backlog[x], c) /\ \A y \in Host : y # x => backlog'[y] = backlog[y]
  BY <1>3 DEF TypeOK
<1>5. /\ Len(backlog[x]) \in Nat /\ Len(backlog'[x]) = Len(backlog[x]) + 1
      /\ backlog'[x][Len(backlog[x]) + 1] = c
      /\ \A k \in 1 .. Len(backlog[x]) : backlog'[x][k] = backlog[x][k]
  BY <1>2, <1>4
<1>6. \E k \in 1 .. Len(backlog'[x]) : backlog'[x][k] = c
  <2>1. Len(backlog[x]) + 1 \in 1 .. Len(backlog'[x])
    BY <1>5
  <2> QED BY <1>5, <2>1
<1>7. \A k \in 1 .. Len(backlog[x]) : \E j \in 1 .. Len(backlog'[x]) : backlog'[x][j] = backlog[x][k]
  <2> SUFFICES ASSUME NEW k \in 1 .. Len(backlog[x])
               PROVE  k \in 1 .. Len(backlog'[x]) /\ backlog'[x][k] = backlog[x][k]
    OBVIOUS
  <2> QED BY <1>5
<1>8. \A k \in 1 .. Len(backlog'[x]) : \/ backlog'[x][k] = c
                                       \/ k \in 1 .. Len(backlog[x]) /\ backlog'[x][k] = backlog[x][k]
  BY <1>5
<1>9. NothingLost
  BY <1>3, <1>4, <1>7 DEF NothingLost, Held
<1>10. NothingNew
  <2> SUFFICES ASSUME NEW q \in Party, pc'[q] \in {"off", "greet"}, NoneFrom(q) PROVE NoneFrom(q)'
    BY DEF NothingNew
  <2>1. c.from # q
    BY <1>2
  <2> QED BY <1>3, <1>4, <1>8, <2>1, Sizes DEF NoneFrom
<1>11. (\E k \in 1 .. Len(backlog[x]) : backlog[x][k] = c)' => Held(x, c)'
  BY DEF Held
<1>12. Held(x, c)'
  BY <1>6, <1>11
<1>13. c = Link(p, x, layer[p])'
  BY <1>1, <1>3
<1> QED BY <1>3, <1>9, <1>10, <1>12, <1>13

-----------------------------------------------------------------------------
(* Who gives up leaves the connections where they are.                      *)
LEMMA FailHolds ==
  ASSUME IInv, NEW x \in Host,
         \/ Fail(x)
         \/ /\ pc[x] = "serve" /\ pc' = [pc EXCEPT ![x] = "timed_out"]
            /\ UNCHANGED <<i, layer, up, backlog, jobs, clients, answered>>
  PROVE  Kept'
<1> USE DEF IInv, Loops, Kept
<1>1. PICK p \in Party : p = ProcessOf(x)
  BY Sizes DEF ProcessOf, Host
<1>2. UNCHANGED <<i, layer, backlog, jobs, clients, answered>> /\ up' \subseteq up
  BY DEF Fail
<1>3. \A y \in Host : pc'[y] \in {pc[y], "failed", "timed_out"}
  <2>1. CASE Fail(x)
    BY <1>1, <2>1 DEF Fail, TypeOK
  <2>2. CASE pc' = [pc EXCEPT ![x] = "timed_out"]
    BY <2>2 DEF TypeOK
  <2> QED BY <2>1, <2>2
<1>4. \A y \in Host : pc'[y] \notin {"failed", "timed_out"} /\ y \in up => y \in up'
  <2>1. CASE Fail(x)
    <3>1. \A y \in Host : ProcessOf(y) = p => pc'[y] = "failed"
      BY <1>1, <2>1, Sizes DEF Fail, TypeOK, ProcessOf, Host
    <3>2. up' = up \ {y \in Host : ProcessOf(y) = p}
      BY <1>1, <2>1 DEF Fail
    <3> QED BY <3>1, <3>2
  <2>2. CASE UNCHANGED up
    BY <2>2
  <2> QED BY <2>1, <2>2
<1>5. pc'[Coord] = "off" => pc'[0] = "off"
  <2> SUFFICES ASSUME pc'[Coord] = "off" PROVE pc'[0] = "off"
    OBVIOUS
  <2>1. pc[Coord] = "off" /\ pc[0] = "off" /\ 0 \in Host
    BY <1>3, Sizes DEF UpOK
  <2>2. CASE Fail(x)
    <3>1. p # 0
      BY <1>1, <2>2, Sizes DEF Fail, TypeOK
    <3> QED BY <1>1, <2>1, <2>2, <3>1, Sizes DEF Fail, TypeOK
  <2>3. CASE pc[x] = "serve" /\ pc' = [pc EXCEPT ![x] = "timed_out"]
    BY <2>1, <2>3
  <2> QED BY <2>2, <2>3
<1>6. NothingLost /\ NothingNew
  BY <1>2, SameQueues
<1>7. KeptOK'
  <2>1. \A r, q \in Party : \A l \in Layer : Connected(r, q, l)' => Connected(r, q, l)
    BY <1>2, <1>3, Sizes DEF Connected
  <2> QED BY <1>3, <1>6, <2>1, Sizes, KeptWhen
<1>8. UpOK'
  BY <1>2, <1>3, <1>4, <1>5, Sizes DEF UpOK
<1>9. AnsweredOK'
  BY <1>2, <1>3, <1>6, Sizes DEF AnsweredOK, NothingNew
<1> QED BY <1>7, <1>8, <1>9

(* The coordinator takes connections from parties that have made one, and   *)
(* answers all of them.                                                     *)
LEMMA CollectHolds ==
  ASSUME IInv, pc[Coord] = "serve", i[Coord] \in DOMAIN clients[Coord],
         Then(Coord, i[Coord], "names"),
         UNCHANGED <<layer, up, backlog, jobs, clients, answered>>
  PROVE  Kept'
<1> USE DEF IInv, Loops, Kept
<1>1. PICK n \in Party : n = i[Coord]
  BY DEF CursorOK
<1>2. /\ \A p \in Party : pc'[p] = pc[p] /\ i'[p] = i[p]
      /\ \/ n + 1 < N /\ pc'[Coord] = "serve" /\ i'[Coord] = n + 1
         \/ n = N - 1 /\ pc'[Coord] = "names" /\ i'[Coord] = 0
  <2>1. CASE n + 1 < N
    <3>1. i' = [i EXCEPT ![Coord] = n + 1] /\ pc' = pc
      BY <1>1, <2>1 DEF Then
    <3> QED BY <2>1, <3>1, Sizes DEF TypeOK
  <2>2. CASE ~ (n + 1 < N)
    <3>1. i' = [i EXCEPT ![Coord] = 0] /\ pc' = [pc EXCEPT ![Coord] = "names"]
      BY <1>1, <2>2 DEF Then
    <3>2. n = N - 1
      BY <2>2, Sizes DEF Party
    <3> QED BY <3>1, <3>2, Sizes DEF TypeOK
  <2> QED BY <2>1, <2>2
<1>3. NothingLost /\ NothingNew
  BY SameQueues
<1>4. KeptOK'
  <2>1. \A r, q \in Party : \A l \in Layer : Connected(r, q, l)' => Connected(r, q, l)
    BY <1>2 DEF Connected
  <2> QED BY <1>2, <1>3, <2>1, Sizes, KeptWhen
<1>5. UpOK'
  BY <1>2, Sizes DEF UpOK
<1>6. ASSUME NEW q \in Party, pc[q] \in {"off", "greet"} PROVE n < q
  <2>1. PICK c : c = clients[Coord][n]
    OBVIOUS
  <2>2. c \in Conn /\ Id(c) = n /\ c.from # q /\ n <= q
    BY <1>1, <1>6, <2>1, Sizes DEF TypeOK, FiledOK, AnsweredOK, NoneFrom
  <2>3. c.from \in Party /\ c.layer \in Layer
    BY <2>2 DEF Conn
  <2>4. IdBase(c.layer) + c.from = IdBase(0) + n /\ 0 \in Layer
    BY <2>2, Sizes DEF Id, IdBase, Layer
  <2>5. c.from = n
    BY <2>3, <2>4, IdUnique
  <2> QED BY <2>2, <2>5, Sizes
<1>7. AnsweredOK'
  <2>1. ASSUME NEW q \in Party, pc'[q] \in {"off", "greet"}
        PROVE  /\ NoneFrom(q)'
               /\ pc'[Coord] = "serve" => i'[Coord] <= q
               /\ pc'[Coord] \notin {"names", "send", "done"}
    <3>1. pc[q] \in {"off", "greet"} /\ n < q
      BY <1>2, <1>6, <2>1
    <3>2. NoneFrom(q)'
      BY <1>3, <2>1, <3>1 DEF NothingNew, AnsweredOK
    <3>3. n \in Int /\ q \in Int /\ N \in Int /\ q < N
      BY Sizes DEF Party
    <3> QED BY <1>2, <3>1, <3>2, <3>3
  <2> QED BY <1>2, <2>1 DEF AnsweredOK
<1> QED BY <1>4, <1>5, <1>7

LEMMA CoordinatorHolds ==
  ASSUME IInv, GetNames \/ SendNames \/ CloseServer
  PROVE  Kept'
<1> USE DEF IInv, Loops, Kept
<1>1. /\ UNCHANGED <<layer, backlog, jobs, clients>>
      /\ \A p \in Party : pc'[p] = pc[p] /\ i'[p] = i[p] /\ (p \in up => p \in up')
      /\ \/ /\ pc[Coord] = "names" /\ pc'[Coord] = "send" /\ i[Coord] = 0 /\ UNCHANGED <<i, up, answered>>
         \/ /\ pc[Coord] = "send" /\ UNCHANGED up /\ answered' = answered \cup {i[Coord]}
            /\ \/ i[Coord] + 1 < N /\ pc' = pc /\ i'[Coord] = i[Coord] + 1
               \/ i[Coord] = N - 1 /\ pc'[Coord] = "done"
         \/ pc[Coord] = "done" /\ UNCHANGED <<pc, i, answered>>
  <2>1. CASE GetNames
    BY <2>1, Sizes DEF GetNames, UpOK, TypeOK, servers
  <2>2. CASE SendNames
    <3>1. i[Coord] \in Party
      BY <2>2 DEF SendNames, UpOK
    <3>2. CASE i[Coord] + 1 < N
      BY <2>2, <3>1, <3>2, Sizes DEF SendNames, Then, TypeOK, servers
    <3>3. CASE ~ (i[Coord] + 1 < N)
      <4>1. i[Coord] = N - 1
        BY <3>1, <3>3, Sizes DEF Party
      <4> QED BY <2>2, <3>3, <4>1, Sizes DEF SendNames, Then, TypeOK, servers
    <3> QED BY <3>2, <3>3
  <2>3. CASE CloseServer
    BY <2>3, Sizes DEF CloseServer
  <2> QED BY <2>1, <2>2, <2>3
<1>2. NothingLost /\ NothingNew
  BY <1>1, SameQueues
<1>3. KeptOK'
  <2>1. \A r, q \in Party : \A l \in Layer : Connected(r, q, l)' => Connected(r, q, l)
    BY <1>1 DEF Connected
  <2> QED BY <1>1, <1>2, <2>1, Sizes, KeptWhen
<1>4. \A q \in Party : pc'[q] \notin {"off", "greet"}
  BY <1>1 DEF AnsweredOK
<1>5. pc[Coord] = "send" => i[Coord] \in Party
  BY DEF UpOK
<1>6. UpOK'
  BY <1>1, <1>5, Sizes DEF UpOK, Party
<1>7. AnsweredOK'
  <2>1. ASSUME NEW q \in Party
        PROVE  /\ pc'[Coord] = "send" /\ q < i'[Coord] => q \in answered'
               /\ pc'[Coord] = "done" => q \in answered'
    BY <1>1, <1>5, Sizes DEF AnsweredOK, Party
  <2> QED BY <1>4, <2>1 DEF AnsweredOK
<1> QED BY <1>3, <1>6, <1>7

(* The steps of a party.                                                    *)
LEMMA EarlyHolds ==
  ASSUME IInv, NEW p \in Party,
         \/ Start(p)
         \/ Await(p)
         \/ p = 0 /\ Join
         \/ /\ pc[p] = "greet" /\ Connect(p, Coord) /\ pc' = [pc EXCEPT ![p] = "await"]
            /\ UNCHANGED <<i, sock>>
  PROVE  Kept'
<1> USE DEF IInv, Loops, Kept
<1>0. \/ p \in Host /\ p # Coord /\ layer[p] = 0
      \/ pc[p] \notin {"off", "greet", "await", "join"}
  BY Sizes DEF UpOK
<1>1. CASE Start(p)
  <2>1. /\ pc[p] = "off" /\ pc'[p] = "greet" /\ UNCHANGED <<i, layer, backlog, jobs, clients, answered>>
        /\ \A q \in Party : q # p => pc'[q] = pc[q]
        /\ \/ p = 0 /\ pc[Coord] = "off" /\ pc'[Coord] = "serve" /\ Coord \in up'
           \/ p # 0 /\ pc'[Coord] = pc[Coord]
        /\ up \subseteq up'
    BY <1>1, Sizes DEF Start, TypeOK, CursorOK
  <2>2. NothingLost /\ NothingNew
    BY <2>1, SameQueues
  <2>3. KeptOK'
    <3>1. \A r, q \in Party : \A l \in Layer : Connected(r, q, l)' => Connected(r, q, l)
      BY <2>1 DEF Connected
    <3> QED BY <2>1, <2>2, <3>1, Sizes, KeptWhen
  <2>4. UpOK'
    BY <2>1, Sizes DEF UpOK
  <2>5. AnsweredOK'
    <3>1. ASSUME NEW q \in Party, pc'[q] \in {"off", "greet"}
          PROVE  /\ NoneFrom(q)'
                 /\ pc'[Coord] = "serve" => i'[Coord] <= q
                 /\ pc'[Coord] \notin {"names", "send", "done"}
      <4>1. pc[q] \in {"off", "greet"}
        BY <2>1, <3>1
      <4>2. pc[Coord] = "off" => i[Coord] <= q
        BY Sizes DEF UpOK, Party
      <4> QED BY <2>1, <2>2, <3>1, <4>1, <4>2 DEF AnsweredOK, NothingNew
    <3>2. UNCHANGED <<i, answered>> /\ pc'[Coord] \in {"serve", pc[Coord]}
      BY <2>1
    <3> QED BY <3>1, <3>2 DEF AnsweredOK
  <2> QED BY <2>3, <2>4, <2>5
<1>2. CASE Await(p) \/ (p = 0 /\ Join)
  <2>1. /\ pc[p] \in {"await", "join"} /\ pc'[p] \in {"join", "connect"} /\ i'[p] = p
        /\ UNCHANGED <<layer, backlog, jobs, clients, answered>>
        /\ \A y \in Host : y # p => pc'[y] = pc[y] /\ i'[y] = i[y]
        /\ up \subseteq up' /\ p \in up'
    <3>1. CASE Await(p)
      BY <3>1, Sizes DEF Await, TypeOK
    <3>2. CASE p = 0 /\ Join
      <4>1. p \in up /\ i[p] = p
        BY <3>2 DEF Join, UpOK, CursorOK
      <4> QED BY <3>2, <4>1, Sizes DEF Join, TypeOK, servers
    <3> QED BY <1>2, <3>1, <3>2
  <2>2. NothingLost /\ NothingNew
    BY <2>1, SameQueues
  <2>3. KeptOK'
    <3>1. ASSUME NEW r \in Party, NEW q \in Party, NEW l \in Layer, Connected(r, q, l)'
          PROVE  Connected(r, q, l)
      <4>1. CASE r = p
        <5>1. r <= q /\ (l < layer[r] \/ (l = layer[r] /\ q < p))
          BY <2>1, <3>1, <4>1 DEF Connected
        <5>2. ~ (r <= q /\ q < p)
          BY <4>1, Sizes DEF Party
        <5> QED BY <5>1, <5>2 DEF Connected
      <4>2. CASE r # p
        BY <2>1, <3>1, <4>2, Sizes DEF Connected
      <4> QED BY <4>1, <4>2
    <3> QED BY <2>1, <2>2, <3>1, Sizes, KeptWhen
  <2>4. UpOK'
    BY <1>0, <2>1, Sizes DEF UpOK
  <2>5. AnsweredOK'
    BY <2>1, <2>2, Sizes DEF AnsweredOK, NothingNew
  <2> QED BY <2>3, <2>4, <2>5
<1>3. CASE /\ pc[p] = "greet" /\ Connect(p, Coord) /\ pc' = [pc EXCEPT ![p] = "await"]
           /\ UNCHANGED <<i, sock>>
  <2>1. /\ pc'[p] = "await" /\ \A y \in Host : y # p => pc'[y] = pc[y]
        /\ p \in Host /\ p # Coord /\ layer[p] = 0
    BY <1>0, <1>3, Sizes DEF TypeOK
  <2>2. NothingLost /\ NothingNew /\ Held(Coord, Link(p, Coord, 0))' /\ UNCHANGED <<layer, up, answered, i>>
    <3>1. /\ NothingLost /\ NothingNew /\ Held(Coord, Link(p, Coord, layer[p]))'
          /\ UNCHANGED <<layer, up, answered>>
      BY <1>3, <2>1, Sizes, ConnectHolds
    <3>2. layer[p] = 0 /\ layer'[p] = 0
      BY <2>1, <3>1
    <3> QED BY <1>3, <3>1, <3>2 DEF Held
  <2>3. KeptOK'
    <3>1. \A r, q \in Party : \A l \in Layer : Connected(r, q, l)' => Connected(r, q, l)
      BY <2>1, <2>2, Sizes DEF Connected
    <3> QED BY <2>1, <2>2, <3>1, Sizes, KeptWhen
  <2>4. UpOK'
    BY <1>3, <2>1, <2>2, Sizes DEF UpOK
  <2>5. AnsweredOK'
    BY <2>1, <2>2, Sizes DEF AnsweredOK, NothingNew
  <2> QED BY <2>3, <2>4, <2>5
<1> QED BY <1>1, <1>2, <1>3

LEMMA ConnectToHolds ==
  ASSUME IInv, NEW p \in Party, pc[p] = "connect", Connect(p, i[p]),
         IF i[p] + 1 < N THEN i' = [i EXCEPT ![p] = @ + 1] /\ UNCHANGED pc
         ELSE i' = [i EXCEPT ![p] = 0] /\ pc' = [pc EXCEPT ![p] = "serve"]
  PROVE  Kept'
<1> USE DEF IInv, Loops, Kept
<1>1. PICK n \in Party : n = i[p] /\ p <= n
  <2>1. i[p] \in p .. N - 1
    BY DEF CursorOK
  <2>2. i[p] \in Party /\ p <= i[p]
    BY <2>1, Sizes DEF Party
  <2> QED BY <2>2
<1>2. /\ \A y \in Host : y # p => pc'[y] = pc[y] /\ i'[y] = i[y]
      /\ \/ pc'[p] = "connect" /\ i'[p] = n + 1
         \/ pc'[p] = "serve" /\ n = N - 1
  <2>1. CASE n + 1 < N
    BY <1>1, <2>1, Sizes DEF TypeOK
  <2>2. CASE ~ (n + 1 < N)
    <3>1. n = N - 1
      BY <2>2, Sizes DEF Party
    <3> QED BY <1>1, <2>2, <3>1, Sizes DEF TypeOK
  <2> QED BY <2>1, <2>2
<1>3. PICK k \in Layer : k = layer[p]
  BY Sizes DEF TypeOK
<1>4. NothingLost /\ NothingNew /\ Held(n, Link(p, n, k))' /\ UNCHANGED <<layer, up, answered>>
  <2>1. pc'[p] \notin {"off", "greet"} /\ n \in Host /\ Connect(p, n)
    BY <1>1, <1>2, Sizes
  <2>2. NothingLost /\ NothingNew /\ Held(n, Link(p, n, layer[p]))' /\ UNCHANGED <<layer, up, answered>>
    BY <2>1, ConnectHolds
  <2>3. Link(p, n, layer[p])' = Link(p, n, k)
    BY <1>3, <2>2
  <2> QED BY <2>2, <2>3 DEF Held
<1>5. KeptOK'
  <2>1. ASSUME NEW r \in Party, NEW q \in Party, NEW l \in Layer, Connected(r, q, l)'
        PROVE  Connected(r, q, l) \/ (r = p /\ q = n /\ l = k)
    <3>1. CASE r = p
      <4>1. r <= q /\ (l < k \/ l = k)
        BY <1>3, <1>4, <2>1, <3>1 DEF Connected
      <4>2. q < n \/ q = n \/ l < k
        BY <1>2, <1>3, <1>4, <2>1, <3>1, <4>1, Sizes DEF Connected, Party
      <4> QED BY <1>1, <1>3, <3>1, <4>1, <4>2 DEF Connected
    <3>2. CASE r # p
      BY <1>2, <1>4, <2>1, <3>2, Sizes DEF Connected
    <3> QED BY <3>1, <3>2
  <2>2. ASSUME NEW r \in Party, NEW q \in Party, NEW l \in Layer, Connected(r, q, l)'
        PROVE  Held(q, Link(r, q, l))'
    <3>1. CASE Connected(r, q, l)
      <4>1. Held(q, Link(r, q, l))
        BY <3>1 DEF KeptOK
      <4> QED BY <1>4, <4>1, Sizes, Links DEF NothingLost
    <3>2. CASE r = p /\ q = n /\ l = k
      BY <1>4, <3>2
    <3> QED BY <2>1, <2>2, <3>1, <3>2
  <2>3. ASSUME NEW r \in Party, pc'[r] \in {"await", "join", "connect", "serve", "done"}
        PROVE  Held(Coord, Link(r, Coord, 0))'
    <3>1. pc[r] \in {"await", "join", "connect", "serve", "done"}
      BY <1>2, <2>3, Sizes
    <3>2. Held(Coord, Link(r, Coord, 0))
      BY <3>1 DEF KeptOK
    <3> QED BY <1>4, <3>2, Sizes, Links DEF NothingLost
  <2> QED BY <2>2, <2>3 DEF KeptOK
<1>6. UpOK'
  BY <1>2, <1>4, Sizes DEF UpOK
<1>7. AnsweredOK'
  BY <1>2, <1>4, Sizes DEF AnsweredOK, NothingNew
<1> QED BY <1>5, <1>6, <1>7

LEMMA TakeClientHolds ==
  ASSUME IInv, NEW p \in Party, pc[p] = "serve",
         IF i[p] < p THEN i' = [i EXCEPT ![p] = @ + 1] /\ UNCHANGED <<pc, layer>>
         ELSE NextPlayer(p),
         UNCHANGED <<up, backlog, jobs, clients, answered>>
  PROVE  Kept'
<1> USE DEF IInv, Loops, Kept
<1>1. PICK k \in Layer : k = layer[p]
  BY Sizes DEF TypeOK
<1>2. /\ \A y \in Host : y # p => pc'[y] = pc[y] /\ i'[y] = i[y] /\ layer'[y] = layer[y]
      /\ \/ pc'[p] = "serve" /\ layer'[p] = k
         \/ pc'[p] = "connect" /\ i'[p] = p /\ layer'[p] = k + 1
         \/ pc'[p] = "done" /\ layer'[p] = k
  <2>1. CASE i[p] < p
    BY <1>1, <2>1, Sizes DEF TypeOK
  <2>2. CASE ~ (i[p] < p)
    <3>1. NextPlayer(p)
      BY <2>2
    <3>2. CASE layer[p] + 1 < layers
      BY <1>1, <3>1, <3>2, Sizes DEF NextPlayer, TypeOK
    <3>3. CASE ~ (layer[p] + 1 < layers)
      BY <1>1, <3>1, <3>3, Sizes DEF NextPlayer, TypeOK
    <3> QED BY <3>2, <3>3
  <2> QED BY <2>1, <2>2
<1>3. NothingLost /\ NothingNew
  BY SameQueues
<1>4. KeptOK'
  <2>1. ASSUME NEW r \in Party, NEW q \in Party, NEW l \in Layer, Connected(r, q, l)'
        PROVE  Connected(r, q, l)
    <3>1. CASE r = p
      <4>1. r <= q /\ ~ (q < r)
        BY <2>1, Sizes DEF Connected
      <4>2. l < k \/ l = k
        BY <1>1, <1>2, <2>1, <3>1, <4>1 DEF Connected, Layer
      <4> QED BY <1>1, <3>1, <4>1, <4>2 DEF Connected
    <3>2. CASE r # p
      BY <1>2, <2>1, <3>2, Sizes DEF Connected
    <3> QED BY <3>1, <3>2
  <2> QED BY <1>2, <1>3, <2>1, Sizes, KeptWhen
<1>5. UpOK'
  BY <1>2, Sizes DEF UpOK
<1>6. AnsweredOK'
  BY <1>2, <1>3, Sizes DEF AnsweredOK, NothingNew
<1> QED BY <1>4, <1>5, <1>6

LEMMA KeptStays == IInv /\ [Next]_vars => Kept'
<1> SUFFICES ASSUME IInv, [Next]_vars PROVE Kept'
  OBVIOUS
<1>1. ASSUME NEW x \in Host, Fail(x) PROVE Kept'
  BY <1>1, FailHolds
<1>2. ASSUME NEW p \in Party, Start(p) \/ PartyStep(p) PROVE Kept'
  <2>1. CASE Start(p) \/ Await(p) \/ (p = 0 /\ Join)
    BY <2>1, EarlyHolds
  <2>2. CASE Greet(p)
    BY <1>1, <2>2, EarlyHolds, Sizes DEF Greet, GiveUp
  <2>3. CASE NoNames(p) \/ TimedOut(p)
    BY <1>1, <2>3, Sizes DEF NoNames, TimedOut
  <2>4. CASE ConnectTo(p)
    BY <1>1, <2>4, ConnectToHolds, Sizes DEF ConnectTo, GiveUp
  <2>5. CASE TakeClient(p)
    <3>1. CASE Fail(p)
      BY <1>1, <3>1, Sizes
    <3>2. CASE /\ pc' = [pc EXCEPT ![p] = "timed_out"]
               /\ UNCHANGED <<i, layer, start, servers, answered, sock>>
      BY <2>5, <3>2, FailHolds, Sizes DEF TakeClient, GetConnectionSocket, servers
    <3>3. CASE /\ IF i[p] < p THEN i' = [i EXCEPT ![p] = @ + 1] /\ UNCHANGED <<pc, layer>>
                  ELSE NextPlayer(p)
               /\ UNCHANGED <<start, up, backlog, jobs, clients, answered>>
      BY <2>5, <3>3, TakeClientHolds DEF TakeClient, GetConnectionSocket
    <3> QED BY <2>5, <3>1, <3>2, <3>3 DEF TakeClient, GetConnectionSocket
  <2> QED BY <1>2, <2>1, <2>2, <2>3, <2>4, <2>5 DEF PartyStep
<1>3. CASE CoordinatorStep
  <2>1. CASE CollectClient
    <3>0. Wanted(Coord) = i[Coord]
      BY DEF Wanted
    <3>1. CASE Fail(Coord)
      BY <1>1, <3>1, Sizes
    <3>2. CASE /\ pc' = [pc EXCEPT ![Coord] = "timed_out"]
               /\ UNCHANGED <<i, layer, start, servers, answered, sock>>
      BY <2>1, <3>2, FailHolds, Sizes DEF CollectClient, GetConnectionSocket, servers
    <3>3. CASE /\ i[Coord] \in DOMAIN clients[Coord]
               /\ Then(Coord, i[Coord], "names") /\ UNCHANGED <<layer, sock>>
               /\ UNCHANGED <<start, up, backlog, jobs, clients, answered>>
      BY <2>1, <3>3, CollectHolds DEF CollectClient, GetConnectionSocket
    <3> QED BY <2>1, <3>0, <3>1, <3>2, <3>3 DEF CollectClient, GetConnectionSocket
  <2>2. CASE TimedOut(Coord)
    BY <1>1, <2>2, Sizes DEF TimedOut
  <2> QED BY <1>3, <2>1, <2>2, CoordinatorHolds DEF CoordinatorStep
<1>4. ASSUME NEW x \in Host, ServerStep(x) PROVE Kept'
  <2>1. NothingLost /\ NothingNew /\ UNCHANGED <<pc, i, layer, up, answered>>
    BY <1>4, ServerHolds DEF IInv, Loops
  <2>2. KeptOK'
    <3>1. \A r, q \in Party : \A l \in Layer : Connected(r, q, l)' => Connected(r, q, l)
      BY <2>1 DEF Connected
    <3> QED BY <2>1, <3>1, Sizes, KeptWhen DEF IInv, Kept
  <2>3. UpOK' /\ AnsweredOK'
    BY <2>1 DEF IInv, Kept, UpOK, AnsweredOK, NothingNew
  <2> QED BY <2>2, <2>3 DEF Kept
<1>5. CASE UNCHANGED vars
  BY <1>5 DEF vars, start, servers, IInv, Kept, KeptOK, UpOK, AnsweredOK, Connected, Held, NoneFrom
<1> QED BY <1>2, <1>3, <1>4, <1>5 DEF Next, Step, Setup, LateStart, AllEnded

LEMMA Initially == Init => IInv
  BY InitLoops, InitKept DEF IInv

LEMMA LoopsStay == IInv /\ [Next]_vars => Loops'
<1> SUFFICES ASSUME IInv, [Next]_vars PROVE Loops'
  OBVIOUS
<1>1. ASSUME NEW p \in Party, Start(p) \/ PartyStep(p) PROVE Loops'
  <2>1. CASE TimedOut(p)
    <3>1. late # {}
      BY <2>1, Sizes DEF TimedOut, IInv, Loops, CalmOK
    <3>2. QED
      BY <2>1, <3>1, Sizes, FailKeeps DEF TimedOut
  <2>2. QED
    BY <1>1, <2>1, EarlyKeeps, ConnectToKeeps, TakeClientKeeps DEF PartyStep
<1>2. CASE CoordinatorStep
  BY <1>2, CoordinatorKeeps
<1>3. ASSUME NEW x \in Host, ServerStep(x) PROVE Loops'
  BY <1>3, ServerKeeps
<1>4. CASE UNCHANGED vars
  BY <1>4 DEF vars, start, servers, IInv, Loops, TypeOK, CursorOK, FiledOK, SockOK, Has, UsedOK, CalmOK
<1>5. QED
  BY <1>1, <1>2, <1>3, <1>4 DEF Next, Step, Setup, LateStart, AllEnded

LEMMA Inductive == IInv /\ [Next]_vars => IInv'
  BY LoopsStay, KeptStays DEF IInv
(* The invariant itself, for any number of parties started in any way.      *)
THEOREM Invariant == Spec => []IInv
<1>1. QED
  BY Initially, Inductive, PTL DEF Spec

(* MultiPlayer::setup_sockets and ServerSocket: two parties that are        *)
(* connected hold the two ends of one connection per player object.         *)
THEOREM EndsFit == Spec => []SocketsFit
<1>1. IInv => SocketsFit
  <2> SUFFICES ASSUME IInv, NEW p \in Party, NEW q \in Party, p # q,
                      pc[p] = "done", pc[q] = "done"
               PROVE  /\ sock[p][SendLayer(p, q)][q] = sock[q][ReceiveLayer(q, p)][p]
                      /\ \A l \in 0 .. layers - 1 :
                           {sock[p][l][q].from, sock[p][l][q].to} = {p, q}
    BY DEF SocketsFit
  <2>1. layers \in {1, 2} /\ p \in Int /\ q \in Int
    BY Sizes DEF IInv, Loops, TypeOK
  <2>2. ASSUME NEW l \in 0 .. layers - 1
        PROVE  sock[p][l][q] = Common(p, q, l) /\ sock[q][l][p] = Common(q, p, l)
    <3>1. l \in Layer /\ (l < layers - 1 \/ l = layers - 1)
      BY <2>1 DEF Layer
    <3>2. layer[p] = layers - 1 /\ layer[q] = layers - 1
      BY DEF IInv, Loops, SockOK
    <3>3. QED
      BY <3>1, <3>2 DEF IInv, Loops, SockOK, Has
  <2>3. \A l \in Layer : Common(p, q, l) = Common(q, p, l)
    BY <2>1 DEF Common
  <2>4. /\ SendLayer(p, q) = ReceiveLayer(q, p)
        /\ SendLayer(p, q) \in 0 .. layers - 1 /\ SendLayer(p, q) \in Layer
    BY <2>1 DEF SendLayer, ReceiveLayer, Layer
  <2>5. sock[p][SendLayer(p, q)][q] = sock[q][ReceiveLayer(q, p)][p]
    BY <2>2, <2>3, <2>4
  <2>6. ASSUME NEW l \in 0 .. layers - 1
        PROVE  {sock[p][l][q].from, sock[p][l][q].to} = {p, q}
    <3>1. sock[p][l][q] = Common(p, q, l)
      BY <2>2
    <3>2. /\ Link(p, q, l).from = p /\ Link(p, q, l).to = q
          /\ Link(q, p, l).from = q /\ Link(q, p, l).to = p
      BY DEF Link
    <3>3. CASE p < q
      BY <3>1, <3>2, <3>3 DEF Common
    <3>4. CASE ~(p < q)
      BY <3>1, <3>2, <3>4 DEF Common
    <3>5. QED
      BY <3>3, <3>4
  <2>7. QED
    BY <2>5, <2>6
<1>2. QED
  BY <1>1, Invariant, PTL

(* get_connection_socket, setup_names, setup_sockets: nobody gives up       *)
(* unless someone is late.                                                  *)
THEOREM Calm == Spec => []FailsOnlyIfLate
<1>1. IInv => FailsOnlyIfLate
  BY DEF IInv, Loops, CalmOK, FailsOnlyIfLate
<1>2. QED
  BY <1>1, Invariant, PTL

-----------------------------------------------------------------------------
(***************************************************************************)
(* The rounds (Channels).                                                  *)
(***************************************************************************)
(* Induction from 1 up to n.                                                *)
LEMMA UpTo ==
  ASSUME NEW n \in Nat, NEW S, 1 \in S,
         \A a \in 1 .. n : a # n /\ a \in S => a + 1 \in S
  PROVE  1 .. n \subseteq S
<1> DEFINE D == (1 .. n) \ S
<1> SUFFICES ASSUME D # {} PROVE FALSE
  OBVIOUS
<1>1. D \in SUBSET Nat
  OBVIOUS
<1> HIDE DEF D
<1>2. PICK m \in D : \A a \in D : ~ (<<a, m>> \in OpToRel(<, Nat))
  BY <1>1, NatLessThanWellFounded, WFMin
<1>3. m \in 1 .. n /\ m \notin S
  BY DEF D
<1>4. /\ m # 1 /\ m - 1 \in 1 .. n /\ m - 1 # n /\ m - 1 + 1 = m /\ m - 1 < m
      /\ m \in Nat /\ m - 1 \in Nat
  BY <1>3
<1>5. m - 1 \notin D
  BY <1>2, <1>4 DEF OpToRel
<1>6. m - 1 \in S
  BY <1>4, <1>5 DEF D
<1> QED BY <1>3, <1>4, <1>6

(* What concatenation does, element by element.                             *)
Joins(w, u, v) == /\ Len(u) \in Nat /\ Len(v) \in Nat /\ Len(w) = Len(u) + Len(v)
                  /\ \A j \in 1 .. Len(u) : w[j] = u[j]
                  /\ \A j \in 1 .. Len(v) : w[Len(u) + j] = v[j]

(* Where the elements of a concatenation come from.                         *)
LEMMA ConcatIs ==
  ASSUME NEW V, NEW u \in Seq(V), NEW v \in Seq(V), NEW w, w = u \o v
  PROVE  w \in Seq(V) /\ Joins(w, u, v)
<1>1. w \in Seq(V) /\ Len(u) \in Nat /\ Len(v) \in Nat /\ Len(w) = Len(u) + Len(v)
  OBVIOUS
<1>2. ASSUME NEW j \in 1 .. Len(u) PROVE w[j] = u[j]
  OBVIOUS
<1>3. ASSUME NEW j \in 1 .. Len(v) PROVE w[Len(u) + j] = v[j]
  OBVIOUS
<1> QED BY <1>1, <1>2, <1>3 DEF Joins

Within(u, w)    == \A k \in 1 .. Len(u) : \E j \in 1 .. Len(w) : w[j] = u[k]
OnlyOf(w, u, v) == \A j \in 1 .. Len(w) : \/ \E k \in 1 .. Len(u) : w[j] = u[k]
                                        \/ \E k \in 1 .. Len(v) : w[j] = v[k]

(* It has the elements of both sequences and no others.                     *)
LEMMA ConcatHas ==
  ASSUME NEW V, NEW u \in Seq(V), NEW v \in Seq(V), NEW w, w = u \o v
  PROVE  Within(u, w) /\ Within(v, w) /\ OnlyOf(w, u, v)
<1>1. /\ Len(u) \in Nat /\ Len(v) \in Nat /\ Len(w) = Len(u) + Len(v)
      /\ \A j \in 1 .. Len(u) : w[j] = u[j]
      /\ \A j \in 1 .. Len(v) : w[Len(u) + j] = v[j]
  <2>1. Joins(w, u, v)
    BY ConcatIs
  <2> QED BY <2>1 DEF Joins
<1>2. ASSUME NEW k \in 1 .. Len(u) PROVE \E j \in 1 .. Len(w) : w[j] = u[k]
  <2>1. k \in 1 .. Len(w) /\ w[k] = u[k]
    BY <1>1
  <2> QED BY <2>1
<1>3. ASSUME NEW k \in 1 .. Len(v) PROVE \E j \in 1 .. Len(w) : w[j] = v[k]
  <2>1. Len(u) + k \in 1 .. Len(w) /\ w[Len(u) + k] = v[k]
    BY <1>1
  <2> QED BY <2>1
<1>4. ASSUME NEW j \in 1 .. Len(w)
      PROVE  \/ \E k \in 1 .. Len(u) : w[j] = u[k]
             \/ \E k \in 1 .. Len(v) : w[j] = v[k]
  <2>1. CASE j <= Len(u)
    <3>1. j \in 1 .. Len(u) /\ w[j] = u[j]
      BY <1>1, <2>1
    <3> QED BY <3>1
  <2>2. CASE ~ (j <= Len(u))
    <3>1. PICK k : k = j - Len(u)
      OBVIOUS
    <3>2. k \in 1 .. Len(v) /\ j = Len(u) + k
      BY <1>1, <2>2, <3>1
    <3>3. w[j] = v[k]
      BY <1>1, <3>2
    <3> QED BY <3>2, <3>3
  <2> QED BY <2>1, <2>2
<1> QED BY <1>2, <1>3, <1>4 DEF Within, OnlyOf

(* The sequences s[1], s[1] \o s[2], and so on.                             *)
IsJoin(F, s, n, V) == /\ F \in [1 .. n -> Seq(V)] /\ F[1] = s[1]
                      /\ \A a \in 1 .. n : a # 1 => F[a] = F[a - 1] \o s[a]

(* There is such a function.                                                *)
LEMMA JoinExists ==
  ASSUME NEW V, NEW n \in Nat, n > 0, NEW s \in [1 .. n -> Seq(V)]
  PROVE  \E F : IsJoin(F, s, n, V)
<1> DEFINE S == {k \in 1 .. n : \E F \in [1 .. n -> Seq(V)] :
                   F[1] = s[1] /\ \A a \in 1 .. n : a # 1 /\ a <= k => F[a] = F[a - 1] \o s[a]}
<1>1. 1 \in S
  <2>1. s[1] = s[1] /\ 1 \in 1 .. n /\ \A a \in 1 .. n : a # 1 /\ a <= 1 => FALSE
    OBVIOUS
  <2> QED BY <2>1
<1>2. ASSUME NEW k \in 1 .. n, k # n, k \in S PROVE k + 1 \in S
  <2>1. PICK F \in [1 .. n -> Seq(V)] :
          F[1] = s[1] /\ \A a \in 1 .. n : a # 1 /\ a <= k => F[a] = F[a - 1] \o s[a]
    BY <1>2
  <2>2. k + 1 \in 1 .. n /\ F[k] \in Seq(V) /\ s[k + 1] \in Seq(V)
    BY <1>2
  <2>3. F[k] \o s[k + 1] \in Seq(V)
    BY <2>2
  <2> DEFINE G == [F EXCEPT ![k + 1] = F[k] \o s[k + 1]]
  <2>4. G \in [1 .. n -> Seq(V)] /\ G[1] = s[1]
    BY <2>1, <2>2, <2>3
  <2>5. ASSUME NEW a \in 1 .. n, a # 1, a <= k + 1 PROVE G[a] = G[a - 1] \o s[a]
    <3>1. a - 1 \in 1 .. n /\ a - 1 # k + 1
      BY <2>5
    <3>2. G[a - 1] = F[a - 1]
      BY <3>1
    <3>3. CASE a = k + 1
      <4>1. G[a] = F[k] \o s[k + 1] /\ a - 1 = k
        BY <2>2, <3>3
      <4> QED BY <4>1, <3>2, <3>3
    <3>4. CASE a # k + 1
      <4>1. a <= k /\ G[a] = F[a]
        BY <2>5, <3>4
      <4> QED BY <2>1, <2>5, <4>1, <3>2
    <3> QED BY <3>3, <3>4
  <2> HIDE DEF G
  <2> QED BY <2>2, <2>4, <2>5
<1> HIDE DEF S
<1>3. n \in S
  <2>1. 1 .. n \subseteq S
    BY <1>1, <1>2, UpTo
  <2> QED BY <2>1
<1>4. PICK F \in [1 .. n -> Seq(V)] :
        F[1] = s[1] /\ \A a \in 1 .. n : a # 1 /\ a <= n => F[a] = F[a - 1] \o s[a]
  BY <1>3 DEF S
<1>5. \A a \in 1 .. n : a <= n
  OBVIOUS
<1> QED BY <1>4, <1>5 DEF IsJoin

(* There is only one, and FlattenSeq is its end.                            *)
LEMMA FlattenIsJoin ==
  ASSUME NEW V, NEW n \in Nat, n > 0, NEW s \in [1 .. n -> Seq(V)]
  PROVE  \E F : IsJoin(F, s, n, V) /\ Seqs!FlattenSeq(s) = F[n]
<1>1. PICK F : IsJoin(F, s, n, V)
  BY JoinExists
<1>2. s \in Seq(Seq(V)) /\ Len(s) = n
  OBVIOUS
<1> DEFINE G == CHOOSE f : f = [a \in 1 .. n |-> IF a = 1 THEN s[a] ELSE f[a - 1] \o s[a]]
<1>3. F = [a \in 1 .. n |-> IF a = 1 THEN s[a] ELSE F[a - 1] \o s[a]]
  BY <1>1 DEF IsJoin
<1>4. G = [a \in 1 .. n |-> IF a = 1 THEN s[a] ELSE G[a - 1] \o s[a]]
  BY <1>3
<1>5. Seqs!FlattenSeq(s) = G[n]
  BY <1>2 DEF Seqs!FlattenSeq
<1> HIDE DEF G
<1> DEFINE S == {k \in 1 .. n : G[k] = F[k]}
<1>6. 1 \in S
  <2>1. 1 \in 1 .. n /\ G[1] = s[1]
    BY <1>4
  <2> QED BY <2>1, <1>1 DEF IsJoin
<1>7. ASSUME NEW k \in 1 .. n, k # n, k \in S PROVE k + 1 \in S
  <2>0. PICK q : q = k + 1
    OBVIOUS
  <2>1. q \in 1 .. n /\ q # 1 /\ q - 1 = k
    <3> HIDE DEF S
    <3>1. k \in 1 .. n /\ k # n
      BY <1>7
    <3>2. k \in Nat /\ 1 <= k /\ k < n
      BY <3>1
    <3> QED BY <2>0, <3>2
  <2>2. G[q] = G[q - 1] \o s[q]
    BY <2>1, <1>4
  <2>3. F[q] = F[q - 1] \o s[q]
    BY <2>1, <1>1 DEF IsJoin
  <2> QED BY <2>0, <2>1, <2>2, <2>3, <1>7
<1>8. n \in S
  <2> HIDE DEF S
  <2>1. 1 .. n \subseteq S
    BY <1>6, <1>7, UpTo
  <2> QED BY <2>1
<1> QED BY <1>1, <1>5, <1>8

AllIn(z, s, n)    == \A a \in 1 .. n : \A k \in 1 .. Len(s[a]) :
                        \E j \in 1 .. Len(z) : z[j] = s[a][k]
NoOthers(z, s, n) == \A j \in 1 .. Len(z) :
                        \E a \in 1 .. n : \E k \in 1 .. Len(s[a]) : z[j] = s[a][k]

(* A join has the elements of its parts, and no others.                     *)
LEMMA FlattenIs ==
  ASSUME NEW V, NEW n \in Nat, n > 0, NEW s \in [1 .. n -> Seq(V)],
         NEW z, z = Seqs!FlattenSeq(s)
  PROVE  z \in Seq(V) /\ AllIn(z, s, n) /\ NoOthers(z, s, n)
<1>1. PICK F : IsJoin(F, s, n, V) /\ z = F[n]
  BY FlattenIsJoin
<1>2. F \in [1 .. n -> Seq(V)] /\ F[1] = s[1]
      /\ \A a \in 1 .. n : a # 1 => F[a] = F[a - 1] \o s[a]
  BY <1>1 DEF IsJoin
<1> DEFINE HaveAll(m)  == \A a \in 1 .. m : \A k \in 1 .. Len(s[a]) :
                        \E j \in 1 .. Len(F[m]) : F[m][j] = s[a][k]
           Only(m) == \A j \in 1 .. Len(F[m]) :
                        \E a \in 1 .. m : \E k \in 1 .. Len(s[a]) : F[m][j] = s[a][k]
           S == {m \in 1 .. n : HaveAll(m) /\ Only(m)}
<1>3. 1 \in S
  <2>1. 1 \in 1 .. n /\ \A a \in 1 .. 1 : a = 1
    OBVIOUS
  <2>2. HaveAll(1)
    BY <1>2, <2>1
  <2>3. Only(1)
    BY <1>2, <2>1
  <2> QED BY <2>1, <2>2, <2>3
<1>4. ASSUME NEW m \in 1 .. n, m # n, m \in S PROVE m + 1 \in S
  <2>2. PICK q : q = m + 1
    OBVIOUS
  <2>1. q \in 1 .. n /\ q # 1 /\ q - 1 = m
    BY <1>4, <2>2
  <2>7. F[q] = F[q - 1] \o s[q]
    BY <1>2, <2>1
  <2>3. F[q] = F[m] \o s[q] /\ F[m] \in Seq(V) /\ s[q] \in Seq(V)
    BY <1>2, <2>1, <2>7
  <2>4. /\ \A k \in 1 .. Len(F[m]) : \E j \in 1 .. Len(F[q]) : F[q][j] = F[m][k]
        /\ \A k \in 1 .. Len(s[q]) : \E j \in 1 .. Len(F[q]) : F[q][j] = s[q][k]
        /\ \A j \in 1 .. Len(F[q]) : \/ \E k \in 1 .. Len(F[m]) : F[q][j] = F[m][k]
                                    \/ \E k \in 1 .. Len(s[q]) : F[q][j] = s[q][k]
    <3>1. Within(F[m], F[q]) /\ Within(s[q], F[q]) /\ OnlyOf(F[q], F[m], s[q])
      BY <2>3, ConcatHas
    <3> QED BY <3>1 DEF Within, OnlyOf
  <2>9. q \in 1 .. q /\ \A a \in 1 .. q : a = q \/ a \in 1 .. m
    BY <2>2
  <2>8. \A a \in 1 .. m : a \in 1 .. q
    BY <2>2
  <2>5. HaveAll(q)
    <3> SUFFICES ASSUME NEW a \in 1 .. q, NEW k \in 1 .. Len(s[a])
                 PROVE  \E j \in 1 .. Len(F[q]) : F[q][j] = s[a][k]
      OBVIOUS
    <3>1. CASE a = q
      BY <2>4, <3>1
    <3>2. CASE a # q
      <4>1. a \in 1 .. m
        BY <2>9, <3>2
      <4>2. PICK j \in 1 .. Len(F[m]) : F[m][j] = s[a][k]
        BY <1>4, <4>1
      <4> QED BY <4>2, <2>4
    <3> QED BY <3>1, <3>2
  <2>6. Only(q)
    <3> SUFFICES ASSUME NEW j \in 1 .. Len(F[q])
                 PROVE  \E a \in 1 .. q : \E k \in 1 .. Len(s[a]) : F[q][j] = s[a][k]
      OBVIOUS
    <3>1. CASE \E k \in 1 .. Len(F[m]) : F[q][j] = F[m][k]
      <4>1. PICK k \in 1 .. Len(F[m]) : F[q][j] = F[m][k]
        BY <3>1
      <4>2. PICK a \in 1 .. m : \E b \in 1 .. Len(s[a]) : F[m][k] = s[a][b]
        BY <1>4
      <4>3. a \in 1 .. q
        BY <2>8
      <4> QED BY <4>1, <4>2, <4>3
    <3>2. CASE \E k \in 1 .. Len(s[q]) : F[q][j] = s[q][k]
      BY <3>2, <2>9
    <3> QED BY <3>1, <3>2, <2>4
  <2> QED BY <2>1, <2>2, <2>5, <2>6
<1>5. n \in S
  <2> HIDE DEF S
  <2>1. 1 .. n \subseteq S
    BY <1>3, <1>4, UpTo
  <2> QED BY <2>1
<1> QED BY <1>1, <1>2, <1>5 DEF AllIn, NoOthers

-----------------------------------------------------------------------------
(***************************************************************************)
(* Who sends to whom: an exchanger is known by the distance of its         *)
(* receiver.                                                               *)
(***************************************************************************)
Distance == 1 .. N - 1
Back(p, d) == (p - d) % N
Dist(p, q) == (q - p) % N

(* The numbers of parties wrap around at N.                                 *)
LEMMA Sums ==
  /\ N \in Nat /\ N > 1
  /\ \A p \in Party : \A d \in Distance :
       /\ To(p, d) = IF p + d < N THEN p + d ELSE p + d - N
       /\ Back(p, d) = IF p - d < 0 THEN p - d + N ELSE p - d
  /\ \A p, q \in Party : Dist(p, q) = IF q - p < 0 THEN q - p + N ELSE q - p
<1>1. N \in Nat /\ N > 1
  BY SizeAssumption, CompanyAssumption
<1>2. ASSUME NEW p \in Party, NEW d \in Distance
      PROVE  /\ To(p, d) = IF p + d < N THEN p + d ELSE p + d - N
             /\ Back(p, d) = IF p - d < 0 THEN p - d + N ELSE p - d
  <2>1. To(p, d) = IF p + d < N THEN p + d ELSE p + d - N
    BY <1>1 DEF Party, Distance, To
  <2>2. Back(p, d) = IF p - d < 0 THEN p - d + N ELSE p - d
    BY <1>1 DEF Party, Distance, Back
  <2> QED BY <2>1, <2>2
<1>3. ASSUME NEW p \in Party, NEW q \in Party
      PROVE  Dist(p, q) = IF q - p < 0 THEN q - p + N ELSE q - p
  BY <1>1 DEF Party, Dist
<1> QED BY <1>1, <1>2, <1>3

(* The party d places further is another one, at that distance.             *)
LEMMA ToIs ==
  ASSUME NEW p \in Party, NEW d \in Distance
  PROVE  To(p, d) \in Party /\ To(p, d) # p /\ Dist(p, To(p, d)) = d
<1>0. N \in Nat /\ N > 1 /\ p \in 0 .. N - 1 /\ d \in 1 .. N - 1
  BY Sums DEF Party, Distance
<1>1. To(p, d) = IF p + d < N THEN p + d ELSE p + d - N
  BY Sums
<1>2. To(p, d) \in Party /\ To(p, d) # p
  BY <1>0, <1>1 DEF Party
<1>3. Dist(p, To(p, d)) = IF To(p, d) - p < 0 THEN To(p, d) - p + N ELSE To(p, d) - p
  BY <1>2, Sums
<1> QED BY <1>0, <1>1, <1>2, <1>3

(* Distances lead from any party to any other, and back.                    *)
LEMMA DistIs ==
  ASSUME NEW p \in Party, NEW q \in Party, p # q
  PROVE  Dist(p, q) \in Distance /\ To(p, Dist(p, q)) = q /\ Back(q, Dist(p, q)) = p
<1>0. N \in Nat /\ N > 1 /\ p \in 0 .. N - 1 /\ q \in 0 .. N - 1
  BY Sums DEF Party
<1>1. Dist(p, q) = IF q - p < 0 THEN q - p + N ELSE q - p
  BY Sums
<1>2. Dist(p, q) \in Distance
  BY <1>0, <1>1 DEF Distance
<1>3. /\ To(p, Dist(p, q)) = IF p + Dist(p, q) < N THEN p + Dist(p, q) ELSE p + Dist(p, q) - N
      /\ Back(q, Dist(p, q)) = IF q - Dist(p, q) < 0 THEN q - Dist(p, q) + N ELSE q - Dist(p, q)
  BY <1>2, Sums
<1> QED BY <1>0, <1>1, <1>2, <1>3

(* So does the party d places back.                                         *)
LEMMA BackIs ==
  ASSUME NEW p \in Party, NEW d \in Distance
  PROVE  Back(p, d) \in Party /\ Back(p, d) # p /\ Dist(Back(p, d), p) = d /\ To(Back(p, d), d) = p
<1>0. N \in Nat /\ N > 1 /\ p \in 0 .. N - 1 /\ d \in 1 .. N - 1
  BY Sums DEF Party, Distance
<1>1. Back(p, d) = IF p - d < 0 THEN p - d + N ELSE p - d
  BY Sums
<1>2. Back(p, d) \in Party /\ Back(p, d) # p
  BY <1>0, <1>1 DEF Party
<1>3. /\ Dist(Back(p, d), p) = IF p - Back(p, d) < 0 THEN p - Back(p, d) + N ELSE p - Back(p, d)
      /\ To(Back(p, d), d) = IF Back(p, d) + d < N THEN Back(p, d) + d ELSE Back(p, d) + d - N
  BY <1>2, Sums
<1> QED BY <1>0, <1>1, <1>2, <1>3

(* A course of n steps, each a function of where the one before has led.    *)
IsCourse(f, n, V, v, R) == /\ f \in [1 .. n + 1 -> V] /\ f[1] = v
                           /\ \A t \in 1 .. n : f[t + 1] = R[t][f[t]]

(* There is a course of any length.                                         *)
LEMMA CourseExists ==
  ASSUME NEW n \in Nat, NEW V, NEW v \in V, NEW R \in [1 .. n -> [V -> V]]
  PROVE  \E f : IsCourse(f, n, V, v, R)
<1> DEFINE S == {k \in 1 .. n + 1 : \E f \in [1 .. n + 1 -> V] :
                   f[1] = v /\ \A t \in 1 .. n : t < k => f[t + 1] = R[t][f[t]]}
<1>1. 1 \in S
  <2>1. [t \in 1 .. n + 1 |-> v] \in [1 .. n + 1 -> V] /\ [t \in 1 .. n + 1 |-> v][1] = v
    OBVIOUS
  <2>2. 1 \in 1 .. n + 1 /\ \A t \in 1 .. n : ~ (t < 1)
    OBVIOUS
  <2> QED BY <2>1, <2>2
<1>2. ASSUME NEW k \in 1 .. n + 1, k # n + 1, k \in S PROVE k + 1 \in S
  <2>1. PICK f \in [1 .. n + 1 -> V] :
          f[1] = v /\ \A t \in 1 .. n : t < k => f[t + 1] = R[t][f[t]]
    BY <1>2
  <2>2. k \in 1 .. n /\ k + 1 \in 1 .. n + 1 /\ f[k] \in V
    BY <1>2
  <2>3. R[k][f[k]] \in V
    BY <2>2
  <2> DEFINE g == [f EXCEPT ![k + 1] = R[k][f[k]]]
  <2>4. g \in [1 .. n + 1 -> V] /\ g[1] = v
    BY <2>1, <2>2, <2>3
  <2>5. ASSUME NEW t \in 1 .. n, t < k + 1 PROVE g[t + 1] = R[t][g[t]]
    <3>1. t \in 1 .. n + 1 /\ t + 1 \in 1 .. n + 1 /\ t # k + 1
      BY <2>5
    <3>2. g[t] = f[t]
      BY <3>1
    <3>3. CASE t = k
      BY <2>2, <3>1, <3>2, <3>3
    <3>4. CASE t # k
      <4>1. t < k /\ t + 1 # k + 1
        BY <2>5, <3>4
      <4>2. g[t + 1] = f[t + 1]
        BY <3>1, <4>1
      <4> QED BY <2>1, <3>2, <4>1, <4>2
    <3> QED BY <3>3, <3>4
  <2> HIDE DEF g
  <2> QED BY <2>2, <2>4, <2>5
<1> HIDE DEF S
<1>3. n + 1 \in S
  <2>1. PICK m \in Nat : m = n + 1
    OBVIOUS
  <2>2. \A a \in 1 .. m : a # m /\ a \in S => a + 1 \in S
    BY <1>2, <2>1
  <2>3. 1 .. m \subseteq S
    BY <1>1, <2>2, UpTo
  <2> QED BY <2>1, <2>3
<1>4. PICK f \in [1 .. n + 1 -> V] :
        f[1] = v /\ \A t \in 1 .. n : t < n + 1 => f[t + 1] = R[t][f[t]]
  BY <1>3 DEF S
<1>5. \A t \in 1 .. n : t < n + 1
  OBVIOUS
<1> QED BY <1>4, <1>5 DEF IsCourse

-----------------------------------------------------------------------------
(***************************************************************************)
(* What the parties are going to send each other follows from the plan:    *)
(* the program, the lies, and how many player objects there are.           *)
(***************************************************************************)
Plan == [program |-> program, lied |-> lied, layers |-> layers]

PlanOK(c) == /\ c.program \in Seq(Operation)
             /\ \A t \in 1 .. Len(c.program) : WellFormed(c.program[t])
             /\ c.lied \in [Party -> SUBSET Party] /\ c.layers \in {1, 2}
             /\ \A p \in Party : c.lied[p] # {} => p \in Liars /\ c.lied[p] = {To(p, 1)}

Ops(c) == 1 .. Len(c.program)
Kind(c, t) == c.program[t].kind
Size(c, t, p) == c.program[t].len[p]

(* The bytes of p for q in operation t.                                     *)
Mark(c, p, q, t, k) == <<p, t, k, p \in Liars /\ q \in c.lied[p]>>
Byte(c)             == {Mark(c, p, q, t, k) : p \in Party, q \in Party, t \in Nat, k \in Nat}
Bytes(c, p, q, t)   == [k \in 1 .. Size(c, t, p) |-> Mark(c, p, q, t, k)]

(* What q hashes in a broadcast, and what it has hashed at operation t.     *)
Heard(c, q, t) == Seqs!FlattenSeq([k \in 1 .. N |-> Bytes(c, k - 1, q, t)])
Hashing(c, q)  == [t \in Ops(c) |-> [h \in Seq(Byte(c)) |->
                    IF Kind(c, t) = "broadcast" THEN h \o Heard(c, q, t)
                    ELSE IF Kind(c, t) = "check" THEN <<>> ELSE h]]
Hashed(c, q)   == CHOOSE f : IsCourse(f, Len(c.program), Seq(Byte(c)), <<>>, Hashing(c, q))

Message(c, p, q, t) == IF Kind(c, t) = "check" THEN <<Hashed(c, p)[t]>> ELSE Bytes(c, p, q, t)

(* What PlanOK says of one operation.                                       *)
LEMMA PlanIs ==
  ASSUME NEW c, PlanOK(c)
  PROVE  /\ Len(c.program) \in Nat
         /\ \A t \in Ops(c) : /\ c.program[t] \in Operation /\ WellFormed(c.program[t])
                              /\ Kind(c, t) \in {"broadcast", "pass", "swap", "check"}
                              /\ \A p \in Party : Size(c, t, p) \in Nat
         /\ c.lied \in [Party -> SUBSET Party] /\ c.layers \in {1, 2}
         /\ N \in Nat /\ N > 1
<1>1. Len(c.program) \in Nat /\ \A t \in Ops(c) : c.program[t] \in Operation
  BY DEF PlanOK, Ops
<1>2. ASSUME NEW t \in Ops(c)
      PROVE  /\ Kind(c, t) \in {"broadcast", "pass", "swap", "check"}
             /\ \A p \in Party : Size(c, t, p) \in Nat
  BY <1>1 DEF Operation, Kind, Size
<1> QED BY <1>1, <1>2, SizeAssumption, CompanyAssumption DEF PlanOK, Ops

(* A broadcast or passed message has the length the plan gives it.          *)
LEMMA BytesAre ==
  ASSUME NEW c, PlanOK(c), NEW t \in Ops(c), NEW p \in Party, NEW q \in Party
  PROVE  /\ Bytes(c, p, q, t) \in Seq(Byte(c))
         /\ Len(Bytes(c, p, q, t)) = Size(c, t, p)
         /\ \A k \in 1 .. Size(c, t, p) : Bytes(c, p, q, t)[k] = Mark(c, p, q, t, k)
<1>1. t \in Nat /\ Size(c, t, p) \in Nat
  BY PlanIs DEF Ops
<1>2. \A k \in 1 .. Size(c, t, p) : Mark(c, p, q, t, k) \in Byte(c)
  BY <1>1 DEF Byte
<1> QED BY <1>1, <1>2 DEF Bytes

(* A broadcast is heard from all parties, each in whole.                    *)
LEMMA HeardIs ==
  ASSUME NEW c, PlanOK(c), NEW t \in Ops(c), NEW q \in Party
  PROVE  /\ Heard(c, q, t) \in Seq(Byte(c))
         /\ \A p \in Party : \A k \in 1 .. Size(c, t, p) :
              \E j \in 1 .. Len(Heard(c, q, t)) : Heard(c, q, t)[j] = Mark(c, p, q, t, k)
         /\ \A j \in 1 .. Len(Heard(c, q, t)) : \E p \in Party : \E k \in 1 .. Size(c, t, p) :
              Heard(c, q, t)[j] = Mark(c, p, q, t, k)
<1> DEFINE s == [k \in 1 .. N |-> Bytes(c, k - 1, q, t)]
           z == Heard(c, q, t)
<1>1. N \in Nat /\ N > 0 /\ \A k \in 1 .. N : k - 1 \in Party
  BY PlanIs DEF Party
<1>2. s \in [1 .. N -> Seq(Byte(c))]
  BY <1>1, BytesAre
<1>3. z = Seqs!FlattenSeq(s)
  BY DEF Heard
<1>4. \A k \in 1 .. N : s[k] = Bytes(c, k - 1, q, t)
  OBVIOUS
<1> HIDE DEF s, z
<1>8. z \in Seq(Byte(c)) /\ AllIn(z, s, N) /\ NoOthers(z, s, N)
  BY <1>1, <1>2, <1>3, FlattenIs
<1>5. /\ z \in Seq(Byte(c))
      /\ \A a \in 1 .. N : \A k \in 1 .. Len(s[a]) : \E j \in 1 .. Len(z) : z[j] = s[a][k]
      /\ \A j \in 1 .. Len(z) : \E a \in 1 .. N : \E k \in 1 .. Len(s[a]) : z[j] = s[a][k]
  BY <1>8 DEF AllIn, NoOthers
<1>6. ASSUME NEW p \in Party, NEW k \in 1 .. Size(c, t, p)
      PROVE  \E j \in 1 .. Len(z) : z[j] = Mark(c, p, q, t, k)
  <2>1. PICK a : a = p + 1
    OBVIOUS
  <2>2. a \in 1 .. N /\ a - 1 = p
    BY <2>1, <1>1 DEF Party
  <2>3. s[a] = Bytes(c, p, q, t)
    BY <2>2, <1>4
  <2>4. k \in 1 .. Len(s[a]) /\ s[a][k] = Mark(c, p, q, t, k)
    BY <2>3, BytesAre
  <2> QED BY <1>5, <2>2, <2>4
<1>7. ASSUME NEW j \in 1 .. Len(z)
      PROVE  \E p \in Party : \E k \in 1 .. Size(c, t, p) : z[j] = Mark(c, p, q, t, k)
  <2>1. PICK a \in 1 .. N : \E k \in 1 .. Len(s[a]) : z[j] = s[a][k]
    BY <1>5
  <2>2. PICK p : p = a - 1
    OBVIOUS
  <2>3. p \in Party /\ s[a] = Bytes(c, p, q, t)
    BY <1>1, <1>4, <2>2
  <2> QED BY <2>1, <2>3, BytesAre
<1> QED BY <1>5, <1>6, <1>7 DEF z

(* What a party hashes grows with broadcasts and is emptied by a check.     *)
LEMMA HashedIs ==
  ASSUME NEW c, PlanOK(c), NEW q \in Party
  PROVE  /\ Hashed(c, q) \in [1 .. Len(c.program) + 1 -> Seq(Byte(c))]
         /\ Hashed(c, q)[1] = <<>>
         /\ \A t \in Ops(c) :
              Hashed(c, q)[t + 1] = IF Kind(c, t) = "broadcast"
                                    THEN Hashed(c, q)[t] \o Heard(c, q, t)
                                    ELSE IF Kind(c, t) = "check" THEN <<>>
                                    ELSE Hashed(c, q)[t]
<1> DEFINE n == Len(c.program)
           V == Seq(Byte(c))
           R == Hashing(c, q)
           f == Hashed(c, q)
<1>1. n \in Nat /\ <<>> \in V /\ \A t \in Ops(c) : Heard(c, q, t) \in V
  BY PlanIs, HeardIs
<1>2. R \in [1 .. n -> [V -> V]]
  <2>1. ASSUME NEW t \in Ops(c), NEW h \in V PROVE h \o Heard(c, q, t) \in V
    BY <1>1
  <2> QED BY <1>1, <2>1 DEF Hashing, Ops
<1>3. \E g : IsCourse(g, n, V, <<>>, R)
  <2> HIDE DEF n, V, R
  <2> QED BY <1>1, <1>2, CourseExists
<1>4. IsCourse(f, n, V, <<>>, R)
  BY <1>3 DEF Hashed
<1>5. f \in [1 .. n + 1 -> V] /\ f[1] = <<>> /\ \A t \in 1 .. n : f[t + 1] = R[t][f[t]]
  BY <1>4 DEF IsCourse
<1>6. ASSUME NEW t \in Ops(c)
      PROVE  f[t + 1] = IF Kind(c, t) = "broadcast" THEN f[t] \o Heard(c, q, t)
                        ELSE IF Kind(c, t) = "check" THEN <<>> ELSE f[t]
  <2>1. t \in 1 .. n /\ t \in 1 .. n + 1
    BY <1>1 DEF Ops
  <2>2. f[t] \in V
    BY <1>5, <2>1
  <2>3. f[t + 1] = R[t][f[t]]
    BY <1>5, <2>1
  <2> HIDE DEF f
  <2> QED BY <2>2, <2>3 DEF Hashing
<1> QED BY <1>5, <1>6

(* Operation s is a broadcast that is still hashed at operation t.          *)
Since(c, s, t) == /\ s \in Ops(c) /\ s < t /\ Kind(c, s) = "broadcast"
                  /\ \A u \in Ops(c) : s < u /\ u < t => Kind(c, u) # "check"

(* How the set of these broadcasts changes from operation to operation.     *)
LEMMA SinceIs ==
  ASSUME NEW c, PlanOK(c), NEW t \in Ops(c), NEW n, n = t + 1
  PROVE  /\ ~ (\E s \in Ops(c) : Since(c, s, 1))
         /\ Kind(c, t) = "check" => \A s \in Ops(c) : ~ Since(c, s, n)
         /\ Kind(c, t) = "broadcast" =>
              /\ Since(c, t, n)
              /\ \A s \in Ops(c) : Since(c, s, n) => s = t \/ Since(c, s, t)
         /\ Kind(c, t) # "broadcast" /\ Kind(c, t) # "check" =>
              \A s \in Ops(c) : Since(c, s, n) => Since(c, s, t)
         /\ \A s \in Ops(c) : Kind(c, t) # "check" /\ Since(c, s, t) => Since(c, s, n)
<1>1. \A s \in Ops(c) : s \in Nat /\ s >= 1
  BY PlanIs DEF Ops
<1>2. \A s \in Ops(c) : ~ Since(c, s, 1)
  BY <1>1 DEF Since
<1>3. ASSUME Kind(c, t) = "check", NEW s \in Ops(c), Since(c, s, n) PROVE FALSE
  <2>1. s < n /\ Kind(c, s) = "broadcast"
    BY <1>3 DEF Since
  <2>2. s # t
    BY <1>3, <2>1
  <2>3. s < t /\ t < n
    BY <1>1, <2>1, <2>2
  <2> QED BY <1>3, <2>3 DEF Since
<1>4. ASSUME NEW s \in Ops(c), Since(c, s, n), s # t PROVE Since(c, s, t)
  <2>1. s < t /\ \A u \in Ops(c) : u < t => u < n
    BY <1>1, <1>4 DEF Since
  <2> QED BY <2>1, <1>4 DEF Since
<1>5. ASSUME NEW s \in Ops(c), Since(c, s, t), Kind(c, t) # "check" PROVE Since(c, s, n)
  <2>1. s < n /\ \A u \in Ops(c) : u < n => u = t \/ u < t
    BY <1>1, <1>5 DEF Since
  <2> QED BY <2>1, <1>5 DEF Since
<1>6. ASSUME Kind(c, t) = "broadcast" PROVE Since(c, t, n)
  <2>1. t < n /\ \A u \in Ops(c) : ~ (t < u /\ u < n)
    BY <1>1
  <2> QED BY <2>1, <1>6 DEF Since
<1>7. ASSUME Kind(c, t) # "broadcast", NEW s \in Ops(c), Since(c, s, n) PROVE s # t
  BY <1>7 DEF Since
<1> QED BY <1>2, <1>3, <1>4, <1>5, <1>6, <1>7

(* What has been hashed are the bytes of these broadcasts.                  *)
HashedHas(c, q, t) ==
  \A s \in Ops(c) : Since(c, s, t) =>
    \A r \in Party : \A k \in 1 .. Size(c, s, r) :
      \E j \in 1 .. Len(Hashed(c, q)[t]) : Hashed(c, q)[t][j] = Mark(c, r, q, s, k)
HashedOnly(c, q, t) ==
  \A j \in 1 .. Len(Hashed(c, q)[t]) :
    \E s \in Ops(c) : Since(c, s, t) /\
      \E r \in Party : \E k \in 1 .. Size(c, s, r) : Hashed(c, q)[t][j] = Mark(c, r, q, s, k)

(* A hash has the bytes of the broadcasts since the last check, no more.    *)
LEMMA HashedElements ==
  ASSUME NEW c, PlanOK(c), NEW q \in Party, NEW t \in 1 .. Len(c.program) + 1
  PROVE  HashedHas(c, q, t) /\ HashedOnly(c, q, t)
<1> DEFINE n == Len(c.program) + 1
           S == {s \in 1 .. n : HashedHas(c, q, s) /\ HashedOnly(c, q, s)}
           h == Hashed(c, q)
<1>0. Len(c.program) \in Nat /\ h \in [1 .. n -> Seq(Byte(c))]
  BY PlanIs, HashedIs
<1>a. \A s \in Ops(c) : ~ Since(c, s, 1)
  BY PlanIs DEF Since, Ops
<1>1. 1 \in S
  <2>1. h[1] = <<>>
    BY HashedIs
  <2>2. Len(h[1]) = 0
    BY <2>1
  <2>3. HashedHas(c, q, 1)
    BY <1>a DEF HashedHas
  <2>4. HashedOnly(c, q, 1)
    BY <2>2 DEF HashedOnly
  <2> QED BY <2>3, <2>4, <1>0
<1>2. ASSUME NEW u \in 1 .. n, u # n, u \in S PROVE u + 1 \in S
  <2>1. u \in Ops(c) /\ u + 1 \in 1 .. n
    BY <1>0, <1>2 DEF Ops
  <2>2. PICK v : v = u + 1
    OBVIOUS
  <2>3. h[v] = IF Kind(c, u) = "broadcast" THEN h[u] \o Heard(c, q, u)
               ELSE IF Kind(c, u) = "check" THEN <<>> ELSE h[u]
    BY <2>1, <2>2, HashedIs
  <2>4. HashedHas(c, q, u) /\ HashedOnly(c, q, u)
    BY <1>2
  <2> HIDE DEF h, S
  <2>5. CASE Kind(c, u) = "broadcast"
    <3>1. /\ Since(c, u, v) /\ \A s \in Ops(c) : Since(c, s, v) => s = u \/ Since(c, s, u)
          /\ \A s \in Ops(c) : Since(c, s, u) => Since(c, s, v)
      <4>1. Kind(c, u) # "check"
        BY <2>5
      <4> QED BY <2>1, <2>2, <2>5, <4>1, SinceIs
    <3>2. h[u] \in Seq(Byte(c)) /\ Heard(c, q, u) \in Seq(Byte(c)) /\ h[v] = h[u] \o Heard(c, q, u)
      BY <1>0, <2>1, <2>3, <2>5, HeardIs
    <3>3. Within(h[u], h[v]) /\ Within(Heard(c, q, u), h[v]) /\ OnlyOf(h[v], h[u], Heard(c, q, u))
      BY <3>2, ConcatHas
    <3>4. HashedHas(c, q, v)
      <4> SUFFICES ASSUME NEW s \in Ops(c), Since(c, s, v),
                          NEW r \in Party, NEW k \in 1 .. Size(c, s, r)
                   PROVE  \E j \in 1 .. Len(h[v]) : h[v][j] = Mark(c, r, q, s, k)
        BY DEF HashedHas, h
      <4>1. CASE s = u
        <5>1. PICK j \in 1 .. Len(Heard(c, q, u)) : Heard(c, q, u)[j] = Mark(c, r, q, s, k)
          BY <2>1, <4>1, HeardIs
        <5> QED BY <5>1, <3>3 DEF Within
      <4>2. CASE s # u
        <5>1. PICK j \in 1 .. Len(h[u]) : h[u][j] = Mark(c, r, q, s, k)
          BY <2>4, <3>1, <4>2 DEF HashedHas, h
        <5> QED BY <5>1, <3>3 DEF Within
      <4> QED BY <4>1, <4>2
    <3>5. HashedOnly(c, q, v)
      <4> SUFFICES ASSUME NEW j \in 1 .. Len(h[v])
                   PROVE  \E s \in Ops(c) : Since(c, s, v) /\
                            \E r \in Party : \E k \in 1 .. Size(c, s, r) : h[v][j] = Mark(c, r, q, s, k)
        BY DEF HashedOnly, h
      <4>1. CASE \E k \in 1 .. Len(h[u]) : h[v][j] = h[u][k]
        <5>1. PICK b \in 1 .. Len(h[u]) : h[v][j] = h[u][b]
          BY <4>1
        <5>2. PICK s \in Ops(c) : Since(c, s, u) /\
                \E r \in Party : \E k \in 1 .. Size(c, s, r) : h[u][b] = Mark(c, r, q, s, k)
          BY <2>4 DEF HashedOnly, h
        <5> QED BY <5>1, <5>2, <3>1
      <4>2. CASE \E k \in 1 .. Len(Heard(c, q, u)) : h[v][j] = Heard(c, q, u)[k]
        <5>1. PICK b \in 1 .. Len(Heard(c, q, u)) : h[v][j] = Heard(c, q, u)[b]
          BY <4>2
        <5>2. \E r \in Party : \E k \in 1 .. Size(c, u, r) : Heard(c, q, u)[b] = Mark(c, r, q, u, k)
          BY <2>1, HeardIs
        <5> QED BY <5>1, <5>2, <3>1, <2>1
      <4> QED BY <4>1, <4>2, <3>3 DEF OnlyOf
    <3> QED BY <2>1, <2>2, <3>4, <3>5 DEF S
  <2>6. CASE Kind(c, u) = "check"
    <3>1. h[v] = <<>> /\ \A s \in Ops(c) : ~ Since(c, s, v)
      <4>1. h[v] = <<>>
        BY <2>3, <2>6
      <4>2. \A s \in Ops(c) : ~ Since(c, s, v)
        BY <2>1, <2>2, <2>6, SinceIs
      <4> QED BY <4>1, <4>2
    <3>2. Len(h[v]) = 0
      BY <3>1
    <3>3. HashedHas(c, q, v)
      BY <3>1 DEF HashedHas
    <3>4. HashedOnly(c, q, v)
      BY <3>2 DEF HashedOnly, h
    <3> QED BY <2>1, <2>2, <3>3, <3>4 DEF S
  <2>7. CASE Kind(c, u) # "broadcast" /\ Kind(c, u) # "check"
    <3>1. h[v] = h[u]
      BY <2>3, <2>7
    <3>2. \A s \in Ops(c) : Since(c, s, v) <=> Since(c, s, u)
      BY <2>1, <2>2, <2>7, SinceIs
    <3>3. HashedHas(c, q, v)
      BY <2>4, <3>1, <3>2 DEF HashedHas, h
    <3>4. HashedOnly(c, q, v)
      BY <2>4, <3>1, <3>2 DEF HashedOnly, h
    <3> QED BY <2>1, <2>2, <3>3, <3>4 DEF S
  <2> QED BY <2>5, <2>6, <2>7
<1> HIDE DEF S
<1>3. 1 .. n \subseteq S
  <2>1. n \in Nat
    BY <1>0
  <2> HIDE DEF n
  <2> QED BY <2>1, <1>1, <1>2, UpTo
<1>4. t \in S
  BY <1>3
<1> QED BY <1>4 DEF S

(* All parties have hashed something, or none has.                          *)
LEMMA EmptyTogether ==
  ASSUME NEW c, PlanOK(c), NEW p \in Party, NEW q \in Party, NEW t \in 1 .. Len(c.program) + 1,
         Hashed(c, p)[t] = <<>>
  PROVE  Hashed(c, q)[t] = <<>>
<1>1. HashedHas(c, p, t) /\ HashedOnly(c, q, t)
  BY HashedElements
<1>2. Len(Hashed(c, p)[t]) = 0
  OBVIOUS
<1>3. ~ (\E j \in 1 .. Len(Hashed(c, q)[t]) : TRUE)
  BY <1>1, <1>2 DEF HashedHas, HashedOnly
<1>4. Hashed(c, q)[t] \in Seq(Byte(c))
  BY HashedIs
<1>5. Len(Hashed(c, q)[t]) \in Nat
  BY <1>4
<1>6. Len(Hashed(c, q)[t]) = 0
  BY <1>3, <1>5
<1> QED BY <1>4, <1>6

-----------------------------------------------------------------------------
(* Lies that are told in operation t.                                       *)
ToldIn(c, t) == \E p \in Liars : /\ Kind(c, t) = "broadcast" /\ Size(c, t, p) > 0
                                 /\ c.lied[p] # {}

(* A byte shows who sent it, and a lie that it is one.                      *)
LEMMA MarkIs ==
  ASSUME NEW c, NEW p, NEW q, NEW t, NEW k, NEW p2, NEW q2, NEW t2, NEW k2,
         Mark(c, p, q, t, k) = Mark(c, p2, q2, t2, k2), p \in Liars, q \in c.lied[p]
  PROVE  p = p2 /\ q2 \in c.lied[p]
<1> DEFINE x == p \in Liars /\ q \in c.lied[p]
           y == p2 \in Liars /\ q2 \in c.lied[p2]
<1>1. <<p, t, k, x>> = <<p2, t2, k2, y>>
  BY DEF Mark
<1>2. x
  OBVIOUS
<1> HIDE DEF x, y
<1>3. p = p2 /\ x = y
  BY <1>1
<1>4. y
  BY <1>2, <1>3
<1> QED BY <1>3, <1>4 DEF y

(* Without a lie all parties are shown the same.                            *)
LEMMA MarkSame ==
  ASSUME NEW c, NEW p, NEW q, NEW q2, NEW t, NEW k, p \notin Liars \/ c.lied[p] = {}
  PROVE  Mark(c, p, q, t, k) = Mark(c, p, q2, t, k)
<1>1. (p \in Liars /\ q \in c.lied[p]) = FALSE /\ (p \in Liars /\ q2 \in c.lied[p]) = FALSE
  OBVIOUS
<1> QED BY <1>1 DEF Mark

(* While nobody lies, all hash the same.                                    *)
LEMMA SameWithoutLies ==
  ASSUME NEW c, PlanOK(c), NEW p \in Party, NEW q \in Party, NEW t \in 1 .. Len(c.program) + 1,
         \A s \in Ops(c) : s < t => ~ ToldIn(c, s)
  PROVE  Hashed(c, p)[t] = Hashed(c, q)[t]
<1> DEFINE S == {s \in 1 .. t : Hashed(c, p)[s] = Hashed(c, q)[s]}
<1>0. Len(c.program) \in Nat /\ t \in Nat /\ t > 0 /\ t <= Len(c.program) + 1
  BY PlanIs
<1>1. 1 \in S
  BY <1>0, HashedIs
<1>2. ASSUME NEW u \in 1 .. t, u # t, u \in S PROVE u + 1 \in S
  <2>1. u \in Ops(c) /\ u < t /\ u + 1 \in 1 .. t
    BY <1>0, <1>2 DEF Ops
  <2>2. Hashed(c, p)[u] = Hashed(c, q)[u]
    BY <1>2
  <2>3. CASE Kind(c, u) # "broadcast"
    <3>1. Hashed(c, p)[u + 1] = Hashed(c, q)[u + 1]
      BY <2>1, <2>2, <2>3, HashedIs
    <3> QED BY <2>1, <3>1
  <2>4. CASE Kind(c, u) = "broadcast"
    <3>1. ASSUME NEW r \in Party PROVE Bytes(c, r, p, u) = Bytes(c, r, q, u)
      <4>1. ASSUME NEW k \in 1 .. Size(c, u, r) PROVE Mark(c, r, p, u, k) = Mark(c, r, q, u, k)
        <5>1. Size(c, u, r) \in Nat
          BY <2>1, PlanIs
        <5>2. Size(c, u, r) > 0
          BY <5>1
        <5>3. ~ ToldIn(c, u)
          BY <2>1
        <5>4. r \notin Liars \/ c.lied[r] = {}
          BY <2>4, <5>2, <5>3 DEF ToldIn
        <5> QED BY <5>4, MarkSame
      <4> QED BY <4>1 DEF Bytes
    <3>2. \A k \in 1 .. N : k - 1 \in Party
      BY PlanIs DEF Party
    <3>3. [k \in 1 .. N |-> Bytes(c, k - 1, p, u)] = [k \in 1 .. N |-> Bytes(c, k - 1, q, u)]
      BY <3>1, <3>2
    <3>4. Heard(c, p, u) = Heard(c, q, u)
      BY <3>3 DEF Heard
    <3>5. Hashed(c, p)[u + 1] = Hashed(c, q)[u + 1]
      BY <2>1, <2>2, <2>4, <3>4, HashedIs
    <3> QED BY <2>1, <3>5
  <2> QED BY <2>3, <2>4
<1> HIDE DEF S
<1>3. t \in S
  <2>1. 1 .. t \subseteq S
    BY <1>0, <1>1, <1>2, UpTo
  <2> QED BY <2>1, <1>0
<1> QED BY <1>3 DEF S

(* A lie leaves its mark on what one of them has hashed.                    *)
LEMMA LieShows ==
  ASSUME NEW c, PlanOK(c), NEW t \in 1 .. Len(c.program) + 1, NEW s \in Ops(c),
         Since(c, s, t), ToldIn(c, s)
  PROVE  \E p, q \in Party : Hashed(c, p)[t] # Hashed(c, q)[t]
<1>1. PICK r \in Liars : Size(c, s, r) > 0 /\ c.lied[r] # {}
  BY DEF ToldIn
<1>2. r \in Party
  BY LiarsAssumption
<1>3. PICK q \in Party : c.lied[r] = {q} /\ q # r
  <2>1. c.lied[r] = {To(r, 1)}
    BY <1>1, <1>2 DEF PlanOK
  <2>2. To(r, 1) \in Party /\ To(r, 1) # r
    BY <1>2, ToIs, Sums DEF Distance
  <2> QED BY <2>1, <2>2
<1>4. HashedHas(c, q, t) /\ HashedOnly(c, r, t)
  BY <1>2, HashedElements
<1>5. PICK j \in 1 .. Len(Hashed(c, q)[t]) : Hashed(c, q)[t][j] = Mark(c, r, q, s, 1)
  <2>1. 1 \in 1 .. Size(c, s, r)
    BY <1>1, <1>2, PlanIs
  <2> QED BY <1>2, <1>4, <2>1 DEF HashedHas
<1> SUFFICES ASSUME Hashed(c, r)[t] = Hashed(c, q)[t] PROVE FALSE
  BY <1>2
<1>6. PICK v \in Ops(c), x \in Party, k \in Nat : Mark(c, r, q, s, 1) = Mark(c, x, r, v, k)
  <2>1. j \in 1 .. Len(Hashed(c, r)[t]) /\ Hashed(c, r)[t][j] = Mark(c, r, q, s, 1)
    BY <1>5
  <2>2. PICK v \in Ops(c) : \E x \in Party : \E k \in 1 .. Size(c, v, x) :
          Hashed(c, r)[t][j] = Mark(c, x, r, v, k)
    BY <1>4, <2>1 DEF HashedOnly
  <2>3. PICK x \in Party : \E k \in 1 .. Size(c, v, x) : Hashed(c, r)[t][j] = Mark(c, x, r, v, k)
    BY <2>2
  <2>4. PICK k \in 1 .. Size(c, v, x) : Hashed(c, r)[t][j] = Mark(c, x, r, v, k)
    BY <2>3
  <2>5. k \in Nat
    BY PlanIs
  <2> QED BY <2>1, <2>4, <2>5
<1>7. r \in c.lied[r]
  BY <1>3, <1>6, MarkIs
<1> QED BY <1>3, <1>7

-----------------------------------------------------------------------------
(***************************************************************************)
(* The connections operation t uses.                                       *)
(***************************************************************************)
Talks(c, p, q, t) ==
  /\ p # q
  /\ \/ Kind(c, t) = "broadcast"
     \/ Kind(c, t) = "check" /\ Hashed(c, p)[t] # <<>>
     \/ Kind(c, t) = "pass" /\ q = To(p, 1)
     \/ Kind(c, t) = "swap" /\ c.program[t].who = {p, q}

Same(c, t)           == c.program[t].same
Track(c, p, q, t)    == IF Same(c, t) \/ q < p THEN 0 ELSE c.layers - 1
Carries(c, l, p, q, t) == Talks(c, p, q, t) /\ Track(c, p, q, t) = l

\* A party's exchangers; the party that one receives from; the one that receives from p.
Route(c, p, t)     == {d \in Distance : Talks(c, p, To(p, d), t)}
Source(c, p, d, t) == IF Kind(c, t) = "swap" THEN To(p, d) ELSE Back(p, d)
Slot(c, p, q, t)   == IF Kind(c, t) = "swap" THEN Dist(q, p) ELSE Dist(p, q)

(* An exchanger sends to a party that has one for its sender, and receives  *)
(* from one.                                                                *)
LEMMA RouteIs ==
  ASSUME NEW c, PlanOK(c), NEW t \in Ops(c), NEW p \in Party, NEW d \in Route(c, p, t)
  PROVE  /\ d \in Distance /\ To(p, d) \in Party /\ To(p, d) # p
         /\ Talks(c, p, To(p, d), t) /\ Dist(p, To(p, d)) = d
         /\ Source(c, p, d, t) \in Party /\ Source(c, p, d, t) # p
         /\ Talks(c, Source(c, p, d, t), p, t) /\ Slot(c, Source(c, p, d, t), p, t) = d
<1> DEFINE q == To(p, d)
           s == Source(c, p, d, t)
<1>1. d \in Distance /\ Talks(c, p, q, t)
  BY DEF Route
<1>2. q \in Party /\ q # p /\ Dist(p, q) = d
  BY <1>1, ToIs
<1>3. s \in Party /\ s # p /\ Slot(c, s, p, t) = d
  <2>1. Back(p, d) \in Party /\ Back(p, d) # p /\ Dist(Back(p, d), p) = d
    BY <1>1, BackIs
  <2> QED BY <1>2, <2>1 DEF Source, Slot
<1>4. Talks(c, s, p, t)
  <2>1. CASE Kind(c, t) = "broadcast"
    BY <1>3, <2>1 DEF Talks
  <2>2. CASE Kind(c, t) = "check"
    <3>1. Hashed(c, p)[t] # <<>>
      BY <1>1, <2>2 DEF Talks
    <3>2. t \in 1 .. Len(c.program) + 1
      BY PlanIs DEF Ops
    <3>3. Hashed(c, s)[t] # <<>>
      BY <1>3, <3>1, <3>2, EmptyTogether
    <3> QED BY <1>3, <2>2, <3>3 DEF Talks
  <2>3. CASE Kind(c, t) = "pass"
    <3>1. 1 \in Distance /\ q = To(p, 1)
      BY <1>1, <2>3, Sums DEF Talks, Distance
    <3>2. d = 1
      BY <1>2, <3>1, ToIs
    <3>3. s = Back(p, 1)
      BY <2>3, <3>2 DEF Source
    <3>4. To(s, 1) = p
      BY <3>1, <3>3, BackIs
    <3> QED BY <1>3, <2>3, <3>4 DEF Talks
  <2>4. CASE Kind(c, t) = "swap"
    <3>1. s = q /\ c.program[t].who = {p, q}
      BY <1>1, <2>4 DEF Talks, Source
    <3> QED BY <1>3, <2>4, <3>1 DEF Talks
  <2> QED BY <1>1, <2>1, <2>2, <2>3, <2>4 DEF Talks
<1> QED BY <1>1, <1>2, <1>3, <1>4

(* Between two parties that talk there is one exchanger at each.            *)
LEMMA TalksIs ==
  ASSUME NEW c, PlanOK(c), NEW t \in Ops(c), NEW p \in Party, NEW q \in Party, Talks(c, p, q, t)
  PROVE  /\ p # q
         /\ Dist(p, q) \in Route(c, p, t) /\ To(p, Dist(p, q)) = q
         /\ Slot(c, p, q, t) \in Route(c, q, t) /\ Source(c, q, Slot(c, p, q, t), t) = p
<1> DEFINE e == Slot(c, p, q, t)
<1>1. p # q
  BY DEF Talks
<1>2. Dist(p, q) \in Distance /\ To(p, Dist(p, q)) = q /\ Back(q, Dist(p, q)) = p
  BY <1>1, DistIs
<1>3. Dist(q, p) \in Distance /\ To(q, Dist(q, p)) = p
  BY <1>1, DistIs
<1>4. Dist(p, q) \in Route(c, p, t)
  BY <1>2 DEF Route
<1>5. e \in Distance /\ Source(c, q, e, t) = p
  BY <1>2, <1>3 DEF Slot, Source
<1>6. Talks(c, q, To(q, e), t)
  <2>0. To(q, e) # q
    BY <1>5, ToIs
  <2>1. CASE Kind(c, t) = "broadcast"
    BY <2>0, <2>1 DEF Talks
  <2>2. CASE Kind(c, t) = "check"
    <3>1. Hashed(c, p)[t] # <<>>
      BY <2>2 DEF Talks
    <3>2. t \in 1 .. Len(c.program) + 1
      BY PlanIs DEF Ops
    <3>3. Hashed(c, q)[t] # <<>>
      BY <3>1, <3>2, EmptyTogether
    <3> QED BY <2>0, <2>2, <3>3 DEF Talks
  <2>3. CASE Kind(c, t) = "pass"
    <3>1. q = To(p, 1) /\ 1 \in Distance
      BY <2>3, Sums DEF Talks, Distance
    <3>2. e = 1
      BY <2>3, <3>1, ToIs DEF Slot
    <3> QED BY <2>0, <2>3, <3>2 DEF Talks
  <2>4. CASE Kind(c, t) = "swap"
    <3>1. c.program[t].who = {p, q} /\ To(q, e) = p
      BY <1>3, <2>4 DEF Talks, Slot
    <3>2. c.program[t].who = {q, To(q, e)}
      BY <3>1
    <3> QED BY <2>0, <2>4, <3>2 DEF Talks
  <2> QED BY <2>1, <2>2, <2>3, <2>4 DEF Talks
<1> QED BY <1>1, <1>2, <1>4, <1>5, <1>6 DEF Route

-----------------------------------------------------------------------------
(***************************************************************************)
(* A connection as a log of units: Base(..)[t] of them are sent before     *)
(* operation t.                                                            *)
(***************************************************************************)
Load(c, l, p, q, t) == IF Carries(c, l, p, q, t) THEN 1 + Size(c, t, p) ELSE 0
Loading(c, l, p, q) == [t \in Ops(c) |-> [x \in Nat |-> x + Load(c, l, p, q, t)]]
Base(c, l, p, q)    == CHOOSE f : IsCourse(f, Len(c.program), Nat, 0, Loading(c, l, p, q))

(* A message is one unit longer than its bytes.                             *)
LEMMA LoadIs ==
  ASSUME NEW c, PlanOK(c), NEW l, NEW p \in Party, NEW q, NEW t \in Ops(c)
  PROVE  Load(c, l, p, q, t) \in Nat
BY PlanIs DEF Load

(* The units that earlier operations put into a connection.                 *)
LEMMA BaseIs ==
  ASSUME NEW c, PlanOK(c), NEW l, NEW p \in Party, NEW q
  PROVE  /\ Base(c, l, p, q)[1] = 0
         /\ \A t \in 1 .. Len(c.program) + 1 : Base(c, l, p, q)[t] \in Nat
         /\ \A t \in Ops(c) :
              Base(c, l, p, q)[t + 1] = Base(c, l, p, q)[t] + Load(c, l, p, q, t)
<1> DEFINE n == Len(c.program)
           R == Loading(c, l, p, q)
           f == Base(c, l, p, q)
<1>1. n \in Nat /\ \A t \in Ops(c) : Load(c, l, p, q, t) \in Nat
  BY PlanIs, LoadIs
<1>2. R \in [1 .. n -> [Nat -> Nat]]
  BY <1>1 DEF Loading, Ops
<1>3. \E g : IsCourse(g, n, Nat, 0, R)
  <2> HIDE DEF n, R
  <2> QED BY <1>1, <1>2, CourseExists
<1>4. IsCourse(f, n, Nat, 0, R)
  BY <1>3 DEF Base
<1>5. f \in [1 .. n + 1 -> Nat] /\ f[1] = 0 /\ \A t \in 1 .. n : f[t + 1] = R[t][f[t]]
  BY <1>4 DEF IsCourse
<1>6. ASSUME NEW t \in Ops(c) PROVE f[t + 1] = f[t] + Load(c, l, p, q, t)
  <2>1. t \in 1 .. n /\ t \in 1 .. n + 1
    BY <1>1 DEF Ops
  <2>2. f[t] \in Nat /\ f[t + 1] = R[t][f[t]]
    BY <1>5, <2>1
  <2> HIDE DEF f
  <2> QED BY <2>2 DEF Loading
<1> QED BY <1>5, <1>6

(* They never get fewer.                                                    *)
LEMMA BaseGrows ==
  ASSUME NEW c, PlanOK(c), NEW l, NEW p \in Party, NEW q,
         NEW s \in 1 .. Len(c.program) + 1, NEW t \in 1 .. Len(c.program) + 1, s <= t
  PROVE  Base(c, l, p, q)[s] <= Base(c, l, p, q)[t]
<1> DEFINE n == Len(c.program) + 1
           f == Base(c, l, p, q)
           S == {k \in 1 .. n : s <= k => f[s] <= f[k]}
<1>0. n \in Nat /\ \A k \in 1 .. n : f[k] \in Nat
  <2>1. n \in Nat
    BY PlanIs
  <2>2. \A k \in 1 .. n : f[k] \in Nat
    BY BaseIs
  <2> QED BY <2>1, <2>2
<1>1. 1 \in S
  <2>1. s <= 1 => s = 1
    OBVIOUS
  <2>2. 1 \in 1 .. n
    BY <1>0
  <2> QED BY <1>0, <2>1, <2>2
<1>2. ASSUME NEW k \in 1 .. n, k # n, k \in S PROVE k + 1 \in S
  <2>1. k \in Ops(c) /\ k + 1 \in 1 .. n
    BY PlanIs, <1>2 DEF Ops
  <2>2. PICK m : m = k + 1
    OBVIOUS
  <2>3. f[m] = f[k] + Load(c, l, p, q, k) /\ Load(c, l, p, q, k) \in Nat
    BY <2>1, <2>2, BaseIs, LoadIs
  <2>4. f[k] \in Nat /\ f[m] \in Nat /\ f[s] \in Nat
    BY <1>0, <2>1, <2>2
  <2>5. s <= k => f[s] <= f[k]
    BY <1>2
  <2> HIDE DEF f
  <2>6. s <= m => f[s] <= f[m]
    <3>1. CASE s <= k
      BY <2>3, <2>4, <2>5, <3>1
    <3>2. CASE s = m
      BY <2>4, <3>2
    <3> QED BY <2>2, <3>1, <3>2
  <2> QED BY <2>1, <2>2, <2>6
<1>3. t \in S
  <2> HIDE DEF S
  <2>1. 1 .. n \subseteq S
    <3> HIDE DEF n
    <3> QED BY <1>0, <1>1, <1>2, UpTo
  <2> QED BY <2>1
<1> QED BY <1>3

(* The units of a message, its length before its bytes.                     *)
Value(c) == Byte(c) \cup Seq(Byte(c))
Units(c) == [val : Value(c) \cup {"length"}, len : Nat]
Unit(c, p, q, t, k) == IF k = 0 THEN [val |-> "length", len |-> Size(c, t, p)]
                       ELSE ByteUnit(Message(c, p, q, t)[k])

(* The units of a message are its length and its bytes.                     *)
LEMMA MessageIs ==
  ASSUME NEW c, PlanOK(c), NEW t \in Ops(c), NEW p \in Party, NEW q \in Party
  PROVE  /\ Message(c, p, q, t) \in Seq(Value(c))
         /\ Len(Message(c, p, q, t)) = Size(c, t, p)
         /\ \A k \in 0 .. Size(c, t, p) : Unit(c, p, q, t, k) \in Units(c)
<1> DEFINE m == Message(c, p, q, t)
<1>1. m \in Seq(Value(c)) /\ Len(m) = Size(c, t, p)
  <2>1. CASE Kind(c, t) = "check"
    <3>1. Size(c, t, p) = 1
      BY <2>1, PlanIs DEF WellFormed, Kind, Size
    <3>2. t \in 1 .. Len(c.program) + 1
      BY PlanIs DEF Ops
    <3>3. Hashed(c, p)[t] \in Value(c)
      BY <3>2, HashedIs DEF Value
    <3>4. m = <<Hashed(c, p)[t]>>
      BY <2>1 DEF Message
    <3> QED BY <3>1, <3>3, <3>4
  <2>2. CASE Kind(c, t) # "check"
    <3>1. m = Bytes(c, p, q, t)
      BY <2>2 DEF Message
    <3>2. Size(c, t, p) \in Nat /\ \A k \in 1 .. Size(c, t, p) : Mark(c, p, q, t, k) \in Value(c)
      BY PlanIs DEF Value, Byte, Ops
    <3> QED BY <3>1, <3>2 DEF Bytes
  <2> QED BY <2>1, <2>2
<1> HIDE DEF m
<1>2. ASSUME NEW k \in 0 .. Size(c, t, p) PROVE Unit(c, p, q, t, k) \in Units(c)
  <2>0. Size(c, t, p) \in Nat
    BY PlanIs
  <2>1. CASE k = 0
    BY <2>0, <2>1 DEF Unit, Units
  <2>2. CASE k # 0
    <3>1. m[k] \in Value(c)
      BY <1>1, <2>0, <2>2
    <3>2. Unit(c, p, q, t, k) = [val |-> m[k], len |-> 1]
      BY <2>2 DEF Unit, ByteUnit, m
    <3> QED BY <3>1, <3>2 DEF Units
  <2> QED BY <2>1, <2>2
<1> QED BY <1>1, <1>2 DEF m

(* Of n units put into a connection, r have been taken out, the rest is s.  *)
Flow(c, l, p, q, s, r, n) ==
  /\ s \in Seq(Units(c)) /\ r \in Nat /\ n \in Nat /\ r <= n /\ Len(s) = n - r
  /\ \A t \in Ops(c) : \A k \in 0 .. Size(c, t, p) : \A j \in 1 .. Len(s) :
       Carries(c, l, p, q, t) /\ Base(c, l, p, q)[t] + 1 + k = r + j
         => s[j] = Unit(c, p, q, t, k)

(* The units at a place of the log are those of one operation.              *)
LEMMA OnePlace ==
  ASSUME NEW c, PlanOK(c), NEW l, NEW p \in Party, NEW q, NEW t \in Ops(c), NEW s \in Ops(c),
         Carries(c, l, p, q, t), Carries(c, l, p, q, s),
         NEW x \in 0 .. Size(c, t, p), NEW y \in 0 .. Size(c, s, p),
         Base(c, l, p, q)[t] + 1 + x = Base(c, l, p, q)[s] + 1 + y
  PROVE  t = s /\ x = y
<1> DEFINE f == Base(c, l, p, q)
<1>0. /\ t \in Nat /\ s \in Nat /\ t + 1 \in 1 .. Len(c.program) + 1 /\ s + 1 \in 1 .. Len(c.program) + 1
      /\ t \in 1 .. Len(c.program) + 1 /\ s \in 1 .. Len(c.program) + 1
  BY PlanIs DEF Ops
<1>1. f[t] \in Nat /\ f[s] \in Nat /\ Size(c, t, p) \in Nat /\ Size(c, s, p) \in Nat
  BY <1>0, BaseIs, PlanIs
<1>2. f[t + 1] = f[t] + 1 + Size(c, t, p) /\ f[s + 1] = f[s] + 1 + Size(c, s, p)
  <2>1. Load(c, l, p, q, t) = 1 + Size(c, t, p) /\ Load(c, l, p, q, s) = 1 + Size(c, s, p)
    BY DEF Load
  <2>2. f[t + 1] = f[t] + Load(c, l, p, q, t) /\ f[s + 1] = f[s] + Load(c, l, p, q, s)
    BY BaseIs
  <2> HIDE DEF f
  <2> QED BY <1>1, <2>1, <2>2
<1>3. t < s => f[t + 1] <= f[s]
  <2>1. t < s => t + 1 <= s
    BY <1>0
  <2> QED BY <1>0, <2>1, BaseGrows
<1>4. s < t => f[s + 1] <= f[t]
  <2>1. s < t => s + 1 <= t
    BY <1>0
  <2> QED BY <1>0, <2>1, BaseGrows
<1> HIDE DEF f
<1>5. f[t] + 1 + x = f[s] + 1 + y
  BY DEF f
<1>6. ~ (t < s)
  BY <1>1, <1>2, <1>3, <1>5
<1>7. ~ (s < t)
  BY <1>1, <1>2, <1>4, <1>5
<1>8. t = s
  BY <1>0, <1>6, <1>7
<1> QED BY <1>1, <1>5, <1>8

UnitsFrom(c, p, q, t, x, us) == us \in Seq(Units(c)) /\ Len(us) \in Nat
  /\ \A j \in 1 .. Len(us) : us[j] = Unit(c, p, q, t, x + j - 1)

Appended(s2, s, us) ==
  /\ \A j \in 1 .. Len(s) : s2[j] = s[j]
  /\ \A j \in 1 .. Len(s2) : j \notin 1 .. Len(s) =>
       \E y \in 1 .. Len(us) : j = Len(s) + y /\ s2[j] = us[y]

Extends(s2, s, us)   == s2 = s \o us
Sequence(s, U)       == s \in Seq(U)
Holds(s, r, n)       == r \in Nat /\ n \in Nat /\ r <= n /\ Len(s) = n - r
Lengthens(n2, n, us) == n2 = n + Len(us)

(* Appending leaves what is on a connection where it is.                    *)
LEMMA PutPlaces ==
  ASSUME NEW U, NEW s, Sequence(s, U), NEW us, Sequence(us, U), NEW s2, Extends(s2, s, us)
  PROVE  Sequence(s2, U) /\ Lengthens(Len(s2), Len(s), us) /\ Appended(s2, s, us)
<1>0. s \in Seq(U) /\ us \in Seq(U) /\ s2 = s \o us
  BY DEF Sequence, Extends
<1>3. s2 \in Seq(U) /\ Joins(s2, s, us)
  BY <1>0, ConcatIs
<1>1. /\ Len(s) \in Nat /\ Len(us) \in Nat /\ Len(s2) = Len(s) + Len(us)
      /\ \A j \in 1 .. Len(s) : s2[j] = s[j]
      /\ \A j \in 1 .. Len(us) : s2[Len(s) + j] = us[j]
  BY <1>0, <1>3 DEF Joins
<1>2. ASSUME NEW j \in 1 .. Len(s2), j \notin 1 .. Len(s)
      PROVE  \E y \in 1 .. Len(us) : j = Len(s) + y /\ s2[j] = us[y]
  <2>1. PICK y : y = j - Len(s)
    OBVIOUS
  <2>2. y \in 1 .. Len(us) /\ j = Len(s) + y
    BY <1>1, <1>2, <2>1
  <2> QED BY <1>1, <2>2
<1>4. Appended(s2, s, us)
  BY <1>1, <1>2 DEF Appended
<1>5. Lengthens(Len(s2), Len(s), us)
  BY <1>1 DEF Lengthens
<1> QED BY <1>3, <1>4, <1>5 DEF Sequence

(* And makes it longer by what is put in.                                   *)
LEMMA PutFits ==
  ASSUME NEW U, NEW s, Sequence(s, U), NEW us, Sequence(us, U), NEW s2, Extends(s2, s, us),
         NEW r, NEW n, Holds(s, r, n), NEW n2, Lengthens(n2, n, us)
  PROVE  Sequence(s2, U) /\ Appended(s2, s, us) /\ Holds(s2, r, n2)
<1>1. Sequence(s2, U) /\ Appended(s2, s, us) /\ Lengthens(Len(s2), Len(s), us)
  BY PutPlaces
<1>2. PICK k \in Nat : k = Len(us)
  BY DEF Sequence
<1>3. n2 = n + k /\ Len(s2) = Len(s) + k
  BY <1>1, <1>2 DEF Lengthens
<1>4. Holds(s2, r, n2)
  BY <1>2, <1>3 DEF Holds
<1> QED BY <1>1, <1>4

(* A connection stays a log when the next units of a message are put in.    *)
LEMMA FlowPutAll ==
  ASSUME NEW c, PlanOK(c), NEW l, NEW p \in Party, NEW q \in Party, NEW s, NEW r, NEW n,
         Flow(c, l, p, q, s, r, n),
         NEW t \in Ops(c), Carries(c, l, p, q, t), NEW x \in Nat, n = Base(c, l, p, q)[t] + x,
         NEW us, UnitsFrom(c, p, q, t, x, us),
         x + Len(us) <= 1 + Size(c, t, p), NEW n2, n2 = n + Len(us), NEW s2, Extends(s2, s, us)
  PROVE  Flow(c, l, p, q, s2, r, n2)
<1>0. s \in Seq(Units(c)) /\ r \in Nat /\ n \in Nat /\ r <= n /\ Len(s) = n - r
  BY DEF Flow
<1>6. us \in Seq(Units(c))
  BY DEF UnitsFrom
<1>7. Sequence(s2, Units(c)) /\ Appended(s2, s, us) /\ Holds(s2, r, n2)
  <2>1. Sequence(s, Units(c)) /\ Sequence(us, Units(c))
    BY <1>0, <1>6 DEF Sequence
  <2>2. Holds(s, r, n) /\ Lengthens(n2, n, us)
    BY <1>0 DEF Holds, Lengthens
  <2> QED BY <2>1, <2>2, PutFits
<1>5. /\ s2 \in Seq(Units(c)) /\ Appended(s2, s, us)
      /\ n2 \in Nat /\ r <= n2 /\ Len(s2) = n2 - r /\ Len(s) \in Nat /\ Len(us) \in Nat
  BY <1>0, <1>6, <1>7 DEF Sequence, Holds
<1>1. /\ \A j \in 1 .. Len(s) : s2[j] = s[j]
      /\ \A j \in 1 .. Len(s2) : j \notin 1 .. Len(s) =>
           \E y \in 1 .. Len(us) : j = Len(s) + y /\ s2[j] = us[y]
  BY <1>5 DEF Appended
<1>2. Size(c, t, p) \in Nat /\ Base(c, l, p, q)[t] \in Nat /\ Len(us) \in Nat /\ Len(s) \in Nat
  <2>1. t \in 1 .. Len(c.program) + 1
    BY PlanIs DEF Ops
  <2>2. Base(c, l, p, q)[t] \in Nat
    BY <2>1, BaseIs
  <2> QED BY <2>2, <1>0, PlanIs DEF UnitsFrom
<1>3. ASSUME NEW v \in Ops(c), NEW k \in 0 .. Size(c, v, p), NEW j \in 1 .. Len(s2),
             Carries(c, l, p, q, v), Base(c, l, p, q)[v] + 1 + k = r + j
      PROVE  s2[j] = Unit(c, p, q, v, k)
  <2>1. CASE j \in 1 .. Len(s)
    <3>1. s[j] = Unit(c, p, q, v, k)
      BY <1>3, <2>1 DEF Flow
    <3> QED BY <3>1, <2>1, <1>1
  <2>2. CASE j \notin 1 .. Len(s)
    <3>1. PICK y \in 1 .. Len(us) : j = Len(s) + y /\ s2[j] = us[y]
      BY <1>1, <2>2
    <3>2. PICK z : z = x + y - 1
      OBVIOUS
    <3>3. z \in 0 .. Size(c, t, p)
      BY <1>2, <3>2
    <3>4. PICK b : b = Base(c, l, p, q)[v]
      OBVIOUS
    <3>5. b \in Nat
      <4>1. v \in 1 .. Len(c.program) + 1
        BY PlanIs DEF Ops
      <4> QED BY <4>1, <3>4, BaseIs
    <3>6. Base(c, l, p, q)[t] + 1 + z = b + 1 + k
      <4>1. PICK a : a = Base(c, l, p, q)[t]
        OBVIOUS
      <4>2. /\ a \in Nat /\ b \in Nat /\ k \in Nat /\ y \in Nat /\ r \in Nat /\ Len(s) \in Nat
            /\ n \in Nat
        BY <1>0, <1>2, <3>5, <4>1, PlanIs
      <4>3. b + 1 + k = r + j /\ j = Len(s) + y /\ Len(s) = n - r /\ n = a + x
        BY <1>0, <1>3, <3>1, <3>4, <4>1
      <4>4. a + 1 + z = b + 1 + k
        <5>1. z = x + y - 1 /\ x \in Nat
          BY <3>2
        <5>2. r + j = n + y
          <6>1. PICK e : e = Len(s)
            OBVIOUS
          <6>2. e \in Nat /\ n = r + e /\ j = e + y
            BY <4>2, <4>3, <6>1
          <6> QED BY <4>2, <6>2
        <5>3. b + 1 + k = a + x + y
          BY <4>2, <4>3, <5>1, <5>2
        <5>4. a + 1 + z = a + x + y
          BY <4>2, <5>1
        <5> QED BY <5>3, <5>4
      <4> QED BY <4>1, <4>4
    <3>7. t = v /\ z = k
      BY <1>3, <3>3, <3>4, <3>6, OnePlace
    <3>8. us[y] = Unit(c, p, q, t, z)
      BY <3>2 DEF UnitsFrom
    <3> QED BY <3>1, <3>7, <3>8
  <2> QED BY <2>1, <2>2
<1> QED BY <1>0, <1>3, <1>5 DEF Flow

(* The same, for units given one by one.                                    *)
LEMMA FlowPut ==
  ASSUME NEW c, PlanOK(c), NEW l, NEW p \in Party, NEW q \in Party, NEW s, NEW r, NEW n,
         Flow(c, l, p, q, s, r, n),
         NEW t \in Ops(c), Carries(c, l, p, q, t), NEW x \in Nat, n = Base(c, l, p, q)[t] + x,
         NEW us, NEW m \in Nat, us = [j \in 1 .. m |-> Unit(c, p, q, t, x + j - 1)],
         x + m <= 1 + Size(c, t, p), NEW n2, n2 = n + m, NEW s2, s2 = s \o us
  PROVE  Flow(c, l, p, q, s2, r, n2)
<1>1. \A j \in 1 .. m : x + j - 1 \in 0 .. Size(c, t, p)
  <2>1. Size(c, t, p) \in Nat
    BY PlanIs
  <2> QED BY <2>1
<1>2. \A j \in 1 .. m : Unit(c, p, q, t, x + j - 1) \in Units(c)
  BY <1>1, MessageIs
<1>3. us \in Seq(Units(c)) /\ Len(us) = m
  BY <1>2
<1>4. \A j \in 1 .. Len(us) : us[j] = Unit(c, p, q, t, x + j - 1)
  BY <1>3
<1> QED BY <1>3, <1>4, FlowPutAll DEF UnitsFrom, Extends

(* A connection stays a log when its first units are taken out.             *)
LEMMA FlowTake ==
  ASSUME NEW c, PlanOK(c), NEW l, NEW p \in Party, NEW q \in Party, NEW s, NEW r, NEW n,
         Flow(c, l, p, q, s, r, n),
         NEW m \in Nat, m <= Len(s), NEW s2, s2 = SubSeq(s, m + 1, Len(s)), NEW r2, r2 = r + m
  PROVE  Flow(c, l, p, q, s2, r2, n)
<1>0. s \in Seq(Units(c)) /\ r \in Nat /\ n \in Nat /\ r <= n /\ Len(s) = n - r /\ Len(s) \in Nat
  BY DEF Flow
<1>1. s2 \in Seq(Units(c)) /\ Len(s2) = Len(s) - m /\ \A j \in 1 .. Len(s) - m : s2[j] = s[m + j]
  <2>1. \A j \in m + 1 .. Len(s) : s[j] \in Units(c)
    BY <1>0
  <2>2. s2 \in Seq(Units(c))
    BY <1>0, <2>1
  <2>3. Len(s2) = Len(s) - m
    BY <1>0
  <2>4. \A j \in 1 .. Len(s) - m : s2[j] = s[m + j]
    BY <1>0
  <2> QED BY <2>2, <2>3, <2>4
<1>2. ASSUME NEW v \in Ops(c), NEW k \in 0 .. Size(c, v, p), NEW j \in 1 .. Len(s2),
             Carries(c, l, p, q, v), Base(c, l, p, q)[v] + 1 + k = r2 + j
      PROVE  s2[j] = Unit(c, p, q, v, k)
  <2>1. PICK y : y = m + j
    OBVIOUS
  <2>2. y \in 1 .. Len(s) /\ r2 + j = r + y
    BY <1>0, <1>1, <2>1
  <2>3. s[y] = Unit(c, p, q, v, k)
    BY <1>2, <2>2 DEF Flow
  <2>4. s2[j] = s[y]
    BY <1>1, <2>1
  <2> QED BY <2>3, <2>4
<1>3. r2 \in Nat /\ r2 <= n /\ Len(s2) = n - r2
  BY <1>0, <1>1
<1> QED BY <1>0, <1>1, <1>2, <1>3 DEF Flow

(* What is on a connection next is the next unit of the message being read. *)
LEMMA FlowSees ==
  ASSUME NEW c, PlanOK(c), NEW l, NEW p \in Party, NEW q \in Party, NEW s, NEW r, NEW n,
         Flow(c, l, p, q, s, r, n),
         NEW t \in Ops(c), Carries(c, l, p, q, t), NEW x \in Nat, r = Base(c, l, p, q)[t] + x,
         NEW j \in 1 .. Len(s), x + j <= 1 + Size(c, t, p)
  PROVE  s[j] = Unit(c, p, q, t, x + j - 1)
<1>0. Base(c, l, p, q)[t] \in Nat /\ Size(c, t, p) \in Nat /\ Len(s) \in Nat
  <2>1. t \in 1 .. Len(c.program) + 1
    BY PlanIs DEF Ops
  <2>2. Base(c, l, p, q)[t] \in Nat
    BY <2>1, BaseIs
  <2>3. Size(c, t, p) \in Nat
    BY PlanIs
  <2>4. Len(s) \in Nat
    BY DEF Flow
  <2> QED BY <2>2, <2>3, <2>4
<1>1. PICK k : k = x + j - 1
  OBVIOUS
<1>2. k \in 0 .. Size(c, t, p) /\ Base(c, l, p, q)[t] + 1 + k = r + j
  BY <1>0, <1>1
<1> QED BY <1>1, <1>2 DEF Flow

-----------------------------------------------------------------------------
(***************************************************************************)
(* A party, for the moment: where it is in the program, what its exchangers *)
(* or threads have done of the operation.                                  *)
(***************************************************************************)
Local(p) == [op |-> op[p], stopped |-> IF p \in threw THEN 1 ELSE 0, begun |-> begun[p],
             sent |-> sent[p], got |-> got[p], newLen |-> newLen[p], ctx |-> ctx[p],
             toSend     |-> {q \in Party : <<"send", p, q>> \in asked},
             toReceive  |-> {q \in Party : <<"receive", p, q>> \in asked},
             didSend    |-> {q \in Party : <<"send", p, q>> \in served},
             didReceive |-> {q \in Party : <<"receive", p, q>> \in served}]

Idle(c, m)      == m.op > Len(c.program) \/ m.stopped = 1
ByThreads(c, m) == c.layers = 2 /\ ~ Idle(c, m) /\ ~ Same(c, m.op)

(* It is at an operation, has hashed what comes before, and stops only at a *)
(* check.                                                                   *)
PlaceOK(c, p, m) ==
  /\ m.op \in 1 .. Len(c.program) + 1 /\ m.stopped \in {0, 1}
  /\ m.ctx = Hashed(c, p)[m.op]
  /\ m.stopped = 1 => m.op \in Ops(c) /\ Kind(c, m.op) = "check"

(* Its exchangers are those of the operation, if any.                       *)
BegunOK(c, p, m) ==
  /\ m.begun \subseteq Distance
  /\ Idle(c, m) => m.begun = {}
  /\ ~ Idle(c, m) => m.begun \subseteq Route(c, p, m.op)

(* They have sent no more than the message.                                 *)
SentOK(c, p, m) ==
  /\ m.sent \in [Distance -> Nat]
  /\ \A d \in Distance : m.sent[d] # 0 =>
       /\ ~ Idle(c, m) /\ ~ ByThreads(c, m)
       /\ m.begun = Route(c, p, m.op) /\ d \in Route(c, p, m.op)
       /\ m.sent[d] <= Size(c, m.op, p)

(* And have received a beginning of the message of the party they face.     *)
GotOK(c, p, m) ==
  /\ m.got \in [Distance -> Seq(Value(c))] /\ m.newLen \in [Distance -> Nat \cup {NotYet}]
  /\ \A d \in Distance :
       /\ m.newLen[d] = NotYet => m.got[d] = <<>>
       /\ m.newLen[d] # NotYet =>
            /\ ~ Idle(c, m) /\ m.begun = Route(c, p, m.op) /\ d \in Route(c, p, m.op)
            /\ m.newLen[d] = Size(c, m.op, Source(c, p, d, m.op))
            /\ Len(m.got[d]) <= m.newLen[d]
            /\ \A k \in 1 .. Len(m.got[d]) :
                 m.got[d][k] = Message(c, Source(c, p, d, m.op), p, m.op)[k]
       /\ ~ Idle(c, m) /\ Same(c, m.op) => Len(m.got[d]) <= m.sent[d]

(* The queues of its threads hold what it has asked for.                    *)
QueuesOK(c, p, m) ==
  IF ByThreads(c, m)
  THEN /\ m.begun = {} \/ m.begun = Route(c, p, m.op)
       /\ m.toSend \cup m.didSend = {To(p, d) : d \in m.begun}
       /\ m.toReceive \cup m.didReceive = {Source(c, p, d, m.op) : d \in m.begun}
       /\ m.toSend \cap m.didSend = {} /\ m.toReceive \cap m.didReceive = {}
       /\ \A d \in m.begun : Source(c, p, d, m.op) \in m.didReceive <=> m.newLen[d] # NotYet
       /\ \A d \in m.begun : m.newLen[d] # NotYet => Len(m.got[d]) = m.newLen[d]
  ELSE m.toSend = {} /\ m.didSend = {} /\ m.toReceive = {} /\ m.didReceive = {}

LocalOK(c, p, m) == /\ PlaceOK(c, p, m) /\ BegunOK(c, p, m) /\ SentOK(c, p, m) /\ GotOK(c, p, m)
                    /\ QueuesOK(c, p, m)

(* The units p has put into its connection to q, and q taken out of it.     *)
Going(c, m, l, p, q) ==
  IF Idle(c, m) \/ ~ Carries(c, l, p, q, m.op) THEN 0
  ELSE IF ByThreads(c, m) THEN IF q \in m.didSend THEN 1 + Size(c, m.op, p) ELSE 0
  ELSE IF Dist(p, q) \in m.begun THEN 1 + m.sent[Dist(p, q)] ELSE 0
Arrived(c, m, l, p, q) ==
  IF Idle(c, m) \/ ~ Carries(c, l, p, q, m.op) \/ m.newLen[Slot(c, p, q, m.op)] = NotYet THEN 0
  ELSE 1 + Len(m.got[Slot(c, p, q, m.op)])

In(c, m, l, p, q)  == Base(c, l, p, q)[m.op + m.stopped] + Going(c, m, l, p, q)
Out(c, m, l, p, q) == Base(c, l, p, q)[m.op + m.stopped] + Arrived(c, m, l, p, q)

FlowOK(c, l, p, q) ==
  Flow(c, l, p, q, pipe[l][p][q], Out(c, Local(q), l, p, q), In(c, Local(p), l, p, q))

Shape == /\ op = [p \in Party |-> op[p]] /\ begun = [p \in Party |-> begun[p]]
         /\ sent = [p \in Party |-> sent[p]] /\ got = [p \in Party |-> got[p]]
         /\ newLen = [p \in Party |-> newLen[p]] /\ ctx = [p \in Party |-> ctx[p]]
         /\ pipe = [l \in Layer |-> [p \in Party |-> [q \in Party |-> pipe[l][p][q]]]]

StateOK(c) == /\ Shape
              /\ \A p \in Party : LocalOK(c, p, Local(p))
              /\ \A l \in Layer : \A p, q \in Party : p # q => FlowOK(c, l, p, q)

RoundsInv == PlanOK(Plan) /\ StateOK(Plan)

-----------------------------------------------------------------------------
(* What the actions say, in these terms.                                    *)
LEMMA PlanSays ==
  ASSUME NEW c, c = Plan
  PROVE  c.program = program /\ c.lied = lied /\ c.layers = layers
BY DEF Plan

(* What Local says of a party.                                              *)
LEMMA LocalSays ==
  ASSUME NEW p, NEW m, m = Local(p)
  PROVE  /\ m.op = op[p] /\ m.begun = begun[p] /\ m.sent = sent[p] /\ m.got = got[p]
         /\ m.newLen = newLen[p] /\ m.ctx = ctx[p] /\ m.stopped = IF p \in threw THEN 1 ELSE 0
BY DEF Local

(* The operators of the model in terms of the plan and of Local.            *)
LEMMA Bridge ==
  ASSUME NEW c, c = Plan, PlanOK(c), StateOK(c), NEW p \in Party, NEW m, m = Local(p)
  PROVE  /\ Through(p) <=> Idle(c, m)
         /\ Threaded(p) <=> ByThreads(c, m)
         /\ ~ Through(p) => /\ m.op \in Ops(c) /\ m.stopped = 0
                            /\ Op(p) = c.program[m.op]
                            /\ Exchangers(p) = Route(c, p, m.op)
                            /\ \A d \in Distance : From(p, d) = Source(c, p, d, m.op)
                            /\ \A q \in Party : Content(p, q, m.op) = Message(c, p, q, m.op)
<1>1. /\ c.program = program /\ c.lied = lied /\ c.layers = layers
      /\ m.op = op[p] /\ m.ctx = ctx[p] /\ m.stopped = IF p \in threw THEN 1 ELSE 0
  BY PlanSays, LocalSays
<1>2. Through(p) <=> Idle(c, m)
  BY <1>1 DEF Through, Idle
<1>3. Op(p).same = Same(c, m.op) /\ Op(p) = c.program[m.op]
  BY <1>1 DEF Op, Same
<1>4. Threaded(p) <=> ByThreads(c, m)
  BY <1>1, <1>2, <1>3 DEF Threaded, ByThreads
<1>5. PlaceOK(c, p, m)
  BY DEF StateOK, LocalOK
<1>6. ASSUME ~ Through(p)
      PROVE  /\ m.op \in Ops(c) /\ m.stopped = 0
             /\ Exchangers(p) = Route(c, p, m.op)
             /\ \A d \in Distance : From(p, d) = Source(c, p, d, m.op)
             /\ \A q \in Party : Content(p, q, m.op) = Message(c, p, q, m.op)
  <2>1. m.op \in Ops(c) /\ m.stopped = 0
    <3>1. ~ Idle(c, m)
      BY <1>2, <1>6
    <3>2. Len(c.program) \in Nat
      BY PlanIs
    <3> QED BY <1>5, <3>1, <3>2 DEF Idle, Ops, PlaceOK
  <2>2. Op(p).kind = Kind(c, m.op) /\ Op(p).who = c.program[m.op].who
    BY <1>3 DEF Kind
  <2>3. Kind(c, m.op) \in {"broadcast", "pass", "swap", "check"}
    BY <2>1, PlanIs
  <2>4. \A d \in Distance : To(p, d) \in Party /\ To(p, d) # p /\ Dist(p, To(p, d)) = d
    BY ToIs
  <2>5. Exchangers(p) = Route(c, p, m.op)
    <3>1. CASE Kind(c, m.op) = "broadcast"
      <4>1. Exchangers(p) = Distance
        BY <2>2, <3>1 DEF Exchangers, Distance
      <4> QED BY <4>1, <2>4, <3>1 DEF Route, Talks
    <3>2. CASE Kind(c, m.op) = "check"
      <4>1. Exchangers(p) = IF ctx[p] = <<>> THEN {} ELSE Distance
        BY <2>2, <3>2 DEF Exchangers, Distance
      <4>2. ctx[p] = Hashed(c, p)[m.op]
        BY <1>1, <1>5 DEF PlaceOK
      <4> QED BY <4>1, <4>2, <2>4, <3>2 DEF Route, Talks
    <3>3. CASE Kind(c, m.op) = "pass"
      <4>1. Exchangers(p) = {1} /\ 1 \in Distance
        BY <2>2, <3>3, Sums DEF Exchangers, Distance
      <4>2. \A d \in Distance : To(p, d) = To(p, 1) => d = 1
        BY <2>4, <4>1
      <4>3. \A d \in Distance : Talks(c, p, To(p, d), m.op) <=> d = 1
        BY <2>4, <3>3, <4>1, <4>2 DEF Talks
      <4> QED BY <4>1, <4>3 DEF Route
    <3>4. CASE Kind(c, m.op) = "swap"
      <4>1. Exchangers(p) = {d \in Distance : {p, To(p, d)} = c.program[m.op].who}
        BY <2>2, <3>4 DEF Exchangers, Distance, To
      <4>2. \A d \in Distance : Talks(c, p, To(p, d), m.op)
                                  <=> c.program[m.op].who = {p, To(p, d)}
        BY <2>4, <3>4 DEF Talks
      <4> QED BY <4>1, <4>2 DEF Route
    <3> QED BY <2>3, <3>1, <3>2, <3>3, <3>4
  <2>6. \A d \in Distance : From(p, d) = Source(c, p, d, m.op)
    BY <2>2 DEF From, Source, Back
  <2>7. ASSUME NEW q \in Party PROVE Content(p, q, m.op) = Message(c, p, q, m.op)
    <3>1. CASE Kind(c, m.op) = "check"
      <4>1. ctx[p] = Hashed(c, p)[m.op]
        BY <1>1, <1>5 DEF PlaceOK
      <4> QED BY <3>1, <4>1, <1>1 DEF Content, Message, Kind
    <3>2. CASE Kind(c, m.op) # "check"
      BY <3>2, <1>1 DEF Content, Message, Kind, Bytes, Size, Mark
    <3> QED BY <3>1, <3>2
  <2> QED BY <2>1, <2>5, <2>6, <2>7
<1> QED BY <1>2, <1>3, <1>4, <1>6

(* A step of one party, seen by the others.                                 *)
LEMMA OneParty ==
  ASSUME NEW c, c = Plan, PlanOK(c), StateOK(c), NEW p \in Party,
         program' = program, lied' = lied, layers' = layers, Shape',
         \A r \in Party : r # p => Local(r)' = Local(r),
         LocalOK(c, p, Local(p)'),
         \A l \in Layer : \A q \in Party : q # p =>
           /\ Flow(c, l, p, q, pipe'[l][p][q], Out(c, Local(q), l, p, q), In(c, Local(p)', l, p, q))
           /\ Flow(c, l, q, p, pipe'[l][q][p], Out(c, Local(p)', l, q, p), In(c, Local(q), l, q, p)),
         \A l \in Layer : \A q, r \in Party : q # p /\ r # p => pipe'[l][q][r] = pipe[l][q][r]
  PROVE  c = Plan' /\ StateOK(c)'
<1>1. c = Plan'
  BY DEF Plan
<1>2. ASSUME NEW r \in Party PROVE LocalOK(c, r, Local(r)')
  <2>1. CASE r = p
    BY <2>1
  <2>2. CASE r # p
    <3>1. LocalOK(c, r, Local(r)) /\ Local(r)' = Local(r)
      BY <2>2 DEF StateOK
    <3> QED BY <3>1
  <2> QED BY <2>1, <2>2
<1>3. ASSUME NEW l \in Layer, NEW q \in Party, NEW r \in Party, q # r
      PROVE  Flow(c, l, q, r, pipe'[l][q][r], Out(c, Local(r)', l, q, r), In(c, Local(q)', l, q, r))
  <2>1. CASE q = p
    <3>1. r # p /\ Local(r)' = Local(r)
      BY <1>3, <2>1
    <3>2. Flow(c, l, p, r, pipe'[l][p][r], Out(c, Local(r), l, p, r), In(c, Local(p)', l, p, r))
      BY <3>1
    <3> QED BY <3>1, <3>2, <2>1
  <2>2. CASE r = p
    <3>1. q # p /\ Local(q)' = Local(q)
      BY <1>3, <2>2
    <3>2. Flow(c, l, q, p, pipe'[l][q][p], Out(c, Local(p)', l, q, p), In(c, Local(q), l, q, p))
      BY <3>1
    <3> QED BY <3>1, <3>2, <2>2
  <2>3. CASE q # p /\ r # p
    <3>1. Local(q)' = Local(q) /\ Local(r)' = Local(r) /\ pipe'[l][q][r] = pipe[l][q][r]
      BY <2>3
    <3>2. Flow(c, l, q, r, pipe[l][q][r], Out(c, Local(r), l, q, r), In(c, Local(q), l, q, r))
      BY <1>3 DEF StateOK, FlowOK
    <3> QED BY <3>1, <3>2
  <2> QED BY <2>1, <2>2, <2>3
<1> QED BY <1>1, <1>2, <1>3 DEF StateOK, FlowOK

(* What does not touch the counts.                                          *)
LEMMA SameIn ==
  ASSUME NEW c, NEW m, NEW m1, m1.op = m.op, m1.stopped = m.stopped, m1.begun = m.begun,
         m1.sent = m.sent, m1.didSend = m.didSend, NEW l, NEW p, NEW q
  PROVE  In(c, m1, l, p, q) = In(c, m, l, p, q)
BY DEF In, Going, Idle, ByThreads

(* What a party has taken out depends on its exchangers only.               *)
LEMMA SameOut ==
  ASSUME NEW c, NEW m, NEW m1, m1.op = m.op, m1.stopped = m.stopped, m1.got = m.got,
         m1.newLen = m.newLen, NEW l, NEW p, NEW q
  PROVE  Out(c, m1, l, p, q) = Out(c, m, l, p, q)
BY DEF Out, Arrived, Idle

(* Where a party is depends on its operation and its hash only.             *)
LEMMA SamePlace ==
  ASSUME NEW c, NEW p, NEW m, NEW m1, m1.op = m.op, m1.stopped = m.stopped, m1.ctx = m.ctx
  PROVE  /\ Idle(c, m1) <=> Idle(c, m)
         /\ ByThreads(c, m1) <=> ByThreads(c, m)
         /\ PlaceOK(c, p, m) => PlaceOK(c, p, m1)
BY DEF Idle, ByThreads, PlaceOK

(* What an append to a connection, and a removal, leave alone.              *)
Connections(P) == P = [l \in Layer |-> [p \in Party |-> [q \in Party |-> P[l][p][q]]]]

(* EXCEPT changes one entry.                                                *)
LEMMA OneEntry ==
  ASSUME NEW S, NEW F, F = [x \in S |-> F[x]], NEW y \in S, NEW v, NEW G, G = [F EXCEPT ![y] = v]
  PROVE  G = [x \in S |-> G[x]] /\ G[y] = v /\ \A x \in S : x # y => G[x] = F[x]
OBVIOUS

(* P1 is P with v instead of what was between p and q.                      *)
Changed(P1, P, l, p, q, v) ==
  /\ P1[l][p][q] = v
  /\ \A k \in Layer : \A r, s \in Party : k # l \/ r # p \/ s # q => P1[k][r][s] = P[k][r][s]
  /\ Connections(P1)

(* EXCEPT changes one connection.                                           *)
LEMMA OneConnection ==
  ASSUME NEW P, Connections(P), NEW l \in Layer, NEW p \in Party, NEW q \in Party,
         NEW v, NEW P1, P1 = [P EXCEPT ![l][p][q] = v]
  PROVE  Changed(P1, P, l, p, q, v)
<1>1. /\ \A k \in Layer : \A r \in Party : P[k][r] = [s \in Party |-> P[k][r][s]]
      /\ \A k \in Layer : P[k] = [r \in Party |-> P[k][r]]
      /\ P = [k \in Layer |-> P[k]]
  BY DEF Connections
<1>2. PICK A : A = P[l]
  OBVIOUS
<1>3. PICK B : B = A[p]
  OBVIOUS
<1>4. A = [r \in Party |-> A[r]] /\ B = [s \in Party |-> B[s]]
  BY <1>1, <1>2, <1>3
<1>5. PICK B1 : B1 = [B EXCEPT ![q] = v]
  OBVIOUS
<1>6. PICK A1 : A1 = [A EXCEPT ![p] = B1]
  OBVIOUS
<1>7. P1 = [P EXCEPT ![l] = A1]
  BY <1>2, <1>3, <1>5, <1>6
<1>8. B1 = [s \in Party |-> B1[s]] /\ B1[q] = v /\ \A s \in Party : s # q => B1[s] = B[s]
  BY <1>4, <1>5, OneEntry
<1>9. A1 = [r \in Party |-> A1[r]] /\ A1[p] = B1 /\ \A r \in Party : r # p => A1[r] = A[r]
  BY <1>4, <1>6, OneEntry
<1>10. P1 = [k \in Layer |-> P1[k]] /\ P1[l] = A1 /\ \A k \in Layer : k # l => P1[k] = P[k]
  BY <1>1, <1>7, OneEntry
<1>11. P1[l][p][q] = v
  BY <1>8, <1>9, <1>10
<1>12. ASSUME NEW k \in Layer, NEW r \in Party, NEW s \in Party, k # l \/ r # p \/ s # q
       PROVE  P1[k][r][s] = P[k][r][s]
  BY <1>2, <1>3, <1>8, <1>9, <1>10, <1>12
<1>13. ASSUME NEW k \in Layer, NEW r \in Party PROVE P1[k][r] = [s \in Party |-> P1[k][r][s]]
  <2>1. CASE k = l /\ r = p
    <3>1. P1[k][r] = B1
      BY <2>1, <1>9, <1>10
    <3> QED BY <3>1, <1>8
  <2>2. CASE ~ (k = l /\ r = p)
    <3>1. P1[k][r] = P[k][r]
      BY <1>2, <1>9, <1>10, <2>2
    <3> QED BY <3>1, <1>1
  <2> QED BY <2>1, <2>2
<1>14. ASSUME NEW k \in Layer PROVE P1[k] = [r \in Party |-> P1[k][r]]
  <2>1. CASE k = l
    BY <2>1, <1>9, <1>10
  <2>2. CASE k # l
    BY <2>2, <1>1, <1>10
  <2> QED BY <2>1, <2>2
<1>15. ASSUME NEW k \in Layer
       PROVE  P1[k] = [r \in Party |-> [s \in Party |-> P1[k][r][s]]]
  <2>1. PICK C : C = P1[k]
    OBVIOUS
  <2>2. C = [r \in Party |-> C[r]] /\ \A r \in Party : C[r] = [s \in Party |-> C[r][s]]
    BY <2>1, <1>13, <1>14
  <2> QED BY <2>1, <2>2
<1>16. Connections(P1)
  BY <1>10, <1>15 DEF Connections
<1> QED BY <1>11, <1>12, <1>16 DEF Changed

(* Put appends to one connection and leaves the others.                     *)
LEMMA PutIs ==
  ASSUME Shape, NEW l \in Layer, NEW p \in Party, NEW q \in Party, NEW us, Put(l, p, q, us)
  PROVE  /\ pipe'[l][p][q] = pipe[l][p][q] \o us
         /\ \A k \in Layer : \A r, s \in Party :
              k # l \/ r # p \/ s # q => pipe'[k][r][s] = pipe[k][r][s]
         /\ pipe' = [k \in Layer |-> [r \in Party |-> [s \in Party |-> pipe'[k][r][s]]]]
<1>1. Connections(pipe) /\ pipe' = [pipe EXCEPT ![l][p][q] = pipe[l][p][q] \o us]
  BY DEF Shape, Connections, Put
<1>2. PICK v : v = pipe[l][p][q] \o us
  OBVIOUS
<1>3. PICK P1 : P1 = pipe'
  OBVIOUS
<1>4. P1 = [pipe EXCEPT ![l][p][q] = v]
  BY <1>1, <1>2, <1>3
<1>5. Changed(P1, pipe, l, p, q, v)
  BY <1>1, <1>4, OneConnection
<1> QED BY <1>2, <1>3, <1>5 DEF Changed, Connections

(* Take removes from one connection and leaves the others.                  *)
LEMMA TakeIs ==
  ASSUME Shape, NEW l \in Layer, NEW p \in Party, NEW q \in Party, NEW n, Take(l, p, q, n)
  PROVE  /\ pipe'[l][q][p] = SubSeq(pipe[l][q][p], n + 1, Len(pipe[l][q][p]))
         /\ \A k \in Layer : \A r, s \in Party :
              k # l \/ r # q \/ s # p => pipe'[k][r][s] = pipe[k][r][s]
         /\ pipe' = [k \in Layer |-> [r \in Party |-> [s \in Party |-> pipe'[k][r][s]]]]
<1>1. /\ Connections(pipe)
      /\ pipe' = [pipe EXCEPT ![l][q][p] = SubSeq(pipe[l][q][p], n + 1, Len(pipe[l][q][p]))]
  BY DEF Shape, Connections, Take
<1>2. PICK v : v = SubSeq(pipe[l][q][p], n + 1, Len(pipe[l][q][p]))
  OBVIOUS
<1>3. PICK P1 : P1 = pipe'
  OBVIOUS
<1>4. P1 = [pipe EXCEPT ![l][q][p] = v]
  BY <1>1, <1>2, <1>3
<1>5. Changed(P1, pipe, l, q, p, v)
  BY <1>1, <1>4, OneConnection
<1> QED BY <1>2, <1>3, <1>5 DEF Changed, Connections

(* Exchangers use the first connection.                                     *)
LEMMA FirstTrack ==
  ASSUME NEW c, PlanOK(c), NEW m, ~ Idle(c, m), ~ ByThreads(c, m), NEW p, NEW q
  PROVE  Track(c, p, q, m.op) = 0
<1>1. c.layers = 1 \/ Same(c, m.op)
  BY DEF PlanOK, ByThreads
<1> QED BY <1>1 DEF Track

-----------------------------------------------------------------------------
(* The constructor of an exchanger.                                         *)
LEMMA ConstructStep ==
  ASSUME NEW c, c = Plan, PlanOK(c), StateOK(c), NEW p \in Party, NEW d \in Distance,
         Construct(p, d), ~ Threaded(p), UNCHANGED queues, layers' = layers
  PROVE  c = Plan' /\ StateOK(c)'
<1>1. PICK m : m = Local(p)
  OBVIOUS
<1>2. PICK m1 : m1 = Local(p)'
  OBVIOUS
<1>3. /\ ~ Idle(c, m) /\ ~ ByThreads(c, m) /\ m.op \in Ops(c) /\ m.stopped = 0
      /\ d \in Route(c, p, m.op) /\ d \notin m.begun /\ Op(p) = c.program[m.op]
  <2>1. ~ Through(p) /\ d \in Exchangers(p) \ begun[p]
    BY DEF Construct
  <2>2. m.begun = begun[p]
    BY <1>1, LocalSays
  <2> QED BY <1>1, <2>1, <2>2, Bridge
<1>4. LocalOK(c, p, m) /\ Shape
  BY <1>1 DEF StateOK
<1>5. PICK q : q = To(p, d)
  OBVIOUS
<1>6. q \in Party /\ q # p /\ Dist(p, q) = d /\ Talks(c, p, q, m.op)
  BY <1>3, <1>5, RouteIs
<1>7. 0 \in Layer
  BY DEF Layer
<1>8. /\ m1.op = m.op /\ m1.stopped = m.stopped /\ m1.begun = m.begun \cup {d}
      /\ m1.sent = m.sent /\ m1.got = m.got /\ m1.newLen = m.newLen /\ m1.ctx = m.ctx
      /\ m1.toSend = m.toSend /\ m1.toReceive = m.toReceive
      /\ m1.didSend = m.didSend /\ m1.didReceive = m.didReceive
  BY <1>1, <1>2, <1>4 DEF Construct, Local, Shape, queues
<1>9. \A r \in Party : r # p => Local(r)' = Local(r)
  BY <1>4 DEF Construct, Local, Shape, queues
<1>10. LocalOK(c, p, m1)
  <2>1. PlaceOK(c, p, m1) /\ ~ Idle(c, m1) /\ ~ ByThreads(c, m1)
    BY <1>3, <1>4, <1>8, SamePlace DEF LocalOK
  <2>2. BegunOK(c, p, m1)
    BY <1>3, <1>4, <1>8, <2>1 DEF LocalOK, BegunOK, Route
  <2>3. m.begun = Route(c, p, m.op) => m1.begun = Route(c, p, m.op)
    BY <1>3, <1>8
  <2>4. SentOK(c, p, m1)
    BY <1>4, <1>8, <2>1, <2>3 DEF LocalOK, SentOK
  <2>5. GotOK(c, p, m1)
    <3>1. /\ m1.got \in [Distance -> Seq(Value(c))] /\ m1.newLen \in [Distance -> Nat \cup {NotYet}]
          /\ m1.op = m.op /\ m1.sent = m.sent /\ m1.got = m.got /\ m1.newLen = m.newLen
      BY <1>4, <1>8 DEF LocalOK, GotOK
    <3>2. GotOK(c, p, m)
      BY <1>4 DEF LocalOK
    <3> QED BY <1>3, <2>1, <2>3, <3>1, <3>2 DEF GotOK
  <2>6. QueuesOK(c, p, m1)
    BY <1>3, <1>4, <1>8, <2>1 DEF LocalOK, QueuesOK
  <2> QED BY <2>1, <2>2, <2>4, <2>5, <2>6 DEF LocalOK
<1>11. Put(0, p, q, <<LengthUnit(p)>>)
  BY <1>5 DEF Construct
<1>12. ASSUME NEW l \in Layer, NEW r \in Party, r # p
       PROVE  Flow(c, l, p, r, pipe'[l][p][r], Out(c, Local(r), l, p, r), In(c, m1, l, p, r))
  <2>1. Flow(c, l, p, r, pipe[l][p][r], Out(c, Local(r), l, p, r), In(c, m, l, p, r))
    BY <1>1, <1>12 DEF StateOK, FlowOK
  <2>2. CASE l = 0 /\ r = q
    <3>1. Carries(c, l, p, q, m.op)
      BY <1>3, <1>6, <2>2, FirstTrack DEF Carries
    <3>2. m.sent[d] = 0
      BY <1>3, <1>4 DEF LocalOK, SentOK
    <3>3. In(c, m, l, p, q) = Base(c, l, p, q)[m.op + m.stopped] + 0
      BY <1>3, <1>6, <3>1 DEF In, Going
    <3>4. In(c, m1, l, p, q) = Base(c, l, p, q)[m.op + m.stopped] + 1
      <4>1. ~ Idle(c, m1) /\ ~ ByThreads(c, m1)
        BY <1>3, <1>8, SamePlace
      <4> QED BY <1>6, <1>8, <3>1, <3>2, <4>1 DEF In, Going
    <3>5. PICK b : b = Base(c, l, p, q)[m.op]
      OBVIOUS
    <3>6. b \in Nat /\ m.op \in Nat /\ m.op + m.stopped = m.op
      <4>1. m.op \in 1 .. Len(c.program) + 1 /\ m.op \in Nat
        BY <1>3, PlanIs DEF Ops
      <4>2. b \in Nat
        BY <3>5, <4>1, BaseIs
      <4>3. m.op + m.stopped = m.op
        BY <1>3, <4>1
      <4> QED BY <4>1, <4>2, <4>3
    <3>7. In(c, m, l, p, q) = b + 0 /\ In(c, m1, l, p, q) = In(c, m, l, p, q) + 1
      BY <3>3, <3>4, <3>5, <3>6
    <3> DEFINE us == <<LengthUnit(p)>>
    <3>8. LengthUnit(p) = Unit(c, p, q, m.op, 0)
      BY <1>3 DEF LengthUnit, Unit, Size
    <3>9. UnitsFrom(c, p, q, m.op, 0, us) /\ Len(us) = 1
      <4>1. Size(c, m.op, p) \in Nat
        BY <1>3, PlanIs
      <4>2. 0 \in 0 .. Size(c, m.op, p)
        BY <4>1
      <4>3. LengthUnit(p) \in Units(c)
        BY <1>3, <1>6, <3>8, <4>2, MessageIs
      <4> QED BY <3>8, <4>3 DEF UnitsFrom
    <3>10. pipe'[l][p][q] = pipe[l][p][q] \o us
      <4>1. pipe'[0][p][q] = pipe[0][p][q] \o <<LengthUnit(p)>>
        <5>1. PICK u : u = <<LengthUnit(p)>>
          OBVIOUS
        <5>2. Put(0, p, q, u)
          BY <1>11, <5>1
        <5>3. pipe'[0][p][q] = pipe[0][p][q] \o u
          BY <1>4, <1>6, <1>7, <5>2, PutIs
        <5> QED BY <5>1, <5>3
      <4> QED BY <2>2, <4>1
    <3>11. 0 + Len(us) <= 1 + Size(c, m.op, p)
      <4>1. Size(c, m.op, p) \in Nat
        BY <1>3, PlanIs
      <4> QED BY <3>9, <4>1
    <3> HIDE DEF us
    <3>12. Flow(c, l, p, q, pipe[l][p][q], Out(c, Local(q), l, p, q), In(c, m, l, p, q))
      BY <2>1, <2>2
    <3>13. In(c, m, l, p, q) = Base(c, l, p, q)[m.op] + 0
      BY <3>5, <3>7
    <3>14. In(c, m1, l, p, q) = In(c, m, l, p, q) + Len(us)
      BY <3>7, <3>9
    <3>15. Flow(c, l, p, q, pipe'[l][p][q], Out(c, Local(q), l, p, q), In(c, m1, l, p, q))
      <4>1. PICK s, s1, n, n1 : /\ s = pipe[l][p][q] /\ s1 = pipe'[l][p][q]
                                /\ n = In(c, m, l, p, q) /\ n1 = In(c, m1, l, p, q)
        OBVIOUS
      <4>2. PICK x : x = 0
        OBVIOUS
      <4>3. x \in Nat /\ n = Base(c, l, p, q)[m.op] + x /\ n1 = n + Len(us) /\ s1 = s \o us
        BY <3>10, <3>13, <3>14, <4>1, <4>2
      <4>4. Flow(c, l, p, q, s, Out(c, Local(q), l, p, q), n)
        BY <3>12, <4>1
      <4>5. UnitsFrom(c, p, q, m.op, x, us) /\ x + Len(us) <= 1 + Size(c, m.op, p)
        BY <3>9, <3>11, <4>2
      <4>6. Flow(c, l, p, q, s1, Out(c, Local(q), l, p, q), n1)
        BY <1>3, <1>6, <3>1, <4>3, <4>4, <4>5, FlowPutAll DEF Extends
      <4> QED BY <4>1, <4>6
    <3> QED BY <2>2, <3>15
  <2>3. CASE ~ (l = 0 /\ r = q)
    <3>1. pipe'[l][p][r] = pipe[l][p][r]
      BY <1>4, <1>6, <1>7, <1>11, <2>3, PutIs
    <3>2. In(c, m1, l, p, r) = In(c, m, l, p, r)
      <4>1. CASE l # 0
        <5>1. ~ Carries(c, l, p, r, m.op)
          BY <1>3, <4>1, FirstTrack DEF Carries
        <5> QED BY <1>8, <5>1 DEF In, Going
      <4>2. CASE r # q
        <5>1. Dist(p, r) # d
          BY <1>5, <1>12, <4>2, DistIs
        <5>2. Dist(p, r) \in m1.begun <=> Dist(p, r) \in m.begun
          BY <1>8, <5>1
        <5>3. (Idle(c, m1) <=> Idle(c, m)) /\ (ByThreads(c, m1) <=> ByThreads(c, m))
          BY <1>8, SamePlace
        <5> QED BY <1>8, <5>2, <5>3 DEF In, Going
      <4> QED BY <2>3, <4>1, <4>2
    <3> QED BY <2>1, <3>1, <3>2
  <2> QED BY <2>2, <2>3
<1>13. ASSUME NEW l \in Layer, NEW r \in Party, r # p
       PROVE  Flow(c, l, r, p, pipe'[l][r][p], Out(c, m1, l, r, p), In(c, Local(r), l, r, p))
  <2>1. Flow(c, l, r, p, pipe[l][r][p], Out(c, m, l, r, p), In(c, Local(r), l, r, p))
    BY <1>1, <1>13 DEF StateOK, FlowOK
  <2>2. pipe'[l][r][p] = pipe[l][r][p]
    BY <1>4, <1>6, <1>7, <1>11, <1>13, PutIs
  <2>3. Out(c, m1, l, r, p) = Out(c, m, l, r, p)
    BY <1>8, SameOut
  <2> QED BY <2>1, <2>2, <2>3
<1>14. \A l \in Layer : \A r, s \in Party : r # p /\ s # p => pipe'[l][r][s] = pipe[l][r][s]
  BY <1>4, <1>6, <1>7, <1>11, PutIs
<1>15. Shape' /\ program' = program /\ lied' = lied
  <2>1. pipe' = [k \in Layer |-> [r \in Party |-> [s \in Party |-> pipe'[k][r][s]]]]
    BY <1>4, <1>6, <1>7, <1>11, PutIs
  <2> QED BY <1>4, <2>1 DEF Construct, Shape
<1> QED BY <1>2, <1>9, <1>10, <1>12, <1>13, <1>14, <1>15, OneParty

-----------------------------------------------------------------------------
(* An exchanger that runs, in these terms.                                  *)
LEMMA ExchangerAt ==
  ASSUME NEW c, c = Plan, PlanOK(c), StateOK(c), NEW p \in Party, NEW d \in Distance,
         Running(p, d), ~ Threaded(p), NEW m, m = Local(p)
  PROVE  /\ ~ Idle(c, m) /\ ~ ByThreads(c, m) /\ m.op \in Ops(c) /\ m.stopped = 0
         /\ m.begun = Route(c, p, m.op) /\ d \in Route(c, p, m.op)
         /\ Op(p) = c.program[m.op] /\ LocalOK(c, p, m) /\ Shape
         /\ From(p, d) = Source(c, p, d, m.op)
         /\ Carries(c, 0, p, To(p, d), m.op)
         /\ Carries(c, 0, Source(c, p, d, m.op), p, m.op)
<1>1. ~ Through(p) /\ begun[p] = Exchangers(p) /\ d \in Exchangers(p)
  BY DEF Running
<1>2. /\ ~ Idle(c, m) /\ ~ ByThreads(c, m) /\ m.op \in Ops(c) /\ m.stopped = 0
      /\ m.begun = Route(c, p, m.op) /\ d \in Route(c, p, m.op)
      /\ Op(p) = c.program[m.op] /\ From(p, d) = Source(c, p, d, m.op)
  <2>1. m.begun = begun[p]
    BY LocalSays
  <2> QED BY <1>1, <2>1, Bridge
<1>3. LocalOK(c, p, m) /\ Shape
  BY DEF StateOK
<1>4. Talks(c, p, To(p, d), m.op) /\ Talks(c, Source(c, p, d, m.op), p, m.op)
  BY <1>2, RouteIs
<1>5. \A r, s : Track(c, r, s, m.op) = 0
  BY <1>2, FirstTrack
<1> QED BY <1>2, <1>3, <1>4, <1>5 DEF Carries

(* Its counts.                                                              *)
LEMMA SenderCount ==
  ASSUME NEW c, PlanOK(c), NEW m, ~ Idle(c, m), ~ ByThreads(c, m), m.op \in Ops(c), m.stopped = 0,
         NEW l, NEW p \in Party, NEW q \in Party, Carries(c, l, p, q, m.op), NEW d, Dist(p, q) = d,
         d \in m.begun, NEW x, m.sent[d] = x
  PROVE  In(c, m, l, p, q) = Base(c, l, p, q)[m.op] + (1 + x)
<1>1. m.op + m.stopped = m.op
  BY PlanIs DEF Ops
<1> QED BY <1>1 DEF In, Going

(* What a receiver has taken out: nothing, or the length and some bytes.    *)
LEMMA ReceiverCount ==
  ASSUME NEW c, PlanOK(c), NEW m, ~ Idle(c, m), m.op \in Ops(c), m.stopped = 0,
         NEW l, NEW p \in Party, NEW q \in Party, Carries(c, l, q, p, m.op),
         NEW d, Slot(c, q, p, m.op) = d
  PROVE  /\ m.newLen[d] = NotYet => Out(c, m, l, q, p) = Base(c, l, q, p)[m.op] + 0
         /\ m.newLen[d] # NotYet =>
              Out(c, m, l, q, p) = Base(c, l, q, p)[m.op] + (1 + Len(m.got[d]))
<1>1. m.op + m.stopped = m.op
  BY PlanIs DEF Ops
<1> QED BY <1>1 DEF Out, Arrived

(* What another exchanger of the party does not change.                     *)
LEMMA InOther ==
  ASSUME NEW c, PlanOK(c), NEW m, ~ Idle(c, m), ~ ByThreads(c, m), m.op \in Ops(c),
         NEW p \in Party, NEW d \in Distance, NEW m1, m1.op = m.op, m1.stopped = m.stopped,
         m1.begun = m.begun, m1.didSend = m.didSend,
         \A e \in Distance : e # d => m1.sent[e] = m.sent[e],
         NEW l, NEW r \in Party, r # p, ~ (l = 0 /\ r = To(p, d))
  PROVE  In(c, m1, l, p, r) = In(c, m, l, p, r)
<1>1. CASE l # 0
  <2>1. ~ Carries(c, l, p, r, m.op)
    BY <1>1, FirstTrack DEF Carries
  <2> QED BY <2>1 DEF In, Going
<1>2. CASE l = 0
  <2>1. Dist(p, r) # d /\ Dist(p, r) \in Distance
    BY <1>2, DistIs
  <2>2. m1.sent[Dist(p, r)] = m.sent[Dist(p, r)]
    BY <2>1
  <2> QED BY <2>2 DEF In, Going, Idle, ByThreads
<1> QED BY <1>1, <1>2

(* An exchanger that receives leaves alone what the others have taken out.  *)
LEMMA OutOther ==
  ASSUME NEW c, PlanOK(c), NEW m, ~ Idle(c, m), m.op \in Ops(c),
         NEW p \in Party, NEW d \in Distance, NEW m1, m1.op = m.op, m1.stopped = m.stopped,
         \A e \in Distance : e # d => m1.got[e] = m.got[e] /\ m1.newLen[e] = m.newLen[e],
         NEW l, NEW r \in Party, r # p,
         ~ (Carries(c, l, r, p, m.op) /\ r = Source(c, p, d, m.op))
  PROVE  Out(c, m1, l, r, p) = Out(c, m, l, r, p)
<1>1. CASE ~ Carries(c, l, r, p, m.op)
  BY <1>1 DEF Out, Arrived
<1>2. CASE Carries(c, l, r, p, m.op)
  <2>1. PICK e : e = Slot(c, r, p, m.op)
    OBVIOUS
  <2>2. e \in Route(c, p, m.op) /\ Source(c, p, e, m.op) = r
    BY <1>2, <2>1, TalksIs DEF Carries
  <2>3. e # d /\ e \in Distance
    BY <1>2, <2>2 DEF Route
  <2>4. m1.got[e] = m.got[e] /\ m1.newLen[e] = m.newLen[e]
    BY <2>3
  <2> QED BY <2>1, <2>4 DEF Out, Arrived, Idle
<1> QED BY <1>1, <1>2

(* The exchanger sends some bytes.                                          *)
LEMMA RoundSendStep ==
  ASSUME NEW c, c = Plan, PlanOK(c), StateOK(c), NEW p \in Party, NEW d \in Distance,
         RoundSend(p, d), ~ Threaded(p), UNCHANGED queues, layers' = layers
  PROVE  c = Plan' /\ StateOK(c)'
<1>1. PICK m : m = Local(p)
  OBVIOUS
<1>2. PICK m1 : m1 = Local(p)'
  OBVIOUS
<1>0. Running(p, d)
  BY DEF RoundSend
<1>3. /\ ~ Idle(c, m) /\ ~ ByThreads(c, m) /\ m.op \in Ops(c) /\ m.stopped = 0
      /\ m.begun = Route(c, p, m.op) /\ d \in Route(c, p, m.op)
      /\ Op(p) = c.program[m.op] /\ LocalOK(c, p, m) /\ Shape
      /\ Carries(c, 0, p, To(p, d), m.op)
  BY <1>0, <1>1, ExchangerAt
<1>4. PICK q : q = To(p, d)
  OBVIOUS
<1>5. q \in Party /\ q # p /\ Dist(p, q) = d /\ 0 \in Layer
  BY <1>3, <1>4, RouteIs DEF Layer
<1>6. PICK x : x = sent[p][d]
  OBVIOUS
<1>7. PICK n \in 1 .. Least(Op(p).len[p] - sent[p][d], Room(p, d)) :
        /\ Put(0, p, To(p, d), [j \in 1 .. n |-> ByteUnit(ByteAt(p, d, sent[p][d] + j))])
        /\ sent' = [sent EXCEPT ![p][d] = @ + n]
  BY DEF RoundSend
<1>8. /\ m.sent = sent[p] /\ m.op = op[p] /\ m.got = got[p] /\ m.newLen = newLen[p]
      /\ m.sent \in [Distance -> Nat] /\ x \in Nat
      /\ Op(p).len[p] = Size(c, m.op, p) /\ Size(c, m.op, p) \in Nat
  <2>1. m.sent = sent[p] /\ m.op = op[p] /\ m.got = got[p] /\ m.newLen = newLen[p]
    BY <1>1, LocalSays
  <2>2. m.sent \in [Distance -> Nat]
    BY <1>3 DEF LocalOK, SentOK
  <2>3. Op(p).len[p] = Size(c, m.op, p) /\ Size(c, m.op, p) \in Nat
    BY <1>3, PlanIs DEF Size
  <2> QED BY <1>6, <2>1, <2>2, <2>3
<1>9. n \in Nat /\ n > 0 /\ x + n <= Size(c, m.op, p)
  <2>1. PICK a, b : a = Size(c, m.op, p) - x /\ b = Room(p, d)
    OBVIOUS
  <2>2. n \in 1 .. Least(a, b)
    BY <1>6, <1>7, <1>8, <2>1
  <2>3. pipe[0][p][q] \in Seq(Units(c))
    BY <1>5 DEF StateOK, FlowOK, Flow
  <2>4. a \in Int /\ b \in Int
    BY <1>4, <1>8, <2>1, <2>3, CapAssumption DEF Room
  <2>5. n \in Nat /\ n > 0 /\ n <= a
    BY <2>2, <2>4 DEF Least
  <2> QED BY <1>8, <2>1, <2>5
<1>10. /\ m1.op = m.op /\ m1.stopped = m.stopped /\ m1.begun = m.begun
       /\ m1.got = m.got /\ m1.newLen = m.newLen /\ m1.ctx = m.ctx
       /\ m1.toSend = m.toSend /\ m1.toReceive = m.toReceive
       /\ m1.didSend = m.didSend /\ m1.didReceive = m.didReceive
  BY <1>1, <1>2, <1>3 DEF RoundSend, Local, Shape, queues
<1>11. m1.sent = [m.sent EXCEPT ![d] = x + n]
  <2>1. m1.sent = sent'[p] /\ m.sent = sent[p] /\ sent = [r \in Party |-> sent[r]]
    BY <1>1, <1>2, <1>3 DEF Local, Shape
  <2> QED BY <1>6, <1>7, <2>1
<1>12. \A r \in Party : r # p => Local(r)' = Local(r)
  BY <1>3 DEF RoundSend, Local, Shape, queues
<1>13. m1.sent \in [Distance -> Nat] /\ m1.sent[d] = x + n
       /\ \A e \in Distance : e # d => m1.sent[e] = m.sent[e]
  BY <1>8, <1>9, <1>11
<1>14. LocalOK(c, p, m1)
  <2>1. PlaceOK(c, p, m1) /\ ~ Idle(c, m1) /\ ~ ByThreads(c, m1)
    BY <1>3, <1>10, SamePlace DEF LocalOK
  <2>2. BegunOK(c, p, m1)
    BY <1>3, <1>10, <2>1 DEF LocalOK, BegunOK
  <2>3. SentOK(c, p, m1)
    <3>1. ASSUME NEW e \in Distance, m1.sent[e] # 0
          PROVE  e \in Route(c, p, m.op) /\ m1.sent[e] <= Size(c, m.op, p)
      <4>1. CASE e = d
        BY <1>3, <1>9, <1>13, <4>1
      <4>2. CASE e # d
        BY <1>3, <1>13, <3>1, <4>2 DEF LocalOK, SentOK
      <4> QED BY <4>1, <4>2
    <3> QED BY <1>3, <1>10, <1>13, <2>1, <3>1 DEF SentOK
  <2>4. GotOK(c, p, m1)
    <3>1. GotOK(c, p, m)
      BY <1>3 DEF LocalOK
    <3>2. ASSUME NEW e \in Distance, Same(c, m.op) PROVE Len(m.got[e]) <= m1.sent[e]
      <4>1. Len(m.got[e]) <= m.sent[e] /\ m.got[e] \in Seq(Value(c)) /\ m.sent[e] \in Nat
        BY <1>3, <1>8, <3>1, <3>2 DEF GotOK
      <4>2. m.sent[e] <= m1.sent[e] /\ m1.sent[e] \in Nat
        BY <1>6, <1>8, <1>9, <1>13
      <4> QED BY <4>1, <4>2
    <3> QED BY <1>3, <1>10, <2>1, <3>1, <3>2 DEF GotOK
  <2>5. QueuesOK(c, p, m1)
    BY <1>3, <1>10, <2>1 DEF LocalOK, QueuesOK
  <2> QED BY <2>1, <2>2, <2>3, <2>4, <2>5 DEF LocalOK
<1>15. PICK us : us = [j \in 1 .. n |-> ByteUnit(ByteAt(p, d, x + j))]
  OBVIOUS
<1>16. Put(0, p, q, us)
  BY <1>4, <1>6, <1>7, <1>15
<1>17. us = [j \in 1 .. n |-> Unit(c, p, q, m.op, (1 + x) + j - 1)]
  <2>1. ASSUME NEW j \in 1 .. n
        PROVE  ByteUnit(ByteAt(p, d, x + j)) = Unit(c, p, q, m.op, (1 + x) + j - 1)
    <3>1. PICK k : k = x + j
      OBVIOUS
    <3>2. k = (1 + x) + j - 1 /\ k # 0 /\ k > x /\ k \in Nat
      BY <1>8, <1>9, <3>1
    <3>3. ~ (Op(p).same /\ k <= Len(got[p][d]))
      <4>1. Op(p).same => Len(m.got[d]) <= x
        BY <1>3, <1>6, <1>8 DEF LocalOK, GotOK, Same
      <4>2. m.got[d] \in Seq(Value(c))
        BY <1>3 DEF LocalOK, GotOK
      <4> QED BY <1>8, <3>2, <4>1, <4>2
    <3>4. ByteAt(p, d, k) = Content(p, q, op[p])[k]
      BY <1>4, <3>3 DEF ByteAt
    <3>5. Content(p, q, op[p]) = Message(c, p, q, m.op)
      <4>1. ~ Through(p)
        BY <1>0 DEF Running
      <4> QED BY <1>1, <1>5, <1>8, <4>1, Bridge
    <3>6. Unit(c, p, q, m.op, k) = ByteUnit(Message(c, p, q, m.op)[k])
      BY <3>2 DEF Unit
    <3> QED BY <3>1, <3>2, <3>4, <3>5, <3>6
  <2> QED BY <1>15, <2>1
<1>18. Flow(c, 0, p, q, pipe'[0][p][q], Out(c, Local(q), 0, p, q), In(c, m1, 0, p, q))
  <2>1. PICK s, s1, z, z1 : /\ s = pipe[0][p][q] /\ s1 = pipe'[0][p][q]
                            /\ z = In(c, m, 0, p, q) /\ z1 = In(c, m1, 0, p, q)
    OBVIOUS
  <2>2. s1 = s \o us
    BY <1>3, <1>5, <1>16, <2>1, PutIs
  <2>3. z = Base(c, 0, p, q)[m.op] + (1 + x)
    BY <1>3, <1>4, <1>5, <1>6, <1>8, <2>1, SenderCount
  <2>4. z1 = Base(c, 0, p, q)[m.op] + (1 + (x + n))
    <3>1. ~ Idle(c, m1) /\ ~ ByThreads(c, m1)
      BY <1>3, <1>10, SamePlace
    <3> QED BY <1>3, <1>4, <1>5, <1>10, <1>13, <2>1, <3>1, SenderCount
  <2>5. PICK b : b = Base(c, 0, p, q)[m.op]
    OBVIOUS
  <2>6. b \in Nat
    <3>1. m.op \in 1 .. Len(c.program) + 1
      BY <1>3, PlanIs DEF Ops
    <3> QED BY <2>5, <3>1, BaseIs
  <2>7. PICK y : y = 1 + x
    OBVIOUS
  <2>8. y \in Nat /\ z1 = z + n /\ y + n <= 1 + Size(c, m.op, p)
    BY <1>8, <1>9, <2>3, <2>4, <2>5, <2>6, <2>7
  <2>9. us = [j \in 1 .. n |-> Unit(c, p, q, m.op, y + j - 1)]
    BY <1>17, <2>7
  <2>10. Flow(c, 0, p, q, s, Out(c, Local(q), 0, p, q), z)
    BY <1>1, <1>5, <2>1 DEF StateOK, FlowOK
  <2>11. Carries(c, 0, p, q, m.op) /\ z = Base(c, 0, p, q)[m.op] + y
    BY <1>3, <1>4, <2>3, <2>7
  <2>12. Flow(c, 0, p, q, s1, Out(c, Local(q), 0, p, q), z1)
    BY <1>3, <1>5, <1>9, <2>2, <2>8, <2>9, <2>10, <2>11, FlowPut
  <2> QED BY <2>1, <2>12
<1>19. ASSUME NEW l \in Layer, NEW r \in Party, r # p
       PROVE  Flow(c, l, p, r, pipe'[l][p][r], Out(c, Local(r), l, p, r), In(c, m1, l, p, r))
  <2>1. CASE l = 0 /\ r = q
    BY <1>18, <2>1
  <2>2. CASE ~ (l = 0 /\ r = q)
    <3>1. pipe'[l][p][r] = pipe[l][p][r]
      BY <1>3, <1>5, <1>16, <2>2, PutIs
    <3>2. In(c, m1, l, p, r) = In(c, m, l, p, r)
      BY <1>3, <1>4, <1>10, <1>13, <1>19, <2>2, InOther
    <3>3. Flow(c, l, p, r, pipe[l][p][r], Out(c, Local(r), l, p, r), In(c, m, l, p, r))
      BY <1>1, <1>19 DEF StateOK, FlowOK
    <3> QED BY <3>1, <3>2, <3>3
  <2> QED BY <2>1, <2>2
<1>20. ASSUME NEW l \in Layer, NEW r \in Party, r # p
       PROVE  Flow(c, l, r, p, pipe'[l][r][p], Out(c, m1, l, r, p), In(c, Local(r), l, r, p))
  <2>1. Flow(c, l, r, p, pipe[l][r][p], Out(c, m, l, r, p), In(c, Local(r), l, r, p))
    BY <1>1, <1>20 DEF StateOK, FlowOK
  <2>2. pipe'[l][r][p] = pipe[l][r][p]
    BY <1>3, <1>5, <1>16, <1>20, PutIs
  <2>3. Out(c, m1, l, r, p) = Out(c, m, l, r, p)
    BY <1>10, SameOut
  <2> QED BY <2>1, <2>2, <2>3
<1>21. \A l \in Layer : \A r, s \in Party : r # p /\ s # p => pipe'[l][r][s] = pipe[l][r][s]
  BY <1>3, <1>5, <1>16, PutIs
<1>22. Shape' /\ program' = program /\ lied' = lied
  <2>1. pipe' = [k \in Layer |-> [r \in Party |-> [s \in Party |-> pipe'[k][r][s]]]]
    BY <1>3, <1>5, <1>16, PutIs
  <2> QED BY <1>3, <2>1 DEF RoundSend, Shape
<1> QED BY <1>2, <1>12, <1>14, <1>19, <1>20, <1>21, <1>22, OneParty

-----------------------------------------------------------------------------
(* The connections after a step that leaves party p as m1 says.             *)
FlowsAfter(c, p, m1) ==
  /\ \A l \in Layer : \A q \in Party : q # p =>
       /\ Flow(c, l, p, q, pipe'[l][p][q], Out(c, Local(q), l, p, q), In(c, m1, l, p, q))
       /\ Flow(c, l, q, p, pipe'[l][q][p], Out(c, m1, l, q, p), In(c, Local(q), l, q, p))
  /\ \A l \in Layer : \A q, r \in Party : q # p /\ r # p => pipe'[l][q][r] = pipe[l][q][r]
  /\ Connections(pipe)'

(* p takes n units of the message of the party its exchanger d faces.       *)
LEMMA Taken ==
  ASSUME NEW c, c = Plan, PlanOK(c), StateOK(c), NEW p \in Party, NEW d \in Distance,
         NEW m, m = Local(p), ~ Idle(c, m), m.op \in Ops(c), d \in Route(c, p, m.op),
         NEW q, q = Source(c, p, d, m.op), NEW l \in Layer, Carries(c, l, q, p, m.op),
         NEW n \in Nat, Take(l, p, q, n), n <= Len(pipe[l][q][p]),
         NEW m1, m1.op = m.op, m1.stopped = m.stopped, m1.begun = m.begun,
         m1.sent = m.sent, m1.didSend = m.didSend,
         \A e \in Distance : e # d => m1.got[e] = m.got[e] /\ m1.newLen[e] = m.newLen[e],
         Out(c, m1, l, q, p) = Out(c, m, l, q, p) + n
  PROVE  FlowsAfter(c, p, m1)
<1>1. Shape /\ q \in Party /\ q # p
  BY RouteIs DEF StateOK
<1>2. Flow(c, l, q, p, pipe'[l][q][p], Out(c, m1, l, q, p), In(c, Local(q), l, q, p))
  <2>1. PICK s, s1, z, z1 : /\ s = pipe[l][q][p] /\ s1 = pipe'[l][q][p]
                            /\ z = Out(c, m, l, q, p) /\ z1 = Out(c, m1, l, q, p)
    OBVIOUS
  <2>2. s1 = SubSeq(s, n + 1, Len(s))
    BY <1>1, <2>1, TakeIs
  <2>3. Flow(c, l, q, p, s, z, In(c, Local(q), l, q, p))
    BY <1>1, <2>1 DEF StateOK, FlowOK
  <2>4. n <= Len(s) /\ z1 = z + n
    BY <2>1
  <2>5. Flow(c, l, q, p, s1, z1, In(c, Local(q), l, q, p))
    BY <1>1, <2>2, <2>3, <2>4, FlowTake
  <2> QED BY <2>1, <2>5
<1>3. ASSUME NEW k \in Layer, NEW r \in Party, r # p
      PROVE  Flow(c, k, r, p, pipe'[k][r][p], Out(c, m1, k, r, p), In(c, Local(r), k, r, p))
  <2>1. CASE k = l /\ r = q
    BY <1>2, <2>1
  <2>2. CASE ~ (k = l /\ r = q)
    <3>1. pipe'[k][r][p] = pipe[k][r][p]
      BY <1>1, <2>2, TakeIs
    <3>2. ~ (Carries(c, k, r, p, m.op) /\ r = q)
      BY <2>2 DEF Carries
    <3>3. Out(c, m1, k, r, p) = Out(c, m, k, r, p)
      BY <1>3, <3>2, OutOther
    <3>4. Flow(c, k, r, p, pipe[k][r][p], Out(c, m, k, r, p), In(c, Local(r), k, r, p))
      BY <1>3 DEF StateOK, FlowOK
    <3> QED BY <3>1, <3>3, <3>4
  <2> QED BY <2>1, <2>2
<1>4. ASSUME NEW k \in Layer, NEW r \in Party, r # p
      PROVE  Flow(c, k, p, r, pipe'[k][p][r], Out(c, Local(r), k, p, r), In(c, m1, k, p, r))
  <2>1. Flow(c, k, p, r, pipe[k][p][r], Out(c, Local(r), k, p, r), In(c, m, k, p, r))
    BY <1>4 DEF StateOK, FlowOK
  <2>2. pipe'[k][p][r] = pipe[k][p][r]
    BY <1>1, <1>4, TakeIs
  <2>3. In(c, m1, k, p, r) = In(c, m, k, p, r)
    BY SameIn
  <2> QED BY <2>1, <2>2, <2>3
<1>5. \A k \in Layer : \A r, s \in Party : r # p /\ s # p => pipe'[k][r][s] = pipe[k][r][s]
  BY <1>1, TakeIs
<1>6. Connections(pipe)'
  <2>1. pipe' = [k \in Layer |-> [r \in Party |-> [s \in Party |-> pipe'[k][r][s]]]]
    BY <1>1, TakeIs
  <2> QED BY <2>1 DEF Connections
<1> QED BY <1>3, <1>4, <1>5, <1>6 DEF FlowsAfter

(* The exchanger receives the length.                                       *)
LEMMA RoundLengthStep ==
  ASSUME NEW c, c = Plan, PlanOK(c), StateOK(c), NEW p \in Party, NEW d \in Distance,
         RoundLength(p, d), ~ Threaded(p), UNCHANGED queues, layers' = layers
  PROVE  c = Plan' /\ StateOK(c)'
<1>1. PICK m : m = Local(p)
  OBVIOUS
<1>2. PICK m1 : m1 = Local(p)'
  OBVIOUS
<1>0. Running(p, d)
  BY DEF RoundLength
<1>4. PICK q : q = Source(c, p, d, m.op)
  OBVIOUS
<1>3. /\ ~ Idle(c, m) /\ ~ ByThreads(c, m) /\ m.op \in Ops(c) /\ m.stopped = 0
      /\ m.begun = Route(c, p, m.op) /\ d \in Route(c, p, m.op)
      /\ LocalOK(c, p, m) /\ Shape /\ From(p, d) = q
      /\ Carries(c, 0, q, p, m.op)
  BY <1>0, <1>1, <1>4, ExchangerAt
<1>5. q \in Party /\ q # p /\ Slot(c, q, p, m.op) = d /\ 0 \in Layer
  BY <1>3, <1>4, RouteIs DEF Layer
<1>6. m.newLen[d] = NotYet /\ m.got[d] = <<>>
  <2>1. m.newLen = newLen[p]
    BY <1>1, LocalSays
  <2> QED BY <1>3, <2>1 DEF RoundLength, LocalOK, GotOK
<1>7. PICK s : s = pipe[0][q][p]
  OBVIOUS
<1>8. s # <<>> /\ newLen' = [newLen EXCEPT ![p][d] = Head(s).len] /\ Take(0, p, q, 1)
  BY <1>3, <1>7 DEF RoundLength, Coming
<1>9. PICK z : z = Out(c, m, 0, q, p)
  OBVIOUS
<1>10. z = Base(c, 0, q, p)[m.op] + 0
  BY <1>3, <1>5, <1>6, <1>9, ReceiverCount
<1>11. Flow(c, 0, q, p, s, z, In(c, Local(q), 0, q, p))
  BY <1>1, <1>5, <1>7, <1>9 DEF StateOK, FlowOK
<1>12. s \in Seq(Units(c)) /\ 1 \in 1 .. Len(s) /\ 1 <= Len(s)
  <2>1. s \in Seq(Units(c))
    BY <1>11 DEF Flow
  <2> QED BY <1>8, <2>1
<1>13. Size(c, m.op, q) \in Nat
  BY <1>3, <1>5, PlanIs
<1>14. Head(s).len = Size(c, m.op, q)
  <2>1. PICK x, j : x = 0 /\ j = 1
    OBVIOUS
  <2>2. x \in Nat /\ j \in 1 .. Len(s) /\ x + j <= 1 + Size(c, m.op, q) /\ x + j - 1 = 0
    BY <1>12, <1>13, <2>1
  <2>3. z = Base(c, 0, q, p)[m.op] + x
    BY <1>10, <2>1
  <2>4. s[j] = Unit(c, q, p, m.op, x + j - 1)
    BY <1>3, <1>5, <1>11, <2>2, <2>3, FlowSees
  <2>5. Head(s) = s[j]
    BY <1>12, <2>1
  <2>6. Head(s) = Unit(c, q, p, m.op, 0)
    BY <2>2, <2>4, <2>5
  <2> QED BY <2>6 DEF Unit
<1>15. /\ m1.op = m.op /\ m1.stopped = m.stopped /\ m1.begun = m.begun
       /\ m1.got = m.got /\ m1.sent = m.sent /\ m1.ctx = m.ctx
       /\ m1.toSend = m.toSend /\ m1.toReceive = m.toReceive
       /\ m1.didSend = m.didSend /\ m1.didReceive = m.didReceive
  BY <1>1, <1>2, <1>3 DEF RoundLength, Local, Shape, queues
<1>16. m1.newLen = [m.newLen EXCEPT ![d] = Size(c, m.op, q)]
  <2>1. m1.newLen = newLen'[p] /\ m.newLen = newLen[p] /\ newLen = [r \in Party |-> newLen[r]]
    BY <1>1, <1>2, <1>3 DEF Local, Shape
  <2> QED BY <1>8, <1>14, <2>1
<1>17. \A r \in Party : r # p => Local(r)' = Local(r)
  BY <1>3 DEF RoundLength, Local, Shape, queues
<1>18. /\ m1.newLen \in [Distance -> Nat \cup {NotYet}] /\ m1.newLen[d] = Size(c, m.op, q)
       /\ \A e \in Distance : e # d => m1.newLen[e] = m.newLen[e]
  BY <1>3, <1>13, <1>16 DEF LocalOK, GotOK
<1>19. LocalOK(c, p, m1)
  <2>1. PlaceOK(c, p, m1) /\ ~ Idle(c, m1) /\ ~ ByThreads(c, m1)
    BY <1>3, <1>15, SamePlace DEF LocalOK
  <2>2. BegunOK(c, p, m1)
    BY <1>3, <1>15, <2>1 DEF LocalOK, BegunOK
  <2>3. SentOK(c, p, m1)
    BY <1>3, <1>15, <2>1 DEF LocalOK, SentOK
  <2>4. GotOK(c, p, m1)
    <3>1. GotOK(c, p, m)
      BY <1>3 DEF LocalOK
    <3>2. /\ m1.newLen[d] = Size(c, m.op, Source(c, p, d, m.op)) /\ Len(m1.got[d]) <= m1.newLen[d]
          /\ m1.got[d] = <<>>
      BY <1>4, <1>6, <1>13, <1>15, <1>18
    <3>3. ASSUME NEW e \in Distance
          PROVE  /\ m1.newLen[e] = NotYet => m1.got[e] = <<>>
                 /\ m1.newLen[e] # NotYet =>
                    /\ m.begun = Route(c, p, m.op) /\ e \in Route(c, p, m.op)
                    /\ m1.newLen[e] = Size(c, m.op, Source(c, p, e, m.op))
                    /\ Len(m1.got[e]) <= m1.newLen[e]
                    /\ \A k \in 1 .. Len(m1.got[e]) :
                         m1.got[e][k] = Message(c, Source(c, p, e, m.op), p, m.op)[k]
      <4>1. CASE e = d
        BY <1>3, <3>2, <4>1
      <4>2. CASE e # d
        <5>1. m1.newLen[e] = m.newLen[e] /\ m1.got[e] = m.got[e]
          BY <1>15, <1>18, <4>2
        <5> QED BY <3>1, <5>1 DEF GotOK
      <4> QED BY <4>1, <4>2
    <3> QED BY <1>3, <1>15, <1>18, <2>1, <3>1, <3>3 DEF GotOK
  <2>5. QueuesOK(c, p, m1)
    BY <1>3, <1>15, <2>1 DEF LocalOK, QueuesOK
  <2> QED BY <2>1, <2>2, <2>3, <2>4, <2>5 DEF LocalOK
<1>20. Out(c, m1, 0, q, p) = z + 1
  <2>1. m1.newLen[d] # NotYet /\ Len(m1.got[d]) = 0
    BY <1>6, <1>13, <1>15, <1>18 DEF NotYet
  <2>2. ~ Idle(c, m1) /\ m1.op \in Ops(c) /\ m1.stopped = 0
        /\ Carries(c, 0, q, p, m1.op) /\ Slot(c, q, p, m1.op) = d
    BY <1>3, <1>5, <1>15, SamePlace
  <2>3. PICK b : b = Base(c, 0, q, p)[m.op]
    OBVIOUS
  <2>4. Out(c, m1, 0, q, p) = b + (1 + 0)
    BY <1>5, <1>15, <2>1, <2>2, <2>3, ReceiverCount
  <2>5. b \in Nat
    <3>1. m.op \in 1 .. Len(c.program) + 1
      BY <1>3, PlanIs DEF Ops
    <3> QED BY <1>5, <2>3, <3>1, BaseIs
  <2> QED BY <1>10, <2>3, <2>4, <2>5
<1>21. FlowsAfter(c, p, m1)
  <2>1. \A e \in Distance : e # d => m1.got[e] = m.got[e] /\ m1.newLen[e] = m.newLen[e]
    BY <1>15, <1>18
  <2>2. PICK n \in Nat : n = 1
    OBVIOUS
  <2>3. Out(c, m1, 0, q, p) = Out(c, m, 0, q, p) + n /\ Take(0, p, q, n) /\ n <= Len(pipe[0][q][p])
    BY <1>7, <1>8, <1>9, <1>12, <1>20, <2>2
  <2> QED BY <1>1, <1>3, <1>4, <1>5, <1>15, <2>1, <2>3, Taken
<1>22. Shape' /\ program' = program /\ lied' = lied
  BY <1>3, <1>21 DEF RoundLength, Shape, FlowsAfter, Connections
<1> QED BY <1>2, <1>17, <1>19, <1>21, <1>22, OneParty DEF FlowsAfter

(* The exchanger receives some bytes.                                       *)
LEMMA RoundReceiveStep ==
  ASSUME NEW c, c = Plan, PlanOK(c), StateOK(c), NEW p \in Party, NEW d \in Distance,
         RoundReceive(p, d), ~ Threaded(p), UNCHANGED queues, layers' = layers
  PROVE  c = Plan' /\ StateOK(c)'
<1>1. PICK m : m = Local(p)
  OBVIOUS
<1>2. PICK m1 : m1 = Local(p)'
  OBVIOUS
<1>0. Running(p, d)
  BY DEF RoundReceive
<1>4. PICK q : q = Source(c, p, d, m.op)
  OBVIOUS
<1>3. /\ ~ Idle(c, m) /\ ~ ByThreads(c, m) /\ m.op \in Ops(c) /\ m.stopped = 0
      /\ m.begun = Route(c, p, m.op) /\ d \in Route(c, p, m.op) /\ Op(p) = c.program[m.op]
      /\ LocalOK(c, p, m) /\ Shape /\ From(p, d) = q
      /\ Carries(c, 0, q, p, m.op)
  BY <1>0, <1>1, <1>4, ExchangerAt
<1>5. q \in Party /\ q # p /\ Slot(c, q, p, m.op) = d /\ 0 \in Layer
  BY <1>3, <1>4, RouteIs DEF Layer
<1>6. m.newLen = newLen[p] /\ m.got = got[p] /\ m.sent = sent[p]
  BY <1>1, LocalSays
<1>7. PICK s : s = pipe[0][q][p]
  OBVIOUS
<1>8. PICK n \in 1 .. Least(ToReceive(p, d), Len(s)) :
        /\ got' = [got EXCEPT ![p][d] = @ \o [j \in 1 .. n |-> s[j].val]]
        /\ Take(0, p, q, n)
  BY <1>3, <1>7 DEF RoundReceive, Coming
<1>9. PICK z : z = Out(c, m, 0, q, p)
  OBVIOUS
<1>10. PICK g : g = m.got[d]
  OBVIOUS
<1>11. Flow(c, 0, q, p, s, z, In(c, Local(q), 0, q, p))
  BY <1>1, <1>5, <1>7, <1>9 DEF StateOK, FlowOK
<1>12. s \in Seq(Units(c)) /\ Len(s) \in Nat
  BY <1>11 DEF Flow
<1>13. Size(c, m.op, q) \in Nat /\ Size(c, m.op, p) \in Nat
  BY <1>3, <1>5, PlanIs
<1>14. /\ g \in Seq(Value(c)) /\ Len(g) \in Nat /\ m.newLen[d] = Size(c, m.op, q)
       /\ m.newLen[d] # NotYet
       /\ \A k \in 1 .. Len(g) : g[k] = Message(c, q, p, m.op)[k]
  <2>1. GotOK(c, p, m)
    BY <1>3 DEF LocalOK
  <2>2. g \in Seq(Value(c)) /\ m.newLen[d] \in Nat \cup {NotYet}
    BY <1>3, <1>10, <2>1 DEF GotOK, Route
  <2>3. Len(g) < m.newLen[d]
    BY <1>6, <1>10 DEF RoundReceive
  <2>4. m.newLen[d] # NotYet
    BY <2>2, <2>3 DEF NotYet
  <2> QED BY <1>3, <1>4, <1>10, <2>1, <2>2, <2>4 DEF GotOK
<1>15. /\ n \in Nat /\ n > 0 /\ n <= Len(s) /\ Len(g) + n <= Size(c, m.op, q)
       /\ Same(c, m.op) => Len(g) + n <= m.sent[d]
  <2>1. PICK a : a = ToReceive(p, d)
    OBVIOUS
  <2>2. m.sent[d] \in Nat /\ (m.sent[d] # 0 => m.sent[d] <= Size(c, m.op, p))
    BY <1>3 DEF LocalOK, SentOK, Route
  <2>3. Op(p).same = Same(c, m.op) /\ Op(p).len[p] = Size(c, m.op, p)
    BY <1>3 DEF Same, Size
  <2>4. Same(c, m.op) => Size(c, m.op, p) = Size(c, m.op, q)
    BY <1>3, <1>5, PlanIs DEF WellFormed, Same, Size
  <2>5. a = IF m.sent[d] = Size(c, m.op, p) \/ ~ Same(c, m.op) THEN Size(c, m.op, q) - Len(g)
            ELSE m.sent[d] - Len(g)
    BY <1>6, <1>10, <1>14, <2>1, <2>3 DEF ToReceive
  <2>6. a \in Int
    BY <1>13, <1>14, <2>2, <2>5
  <2>7. n \in Nat /\ n > 0 /\ n <= a /\ n <= Len(s)
    BY <1>8, <1>12, <2>1, <2>6 DEF Least
  <2>8. Len(g) + n <= Size(c, m.op, q)
    <3>1. a <= Size(c, m.op, q) - Len(g)
      BY <1>13, <1>14, <2>2, <2>4, <2>5
    <3> QED BY <1>13, <1>14, <2>6, <2>7, <3>1
  <2>9. Same(c, m.op) => Len(g) + n <= m.sent[d]
    <3>1. Same(c, m.op) => a <= m.sent[d] - Len(g)
      BY <1>13, <1>14, <2>2, <2>4, <2>5
    <3> QED BY <1>14, <2>2, <2>6, <2>7, <3>1
  <2> QED BY <2>7, <2>8, <2>9
<1>16. z = Base(c, 0, q, p)[m.op] + (1 + Len(g))
  BY <1>3, <1>5, <1>9, <1>10, <1>14, ReceiverCount
<1>17. PICK v : v = [j \in 1 .. n |-> s[j].val]
  OBVIOUS
<1>18. \A j \in 1 .. n : /\ s[j].val = Message(c, q, p, m.op)[Len(g) + j]
                         /\ s[j].val \in Value(c)
  <2> TAKE j \in 1 .. n
  <2>1. PICK x, k : x = 1 + Len(g) /\ k = Len(g) + j
    OBVIOUS
  <2>2. x \in Nat /\ j \in 1 .. Len(s) /\ x + j <= 1 + Size(c, m.op, q) /\ k = x + j - 1
        /\ k # 0 /\ k \in 1 .. Size(c, m.op, q)
    BY <1>12, <1>13, <1>14, <1>15, <2>1
  <2>3. z = Base(c, 0, q, p)[m.op] + x
    BY <1>16, <2>1
  <2>4. s[j] = Unit(c, q, p, m.op, x + j - 1)
    BY <1>3, <1>5, <1>11, <2>2, <2>3, FlowSees
  <2>5. s[j] = Unit(c, q, p, m.op, k)
    BY <2>2, <2>4
  <2>6. s[j].val = Message(c, q, p, m.op)[k]
    BY <2>2, <2>5 DEF Unit, ByteUnit
  <2>7. Message(c, q, p, m.op) \in Seq(Value(c)) /\ Len(Message(c, q, p, m.op)) = Size(c, m.op, q)
    BY <1>3, <1>5, MessageIs
  <2>8. s[j].val \in Value(c)
    BY <2>2, <2>6, <2>7
  <2> QED BY <2>1, <2>6, <2>8
<1>19. v \in Seq(Value(c)) /\ Len(v) = n
  BY <1>15, <1>17, <1>18
<1>20. PICK g1 : g1 = g \o v
  OBVIOUS
<1>21. /\ g1 \in Seq(Value(c)) /\ Len(g1) = Len(g) + n
       /\ \A k \in 1 .. Len(g1) : g1[k] = Message(c, q, p, m.op)[k]
  <2>1. g1 \in Seq(Value(c)) /\ Len(g1) = Len(g) + Len(v) /\ Appended(g1, g, v)
    <3>1. PICK V : V = Value(c)
      OBVIOUS
    <3>2. g \in Seq(V) /\ v \in Seq(V) /\ g1 = g \o v
      BY <1>14, <1>19, <1>20, <3>1
    <3>3. Appended(g1, g, v)
      <4>1. Sequence(g, V) /\ Sequence(v, V) /\ Extends(g1, g, v)
        BY <3>2 DEF Sequence, Extends
      <4> QED BY <4>1, PutPlaces
    <3>4. g1 \in Seq(V)
      BY <3>2
    <3>5. Len(g1) = Len(g) + Len(v)
      BY <3>2
    <3> QED BY <3>1, <3>3, <3>4, <3>5
  <2>2. ASSUME NEW k \in 1 .. Len(g1) PROVE g1[k] = Message(c, q, p, m.op)[k]
    <3>1. CASE k \in 1 .. Len(g)
      BY <1>14, <2>1, <3>1 DEF Appended
    <3>2. CASE k \notin 1 .. Len(g)
      <4>1. PICK y \in 1 .. Len(v) : k = Len(g) + y /\ g1[k] = v[y]
        BY <2>1, <3>2 DEF Appended
      <4>2. y \in 1 .. n /\ v[y] = s[y].val
        BY <1>17, <1>19, <4>1
      <4> QED BY <1>18, <4>1, <4>2
    <3> QED BY <3>1, <3>2
  <2> QED BY <1>19, <2>1, <2>2
<1>22. /\ m1.op = m.op /\ m1.stopped = m.stopped /\ m1.begun = m.begun
       /\ m1.newLen = m.newLen /\ m1.sent = m.sent /\ m1.ctx = m.ctx
       /\ m1.toSend = m.toSend /\ m1.toReceive = m.toReceive
       /\ m1.didSend = m.didSend /\ m1.didReceive = m.didReceive
  BY <1>1, <1>2, <1>3 DEF RoundReceive, Local, Shape, queues
<1>23. m1.got = [m.got EXCEPT ![d] = g1]
  <2>1. m1.got = got'[p] /\ m.got = got[p] /\ got = [r \in Party |-> got[r]]
    BY <1>1, <1>2, <1>3 DEF Local, Shape
  <2> QED BY <1>8, <1>10, <1>17, <1>20, <2>1
<1>24. \A r \in Party : r # p => Local(r)' = Local(r)
  BY <1>3 DEF RoundReceive, Local, Shape, queues
<1>25. /\ m1.got \in [Distance -> Seq(Value(c))] /\ m1.got[d] = g1
       /\ \A e \in Distance : e # d => m1.got[e] = m.got[e]
  BY <1>3, <1>21, <1>23 DEF LocalOK, GotOK
<1>26. LocalOK(c, p, m1)
  <2>1. PlaceOK(c, p, m1) /\ ~ Idle(c, m1) /\ ~ ByThreads(c, m1)
    BY <1>3, <1>22, SamePlace DEF LocalOK
  <2>2. BegunOK(c, p, m1)
    BY <1>3, <1>22, <2>1 DEF LocalOK, BegunOK
  <2>3. SentOK(c, p, m1)
    BY <1>3, <1>22, <2>1 DEF LocalOK, SentOK
  <2>4. GotOK(c, p, m1)
    <3>1. GotOK(c, p, m)
      BY <1>3 DEF LocalOK
    <3>2. Len(g1) <= m.newLen[d]
      BY <1>14, <1>15, <1>21
    <3>3. ASSUME NEW e \in Distance
          PROVE  /\ m.newLen[e] = NotYet => m1.got[e] = <<>>
                 /\ m.newLen[e] # NotYet =>
                    /\ e \in Route(c, p, m.op)
                    /\ m.newLen[e] = Size(c, m.op, Source(c, p, e, m.op))
                    /\ Len(m1.got[e]) <= m.newLen[e]
                    /\ \A k \in 1 .. Len(m1.got[e]) :
                         m1.got[e][k] = Message(c, Source(c, p, e, m.op), p, m.op)[k]
                 /\ Same(c, m.op) => Len(m1.got[e]) <= m.sent[e]
      <4>1. CASE e = d
        <5>1. m1.got[e] = g1 /\ Source(c, p, e, m.op) = q /\ m.newLen[e] # NotYet
          BY <1>4, <1>14, <1>25, <4>1
        <5>2. Same(c, m.op) => Len(g1) <= m.sent[d]
          BY <1>15, <1>21
        <5> QED BY <1>3, <1>14, <1>21, <3>2, <4>1, <5>1, <5>2
      <4>2. CASE e # d
        <5>1. m1.got[e] = m.got[e]
          BY <1>25, <4>2
        <5> QED BY <1>3, <3>1, <5>1 DEF GotOK
      <4> QED BY <4>1, <4>2
    <3>4. m1.newLen \in [Distance -> Nat \cup {NotYet}]
      BY <1>22, <3>1 DEF GotOK
    <3>5. m1.got \in [Distance -> Seq(Value(c))]
      BY <1>25
    <3>6. ASSUME NEW e \in Distance
          PROVE  /\ m1.newLen[e] = NotYet => m1.got[e] = <<>>
                 /\ m1.newLen[e] # NotYet =>
                      /\ ~ Idle(c, m1) /\ m1.begun = Route(c, p, m1.op) /\ e \in Route(c, p, m1.op)
                      /\ m1.newLen[e] = Size(c, m1.op, Source(c, p, e, m1.op))
                      /\ Len(m1.got[e]) <= m1.newLen[e]
                      /\ \A k \in 1 .. Len(m1.got[e]) :
                           m1.got[e][k] = Message(c, Source(c, p, e, m1.op), p, m1.op)[k]
                 /\ ~ Idle(c, m1) /\ Same(c, m1.op) => Len(m1.got[e]) <= m1.sent[e]
      BY <1>3, <1>22, <2>1, <3>3
    <3> QED BY <3>4, <3>5, <3>6 DEF GotOK
  <2>5. QueuesOK(c, p, m1)
    BY <1>3, <1>22, <2>1 DEF LocalOK, QueuesOK
  <2> QED BY <2>1, <2>2, <2>3, <2>4, <2>5 DEF LocalOK
<1>27. Out(c, m1, 0, q, p) = z + n
  <2>1. m1.newLen[d] # NotYet /\ Len(m1.got[d]) = Len(g) + n
    BY <1>14, <1>21, <1>22, <1>25
  <2>2. ~ Idle(c, m1) /\ m1.op \in Ops(c) /\ m1.stopped = 0
        /\ Carries(c, 0, q, p, m1.op) /\ Slot(c, q, p, m1.op) = d
    BY <1>3, <1>5, <1>22, SamePlace
  <2>3. PICK b, x : b = Base(c, 0, q, p)[m.op] /\ x = Len(g)
    OBVIOUS
  <2>4. Out(c, m1, 0, q, p) = b + (1 + (x + n))
    <3>1. Out(c, m1, 0, q, p) = Base(c, 0, q, p)[m1.op] + (1 + Len(m1.got[d]))
      BY <1>5, <2>1, <2>2, ReceiverCount
    <3>2. m1.op = m.op
      BY <1>22
    <3> QED BY <2>1, <2>3, <3>1, <3>2
  <2>5. b \in Nat /\ x \in Nat
    <3>1. m.op \in 1 .. Len(c.program) + 1
      BY <1>3, PlanIs DEF Ops
    <3> QED BY <1>5, <1>14, <2>3, <3>1, BaseIs
  <2>6. z = b + (1 + x)
    BY <1>16, <2>3
  <2> QED BY <1>15, <2>4, <2>5, <2>6
<1>28. FlowsAfter(c, p, m1)
  <2>1. \A e \in Distance : e # d => m1.got[e] = m.got[e] /\ m1.newLen[e] = m.newLen[e]
    BY <1>22, <1>25
  <2>2. Out(c, m1, 0, q, p) = Out(c, m, 0, q, p) + n /\ n <= Len(pipe[0][q][p]) /\ n \in Nat
    BY <1>7, <1>9, <1>15, <1>27
  <2> QED BY <1>1, <1>3, <1>4, <1>5, <1>8, <1>22, <2>1, <2>2, Taken
<1>29. Shape' /\ program' = program /\ lied' = lied
  BY <1>3, <1>28 DEF RoundReceive, Shape, FlowsAfter, Connections
<1> QED BY <1>2, <1>24, <1>26, <1>28, <1>29, OneParty DEF FlowsAfter

-----------------------------------------------------------------------------
(***************************************************************************)
(* The end of an operation.                                                *)
(***************************************************************************)
(* Everything has been sent and received.                                   *)
AllDone(c, p, m) ==
  /\ ~ Idle(c, m) /\ m.op \in Ops(c) /\ m.stopped = 0 /\ m.begun = Route(c, p, m.op)
  /\ \A d \in Route(c, p, m.op) :
       /\ m.newLen[d] # NotYet /\ Len(m.got[d]) = m.newLen[d]
       /\ IF ByThreads(c, m) THEN To(p, d) \in m.didSend ELSE m.sent[d] = Size(c, m.op, p)

(* The party is ready for what comes next, or stops.                        *)
Concluded(c, p, m, m1) ==
  /\ \/ m1.stopped = 1 /\ m1.op = m.op /\ m1.ctx = m.ctx /\ Kind(c, m.op) = "check"
     \/ m1.stopped = 0 /\ m1.op = m.op + 1 /\ m1.ctx = Hashed(c, p)[m.op + 1]
  /\ m1.begun = {} /\ m1.sent = [d \in Distance |-> 0]
  /\ m1.got = [d \in Distance |-> <<>>] /\ m1.newLen = [d \in Distance |-> NotYet]
  /\ m1.toSend = {} /\ m1.toReceive = {} /\ m1.didSend = {} /\ m1.didReceive = {}

(* A party that concludes an operation is well at the next one.             *)
LEMMA ConcludedOK ==
  ASSUME NEW c, PlanOK(c), NEW p \in Party, NEW m, LocalOK(c, p, m), m.op \in Ops(c),
         NEW m1, Concluded(c, p, m, m1)
  PROVE  LocalOK(c, p, m1)
<1>1. PlaceOK(c, p, m1)
  <2>0. Len(c.program) \in Nat /\ m.op \in Nat
    BY PlanIs DEF Ops
  <2>1. CASE m1.stopped = 1 /\ m1.op = m.op /\ m1.ctx = m.ctx /\ Kind(c, m.op) = "check"
    BY <2>1 DEF PlaceOK, LocalOK
  <2>2. CASE m1.stopped = 0 /\ m1.op = m.op + 1 /\ m1.ctx = Hashed(c, p)[m.op + 1]
    <3>1. m1.op \in 1 .. Len(c.program) + 1
      BY <2>0, <2>2 DEF Ops
    <3> QED BY <2>2, <3>1 DEF PlaceOK
  <2> QED BY <2>1, <2>2 DEF Concluded
<1>2. BegunOK(c, p, m1)
  BY DEF Concluded, BegunOK
<1>3. SentOK(c, p, m1)
  BY DEF Concluded, SentOK
<1>4. GotOK(c, p, m1)
  <2>1. m1.got = [d \in Distance |-> <<>>] /\ m1.newLen = [d \in Distance |-> NotYet]
        /\ m1.sent = [d \in Distance |-> 0]
    BY DEF Concluded
  <2>2. m1.got \in [Distance -> Seq(Value(c))] /\ m1.newLen \in [Distance -> Nat \cup {NotYet}]
    BY <2>1
  <2>3. \A d \in Distance : m1.got[d] = <<>> /\ m1.newLen[d] = NotYet /\ m1.sent[d] = 0
    BY <2>1
  <2> QED BY <2>2, <2>3 DEF GotOK
<1>5. QueuesOK(c, p, m1)
  BY DEF Concluded, QueuesOK
<1> QED BY <1>1, <1>2, <1>3, <1>4, <1>5 DEF LocalOK

(* Its counts stay: all of the operation is now before it.                  *)
LEMMA ConcludedCounts ==
  ASSUME NEW c, PlanOK(c), NEW p \in Party, NEW m, AllDone(c, p, m),
         LocalOK(c, p, m), NEW m1, Concluded(c, p, m, m1),
         NEW l, NEW q \in Party, q # p
  PROVE  /\ In(c, m1, l, p, q) = In(c, m, l, p, q)
         /\ Out(c, m1, l, q, p) = Out(c, m, l, q, p)
<1>1. m.op \in Ops(c) /\ m.stopped = 0 /\ ~ Idle(c, m) /\ m.op + m.stopped = m.op
      /\ m.begun = Route(c, p, m.op)
  <2>1. m.op \in Ops(c) /\ m.stopped = 0 /\ ~ Idle(c, m) /\ m.begun = Route(c, p, m.op)
    BY DEF AllDone
  <2> QED BY <2>1, PlanIs DEF Ops
<1>2. m1.op + m1.stopped = m.op + 1
  BY <1>1, PlanIs DEF Ops, Concluded
<1>3. Going(c, m1, l, p, q) = 0
  BY DEF Concluded, Going
<1>4. Arrived(c, m1, l, q, p) = 0
  <2>1. CASE Idle(c, m1) \/ ~ Carries(c, l, q, p, m1.op)
    BY <2>1 DEF Arrived
  <2>2. CASE ~ Idle(c, m1) /\ Carries(c, l, q, p, m1.op)
    <3>1. m1.op \in Ops(c)
      <4>1. m1.op \in 1 .. Len(c.program) + 1 /\ Len(c.program) \in Nat
        BY <1>1, ConcludedOK, PlanIs DEF LocalOK, PlaceOK
      <4> QED BY <2>2, <4>1 DEF Idle, Ops
    <3>2. Slot(c, q, p, m1.op) \in Distance
      BY <2>2, <3>1, TalksIs DEF Carries, Route
    <3>3. m1.newLen[Slot(c, q, p, m1.op)] = NotYet
      BY <3>2 DEF Concluded
    <3> QED BY <3>3 DEF Arrived
  <2> QED BY <2>1, <2>2
<1>5. Going(c, m, l, p, q) = Load(c, l, p, q, m.op)
  <2>1. CASE ~ Carries(c, l, p, q, m.op)
    BY <2>1 DEF Going, Load
  <2>2. CASE Carries(c, l, p, q, m.op)
    <3>1. PICK d : d = Dist(p, q)
      OBVIOUS
    <3>2. d \in Route(c, p, m.op) /\ To(p, d) = q
      BY <1>1, <2>2, <3>1, TalksIs DEF Carries
    <3>3. CASE ByThreads(c, m)
      <4>1. q \in m.didSend
        BY <3>2, <3>3 DEF AllDone
      <4> QED BY <1>1, <2>2, <3>3, <4>1 DEF Going, Load
    <3>4. CASE ~ ByThreads(c, m)
      <4>1. m.sent[d] = Size(c, m.op, p) /\ d \in m.begun
        BY <1>1, <3>2, <3>4 DEF AllDone
      <4> QED BY <1>1, <2>2, <3>1, <3>4, <4>1 DEF Going, Load
    <3> QED BY <3>3, <3>4
  <2> QED BY <2>1, <2>2
<1>6. Arrived(c, m, l, q, p) = Load(c, l, q, p, m.op)
  <2>1. CASE ~ Carries(c, l, q, p, m.op)
    BY <2>1 DEF Arrived, Load
  <2>2. CASE Carries(c, l, q, p, m.op)
    <3>1. PICK d : d = Slot(c, q, p, m.op)
      OBVIOUS
    <3>2. d \in Route(c, p, m.op) /\ Source(c, p, d, m.op) = q
      BY <1>1, <2>2, <3>1, TalksIs DEF Carries
    <3>3. m.newLen[d] # NotYet /\ Len(m.got[d]) = m.newLen[d]
      BY <3>2 DEF AllDone
    <3>4. m.newLen[d] = Size(c, m.op, q)
      BY <3>2, <3>3 DEF LocalOK, GotOK, Route
    <3> QED BY <1>1, <2>2, <3>1, <3>3, <3>4 DEF Arrived, Load
  <2> QED BY <2>1, <2>2
<1>7. In(c, m1, l, p, q) = In(c, m, l, p, q)
  <2>1. PICK b, b1, w : /\ b = Base(c, l, p, q)[m.op] /\ b1 = Base(c, l, p, q)[m.op + 1]
                        /\ w = Load(c, l, p, q, m.op)
    OBVIOUS
  <2>2. b1 = b + w
    <3>1. \A t \in Ops(c) : Base(c, l, p, q)[t + 1] = Base(c, l, p, q)[t] + Load(c, l, p, q, t)
      BY BaseIs
    <3>2. Base(c, l, p, q)[m.op + 1] = Base(c, l, p, q)[m.op] + Load(c, l, p, q, m.op)
      BY <1>1, <3>1
    <3> QED BY <2>1, <3>2
  <2>3. m.op + 1 \in 1 .. Len(c.program) + 1
    BY <1>1, PlanIs DEF Ops
  <2>4. b1 \in Nat
    BY <2>1, <2>3, BaseIs
  <2>5. In(c, m1, l, p, q) = b1 + 0 /\ In(c, m, l, p, q) = b + w
    BY <1>1, <1>2, <1>3, <1>5, <2>1 DEF In
  <2> QED BY <2>2, <2>4, <2>5
<1>8. Out(c, m1, l, q, p) = Out(c, m, l, q, p)
  <2>1. PICK b, b1, w : /\ b = Base(c, l, q, p)[m.op] /\ b1 = Base(c, l, q, p)[m.op + 1]
                        /\ w = Load(c, l, q, p, m.op)
    OBVIOUS
  <2>2. b1 = b + w
    <3>1. \A t \in Ops(c) : Base(c, l, q, p)[t + 1] = Base(c, l, q, p)[t] + Load(c, l, q, p, t)
      BY BaseIs
    <3>2. Base(c, l, q, p)[m.op + 1] = Base(c, l, q, p)[m.op] + Load(c, l, q, p, m.op)
      BY <1>1, <3>1
    <3> QED BY <2>1, <3>2
  <2>3. m.op + 1 \in 1 .. Len(c.program) + 1
    BY <1>1, PlanIs DEF Ops
  <2>4. b1 \in Nat
    BY <2>1, <2>3, BaseIs
  <2>5. Out(c, m1, l, q, p) = b1 + 0 /\ Out(c, m, l, q, p) = b + w
    BY <1>1, <1>2, <1>4, <1>6, <2>1 DEF Out
  <2> QED BY <2>2, <2>4, <2>5
<1> QED BY <1>7, <1>8

(* What was received in whole.                                              *)
LEMMA GotAll ==
  ASSUME NEW c, PlanOK(c), NEW p \in Party, NEW m, LocalOK(c, p, m), m.op \in Ops(c),
         NEW d \in Distance, m.newLen[d] # NotYet, Len(m.got[d]) = m.newLen[d]
  PROVE  m.got[d] = Message(c, Source(c, p, d, m.op), p, m.op)
<1>1. PICK q, g, w : /\ q = Source(c, p, d, m.op) /\ g = m.got[d] /\ w = Message(c, q, p, m.op)
  OBVIOUS
<1>2. d \in Route(c, p, m.op) /\ Len(g) = Size(c, m.op, q) /\ g \in Seq(Value(c))
      /\ \A k \in 1 .. Len(g) : g[k] = w[k]
  BY <1>1 DEF LocalOK, GotOK
<1>3. q \in Party
  BY <1>1, <1>2, RouteIs
<1>4. w \in Seq(Value(c)) /\ Len(w) = Size(c, m.op, q)
  BY <1>1, <1>3, MessageIs
<1>5. g = w
  BY <1>2, <1>4
<1> QED BY <1>1, <1>5

(* What a party hashes is what it hears.                                    *)
LEMMA JoinedIs ==
  ASSUME NEW c, c = Plan, PlanOK(c), StateOK(c), NEW p \in Party, NEW m, m = Local(p),
         ~ Through(p), AllDone(c, p, m), Kind(c, m.op) = "broadcast"
  PROVE  Joined(p) = Heard(c, p, m.op)
<1>1. LocalOK(c, p, m) /\ m.op \in Ops(c) /\ m.got = got[p] /\ m.op = op[p]
  BY LocalSays DEF StateOK, AllDone
<1>2. ASSUME NEW q \in Party PROVE StreamOf(p, q) = Bytes(c, q, p, m.op)
  <2>1. \A r \in Party : Message(c, r, p, m.op) = Bytes(c, r, p, m.op)
    BY DEF Message
  <2>2. CASE q = p
    <3>1. Content(p, p, m.op) = Message(c, p, p, m.op)
      BY Bridge
    <3> QED BY <1>1, <2>1, <2>2, <3>1 DEF StreamOf
  <2>3. CASE q # p
    <3>1. PICK d : d = CHOOSE e \in Distance : From(p, e) = q
      OBVIOUS
    <3>2. \E e \in Distance : From(p, e) = q
      <4>1. Dist(q, p) \in Distance /\ Back(p, Dist(q, p)) = q
        BY <2>3, DistIs
      <4>2. From(p, Dist(q, p)) = Source(c, p, Dist(q, p), m.op)
        BY <4>1, Bridge
      <4> QED BY <4>1, <4>2 DEF Source
    <3>3. d \in Distance /\ From(p, d) = q
      BY <3>1, <3>2
    <3>4. Source(c, p, d, m.op) = q
      BY <3>3, Bridge
    <3>5. d \in Route(c, p, m.op)
      BY <3>3, ToIs DEF Route, Talks
    <3>6. m.got[d] = Message(c, q, p, m.op)
      BY <1>1, <3>3, <3>4, <3>5, GotAll DEF AllDone
    <3>7. StreamOf(p, q) = got[p][d]
      BY <2>3, <3>1 DEF StreamOf, Distance
    <3> QED BY <1>1, <2>1, <3>6, <3>7
  <2> QED BY <2>2, <2>3
<1>3. \A k \in 1 .. N : k - 1 \in Party
  BY PlanIs DEF Party
<1>4. [k \in 1 .. N |-> StreamOf(p, k - 1)] = [k \in 1 .. N |-> Bytes(c, k - 1, p, m.op)]
  BY <1>2, <1>3
<1> QED BY <1>4 DEF Joined, Heard

(* Conclude keeps the invariant.                                            *)
LEMMA ConcludeStep ==
  ASSUME NEW c, c = Plan, PlanOK(c), StateOK(c), NEW p \in Party, NEW m, m = Local(p),
         ~ Through(p), AllDone(c, p, m), Conclude(p), layers' = layers,
         NEW m1, m1 = Local(p)',
         m1.toSend = {}, m1.toReceive = {}, m1.didSend = {}, m1.didReceive = {},
         \A r \in Party : r # p => Local(r)' = Local(r)
  PROVE  c = Plan' /\ StateOK(c)'
<1>1. /\ Shape /\ LocalOK(c, p, m) /\ m.op \in Ops(c) /\ m.op = op[p] /\ m.ctx = ctx[p]
      /\ p \notin threw /\ Op(p) = c.program[m.op]
  <2>1. p \notin threw
    BY DEF Through
  <2> QED BY <2>1, LocalSays, Bridge DEF StateOK, AllDone
<1>2. Concluded(c, p, m, m1)
  <2>1. /\ m1.begun = {} /\ m1.sent = [d \in Distance |-> 0]
        /\ m1.got = [d \in Distance |-> <<>>] /\ m1.newLen = [d \in Distance |-> NotYet]
    <3>1. m1.begun = begun'[p] /\ m1.sent = sent'[p] /\ m1.got = got'[p] /\ m1.newLen = newLen'[p]
      BY DEF Local
    <3>2. begun'[p] = {} /\ sent'[p] = [d \in Distance |-> 0]
      BY <1>1 DEF Conclude, Shape, Distance
    <3>3. got'[p] = [d \in Distance |-> <<>>]
      BY <1>1 DEF Conclude, Shape, Distance
    <3>4. newLen'[p] = [d \in Distance |-> NotYet]
      BY <1>1 DEF Conclude, Shape, Distance
    <3> QED BY <3>1, <3>2, <3>3, <3>4
  <2>2. \/ m1.stopped = 1 /\ m1.op = m.op /\ m1.ctx = m.ctx /\ Kind(c, m.op) = "check"
        \/ m1.stopped = 0 /\ m1.op = m.op + 1 /\ m1.ctx = Hashed(c, p)[m.op + 1]
    <3>0. m1.op = op'[p] /\ m1.ctx = ctx'[p] /\ m1.stopped = IF p \in threw' THEN 1 ELSE 0
      BY DEF Local
    <3>1. CASE Op(p).kind = "check" /\ ~ Valid(p)
      <4>1. threw' = threw \cup {p} /\ UNCHANGED <<op, ctx>>
        BY <3>1 DEF Conclude
      <4> QED BY <1>1, <3>0, <3>1, <4>1 DEF Kind
    <3>2. CASE ~ (Op(p).kind = "check" /\ ~ Valid(p))
      <4>1. /\ op' = [op EXCEPT ![p] = @ + 1] /\ threw' = threw
            /\ ctx' = [ctx EXCEPT ![p] = CASE Op(p).kind = "broadcast" -> @ \o Joined(p)
                                           [] Op(p).kind = "check"     -> <<>>
                                           [] OTHER                    -> @]
        BY <3>2 DEF Conclude
      <4>2. op'[p] = m.op + 1
        BY <1>1, <4>1 DEF Shape
      <4>3. ctx'[p] = CASE Op(p).kind = "broadcast" -> ctx[p] \o Joined(p)
                        [] Op(p).kind = "check"     -> <<>>
                        [] OTHER                    -> ctx[p]
        BY <1>1, <4>1 DEF Shape
      <4>4. ctx[p] = Hashed(c, p)[m.op] /\ Op(p).kind = Kind(c, m.op)
        BY <1>1 DEF LocalOK, PlaceOK, Kind
      <4>5. Hashed(c, p)[m.op + 1] = IF Kind(c, m.op) = "broadcast"
                                     THEN Hashed(c, p)[m.op] \o Heard(c, p, m.op)
                                     ELSE IF Kind(c, m.op) = "check" THEN <<>>
                                     ELSE Hashed(c, p)[m.op]
        BY <1>1, HashedIs
      <4>6. Kind(c, m.op) = "broadcast" => Joined(p) = Heard(c, p, m.op)
        BY JoinedIs
      <4>7. ctx'[p] = Hashed(c, p)[m.op + 1]
        BY <4>3, <4>4, <4>5, <4>6
      <4> QED BY <1>1, <3>0, <4>1, <4>2, <4>7
    <3> QED BY <3>1, <3>2
  <2> QED BY <2>1, <2>2 DEF Concluded
<1>3. LocalOK(c, p, m1)
  BY <1>1, <1>2, ConcludedOK
<1>4. pipe' = pipe /\ program' = program /\ lied' = lied
  BY DEF Conclude
<1>5. ASSUME NEW l \in Layer, NEW q \in Party, q # p
      PROVE  /\ Flow(c, l, p, q, pipe'[l][p][q], Out(c, Local(q), l, p, q), In(c, m1, l, p, q))
             /\ Flow(c, l, q, p, pipe'[l][q][p], Out(c, m1, l, q, p), In(c, Local(q), l, q, p))
  <2>1. In(c, m1, l, p, q) = In(c, m, l, p, q) /\ Out(c, m1, l, q, p) = Out(c, m, l, q, p)
    BY <1>1, <1>2, <1>5, ConcludedCounts
  <2>2. /\ Flow(c, l, p, q, pipe[l][p][q], Out(c, Local(q), l, p, q), In(c, m, l, p, q))
        /\ Flow(c, l, q, p, pipe[l][q][p], Out(c, m, l, q, p), In(c, Local(q), l, q, p))
    BY <1>5 DEF StateOK, FlowOK
  <2> QED BY <1>4, <2>1, <2>2
<1>6. Shape'
  <2>1. /\ op' = [r \in Party |-> op'[r]] /\ begun' = [r \in Party |-> begun'[r]]
        /\ sent' = [r \in Party |-> sent'[r]] /\ got' = [r \in Party |-> got'[r]]
        /\ newLen' = [r \in Party |-> newLen'[r]]
    BY <1>1 DEF Conclude, Shape
  <2>2. ctx' = [r \in Party |-> ctx'[r]]
    BY <1>1 DEF Conclude, Shape
  <2> QED BY <1>1, <1>4, <2>1, <2>2 DEF Shape
<1> QED BY <1>3, <1>4, <1>5, <1>6, OneParty

(* The end of a round of exchangers.                                        *)
LEMMA CompleteDone ==
  ASSUME NEW c, c = Plan, PlanOK(c), StateOK(c), NEW p \in Party, Complete(p), ~ Threaded(p),
         NEW m, m = Local(p)
  PROVE  ~ Through(p) /\ Conclude(p) /\ AllDone(c, p, m)
<1>1. /\ ~ Through(p) /\ begun[p] = Exchangers(p) /\ Conclude(p)
      /\ \A d \in Exchangers(p) : Finished(p, d)
  BY DEF Complete
<1>2. /\ ~ Idle(c, m) /\ ~ ByThreads(c, m) /\ m.op \in Ops(c) /\ m.stopped = 0
      /\ Exchangers(p) = Route(c, p, m.op) /\ Op(p) = c.program[m.op] /\ LocalOK(c, p, m)
  BY <1>1, Bridge DEF StateOK
<1>3. m.begun = begun[p] /\ m.sent = sent[p] /\ m.got = got[p] /\ m.newLen = newLen[p]
  BY LocalSays
<1>4. ASSUME NEW d \in Route(c, p, m.op)
      PROVE  /\ m.newLen[d] # NotYet /\ Len(m.got[d]) = m.newLen[d]
             /\ m.sent[d] = Size(c, m.op, p)
  <2>1. m.sent[d] = Size(c, m.op, p) /\ Len(m.got[d]) = m.newLen[d]
    BY <1>1, <1>2, <1>3 DEF Finished, Size
  <2>2. m.got[d] \in Seq(Value(c))
    BY <1>2 DEF LocalOK, GotOK, Route
  <2>3. m.newLen[d] # NotYet
    BY <2>1, <2>2 DEF NotYet
  <2> QED BY <2>1, <2>3
<1>5. AllDone(c, p, m)
  BY <1>1, <1>2, <1>3, <1>4 DEF AllDone
<1> QED BY <1>1, <1>5

(* The end of a round of exchangers (Exchanger::round has returned          *)
(* everywhere).                                                             *)
LEMMA CompleteStep ==
  ASSUME NEW c, c = Plan, PlanOK(c), StateOK(c), NEW p \in Party,
         Complete(p), ~ Threaded(p), UNCHANGED queues, layers' = layers
  PROVE  c = Plan' /\ StateOK(c)'
<1>1. PICK m : m = Local(p)
  OBVIOUS
<1>2. PICK m1 : m1 = Local(p)'
  OBVIOUS
<1>3. ~ Through(p) /\ Conclude(p) /\ AllDone(c, p, m)
  BY <1>1, CompleteDone
<1>4. ~ ByThreads(c, m) /\ LocalOK(c, p, m) /\ Shape
  BY <1>1, Bridge DEF StateOK
<1>5. ASSUME NEW r \in Party, r # p PROVE Local(r)' = Local(r)
  <2>1. /\ op'[r] = op[r] /\ begun'[r] = begun[r] /\ sent'[r] = sent[r] /\ got'[r] = got[r]
        /\ newLen'[r] = newLen[r] /\ ctx'[r] = ctx[r] /\ (r \in threw' <=> r \in threw)
    BY <1>3, <1>4, <1>5 DEF Conclude, Shape
  <2> QED BY <2>1 DEF Local, queues
<1>6. m1.toSend = {} /\ m1.toReceive = {} /\ m1.didSend = {} /\ m1.didReceive = {}
  <2>1. m.toSend = {} /\ m.toReceive = {} /\ m.didSend = {} /\ m.didReceive = {}
    BY <1>4 DEF LocalOK, QueuesOK
  <2>2. /\ m1.toSend = m.toSend /\ m1.toReceive = m.toReceive
        /\ m1.didSend = m.didSend /\ m1.didReceive = m.didReceive
    BY <1>1, <1>2 DEF Local, queues
  <2> QED BY <2>1, <2>2
<1> QED BY <1>1, <1>2, <1>3, <1>5, <1>6, ConcludeStep

(* The end of a round of threads: all that was asked of them is done.       *)
AllIsServed(c, p, m) ==
  /\ m.toSend \cup m.didSend = {To(p, d) : d \in Route(c, p, m.op)}
  /\ m.toReceive \cup m.didReceive = {Source(c, p, d, m.op) : d \in Route(c, p, m.op)}
  /\ m.toSend \cap m.didSend = {} /\ m.toReceive \cap m.didReceive = {}
  /\ \A d \in Route(c, p, m.op) :
       /\ To(p, d) \in m.didSend /\ Source(c, p, d, m.op) \in m.didReceive
       /\ <<"send", p, To(p, d)>> \in Requests(p)
       /\ <<"receive", p, Source(c, p, d, m.op)>> \in Requests(p)

(* When the threads have served all, everything was sent and received.      *)
LEMMA ServedDone ==
  ASSUME NEW c, c = Plan, PlanOK(c), StateOK(c), NEW p \in Party, AllServed(p),
         NEW m, m = Local(p)
  PROVE  ~ Through(p) /\ Conclude(p) /\ AllDone(c, p, m) /\ AllIsServed(c, p, m)
<1>3. /\ Threaded(p) /\ begun[p] = Exchangers(p) /\ Conclude(p) /\ Requests(p) \subseteq served
      /\ served' = served \ Requests(p) /\ asked' = asked /\ ~ Through(p)
  BY DEF AllServed, Threaded
<1>4. /\ ~ Idle(c, m) /\ ByThreads(c, m) /\ m.op \in Ops(c) /\ m.stopped = 0
      /\ Exchangers(p) = Route(c, p, m.op) /\ Op(p) = c.program[m.op] /\ LocalOK(c, p, m) /\ Shape
      /\ \A d \in Distance : From(p, d) = Source(c, p, d, m.op)
  BY <1>3, Bridge DEF StateOK
<1>5. /\ m.begun = begun[p]
      /\ m.toSend = {q \in Party : <<"send", p, q>> \in asked}
      /\ m.toReceive = {q \in Party : <<"receive", p, q>> \in asked}
      /\ m.didSend = {q \in Party : <<"send", p, q>> \in served}
      /\ m.didReceive = {q \in Party : <<"receive", p, q>> \in served}
  BY DEF Local
<1>7. /\ m.toSend \cup m.didSend = {To(p, d) : d \in Route(c, p, m.op)}
      /\ m.toReceive \cup m.didReceive = {Source(c, p, d, m.op) : d \in Route(c, p, m.op)}
      /\ m.toSend \cap m.didSend = {} /\ m.toReceive \cap m.didReceive = {}
      /\ \A d \in Route(c, p, m.op) : Source(c, p, d, m.op) \in m.didReceive <=> m.newLen[d] # NotYet
      /\ \A d \in Route(c, p, m.op) : m.newLen[d] # NotYet => Len(m.got[d]) = m.newLen[d]
  BY <1>3, <1>4, <1>5 DEF LocalOK, QueuesOK
<1>8. ASSUME NEW d \in Route(c, p, m.op)
      PROVE  /\ To(p, d) \in m.didSend /\ Source(c, p, d, m.op) \in m.didReceive
             /\ <<"send", p, To(p, d)>> \in Requests(p)
             /\ <<"receive", p, Source(c, p, d, m.op)>> \in Requests(p)
  <2>1. To(p, d) \in Party /\ Source(c, p, d, m.op) \in Party /\ d \in Distance
    BY <1>4, RouteIs
  <2>2. From(p, d) = Source(c, p, d, m.op)
    BY <1>4, <2>1
  <2>3. /\ <<"send", p, To(p, d)>> \in Requests(p)
        /\ <<"receive", p, Source(c, p, d, m.op)>> \in Requests(p)
    BY <1>4, <2>2 DEF Requests
  <2> QED BY <1>3, <1>5, <2>1, <2>3
<1>9. AllDone(c, p, m)
  <2>1. ASSUME NEW d \in Route(c, p, m.op)
        PROVE  m.newLen[d] # NotYet /\ Len(m.got[d]) = m.newLen[d] /\ To(p, d) \in m.didSend
    BY <1>7, <1>8
  <2> QED BY <1>3, <1>4, <1>5, <2>1 DEF AllDone
<1> QED BY <1>3, <1>7, <1>8, <1>9 DEF AllIsServed

(* The end of a round of threads (CryptoPlayer waits for its queues).       *)
LEMMA AllServedStep ==
  ASSUME NEW c, c = Plan, PlanOK(c), StateOK(c), NEW p \in Party, AllServed(p), layers' = layers
  PROVE  c = Plan' /\ StateOK(c)'
<1>1. PICK m : m = Local(p)
  OBVIOUS
<1>2. PICK m1 : m1 = Local(p)'
  OBVIOUS
<1>3. ~ Through(p) /\ Conclude(p) /\ AllDone(c, p, m) /\ AllIsServed(c, p, m)
  BY <1>1, ServedDone
<1>4. Shape /\ served' = served \ Requests(p) /\ asked' = asked
  BY DEF AllServed, StateOK
<1>5. /\ m.toSend = {q \in Party : <<"send", p, q>> \in asked}
      /\ m.toReceive = {q \in Party : <<"receive", p, q>> \in asked}
      /\ m.didSend = {q \in Party : <<"send", p, q>> \in served}
      /\ m.didReceive = {q \in Party : <<"receive", p, q>> \in served}
  BY <1>1 DEF Local
<1>6. /\ m1.toSend = {q \in Party : <<"send", p, q>> \in asked}
      /\ m1.toReceive = {q \in Party : <<"receive", p, q>> \in asked}
      /\ m1.didSend = {q \in Party : <<"send", p, q>> \in served \ Requests(p)}
      /\ m1.didReceive = {q \in Party : <<"receive", p, q>> \in served \ Requests(p)}
  BY <1>2, <1>4 DEF Local
<1>7. /\ m.toSend \cup m.didSend = {To(p, d) : d \in Route(c, p, m.op)}
      /\ m.toReceive \cup m.didReceive = {Source(c, p, d, m.op) : d \in Route(c, p, m.op)}
      /\ m.toSend \cap m.didSend = {} /\ m.toReceive \cap m.didReceive = {}
  BY <1>3 DEF AllIsServed
<1>8. \A d \in Route(c, p, m.op) :
       /\ To(p, d) \in m.didSend /\ Source(c, p, d, m.op) \in m.didReceive
       /\ <<"send", p, To(p, d)>> \in Requests(p)
       /\ <<"receive", p, Source(c, p, d, m.op)>> \in Requests(p)
  BY <1>3 DEF AllIsServed
<1>9. m1.toSend = {} /\ m1.toReceive = {} /\ m1.didSend = {} /\ m1.didReceive = {}
  <2>1. m1.toSend = {}
    <3>1. ASSUME NEW q \in m.toSend PROVE FALSE
      <4>1. PICK d \in Route(c, p, m.op) : q = To(p, d)
        BY <1>7, <3>1
      <4> QED BY <1>7, <1>8, <3>1, <4>1
    <3> QED BY <1>5, <1>6, <3>1
  <2>2. m1.toReceive = {}
    <3>1. ASSUME NEW q \in m.toReceive PROVE FALSE
      <4>1. PICK d \in Route(c, p, m.op) : q = Source(c, p, d, m.op)
        BY <1>7, <3>1
      <4> QED BY <1>7, <1>8, <3>1, <4>1
    <3> QED BY <1>5, <1>6, <3>1
  <2>3. m1.didSend = {}
    <3>1. ASSUME NEW q \in Party, <<"send", p, q>> \in served \ Requests(p) PROVE FALSE
      <4>1. q \in m.didSend
        BY <1>5, <3>1
      <4>2. PICK d \in Route(c, p, m.op) : q = To(p, d)
        BY <1>7, <4>1
      <4> QED BY <1>8, <3>1, <4>2
    <3> QED BY <1>6, <3>1
  <2>4. m1.didReceive = {}
    <3>1. ASSUME NEW q \in Party, <<"receive", p, q>> \in served \ Requests(p) PROVE FALSE
      <4>1. q \in m.didReceive
        BY <1>5, <3>1
      <4>2. PICK d \in Route(c, p, m.op) : q = Source(c, p, d, m.op)
        BY <1>7, <4>1
      <4> QED BY <1>8, <3>1, <4>2
    <3> QED BY <1>6, <3>1
  <2> QED BY <2>1, <2>2, <2>3, <2>4
<1>10. ASSUME NEW r \in Party, r # p PROVE Local(r)' = Local(r)
  <2>1. /\ op'[r] = op[r] /\ begun'[r] = begun[r] /\ sent'[r] = sent[r] /\ got'[r] = got[r]
        /\ newLen'[r] = newLen[r] /\ ctx'[r] = ctx[r] /\ (r \in threw' <=> r \in threw)
    BY <1>3, <1>4, <1>10 DEF Conclude, Shape
  <2>2. \A q : <<"send", r, q>> \notin Requests(p) /\ <<"receive", r, q>> \notin Requests(p)
    BY <1>10 DEF Requests
  <2>3. /\ {q \in Party : <<"send", r, q>> \in served'} = {q \in Party : <<"send", r, q>> \in served}
        /\ {q \in Party : <<"receive", r, q>> \in served'}
             = {q \in Party : <<"receive", r, q>> \in served}
    BY <1>4, <2>2
  <2> QED BY <1>4, <2>1, <2>3 DEF Local
<1> QED BY <1>1, <1>2, <1>3, <1>9, <1>10, ConcludeStep

-----------------------------------------------------------------------------
(***************************************************************************)
(* The threads.                                                            *)
(***************************************************************************)
LEMMA ThreadsAt ==
  ASSUME NEW c, c = Plan, PlanOK(c), StateOK(c), NEW p \in Party, NEW m, m = Local(p),
         ByThreads(c, m)
  PROVE  /\ ~ Through(p) /\ ~ Idle(c, m) /\ m.op \in Ops(c) /\ m.stopped = 0 /\ ~ Same(c, m.op)
         /\ Exchangers(p) = Route(c, p, m.op) /\ Op(p) = c.program[m.op]
         /\ Shape /\ LocalOK(c, p, m) /\ c.layers = 2 /\ layers = 2
         /\ m.begun = {} \/ m.begun = Route(c, p, m.op)
         /\ m.toSend \cup m.didSend = {To(p, d) : d \in m.begun}
         /\ m.toReceive \cup m.didReceive = {Source(c, p, d, m.op) : d \in m.begun}
         /\ m.toSend \cap m.didSend = {} /\ m.toReceive \cap m.didReceive = {}
         /\ \A d \in m.begun : Source(c, p, d, m.op) \in m.didReceive <=> m.newLen[d] # NotYet
         /\ \A d \in m.begun : m.newLen[d] # NotYet => Len(m.got[d]) = m.newLen[d]
<1>1. ~ Through(p) /\ ~ Idle(c, m) /\ ~ Same(c, m.op) /\ c.layers = 2 /\ layers = 2
  BY Bridge, PlanSays DEF ByThreads
<1>2. m.op \in Ops(c) /\ m.stopped = 0 /\ Exchangers(p) = Route(c, p, m.op)
      /\ Op(p) = c.program[m.op]
  BY <1>1, Bridge
<1>3. Shape /\ LocalOK(c, p, m)
  BY DEF StateOK
<1>4. QueuesOK(c, p, m)
  BY <1>3 DEF LocalOK
<1> QED BY <1>1, <1>2, <1>3, <1>4 DEF QueuesOK

(* A thread's count is all of the message, or nothing.                      *)
LEMMA ThreadCount ==
  ASSUME NEW c, PlanOK(c), NEW m, ByThreads(c, m), m.op \in Ops(c), m.stopped = 0,
         NEW l, NEW p \in Party, NEW q \in Party
  PROVE  In(c, m, l, p, q) = Base(c, l, p, q)[m.op]
            + (IF Carries(c, l, p, q, m.op) /\ q \in m.didSend THEN 1 + Size(c, m.op, p) ELSE 0)
<1>1. m.op + m.stopped = m.op
  BY PlanIs DEF Ops
<1>2. ~ Idle(c, m)
  BY DEF ByThreads
<1> QED BY <1>1, <1>2 DEF In, Going

(* CryptoPlayer queues its requests.                                        *)
LEMMA RequestStep ==
  ASSUME NEW c, c = Plan, PlanOK(c), StateOK(c), NEW p \in Party, Request(p), layers' = layers
  PROVE  c = Plan' /\ StateOK(c)'
<1>1. PICK m : m = Local(p)
  OBVIOUS
<1>2. PICK m1 : m1 = Local(p)'
  OBVIOUS
<1>3. /\ Threaded(p) /\ begun[p] # Exchangers(p) /\ asked' = asked \cup Requests(p)
      /\ begun' = [begun EXCEPT ![p] = Exchangers(p)]
      /\ UNCHANGED <<program, op, sent, got, newLen, pipe, lied, ctx, threw, served>>
  BY DEF Request
<1>4. ByThreads(c, m)
  BY <1>1, <1>3, Bridge
<1>5. /\ ~ Through(p) /\ ~ Idle(c, m) /\ m.op \in Ops(c) /\ m.stopped = 0
      /\ Exchangers(p) = Route(c, p, m.op) /\ Shape /\ LocalOK(c, p, m)
      /\ m.begun = {} \/ m.begun = Route(c, p, m.op)
      /\ m.toSend \cup m.didSend = {To(p, d) : d \in m.begun}
      /\ m.toReceive \cup m.didReceive = {Source(c, p, d, m.op) : d \in m.begun}
  BY <1>1, <1>4, ThreadsAt
<1>6. m.begun = {} /\ m.begun # Route(c, p, m.op)
  <2>1. m.begun = begun[p]
    BY <1>1, LocalSays
  <2> QED BY <1>3, <1>5, <2>1
<1>7. m.toSend = {} /\ m.didSend = {} /\ m.toReceive = {} /\ m.didReceive = {}
  BY <1>5, <1>6
<1>8. \A d \in Distance : m.newLen[d] = NotYet /\ m.got[d] = <<>> /\ m.sent[d] = 0
  <2>1. \A d \in Distance : m.newLen[d] = NotYet /\ m.got[d] = <<>>
    BY <1>5, <1>6 DEF LocalOK, GotOK
  <2>2. \A d \in Distance : m.sent[d] = 0
    BY <1>4, <1>5 DEF LocalOK, SentOK
  <2> QED BY <2>1, <2>2
<1>9. /\ m1.op = m.op /\ m1.stopped = m.stopped /\ m1.begun = Route(c, p, m.op)
      /\ m1.got = m.got /\ m1.newLen = m.newLen /\ m1.sent = m.sent /\ m1.ctx = m.ctx
      /\ m1.didSend = m.didSend /\ m1.didReceive = m.didReceive
  BY <1>1, <1>2, <1>3, <1>5 DEF Local, Shape
<1>10. m1.toSend = {To(p, d) : d \in Route(c, p, m.op)}
       /\ m1.toReceive = {Source(c, p, d, m.op) : d \in Route(c, p, m.op)}
  <2>1. \A d \in Route(c, p, m.op) : /\ To(p, d) \in Party /\ Source(c, p, d, m.op) \in Party
                                     /\ From(p, d) = Source(c, p, d, m.op)
    <3>1. \A d \in Route(c, p, m.op) :
            d \in Distance /\ To(p, d) \in Party /\ Source(c, p, d, m.op) \in Party
      BY <1>5, RouteIs
    <3>2. \A d \in Distance : From(p, d) = Source(c, p, d, m.op)
      BY <1>1, <1>5, Bridge
    <3> QED BY <3>1, <3>2
  <2>2. Requests(p) = {<<"send", p, To(p, d)>> : d \in Route(c, p, m.op)} \cup
                      {<<"receive", p, Source(c, p, d, m.op)>> : d \in Route(c, p, m.op)}
    BY <1>5, <2>1 DEF Requests
  <2>3. /\ \A q \in Party : <<"send", p, q>> \notin asked
        /\ \A q \in Party : <<"receive", p, q>> \notin asked
    BY <1>1, <1>7 DEF Local
  <2>4. m1.toSend = {q \in Party : <<"send", p, q>> \in asked \cup Requests(p)}
        /\ m1.toReceive = {q \in Party : <<"receive", p, q>> \in asked \cup Requests(p)}
    BY <1>2, <1>3 DEF Local
  <2>5. \A q \in Party : <<"send", p, q>> \in Requests(p)
                           <=> \E d \in Route(c, p, m.op) : q = To(p, d)
    BY <2>2
  <2>6. \A q \in Party : <<"receive", p, q>> \in Requests(p)
                           <=> \E d \in Route(c, p, m.op) : q = Source(c, p, d, m.op)
    BY <2>2
  <2>7. m1.toSend = {To(p, d) : d \in Route(c, p, m.op)}
    BY <2>1, <2>3, <2>4, <2>5
  <2>8. m1.toReceive = {Source(c, p, d, m.op) : d \in Route(c, p, m.op)}
    BY <2>1, <2>3, <2>4, <2>6
  <2> QED BY <2>7, <2>8
<1>11. ASSUME NEW r \in Party, r # p PROVE Local(r)' = Local(r)
  <2>1. begun'[r] = begun[r]
    BY <1>3, <1>5, <1>11 DEF Shape
  <2>2. \A q : <<"send", r, q>> \notin Requests(p) /\ <<"receive", r, q>> \notin Requests(p)
    BY <1>11 DEF Requests
  <2>3. /\ {q \in Party : <<"send", r, q>> \in asked'} = {q \in Party : <<"send", r, q>> \in asked}
        /\ {q \in Party : <<"receive", r, q>> \in asked'} = {q \in Party : <<"receive", r, q>> \in asked}
    BY <1>3, <2>2
  <2> QED BY <1>3, <2>1, <2>3 DEF Local
<1>12. LocalOK(c, p, m1)
  <2>1. PlaceOK(c, p, m1) /\ ~ Idle(c, m1) /\ ByThreads(c, m1)
    BY <1>4, <1>5, <1>9, SamePlace DEF LocalOK
  <2>2. BegunOK(c, p, m1)
    BY <1>9, <2>1 DEF BegunOK, Route
  <2>3. SentOK(c, p, m1)
    BY <1>5, <1>8, <1>9 DEF LocalOK, SentOK
  <2>4. GotOK(c, p, m1)
    <3>1. /\ m1.got \in [Distance -> Seq(Value(c))] /\ m1.newLen \in [Distance -> Nat \cup {NotYet}]
      BY <1>5, <1>9 DEF LocalOK, GotOK
    <3>2. \A d \in Distance : m1.newLen[d] = NotYet /\ m1.got[d] = <<>>
      BY <1>8, <1>9
    <3>3. ~ Same(c, m1.op)
      BY <2>1 DEF ByThreads
    <3> QED BY <3>1, <3>2, <3>3 DEF GotOK
  <2>5. QueuesOK(c, p, m1)
    <3>1. \A d \in m1.begun : m1.newLen[d] = NotYet
      BY <1>8, <1>9 DEF Route
    <3> QED BY <1>7, <1>9, <1>10, <2>1, <3>1 DEF QueuesOK
  <2> QED BY <2>1, <2>2, <2>3, <2>4, <2>5 DEF LocalOK
<1>13. ASSUME NEW l \in Layer, NEW q \in Party, q # p
       PROVE  /\ Flow(c, l, p, q, pipe'[l][p][q], Out(c, Local(q), l, p, q), In(c, m1, l, p, q))
              /\ Flow(c, l, q, p, pipe'[l][q][p], Out(c, m1, l, q, p), In(c, Local(q), l, q, p))
  <2>1. Out(c, m1, l, q, p) = Out(c, m, l, q, p)
    BY <1>9, SameOut
  <2>2. In(c, m1, l, p, q) = In(c, m, l, p, q)
    <3>1. ByThreads(c, m1)
      BY <1>4, <1>9, SamePlace
    <3>2. Idle(c, m1) <=> Idle(c, m)
      BY <1>9, SamePlace
    <3> QED BY <1>4, <1>9, <3>1, <3>2 DEF In, Going
  <2>3. /\ Flow(c, l, p, q, pipe[l][p][q], Out(c, Local(q), l, p, q), In(c, m, l, p, q))
        /\ Flow(c, l, q, p, pipe[l][q][p], Out(c, m, l, q, p), In(c, Local(q), l, q, p))
    BY <1>1, <1>13 DEF StateOK, FlowOK
  <2> QED BY <1>3, <2>1, <2>2, <2>3
<1>14. Shape'
  BY <1>3, <1>5 DEF Shape
<1> QED BY <1>2, <1>3, <1>11, <1>12, <1>13, <1>14, OneParty

(* A sender thread sends a message, its length first.                       *)
LEMMA SenderRunStep ==
  ASSUME NEW c, c = Plan, PlanOK(c), StateOK(c), NEW p \in Party, NEW q \in Party,
         SenderRun(p, q), layers' = layers
  PROVE  c = Plan' /\ StateOK(c)'
<1>1. PICK m : m = Local(p)
  OBVIOUS
<1>2. PICK m1 : m1 = Local(p)'
  OBVIOUS
<1>3. /\ <<"send", p, q>> \in asked
      /\ asked' = asked \ {<<"send", p, q>>} /\ served' = served \cup {<<"send", p, q>>}
      /\ UNCHANGED <<program, op, begun, sent, got, newLen, lied, ctx, threw>>
  BY DEF SenderRun, Serve
<1>4. /\ m.toSend = {r \in Party : <<"send", p, r>> \in asked}
      /\ m.toReceive = {r \in Party : <<"receive", p, r>> \in asked}
      /\ m.didSend = {r \in Party : <<"send", p, r>> \in served}
      /\ m.didReceive = {r \in Party : <<"receive", p, r>> \in served}
  BY <1>1 DEF Local
<1>5. q \in m.toSend
  BY <1>3, <1>4
<1>6. ByThreads(c, m)
  <2>1. QueuesOK(c, p, m)
    BY <1>1 DEF StateOK, LocalOK
  <2> QED BY <1>5, <2>1 DEF QueuesOK
<1>7. /\ ~ Through(p) /\ ~ Idle(c, m) /\ m.op \in Ops(c) /\ m.stopped = 0 /\ ~ Same(c, m.op)
      /\ Shape /\ LocalOK(c, p, m) /\ c.layers = 2 /\ layers = 2 /\ Op(p) = c.program[m.op]
      /\ m.begun = {} \/ m.begun = Route(c, p, m.op)
      /\ m.toSend \cup m.didSend = {To(p, d) : d \in m.begun}
      /\ m.toReceive \cup m.didReceive = {Source(c, p, d, m.op) : d \in m.begun}
      /\ m.toSend \cap m.didSend = {} /\ m.toReceive \cap m.didReceive = {}
      /\ \A d \in m.begun : Source(c, p, d, m.op) \in m.didReceive <=> m.newLen[d] # NotYet
      /\ \A d \in m.begun : m.newLen[d] # NotYet => Len(m.got[d]) = m.newLen[d]
  BY <1>1, <1>6, ThreadsAt
<1>8. q # p /\ Talks(c, p, q, m.op) /\ q \notin m.didSend
  <2>1. PICK d \in Route(c, p, m.op) : q = To(p, d)
    BY <1>5, <1>7
  <2>2. Talks(c, p, q, m.op)
    BY <2>1 DEF Route
  <2> QED BY <1>5, <1>7, <2>2 DEF Talks
<1>9. PICK l : l = SendLayer(p, q)
  OBVIOUS
<1>10. l \in Layer /\ Carries(c, l, p, q, m.op)
  <2>1. Track(c, p, q, m.op) = l
    BY <1>7, <1>9 DEF Track, SendLayer
  <2>2. l \in Layer
    BY <1>7, <1>9 DEF SendLayer, Layer
  <2> QED BY <1>8, <2>1, <2>2 DEF Carries
<1>11. PICK w : w = Message(c, p, q, m.op)
  OBVIOUS
<1>12. /\ w \in Seq(Value(c)) /\ Len(w) = Size(c, m.op, p) /\ Size(c, m.op, p) \in Nat
       /\ \A k \in 0 .. Size(c, m.op, p) : Unit(c, p, q, m.op, k) \in Units(c)
  BY <1>7, <1>11, MessageIs, PlanIs
<1>13. Content(p, q, op[p]) = w
  <2>1. m.op = op[p]
    BY <1>1, LocalSays
  <2> QED BY <1>1, <1>7, <1>11, <2>1, Bridge
<1>14. PICK h, v : h = <<LengthUnit(p)>> /\ v = [k \in 1 .. Len(w) |-> ByteUnit(w[k])]
  OBVIOUS
<1>15. PICK us : us = h \o v
  OBVIOUS
<1>16. Put(l, p, q, us)
  BY <1>9, <1>13, <1>14, <1>15 DEF SenderRun
<1>17. UnitsFrom(c, p, q, m.op, 0, us) /\ Len(us) = 1 + Size(c, m.op, p)
  <2>1. LengthUnit(p) = Unit(c, p, q, m.op, 0)
    BY <1>7 DEF LengthUnit, Unit, Size
  <2>2. h \in Seq(Units(c)) /\ Len(h) = 1 /\ h[1] = Unit(c, p, q, m.op, 0)
    <3>1. 0 \in 0 .. Size(c, m.op, p)
      BY <1>12
    <3> QED BY <1>12, <1>14, <2>1, <3>1
  <2>3. ASSUME NEW k \in 1 .. Len(w)
        PROVE  ByteUnit(w[k]) = Unit(c, p, q, m.op, k) /\ ByteUnit(w[k]) \in Units(c)
    <3>1. k # 0 /\ k \in 0 .. Size(c, m.op, p)
      BY <1>12
    <3>2. ByteUnit(w[k]) = Unit(c, p, q, m.op, k)
      BY <1>11, <3>1 DEF Unit
    <3> QED BY <1>12, <3>1, <3>2
  <2>4. v \in Seq(Units(c)) /\ Len(v) = Size(c, m.op, p)
    BY <1>12, <1>14, <2>3
  <2>5. \A k \in 1 .. Len(v) : v[k] = Unit(c, p, q, m.op, k)
    BY <1>12, <1>14, <2>3, <2>4
  <2>6. us \in Seq(Units(c))
    BY <1>15, <2>2, <2>4
  <2>7. Len(us) = Len(h) + Len(v)
    <3>1. Joins(us, h, v)
      BY <1>15, <2>2, <2>4, ConcatIs
    <3> QED BY <3>1 DEF Joins
  <2>8. Appended(us, h, v)
    <3>1. Sequence(h, Units(c)) /\ Sequence(v, Units(c)) /\ Extends(us, h, v)
      BY <1>15, <2>2, <2>4 DEF Sequence, Extends
    <3> QED BY <3>1, PutPlaces
  <2>9. Len(us) = 1 + Size(c, m.op, p) /\ Len(us) \in Nat
    BY <1>12, <2>2, <2>4, <2>7
  <2>10. ASSUME NEW j \in 1 .. Len(us) PROVE us[j] = Unit(c, p, q, m.op, 0 + j - 1)
    <3>1. CASE j \in 1 .. Len(h)
      <4>1. j = 1 /\ 0 + j - 1 = 0
        BY <2>2, <3>1
      <4>2. us[j] = h[j]
        BY <2>8, <3>1 DEF Appended
      <4> QED BY <2>2, <4>1, <4>2
    <3>2. CASE j \notin 1 .. Len(h)
      <4>1. PICK y \in 1 .. Len(v) : j = Len(h) + y /\ us[j] = v[y]
        BY <2>8, <3>2 DEF Appended
      <4>2. 0 + j - 1 = y
        BY <2>2, <2>4, <1>12, <4>1
      <4> QED BY <2>5, <4>1, <4>2
    <3> QED BY <3>1, <3>2
  <2> QED BY <2>6, <2>9, <2>10 DEF UnitsFrom
<1>18. /\ m1.op = m.op /\ m1.stopped = m.stopped /\ m1.begun = m.begun /\ m1.sent = m.sent
       /\ m1.got = m.got /\ m1.newLen = m.newLen /\ m1.ctx = m.ctx
       /\ m1.toReceive = m.toReceive /\ m1.didReceive = m.didReceive
       /\ m1.toSend = m.toSend \ {q} /\ m1.didSend = m.didSend \cup {q}
  <2>1. /\ m1.op = m.op /\ m1.stopped = m.stopped /\ m1.begun = m.begun /\ m1.sent = m.sent
        /\ m1.got = m.got /\ m1.newLen = m.newLen /\ m1.ctx = m.ctx
    BY <1>1, <1>2, <1>3 DEF Local
  <2>2. /\ m1.toSend = {r \in Party : <<"send", p, r>> \in asked'}
        /\ m1.toReceive = {r \in Party : <<"receive", p, r>> \in asked'}
        /\ m1.didSend = {r \in Party : <<"send", p, r>> \in served'}
        /\ m1.didReceive = {r \in Party : <<"receive", p, r>> \in served'}
    BY <1>2 DEF Local
  <2>3. m1.toReceive = m.toReceive /\ m1.didReceive = m.didReceive
    BY <1>3, <1>4, <2>2
  <2>4. m1.toSend = m.toSend \ {q}
    BY <1>3, <1>4, <2>2
  <2>5. m1.didSend = m.didSend \cup {q}
    BY <1>3, <1>4, <2>2
  <2> QED BY <2>1, <2>3, <2>4, <2>5
<1>19. ASSUME NEW r \in Party, r # p PROVE Local(r)' = Local(r)
  <2>1. /\ {s \in Party : <<"send", r, s>> \in asked'} = {s \in Party : <<"send", r, s>> \in asked}
        /\ {s \in Party : <<"receive", r, s>> \in asked'} = {s \in Party : <<"receive", r, s>> \in asked}
    BY <1>3, <1>19
  <2>2. /\ {s \in Party : <<"send", r, s>> \in served'} = {s \in Party : <<"send", r, s>> \in served}
        /\ {s \in Party : <<"receive", r, s>> \in served'} = {s \in Party : <<"receive", r, s>> \in served}
    BY <1>3, <1>19
  <2> QED BY <1>3, <2>1, <2>2 DEF Local
<1>20. LocalOK(c, p, m1)
  <2>1. PlaceOK(c, p, m1) /\ ~ Idle(c, m1) /\ ByThreads(c, m1)
    BY <1>6, <1>7, <1>18, SamePlace DEF LocalOK
  <2>2. BegunOK(c, p, m1)
    BY <1>7, <1>18, <2>1 DEF LocalOK, BegunOK
  <2>3. SentOK(c, p, m1)
    BY <1>6, <1>7, <1>18, <2>1 DEF LocalOK, SentOK
  <2>4. GotOK(c, p, m1)
    <3>1. GotOK(c, p, m)
      BY <1>7 DEF LocalOK
    <3> QED BY <1>7, <1>18, <2>1, <3>1 DEF GotOK
  <2>5. QueuesOK(c, p, m1)
    <3>1. m1.toSend \cup m1.didSend = m.toSend \cup m.didSend /\ m1.toSend \cap m1.didSend = {}
      BY <1>5, <1>7, <1>18
    <3> QED BY <1>7, <1>18, <2>1, <3>1 DEF QueuesOK
  <2> QED BY <2>1, <2>2, <2>3, <2>4, <2>5 DEF LocalOK
<1>21. ByThreads(c, m1)
  BY <1>6, <1>18, SamePlace
<1>22. Flow(c, l, p, q, pipe'[l][p][q], Out(c, Local(q), l, p, q), In(c, m1, l, p, q))
  <2>1. PICK s, s1, z, z1, x : /\ s = pipe[l][p][q] /\ s1 = pipe'[l][p][q] /\ x = 0
                               /\ z = In(c, m, l, p, q) /\ z1 = In(c, m1, l, p, q)
    OBVIOUS
  <2>2. s1 = s \o us
    BY <1>7, <1>10, <1>16, <2>1, PutIs
  <2>3. z = Base(c, l, p, q)[m.op] + x
    BY <1>6, <1>7, <1>8, <2>1, ThreadCount
  <2>4. z1 = Base(c, l, p, q)[m.op] + (1 + Size(c, m.op, p))
    BY <1>7, <1>10, <1>18, <1>21, <2>1, ThreadCount
  <2>5. PICK b : b = Base(c, l, p, q)[m.op]
    OBVIOUS
  <2>6. b \in Nat
    <3>1. m.op \in 1 .. Len(c.program) + 1
      BY <1>7, PlanIs DEF Ops
    <3> QED BY <2>5, <3>1, BaseIs
  <2>7. z1 = z + Len(us)
    BY <1>12, <1>17, <2>1, <2>3, <2>4, <2>5, <2>6
  <2>8. x \in Nat /\ x + Len(us) <= 1 + Size(c, m.op, p) /\ UnitsFrom(c, p, q, m.op, x, us)
    BY <1>12, <1>17, <2>1
  <2>9. Flow(c, l, p, q, s, Out(c, Local(q), l, p, q), z)
    BY <1>1, <1>8, <1>10, <2>1 DEF StateOK, FlowOK
  <2>10. Flow(c, l, p, q, s1, Out(c, Local(q), l, p, q), z1)
    BY <1>7, <1>10, <2>2, <2>3, <2>7, <2>8, <2>9, FlowPutAll DEF Extends
  <2> QED BY <2>1, <2>10
<1>23. ASSUME NEW k \in Layer, NEW r \in Party, r # p
       PROVE  Flow(c, k, p, r, pipe'[k][p][r], Out(c, Local(r), k, p, r), In(c, m1, k, p, r))
  <2>1. CASE k = l /\ r = q
    BY <1>22, <2>1
  <2>2. CASE ~ (k = l /\ r = q)
    <3>1. pipe'[k][p][r] = pipe[k][p][r]
      BY <1>7, <1>10, <1>16, <2>2, PutIs
    <3>2. In(c, m1, k, p, r) = In(c, m, k, p, r)
      <4>1. CASE ~ Carries(c, k, p, r, m.op)
        BY <1>18, <4>1 DEF In, Going
      <4>2. CASE Carries(c, k, p, r, m.op)
        <5>1. r # q
          BY <1>10, <2>2, <4>2 DEF Carries
        <5>2. r \in m1.didSend <=> r \in m.didSend
          BY <1>18, <5>1
        <5>3. ~ Idle(c, m1)
          BY <1>7, <1>18, SamePlace
        <5> QED BY <1>6, <1>7, <1>18, <1>21, <5>2, <5>3 DEF In, Going
      <4> QED BY <4>1, <4>2
    <3>3. Flow(c, k, p, r, pipe[k][p][r], Out(c, Local(r), k, p, r), In(c, m, k, p, r))
      BY <1>1, <1>23 DEF StateOK, FlowOK
    <3> QED BY <3>1, <3>2, <3>3
  <2> QED BY <2>1, <2>2
<1>24. ASSUME NEW k \in Layer, NEW r \in Party, r # p
       PROVE  Flow(c, k, r, p, pipe'[k][r][p], Out(c, m1, k, r, p), In(c, Local(r), k, r, p))
  <2>1. Flow(c, k, r, p, pipe[k][r][p], Out(c, m, k, r, p), In(c, Local(r), k, r, p))
    BY <1>1, <1>24 DEF StateOK, FlowOK
  <2>2. pipe'[k][r][p] = pipe[k][r][p]
    BY <1>7, <1>10, <1>16, <1>24, PutIs
  <2>3. Out(c, m1, k, r, p) = Out(c, m, k, r, p)
    BY <1>18, SameOut
  <2> QED BY <2>1, <2>2, <2>3
<1>25. \A k \in Layer : \A r, s \in Party : r # p /\ s # p => pipe'[k][r][s] = pipe[k][r][s]
  BY <1>7, <1>10, <1>16, PutIs
<1>26. Shape' /\ program' = program /\ lied' = lied
  <2>1. pipe' = [k \in Layer |-> [r \in Party |-> [s \in Party |-> pipe'[k][r][s]]]]
    BY <1>7, <1>10, <1>16, PutIs
  <2> QED BY <1>3, <1>7, <2>1 DEF Shape
<1> QED BY <1>2, <1>19, <1>20, <1>23, <1>24, <1>25, <1>26, OneParty

(* A receiver thread receives a message.                                    *)
LEMMA ReceiverRunStep ==
  ASSUME NEW c, c = Plan, PlanOK(c), StateOK(c), NEW p \in Party, NEW q \in Party,
         ReceiverRun(p, q), layers' = layers
  PROVE  c = Plan' /\ StateOK(c)'
<1>1. PICK m : m = Local(p)
  OBVIOUS
<1>2. PICK m1 : m1 = Local(p)'
  OBVIOUS
<1>3. /\ <<"receive", p, q>> \in asked
      /\ asked' = asked \ {<<"receive", p, q>>} /\ served' = served \cup {<<"receive", p, q>>}
      /\ UNCHANGED <<program, op, begun, sent, lied, ctx, threw>>
  BY DEF ReceiverRun, Serve
<1>4. /\ m.toSend = {r \in Party : <<"send", p, r>> \in asked}
      /\ m.toReceive = {r \in Party : <<"receive", p, r>> \in asked}
      /\ m.didSend = {r \in Party : <<"send", p, r>> \in served}
      /\ m.didReceive = {r \in Party : <<"receive", p, r>> \in served}
  BY <1>1 DEF Local
<1>5. q \in m.toReceive
  BY <1>3, <1>4
<1>6. ByThreads(c, m)
  <2>1. QueuesOK(c, p, m)
    BY <1>1 DEF StateOK, LocalOK
  <2> QED BY <1>5, <2>1 DEF QueuesOK
<1>7. /\ ~ Through(p) /\ ~ Idle(c, m) /\ m.op \in Ops(c) /\ m.stopped = 0 /\ ~ Same(c, m.op)
      /\ Exchangers(p) = Route(c, p, m.op)
      /\ Shape /\ LocalOK(c, p, m) /\ c.layers = 2 /\ layers = 2
      /\ m.begun = {} \/ m.begun = Route(c, p, m.op)
      /\ m.toSend \cup m.didSend = {To(p, d) : d \in m.begun}
      /\ m.toReceive \cup m.didReceive = {Source(c, p, d, m.op) : d \in m.begun}
      /\ m.toSend \cap m.didSend = {} /\ m.toReceive \cap m.didReceive = {}
      /\ \A d \in m.begun : Source(c, p, d, m.op) \in m.didReceive <=> m.newLen[d] # NotYet
      /\ \A d \in m.begun : m.newLen[d] # NotYet => Len(m.got[d]) = m.newLen[d]
  BY <1>1, <1>6, ThreadsAt
<1>8. PICK d : d = CHOOSE e \in Exchangers(p) : From(p, e) = q
  OBVIOUS
<1>9. d \in Route(c, p, m.op) /\ Source(c, p, d, m.op) = q /\ d \in Distance
      /\ m.begun = Route(c, p, m.op)
  <2>1. PICK e \in m.begun : q = Source(c, p, e, m.op)
    BY <1>5, <1>7
  <2>2. m.begun = Route(c, p, m.op)
    BY <1>7, <2>1
  <2>3. \A f \in Distance : From(p, f) = Source(c, p, f, m.op)
    BY <1>1, <1>7, Bridge
  <2>4. Route(c, p, m.op) \subseteq Distance
    BY DEF Route
  <2>5. e \in Exchangers(p) /\ From(p, e) = q
    BY <1>7, <2>1, <2>2, <2>3, <2>4
  <2>6. d \in Exchangers(p) /\ From(p, d) = q
    BY <1>8, <2>5
  <2> QED BY <1>7, <2>2, <2>3, <2>4, <2>6
<1>10. q # p /\ Talks(c, q, p, m.op) /\ Slot(c, q, p, m.op) = d
  BY <1>7, <1>9, RouteIs
<1>11. m.newLen[d] = NotYet /\ m.got[d] = <<>>
  <2>1. q \notin m.didReceive
    BY <1>5, <1>7
  <2>2. m.newLen[d] = NotYet
    BY <1>7, <1>9, <2>1
  <2> QED BY <1>7, <1>9, <2>2 DEF LocalOK, GotOK
<1>12. PICK l : l = ReceiveLayer(p, q)
  OBVIOUS
<1>13. l \in Layer /\ Carries(c, l, q, p, m.op)
  <2>1. Track(c, q, p, m.op) = l
    BY <1>7, <1>10, <1>12 DEF Track, ReceiveLayer, Party
  <2>2. l \in Layer
    BY <1>7, <1>12 DEF ReceiveLayer, Layer
  <2> QED BY <1>10, <2>1, <2>2 DEF Carries
<1>14. PICK s : s = pipe[l][q][p]
  OBVIOUS
<1>15. /\ s # <<>> /\ Len(s) > Head(s).len
       /\ newLen' = [newLen EXCEPT ![p][d] = Head(s).len]
       /\ got' = [got EXCEPT ![p][d] = [k \in 1 .. Head(s).len |-> s[k + 1].val]]
       /\ Take(l, p, q, Head(s).len + 1)
  BY <1>8, <1>12, <1>14 DEF ReceiverRun
<1>16. PICK z : z = Out(c, m, l, q, p)
  OBVIOUS
<1>17. z = Base(c, l, q, p)[m.op] + 0
  BY <1>7, <1>10, <1>11, <1>13, <1>16, ReceiverCount
<1>18. Flow(c, l, q, p, s, z, In(c, Local(q), l, q, p))
  BY <1>1, <1>10, <1>13, <1>14, <1>16 DEF StateOK, FlowOK
<1>19. s \in Seq(Units(c)) /\ Len(s) \in Nat /\ 1 \in 1 .. Len(s)
  <2>1. s \in Seq(Units(c))
    BY <1>18 DEF Flow
  <2> QED BY <1>15, <2>1
<1>20. PICK n : n = Size(c, m.op, q)
  OBVIOUS
<1>21. n \in Nat
  BY <1>7, <1>20, PlanIs
<1>22. ASSUME NEW j \in 1 .. Len(s), j <= n + 1
       PROVE  \A k : k = j - 1 => s[j] = Unit(c, q, p, m.op, k)
  <2> TAKE k
  <2> HAVE k = j - 1
  <2>1. PICK x : x = 0
    OBVIOUS
  <2>2. x \in Nat /\ x + j <= 1 + Size(c, m.op, q) /\ x + j - 1 = k
    BY <1>20, <1>21, <1>22, <2>1
  <2>3. z = Base(c, l, q, p)[m.op] + x
    BY <1>17, <2>1
  <2>4. s[j] = Unit(c, q, p, m.op, x + j - 1)
    <3>1. m.op \in Ops(c) /\ Carries(c, l, q, p, m.op)
      BY <1>7, <1>13
    <3>2. x \in Nat /\ j \in 1 .. Len(s) /\ x + j <= 1 + Size(c, m.op, q)
      BY <2>2
    <3> QED BY <1>18, <2>3, <3>1, <3>2, FlowSees
  <2> QED BY <2>2, <2>4
<1>23. Head(s).len = n
  <2>1. s[1] = Unit(c, q, p, m.op, 0)
    BY <1>19, <1>21, <1>22
  <2>2. Head(s) = s[1]
    BY <1>19
  <2> QED BY <1>20, <2>1, <2>2 DEF Unit
<1>24. PICK w : w = Message(c, q, p, m.op)
  OBVIOUS
<1>25. w \in Seq(Value(c)) /\ Len(w) = n
  BY <1>7, <1>20, <1>24, MessageIs
<1>26. PICK g : g = [k \in 1 .. n |-> s[k + 1].val]
  OBVIOUS
<1>27. g = w
  <2>1. ASSUME NEW k \in 1 .. n PROVE s[k + 1].val = w[k]
    <3>1. PICK j : j = k + 1
      OBVIOUS
    <3>2. j \in 1 .. Len(s) /\ j <= n + 1 /\ k = j - 1 /\ k # 0
      BY <1>15, <1>19, <1>21, <1>23, <3>1
    <3>3. s[j] = Unit(c, q, p, m.op, k)
      BY <1>22, <3>2
    <3> QED BY <1>24, <3>1, <3>2, <3>3 DEF Unit, ByteUnit
  <2>2. g = [k \in 1 .. n |-> w[k]]
    BY <1>26, <2>1
  <2> QED BY <1>25, <2>2
<1>28. /\ m1.op = m.op /\ m1.stopped = m.stopped /\ m1.begun = m.begun /\ m1.sent = m.sent
       /\ m1.ctx = m.ctx /\ m1.toSend = m.toSend /\ m1.didSend = m.didSend
       /\ m1.toReceive = m.toReceive \ {q} /\ m1.didReceive = m.didReceive \cup {q}
  <2>1. /\ m1.op = m.op /\ m1.stopped = m.stopped /\ m1.begun = m.begun /\ m1.sent = m.sent
        /\ m1.ctx = m.ctx
    BY <1>1, <1>2, <1>3 DEF Local
  <2>2. /\ m1.toSend = {r \in Party : <<"send", p, r>> \in asked'}
        /\ m1.toReceive = {r \in Party : <<"receive", p, r>> \in asked'}
        /\ m1.didSend = {r \in Party : <<"send", p, r>> \in served'}
        /\ m1.didReceive = {r \in Party : <<"receive", p, r>> \in served'}
    BY <1>2 DEF Local
  <2>3. m1.toSend = m.toSend /\ m1.didSend = m.didSend
    BY <1>3, <1>4, <2>2
  <2>4. m1.toReceive = m.toReceive \ {q}
    BY <1>3, <1>4, <2>2
  <2>5. m1.didReceive = m.didReceive \cup {q}
    BY <1>3, <1>4, <2>2
  <2> QED BY <2>1, <2>3, <2>4, <2>5
<1>29. m1.newLen = [m.newLen EXCEPT ![d] = n] /\ m1.got = [m.got EXCEPT ![d] = w]
  <2>1. m1.newLen = newLen'[p] /\ m1.got = got'[p] /\ m.newLen = newLen[p] /\ m.got = got[p]
        /\ newLen = [r \in Party |-> newLen[r]] /\ got = [r \in Party |-> got[r]]
    BY <1>1, <1>2, <1>7 DEF Local, Shape
  <2>2. newLen' = [newLen EXCEPT ![p][d] = n] /\ got' = [got EXCEPT ![p][d] = w]
    BY <1>15, <1>23, <1>26, <1>27
  <2> QED BY <2>1, <2>2
<1>30. ASSUME NEW r \in Party, r # p PROVE Local(r)' = Local(r)
  <2>1. /\ {t \in Party : <<"send", r, t>> \in asked'} = {t \in Party : <<"send", r, t>> \in asked}
        /\ {t \in Party : <<"receive", r, t>> \in asked'} = {t \in Party : <<"receive", r, t>> \in asked}
    BY <1>3, <1>30
  <2>2. /\ {t \in Party : <<"send", r, t>> \in served'} = {t \in Party : <<"send", r, t>> \in served}
        /\ {t \in Party : <<"receive", r, t>> \in served'} = {t \in Party : <<"receive", r, t>> \in served}
    BY <1>3, <1>30
  <2>3. newLen'[r] = newLen[r] /\ got'[r] = got[r]
    BY <1>7, <1>15, <1>30 DEF Shape
  <2> QED BY <1>3, <2>1, <2>2, <2>3 DEF Local
<1>31. /\ m1.newLen \in [Distance -> Nat \cup {NotYet}] /\ m1.got \in [Distance -> Seq(Value(c))]
       /\ m1.newLen[d] = n /\ m1.got[d] = w
       /\ \A e \in Distance : e # d => m1.newLen[e] = m.newLen[e] /\ m1.got[e] = m.got[e]
  <2>1. m.newLen \in [Distance -> Nat \cup {NotYet}] /\ m.got \in [Distance -> Seq(Value(c))]
    BY <1>7 DEF LocalOK, GotOK
  <2> QED BY <1>9, <1>21, <1>25, <1>29, <2>1
<1>32. LocalOK(c, p, m1)
  <2>1. PlaceOK(c, p, m1) /\ ~ Idle(c, m1) /\ ByThreads(c, m1)
    BY <1>6, <1>7, <1>28, SamePlace DEF LocalOK
  <2>2. BegunOK(c, p, m1)
    BY <1>7, <1>28, <2>1 DEF LocalOK, BegunOK
  <2>3. SentOK(c, p, m1)
    BY <1>6, <1>7, <1>28, <2>1 DEF LocalOK, SentOK
  <2>4. GotOK(c, p, m1)
    <3>1. GotOK(c, p, m)
      BY <1>7 DEF LocalOK
    <3>2. ASSUME NEW e \in Distance
          PROVE  /\ m1.newLen[e] = NotYet => m1.got[e] = <<>>
                 /\ m1.newLen[e] # NotYet =>
                      /\ e \in Route(c, p, m.op)
                      /\ m1.newLen[e] = Size(c, m.op, Source(c, p, e, m.op))
                      /\ Len(m1.got[e]) <= m1.newLen[e]
                      /\ \A k \in 1 .. Len(m1.got[e]) :
                           m1.got[e][k] = Message(c, Source(c, p, e, m.op), p, m.op)[k]
      <4>1. CASE e = d
        <5>1. m1.newLen[e] = n /\ m1.got[e] = w /\ n # NotYet
          BY <1>21, <1>31, <4>1 DEF NotYet
        <5> QED BY <1>9, <1>20, <1>21, <1>24, <1>25, <4>1, <5>1
      <4>2. CASE e # d
        <5>1. m1.newLen[e] = m.newLen[e] /\ m1.got[e] = m.got[e]
          BY <1>31, <4>2
        <5> QED BY <3>1, <5>1 DEF GotOK
      <4> QED BY <4>1, <4>2
    <3>3. ~ Same(c, m1.op)
      BY <2>1 DEF ByThreads
    <3>4. /\ m1.newLen \in [Distance -> Nat \cup {NotYet}] /\ m1.got \in [Distance -> Seq(Value(c))]
      BY <1>31
    <3>5. m1.op = m.op /\ m1.begun = Route(c, p, m1.op)
      BY <1>9, <1>28
    <3> QED BY <2>1, <3>2, <3>3, <3>4, <3>5 DEF GotOK
  <2>5. QueuesOK(c, p, m1)
    <3>1. /\ m1.toReceive \cup m1.didReceive = m.toReceive \cup m.didReceive
          /\ m1.toReceive \cap m1.didReceive = {}
      BY <1>5, <1>7, <1>28
    <3>2. ASSUME NEW e \in m.begun
          PROVE  /\ Source(c, p, e, m.op) \in m1.didReceive <=> m1.newLen[e] # NotYet
                 /\ m1.newLen[e] # NotYet => Len(m1.got[e]) = m1.newLen[e]
      <4>0. e \in Route(c, p, m.op) /\ e \in Distance
        BY <1>9 DEF Route
      <4>1. CASE e = d
        <5>1. m1.newLen[e] # NotYet
          BY <1>21, <1>31, <4>1 DEF NotYet
        <5> QED BY <1>9, <1>25, <1>28, <1>31, <4>1, <5>1
      <4>2. CASE e # d
        <5>1. Source(c, p, e, m.op) # q
          <6>1. Slot(c, Source(c, p, e, m.op), p, m.op) = e
            BY <1>7, <4>0, RouteIs
          <6> QED BY <1>10, <4>2, <6>1
        <5>2. m1.newLen[e] = m.newLen[e] /\ m1.got[e] = m.got[e]
          BY <1>31, <4>0, <4>2
        <5>3. Source(c, p, e, m.op) \in m1.didReceive <=> Source(c, p, e, m.op) \in m.didReceive
          BY <1>28, <5>1
        <5> QED BY <1>7, <5>2, <5>3
      <4> QED BY <4>1, <4>2
    <3> QED BY <1>7, <1>28, <2>1, <3>1, <3>2 DEF QueuesOK
  <2> QED BY <2>1, <2>2, <2>3, <2>4, <2>5 DEF LocalOK
<1>33. Out(c, m1, l, q, p) = z + (n + 1)
  <2>1. m1.newLen[d] # NotYet /\ Len(m1.got[d]) = n
    BY <1>21, <1>25, <1>31 DEF NotYet
  <2>2. ~ Idle(c, m1) /\ m1.op \in Ops(c) /\ m1.stopped = 0
        /\ Carries(c, l, q, p, m1.op) /\ Slot(c, q, p, m1.op) = d
    BY <1>7, <1>10, <1>13, <1>28, SamePlace
  <2>3. PICK b : b = Base(c, l, q, p)[m.op]
    OBVIOUS
  <2>4. Out(c, m1, l, q, p) = b + (1 + n)
    BY <1>28, <2>1, <2>2, <2>3, ReceiverCount
  <2>5. b \in Nat
    <3>1. m.op \in 1 .. Len(c.program) + 1
      BY <1>7, PlanIs DEF Ops
    <3> QED BY <2>3, <3>1, BaseIs
  <2> QED BY <1>17, <1>21, <2>3, <2>4, <2>5
<1>34. FlowsAfter(c, p, m1)
  <2>1. PICK x : x = n + 1
    OBVIOUS
  <2>2. x \in Nat /\ Take(l, p, q, x) /\ x <= Len(pipe[l][q][p])
    BY <1>14, <1>15, <1>19, <1>21, <1>23, <2>1
  <2>3. Out(c, m1, l, q, p) = Out(c, m, l, q, p) + x
    BY <1>16, <1>33, <2>1
  <2>4. \A e \in Distance : e # d => m1.got[e] = m.got[e] /\ m1.newLen[e] = m.newLen[e]
    BY <1>31
  <2> QED BY <1>1, <1>7, <1>9, <1>13, <1>28, <2>2, <2>3, <2>4, Taken
<1>35. Shape' /\ program' = program /\ lied' = lied
  <2>1. newLen' = [r \in Party |-> newLen'[r]] /\ got' = [r \in Party |-> got'[r]]
    BY <1>7, <1>15 DEF Shape
  <2> QED BY <1>3, <1>7, <1>34, <2>1 DEF Shape, FlowsAfter, Connections
<1> QED BY <1>2, <1>30, <1>32, <1>34, <1>35, OneParty DEF FlowsAfter

-----------------------------------------------------------------------------
(***************************************************************************)
(* Beginnings, and what does not touch the rounds.                         *)
(***************************************************************************)
(* A party that has not begun.                                              *)
Fresh(m) ==
  /\ m.op = 1 /\ m.stopped = 0 /\ m.begun = {} /\ m.ctx = <<>>
  /\ m.sent = [d \in Distance |-> 0]
  /\ m.got = [d \in Distance |-> <<>>] /\ m.newLen = [d \in Distance |-> NotYet]
  /\ m.toSend = {} /\ m.toReceive = {} /\ m.didSend = {} /\ m.didReceive = {}

(* A party that has not begun is well, and has moved nothing.               *)
LEMMA FreshOK ==
  ASSUME NEW c, PlanOK(c), NEW p \in Party, NEW m, Fresh(m)
  PROVE  /\ LocalOK(c, p, m)
         /\ \A l \in Layer : \A q \in Party : q # p => In(c, m, l, p, q) = 0 /\ Out(c, m, l, q, p) = 0
<1>0. Len(c.program) \in Nat
  BY PlanIs
<1>1. PlaceOK(c, p, m)
  <2>1. m.op \in 1 .. Len(c.program) + 1
    BY <1>0 DEF Fresh
  <2>2. m.ctx = Hashed(c, p)[m.op]
    BY HashedIs DEF Fresh
  <2> QED BY <2>1, <2>2 DEF PlaceOK, Fresh
<1>2. BegunOK(c, p, m) /\ SentOK(c, p, m) /\ QueuesOK(c, p, m)
  BY DEF BegunOK, SentOK, QueuesOK, Fresh
<1>3. GotOK(c, p, m)
  <2>1. m.got \in [Distance -> Seq(Value(c))] /\ m.newLen \in [Distance -> Nat \cup {NotYet}]
    BY DEF Fresh
  <2>2. \A d \in Distance : m.got[d] = <<>> /\ m.newLen[d] = NotYet /\ m.sent[d] = 0
    BY DEF Fresh
  <2> QED BY <2>1, <2>2 DEF GotOK
<1>4. ASSUME NEW l \in Layer, NEW q \in Party, q # p
      PROVE  In(c, m, l, p, q) = 0 /\ Out(c, m, l, q, p) = 0
  <2>1. m.op + m.stopped = 1
    BY DEF Fresh
  <2>2. Base(c, l, p, q)[1] = 0 /\ Base(c, l, q, p)[1] = 0
    BY BaseIs
  <2>3. Going(c, m, l, p, q) = 0
    BY DEF Going, Fresh
  <2>4. Arrived(c, m, l, q, p) = 0
    <3>1. CASE Idle(c, m) \/ ~ Carries(c, l, q, p, m.op)
      BY <3>1 DEF Arrived
    <3>2. CASE ~ Idle(c, m) /\ Carries(c, l, q, p, m.op)
      <4>1. m.op \in Ops(c)
        BY <1>0, <1>1, <3>2 DEF Idle, Ops, PlaceOK
      <4>2. Slot(c, q, p, m.op) \in Distance
        BY <3>2, <4>1, TalksIs DEF Carries, Route
      <4> QED BY <4>2 DEF Arrived, Fresh
    <3> QED BY <3>1, <3>2
  <2> QED BY <2>1, <2>2, <2>3, <2>4 DEF In, Out
<1> QED BY <1>1, <1>2, <1>3, <1>4 DEF LocalOK

(* So the state before a program is as the invariant says.                  *)
LEMMA AllFresh ==
  ASSUME NEW c, PlanOK(c), Shape, \A p \in Party : Fresh(Local(p)),
         \A l \in Layer : \A p, q \in Party : p # q => pipe[l][p][q] = <<>>
  PROVE  StateOK(c)
<1>1. ASSUME NEW p \in Party PROVE LocalOK(c, p, Local(p))
  BY FreshOK
<1>2. ASSUME NEW l \in Layer, NEW p \in Party, NEW q \in Party, p # q PROVE FlowOK(c, l, p, q)
  <2>1. PICK m, m1 : m = Local(p) /\ m1 = Local(q)
    OBVIOUS
  <2>2. In(c, m, l, p, q) = 0 /\ Out(c, m1, l, p, q) = 0
    BY <1>2, <2>1, FreshOK
  <2>3. pipe[l][p][q] = <<>>
    BY <1>2
  <2>4. Flow(c, l, p, q, <<>>, 0, 0)
    BY DEF Flow
  <2> QED BY <2>1, <2>2, <2>3, <2>4 DEF FlowOK
<1> QED BY <1>1, <1>2 DEF StateOK

(* The invariant is about these variables only.                             *)
LEMMA SameState ==
  ASSUME NEW c, StateOK(c),
         UNCHANGED <<op, begun, sent, got, newLen, pipe, ctx, threw, asked, served>>
  PROVE  StateOK(c)'
<1>1. \A p \in Party : Local(p)' = Local(p)
  BY DEF Local
<1>2. Shape'
  BY DEF StateOK, Shape
<1>3. ASSUME NEW l \in Layer, NEW p \in Party, NEW q \in Party, p # q PROVE FlowOK(c, l, p, q)'
  <2>1. FlowOK(c, l, p, q)
    BY <1>3 DEF StateOK
  <2> QED BY <1>1, <2>1 DEF FlowOK
<1>4. \A p \in Party : LocalOK(c, p, Local(p)')
  BY <1>1 DEF StateOK
<1> QED BY <1>2, <1>3, <1>4 DEF StateOK

(* The invariant holds before anyone is connected.                          *)
LEMMA RoundsInit == ChInit => RoundsInv
<1> SUFFICES ASSUME ChInit PROVE RoundsInv
  OBVIOUS
<1>1. /\ program = <<>> /\ lied = [p \in Party |-> {}] /\ layers \in {1, 2}
      /\ op = [p \in Party |-> 1] /\ begun = [p \in Party |-> {}]
      /\ sent = [p \in Party |-> [d \in Distance |-> 0]]
      /\ got = [p \in Party |-> [d \in Distance |-> <<>>]]
      /\ newLen = [p \in Party |-> [d \in Distance |-> NotYet]]
      /\ pipe = [l \in Layer |-> [p \in Party |-> [q \in Party |-> <<>>]]]
      /\ ctx = [p \in Party |-> <<>>] /\ threw = {} /\ asked = {} /\ served = {}
  <2>1. layers \in {1, 2}
    BY StartsAssumption DEF ChInit, Init
  <2> QED BY <2>1 DEF ChInit, ExInit, QueuesInit, Distance
<1>2. PICK c : c = Plan
  OBVIOUS
<1>3. PlanOK(c)
  <2>1. c.program = <<>> /\ c.lied = [p \in Party |-> {}] /\ c.layers \in {1, 2}
    BY <1>1, <1>2 DEF Plan
  <2> QED BY <2>1 DEF PlanOK
<1>4. \A p \in Party : Fresh(Local(p))
  BY <1>1 DEF Fresh, Local
<1>5. Shape /\ \A l \in Layer : \A p, q \in Party : pipe[l][p][q] = <<>>
  BY <1>1 DEF Shape
<1>6. StateOK(c)
  BY <1>3, <1>4, <1>5, AllFresh
<1> QED BY <1>2, <1>3, <1>6 DEF RoundsInv

(* No party is anywhere before a program is given.                           *)
LEMMA AtBeginning ==
  ASSUME RoundsInv, program = <<>>, NEW p \in Party
  PROVE  Fresh(Local(p)) /\ op[p] = 1 /\ p \notin threw
<1>1. PICK c : c = Plan
  OBVIOUS
<1>2. PlanOK(c) /\ StateOK(c) /\ c.program = <<>>
  BY <1>1, PlanSays DEF RoundsInv
<1>3. PICK m : m = Local(p)
  OBVIOUS
<1>4. LocalOK(c, p, m)
  BY <1>2, <1>3 DEF StateOK
<1>5. Len(c.program) = 0
  BY <1>2
<1>6. m.op = 1 /\ m.stopped = 0 /\ Idle(c, m)
  <2>1. m.op \in 1 .. 0 + 1 /\ m.stopped \in {0, 1} /\ (m.stopped = 1 => m.op \in 1 .. 0)
    BY <1>4, <1>5 DEF LocalOK, PlaceOK, Ops
  <2>2. m.op = 1 /\ m.stopped = 0
    BY <2>1
  <2> QED BY <1>5, <2>2 DEF Idle
<1>7. m.ctx = <<>>
  <2>1. m.ctx = Hashed(c, p)[1]
    BY <1>4, <1>6 DEF LocalOK, PlaceOK
  <2> QED BY <1>2, <2>1, HashedIs
<1>8. m.begun = {}
  BY <1>4, <1>6 DEF LocalOK, BegunOK
<1>9. m.sent = [d \in Distance |-> 0]
  <2>1. m.sent \in [Distance -> Nat] /\ \A d \in Distance : m.sent[d] = 0
    BY <1>4, <1>6 DEF LocalOK, SentOK
  <2> QED BY <2>1
<1>10. m.got = [d \in Distance |-> <<>>] /\ m.newLen = [d \in Distance |-> NotYet]
  <2>1. /\ m.got \in [Distance -> Seq(Value(c))] /\ m.newLen \in [Distance -> Nat \cup {NotYet}]
        /\ \A d \in Distance : m.newLen[d] = NotYet /\ m.got[d] = <<>>
    BY <1>4, <1>6 DEF LocalOK, GotOK
  <2> QED BY <2>1
<1>11. m.toSend = {} /\ m.toReceive = {} /\ m.didSend = {} /\ m.didReceive = {}
  BY <1>4, <1>6 DEF LocalOK, QueuesOK, ByThreads
<1>12. Fresh(m)
  BY <1>3, <1>6, <1>7, <1>8, <1>9, <1>10, <1>11 DEF Fresh
<1>13. op[p] = 1 /\ p \notin threw
  BY <1>3, <1>6, LocalSays
<1> QED BY <1>3, <1>12, <1>13

(* It holds when the parties are given what to do.                          *)
LEMMA BeginStep ==
  ASSUME RoundsInv, Begin
  PROVE  RoundsInv'
<1>1. PICK c : c = Plan
  OBVIOUS
<1>2. PICK c2 : c2 = Plan'
  OBVIOUS
<1>3. PlanOK(c) /\ StateOK(c)
  BY <1>1 DEF RoundsInv
<1>4. /\ program = <<>> /\ program' \in Programs /\ layers' = layers
      /\ UNCHANGED <<op, begun, sent, got, newLen, pipe, ctx, threw, asked, served>>
  BY DEF Begin, Given, vars, start, queues
<1>5. c.program = <<>> /\ c.layers = layers
      /\ c2.program = program' /\ c2.lied = lied' /\ c2.layers = layers
  BY <1>1, <1>2, <1>4 DEF Plan
<1>6. PlanOK(c2)
  <2>1. /\ c2.program \in Seq(Operation)
        /\ \A t \in 1 .. Len(c2.program) : WellFormed(c2.program[t])
    BY <1>4, <1>5, ProgramsAssumption
  <2>2. PICK liars \in {{}, Liars} : lied' = [p \in Party |-> IF p \in liars THEN {To(p, 1)} ELSE {}]
    BY DEF Begin, Given
  <2>3. \A p \in Party : To(p, 1) \in Party
    BY ToIs, Sums DEF Distance
  <2>4. c2.lied \in [Party -> SUBSET Party]
    BY <1>5, <2>2, <2>3
  <2>5. \A p \in Party : c2.lied[p] # {} => p \in Liars /\ c2.lied[p] = {To(p, 1)}
    BY <1>5, <2>2
  <2>6. c2.layers \in {1, 2}
    BY <1>3, <1>5 DEF PlanOK
  <2> QED BY <2>1, <2>4, <2>5, <2>6 DEF PlanOK
<1>7. ASSUME NEW p \in Party PROVE Fresh(Local(p))
  BY <1>4, AtBeginning
<1>8. ASSUME NEW l \in Layer, NEW p \in Party, NEW q \in Party, p # q PROVE pipe[l][p][q] = <<>>
  <2>1. FlowOK(c, l, p, q)
    BY <1>3, <1>8 DEF StateOK
  <2>2. PICK m, m1 : m = Local(p) /\ m1 = Local(q)
    OBVIOUS
  <2>3. In(c, m, l, p, q) = 0 /\ Out(c, m1, l, p, q) = 0
    BY <1>3, <1>7, <1>8, <2>2, FreshOK
  <2>4. Flow(c, l, p, q, pipe[l][p][q], 0, 0)
    BY <2>1, <2>2, <2>3 DEF FlowOK
  <2> QED BY <2>4 DEF Flow
<1>9. StateOK(c2)
  <2>1. Shape
    BY <1>3 DEF StateOK
  <2> QED BY <1>6, <1>7, <1>8, <2>1, AllFresh
<1>10. StateOK(c2)'
  BY <1>4, <1>9, SameState
<1> QED BY <1>2, <1>6, <1>10 DEF RoundsInv

(* Getting connected does not change how many player objects there are.     *)
LEMMA StepKeepsStart == Step => UNCHANGED start
<1>1. ASSUME NEW x, Fail(x) PROVE UNCHANGED start
  BY <1>1 DEF Fail
<1>2. ASSUME NEW p \in Party, Start(p) PROVE UNCHANGED start
  BY <1>2 DEF Start
<1>3. ASSUME NEW p \in Party, Greet(p) \/ Await(p) \/ NoNames(p) \/ ConnectTo(p) PROVE UNCHANGED start
  <2>1. CASE Greet(p)
    BY <1>1, <2>1 DEF Greet, Connect, GiveUp
  <2>2. CASE Await(p)
    BY <2>2 DEF Await
  <2>3. CASE NoNames(p)
    BY <1>1, <2>3 DEF NoNames
  <2>4. CASE ConnectTo(p)
    BY <1>1, <2>4 DEF ConnectTo, Connect, GiveUp
  <2> QED BY <1>3, <2>1, <2>2, <2>3, <2>4
<1>4. ASSUME NEW p \in Party, TakeClient(p) PROVE UNCHANGED start
  BY <1>1, <1>4 DEF TakeClient, GetConnectionSocket
<1>5. ASSUME NEW x, TimedOut(x) PROVE UNCHANGED start
  BY <1>1, <1>5 DEF TimedOut
<1>6. ASSUME Join PROVE UNCHANGED start
  BY <1>6 DEF Join
<1>7. ASSUME CoordinatorStep PROVE UNCHANGED start
  <2>1. CASE CollectClient
    BY <1>1, <2>1 DEF CollectClient, GetConnectionSocket
  <2>2. CASE GetNames \/ SendNames \/ CloseServer
    BY <2>2 DEF GetNames, SendNames, CloseServer
  <2> QED BY <1>5, <1>7, <2>1, <2>2 DEF CoordinatorStep
<1>8. ASSUME NEW x, ServerStep(x) PROVE UNCHANGED start
  BY <1>8 DEF ServerStep, AcceptClient, ServeJob
<1> QED BY <1>2, <1>3, <1>4, <1>5, <1>6, <1>7, <1>8 DEF Step, Setup, LateStart, PartyStep

(* A step of a round is one of an exchanger, over TLS or not, or it asks the *)
(* threads and waits for them.                                              *)
LEMMA RoundSteps ==
  ASSUME NEW p \in Party, RoundStep(p)
  PROVE  \/ ~ Threaded(p) /\ ExStep(p) /\ UNCHANGED queues
         \/ Request(p) \/ AllServed(p)
<1>1. CASE layers = 1 /\ ExStep(p) /\ UNCHANGED <<queues, owing>>
  BY <1>1 DEF Threaded
<1>2. CASE layers = 2 /\ ~ Threaded(p) /\ TlsStep(p) /\ UNCHANGED queues
  <2>1. TlsStep(p) => ExStep(p)
    BY DEF TlsStep, ExStep
  <2> QED BY <1>2, <2>1
<1> QED BY <1>1, <1>2 DEF RoundStep

-----------------------------------------------------------------------------
(* Every step keeps it.                                                     *)
LEMMA RoundsNext == RoundsInv /\ [ChNext]_chVars => RoundsInv'
<1> SUFFICES ASSUME RoundsInv, [ChNext]_chVars PROVE RoundsInv'
  OBVIOUS
<1>1. PICK c : c = Plan
  OBVIOUS
<1>2. PlanOK(c) /\ StateOK(c)
  BY <1>1 DEF RoundsInv
<1>3. ASSUME UNCHANGED <<exVars, queues, start>> PROVE RoundsInv'
  <2>1. c = Plan'
    BY <1>1, <1>3 DEF Plan, exVars, start
  <2>2. UNCHANGED <<op, begun, sent, got, newLen, pipe, ctx, threw, asked, served>>
    BY <1>3 DEF exVars, queues
  <2>3. StateOK(c)'
    BY <1>2, <2>2, SameState
  <2> QED BY <1>2, <2>1, <2>3 DEF RoundsInv
<1>4. CASE Step /\ Connecting
  BY <1>3, <1>4, StepKeepsStart DEF Connecting
<1>5. CASE Begin
  BY <1>5, BeginStep
<1>6. ASSUME NEW p \in Party, Exchanging(p) PROVE RoundsInv'
  <2>1. layers' = layers
    BY <1>6 DEF Exchanging, vars, start
  <2>2. RoundStep(p)
    BY <1>6 DEF Exchanging
  <2>3. CASE ~ Threaded(p) /\ ExStep(p) /\ UNCHANGED queues
    <3>1. ASSUME NEW d \in Distance,
                 Construct(p, d) \/ RoundSend(p, d) \/ RoundLength(p, d) \/ RoundReceive(p, d)
          PROVE  c = Plan' /\ StateOK(c)'
      <4>1. CASE Construct(p, d)
        BY <1>1, <1>2, <2>1, <2>3, <4>1, ConstructStep
      <4>2. CASE RoundSend(p, d)
        BY <1>1, <1>2, <2>1, <2>3, <4>2, RoundSendStep
      <4>3. CASE RoundLength(p, d)
        BY <1>1, <1>2, <2>1, <2>3, <4>3, RoundLengthStep
      <4>4. CASE RoundReceive(p, d)
        BY <1>1, <1>2, <2>1, <2>3, <4>4, RoundReceiveStep
      <4> QED BY <3>1, <4>1, <4>2, <4>3, <4>4
    <3>2. CASE Complete(p)
      BY <1>1, <1>2, <2>1, <2>3, <3>2, CompleteStep, <1>2 DEF RoundsInv
    <3>3. (\E d \in Distance : \/ Construct(p, d) \/ RoundSend(p, d) \/ RoundLength(p, d)
                               \/ RoundReceive(p, d)) \/ Complete(p)
      BY <2>3 DEF ExStep, Distance
    <3> QED BY <1>2, <3>1, <3>2, <3>3 DEF RoundsInv
  <2>4. CASE Request(p)
    BY <1>1, <1>2, <2>1, <2>4, RequestStep DEF RoundsInv
  <2>5. CASE AllServed(p)
    BY <1>1, <1>2, <2>1, <2>5, AllServedStep DEF RoundsInv
  <2> QED BY <2>2, <2>3, <2>4, <2>5, RoundSteps
<1>7. CASE Threads
  <2>1. layers' = layers
    BY <1>7 DEF Threads, vars, start
  <2>2. PICK p \in Party, q \in Party : SenderRun(p, q) \/ ReceiverRun(p, q)
    BY <1>7 DEF Threads, ThreadStep
  <2>3. c = Plan' /\ StateOK(c)'
    <3>1. CASE SenderRun(p, q)
      BY <1>1, <1>2, <2>1, <3>1, SenderRunStep
    <3>2. CASE ReceiverRun(p, q)
      BY <1>1, <1>2, <2>1, <3>2, ReceiverRunStep
    <3> QED BY <2>2, <3>1, <3>2
  <2> QED BY <1>2, <2>3 DEF RoundsInv
<1>8. CASE AllOver \/ UNCHANGED chVars
  BY <1>3, <1>8 DEF AllOver, chVars, vars, start
<1> QED BY <1>4, <1>5, <1>6, <1>7, <1>8 DEF ChNext

(* Every connection is a log of the messages of the operations in their     *)
(* order: what one end has put in (Exchanger, Sender) less what the other   *)
(* has taken out (Exchanger, Receiver).                                     *)
THEOREM RoundsInvariant == ChSpec => []RoundsInv
BY RoundsInit, RoundsNext, PTL DEF ChSpec

(* A party that has received a message has the bytes its source put in, for *)
(* this operation and this party (Exchanger::round; CryptoPlayer).          *)
THEOREM Delivered == ChSpec => []RightBytes
<1>1. RoundsInv => RightBytes
  <2> SUFFICES ASSUME RoundsInv, NEW p \in Party, NEW d \in 1 .. N - 1,
                      ~ Through(p), Op(p).kind # "check", Len(got[p][d]) = newLen[p][d]
               PROVE  got[p][d] = Content(From(p, d), p, op[p])
    BY DEF RightBytes
  <2>1. PICK c : c = Plan
    OBVIOUS
  <2>2. PICK m : m = Local(p)
    OBVIOUS
  <2>3. PlanOK(c) /\ StateOK(c) /\ d \in Distance
    BY <2>1 DEF RoundsInv, Distance
  <2>4. /\ m.op \in Ops(c) /\ Op(p) = c.program[m.op] /\ From(p, d) = Source(c, p, d, m.op)
    BY <2>1, <2>2, <2>3, Bridge
  <2>5. LocalOK(c, p, m) /\ m.got = got[p] /\ m.newLen = newLen[p] /\ m.op = op[p]
    BY <2>2, <2>3, LocalSays DEF StateOK
  <2>6. m.newLen[d] # NotYet
    <3>1. m.got[d] \in Seq(Value(c))
      BY <2>3, <2>5 DEF LocalOK, GotOK
    <3> QED BY <2>5, <3>1 DEF NotYet
  <2>7. m.got[d] = Message(c, Source(c, p, d, m.op), p, m.op)
    BY <2>3, <2>4, <2>5, <2>6, GotAll
  <2>8. PICK q : q = From(p, d)
    OBVIOUS
  <2>9. m.got[d] = Bytes(c, q, p, m.op)
    BY <2>4, <2>7, <2>8 DEF Message, Kind
  <2>10. Content(q, p, m.op) = Bytes(c, q, p, m.op)
    <3>1. program[m.op].kind # "check" /\ c.program = program /\ c.lied = lied
      BY <2>1, <2>4, PlanSays
    <3> QED BY <3>1 DEF Content, Bytes, Size, Mark
  <2> QED BY <2>5, <2>8, <2>9, <2>10
<1> QED BY <1>1, RoundsInvariant, PTL

-----------------------------------------------------------------------------
(***************************************************************************)
(* The check of broadcasts.                                                *)
(***************************************************************************)
(* What CheckCatchesLies says of a party.                                   *)
Caught(c, p) ==
  /\ \A s \in Ops(c) : s < op[p] /\ Kind(c, s) = "check" => \A t \in 1 .. s : ~ ToldIn(c, t)
  /\ p \in threw => \E t \in 1 .. op[p] : ToldIn(c, t)

(* CheckCatchesLies, party by party.                                        *)
LEMMA CaughtIs ==
  ASSUME NEW c, c = Plan
  PROVE  CheckCatchesLies <=> \A p \in Party : Caught(c, p)
<1>1. c.program = program /\ c.lied = lied
  BY PlanSays
<1>2. \A t : Told(t) <=> ToldIn(c, t)
  BY <1>1 DEF Told, ToldIn, Kind, Size
<1> QED BY <1>1, <1>2 DEF CheckCatchesLies, Caught, Ops, Kind

(* Of a party that goes through a check or stops at one, the others have    *)
(* hashed the same, or one of them has not.                                 *)
LEMMA Checking ==
  ASSUME NEW c, c = Plan, PlanOK(c), StateOK(c), NEW p \in Party, NEW m, m = Local(p),
         ~ Through(p), AllDone(c, p, m), Kind(c, m.op) = "check"
  PROVE  /\ Valid(p) => \A q \in Party : Hashed(c, q)[m.op] = Hashed(c, p)[m.op]
         /\ ~ Valid(p) => \E q \in Party : Hashed(c, q)[m.op] # Hashed(c, p)[m.op]
<1>1. /\ m.op \in Ops(c) /\ m.op \in 1 .. Len(c.program) + 1 /\ LocalOK(c, p, m)
      /\ Exchangers(p) = Route(c, p, m.op) /\ m.got = got[p] /\ m.ctx = ctx[p]
      /\ ctx[p] = Hashed(c, p)[m.op]
  <2>1. m.op \in Ops(c) /\ Exchangers(p) = Route(c, p, m.op)
    BY Bridge
  <2>2. LocalOK(c, p, m)
    BY DEF StateOK
  <2> QED BY <2>1, <2>2, LocalSays, PlanIs DEF Ops, LocalOK, PlaceOK
<1>2. ASSUME NEW d \in Route(c, p, m.op)
      PROVE  got[p][d] = <<Hashed(c, Source(c, p, d, m.op))[m.op]>> /\ Source(c, p, d, m.op) \in Party
  <2>1. d \in Distance /\ Source(c, p, d, m.op) \in Party
    BY <1>1, RouteIs
  <2>2. m.newLen[d] # NotYet /\ Len(m.got[d]) = m.newLen[d]
    BY DEF AllDone
  <2>3. m.got[d] = Message(c, Source(c, p, d, m.op), p, m.op)
    BY <1>1, <2>1, <2>2, GotAll
  <2> QED BY <1>1, <2>1, <2>3 DEF Message
<1>3. ASSUME Valid(p), NEW q \in Party PROVE Hashed(c, q)[m.op] = Hashed(c, p)[m.op]
  <2>1. CASE Hashed(c, p)[m.op] = <<>>
    BY <1>1, <2>1, EmptyTogether
  <2>2. CASE Hashed(c, p)[m.op] # <<>> /\ q # p
    <3>1. Hashed(c, q)[m.op] # <<>>
      BY <1>1, <2>2, EmptyTogether
    <3>2. Talks(c, q, p, m.op)
      BY <2>2, <3>1 DEF Talks
    <3>3. PICK d : d = Slot(c, q, p, m.op)
      OBVIOUS
    <3>4. d \in Route(c, p, m.op) /\ Source(c, p, d, m.op) = q
      BY <1>1, <3>2, <3>3, TalksIs
    <3>5. got[p][d] = <<Hashed(c, q)[m.op]>>
      BY <1>2, <3>4
    <3>6. got[p][d] = <<Hashed(c, p)[m.op]>>
      BY <1>1, <1>3, <3>4 DEF Valid
    <3>7. <<Hashed(c, q)[m.op]>>[1] = <<Hashed(c, p)[m.op]>>[1]
      BY <3>5, <3>6
    <3> QED BY <3>7
  <2> QED BY <2>1, <2>2
<1>4. ASSUME ~ Valid(p) PROVE \E q \in Party : Hashed(c, q)[m.op] # Hashed(c, p)[m.op]
  <2>1. PICK d \in Route(c, p, m.op) : got[p][d] # <<ctx[p]>>
    BY <1>1, <1>4 DEF Valid
  <2>2. Hashed(c, Source(c, p, d, m.op))[m.op] # Hashed(c, p)[m.op]
    BY <1>1, <1>2, <2>1
  <2> QED BY <1>2, <2>2
<1> QED BY <1>3, <1>4

(* A party that passes a check, or stops at it, does so rightly.            *)
LEMMA ConcludeCatches ==
  ASSUME NEW c, c = Plan, PlanOK(c), StateOK(c), NEW p \in Party, NEW m, m = Local(p),
         ~ Through(p), AllDone(c, p, m), Conclude(p), Caught(c, p)
  PROVE  Caught(c, p)'
<1>1. /\ m.op \in Ops(c) /\ m.op = op[p] /\ m.op \in Nat /\ m.op \in 1 .. Len(c.program) + 1
      /\ p \notin threw /\ Op(p).kind = Kind(c, m.op) /\ Len(c.program) \in Nat /\ Shape
  <2>1. m.op \in Ops(c) /\ Op(p) = c.program[m.op]
    BY Bridge
  <2>2. p \notin threw
    BY DEF Through
  <2>3. Len(c.program) \in Nat
    BY PlanIs
  <2> QED BY <2>1, <2>2, <2>3, LocalSays DEF Ops, Kind, StateOK
<1>2. \A s \in Ops(c) : s < m.op /\ Kind(c, s) = "check" => \A t \in 1 .. s : ~ ToldIn(c, t)
  BY <1>1 DEF Caught
<1>3. CASE Kind(c, m.op) = "check" /\ ~ Valid(p)
  <2>1. PICK q \in Party : Hashed(c, q)[m.op] # Hashed(c, p)[m.op]
    BY <1>3, Checking
  <2>2. PICK s \in Ops(c) : s < m.op /\ ToldIn(c, s)
    BY <1>1, <2>1, SameWithoutLies
  <2>3. op' = op
    BY <1>1, <1>3 DEF Conclude
  <2>4. s \in 1 .. op'[p]
    BY <1>1, <2>2, <2>3 DEF Ops
  <2> QED BY <1>1, <1>2, <2>2, <2>3, <2>4 DEF Caught
<1>4. CASE ~ (Kind(c, m.op) = "check" /\ ~ Valid(p))
  <2>1. threw' = threw /\ op' = [op EXCEPT ![p] = @ + 1]
    BY <1>1, <1>4 DEF Conclude
  <2>2. op'[p] = m.op + 1
    BY <1>1, <2>1 DEF Shape
  <2>3. ASSUME Kind(c, m.op) = "check", NEW u \in 1 .. m.op PROVE ~ ToldIn(c, u)
    <3>1. CASE u = m.op
      BY <2>3, <3>1 DEF ToldIn
    <3>2. CASE u # m.op
      <4> SUFFICES ASSUME ToldIn(c, u) PROVE FALSE
        OBVIOUS
      <4>1. u \in Ops(c) /\ u < m.op
        BY <1>1, <3>2 DEF Ops
      <4>2. \A v \in Ops(c) : u < v /\ v < m.op => Kind(c, v) # "check"
        <5> SUFFICES ASSUME NEW v \in Ops(c), u < v, v < m.op, Kind(c, v) = "check" PROVE FALSE
          OBVIOUS
        <5>1. u \in 1 .. v
          BY <1>1, <4>1 DEF Ops
        <5> QED BY <1>2, <5>1
      <4>3. Since(c, u, m.op)
        BY <4>1, <4>2 DEF Since, ToldIn
      <4>4. \E x, y \in Party : Hashed(c, x)[m.op] # Hashed(c, y)[m.op]
        BY <1>1, <4>1, <4>3, LieShows
      <4>5. Valid(p)
        BY <1>4, <2>3
      <4>6. \A q \in Party : Hashed(c, q)[m.op] = Hashed(c, p)[m.op]
        BY <2>3, <4>5, Checking
      <4> QED BY <4>4, <4>6
    <3> QED BY <3>1, <3>2
  <2>4. ASSUME NEW s \in Ops(c), s < op'[p], Kind(c, s) = "check"
        PROVE  \A t \in 1 .. s : ~ ToldIn(c, t)
    <3>1. CASE s = m.op
      BY <2>3, <2>4, <3>1
    <3>2. CASE s < m.op
      BY <1>2, <2>4, <3>2
    <3>3. s = m.op \/ s < m.op
      BY <1>1, <2>2, <2>4 DEF Ops
    <3> QED BY <3>1, <3>2, <3>3
  <2> QED BY <1>1, <2>1, <2>4 DEF Caught
<1> QED BY <1>3, <1>4

(* Every step keeps CheckCatchesLies.                                       *)
LEMMA CatchesStays == RoundsInv /\ CheckCatchesLies /\ [ChNext]_chVars => CheckCatchesLies'
<1> SUFFICES ASSUME RoundsInv, CheckCatchesLies, [ChNext]_chVars PROVE CheckCatchesLies'
  OBVIOUS
<1>1. PICK c : c = Plan
  OBVIOUS
<1>2. PlanOK(c) /\ StateOK(c) /\ (\A p \in Party : Caught(c, p)) /\ Shape
  BY <1>1, CaughtIs DEF RoundsInv, StateOK
<1>3. ASSUME UNCHANGED <<program, lied, op, threw>> PROVE CheckCatchesLies'
  BY <1>3 DEF CheckCatchesLies, Told
<1>4. ASSUME NEW p \in Party, NEW m, m = Local(p), ~ Through(p), AllDone(c, p, m), Conclude(p),
             layers' = layers
      PROVE  CheckCatchesLies'
  <2>1. c = Plan'
    BY <1>1, <1>4 DEF Plan, Conclude
  <2>2. ASSUME NEW q \in Party PROVE Caught(c, q)'
    <3>1. CASE q = p
      BY <1>1, <1>2, <1>4, <3>1, ConcludeCatches
    <3>2. CASE q # p
      <4>1. op'[q] = op[q] /\ (q \in threw' <=> q \in threw)
        BY <1>2, <1>4, <3>2 DEF Conclude, Shape
      <4>2. Caught(c, q)
        BY <1>2
      <4> QED BY <4>1, <4>2 DEF Caught
    <3> QED BY <3>1, <3>2
  <2>3. c.program = program' /\ c.lied = lied'
    BY <2>1 DEF Plan
  <2>4. \A t : Told(t)' <=> ToldIn(c, t)
    BY <2>3 DEF Told, ToldIn, Kind, Size
  <2>5. CheckCatchesLies' <=> \A q \in Party : Caught(c, q)'
    BY <2>3, <2>4 DEF CheckCatchesLies, Caught, Ops, Kind
  <2> QED BY <2>2, <2>5
<1>5. CASE Step /\ Connecting
  BY <1>3, <1>5 DEF Connecting, exVars
<1>6. CASE Begin
  <2>1. ASSUME NEW p \in Party PROVE op'[p] = 1 /\ p \notin threw'
    BY <1>6, AtBeginning DEF Begin, Given
  <2>2. \A s \in 1 .. Len(program') : ~ (s < 1)
    OBVIOUS
  <2> QED BY <2>1, <2>2 DEF CheckCatchesLies
<1>7. ASSUME NEW p \in Party, Exchanging(p) PROVE CheckCatchesLies'
  <2>0. RoundStep(p) /\ layers' = layers
    BY <1>7 DEF Exchanging, vars, start
  <2>1. CASE ~ Threaded(p) /\ Complete(p)
    BY <1>1, <1>2, <1>4, <2>0, <2>1, CompleteDone
  <2>2. CASE AllServed(p)
    BY <1>1, <1>2, <1>4, <2>0, <2>2, ServedDone
  <2>3. CASE \/ Request(p)
             \/ \E d \in 1 .. N - 1 : \/ Construct(p, d) \/ RoundSend(p, d) \/ RoundLength(p, d)
                                      \/ RoundReceive(p, d)
    BY <1>3, <2>3 DEF Request, Construct, RoundSend, RoundLength, RoundReceive
  <2> QED BY <2>0, <2>1, <2>2, <2>3, RoundSteps DEF ExStep
<1>8. CASE Threads
  BY <1>3, <1>8 DEF Threads, ThreadStep, SenderRun, ReceiverRun
<1>9. CASE AllOver \/ UNCHANGED chVars
  BY <1>3, <1>9 DEF AllOver, chVars, exVars
<1> QED BY <1>5, <1>6, <1>7, <1>8, <1>9 DEF ChNext

(* Check_Broadcast lets a party pass only if everyone was shown the same    *)
(* since the last check, and stops nobody otherwise.                        *)
THEOREM LiesAreCaught == ChSpec => []CheckCatchesLies
<1>1. ChInit => CheckCatchesLies
  BY DEF ChInit, ExInit, CheckCatchesLies
<1> QED BY <1>1, RoundsInvariant, CatchesStays, PTL DEF ChSpec

-----------------------------------------------------------------------------
(***************************************************************************)
(* The set-up, with rounds already going on.                               *)
(***************************************************************************)
(* Channels does to the set-up what Rendezvous says: rounds of parties that *)
(* are connected disturb nobody who is still connecting.                    *)
THEOREM SetUpRefined == ChSpec => Spec
<1>1. ChInit => Init
  BY DEF ChInit
<1>2. ASSUME [ChNext]_chVars PROVE [Next]_vars
  <2>1. CASE Step /\ Connecting
    BY <2>1 DEF Next
  <2>2. CASE Begin
    BY <2>2 DEF Begin
  <2>3. CASE \E p \in Party : Exchanging(p)
    BY <2>3 DEF Exchanging
  <2>4. CASE Threads
    BY <2>4 DEF Threads
  <2>5. CASE AllOver \/ UNCHANGED chVars
    BY <2>5 DEF AllOver, chVars
  <2> QED BY <1>2, <2>1, <2>2, <2>3, <2>4, <2>5 DEF ChNext
<1>3. [ChNext]_chVars => [Next]_vars
  BY <1>2
<1> QED BY <1>1, <1>3, PTL DEF ChSpec, Spec

(* So the sockets fit, and nobody gives up unless someone is late           *)
(* (setup_sockets, process_connection), while others are in their rounds.   *)
THEOREM RoundsOnRightSockets == ChSpec => [](SocketsFit /\ FailsOnlyIfLate)
BY SetUpRefined, EndsFit, Calm, PTL

(* Where a thread has been asked, it is for another party, and the main     *)
(* thread has no exchangers.                                                *)
LEMMA AskedOfThreads ==
  ASSUME RoundsInv, NEW p \in Party, NEW q \in Party,
         <<"send", p, q>> \in asked \/ <<"receive", p, q>> \in asked
  PROVE  q # p /\ ExchangedWith(p) = {}
<1>1. PICK c : c = Plan
  OBVIOUS
<1>2. PICK m : m = Local(p)
  OBVIOUS
<1>3. PlanOK(c) /\ StateOK(c) /\ LocalOK(c, p, m)
  BY <1>1, <1>2 DEF RoundsInv, StateOK
<1>4. q \in m.toSend \cup m.toReceive
  BY <1>2 DEF Local
<1>5. ByThreads(c, m)
  BY <1>3, <1>4 DEF LocalOK, QueuesOK
<1>6. /\ m.op \in Ops(c) /\ ~ Same(c, m.op) /\ Op(p) = c.program[m.op]
      /\ m.begun = {} \/ m.begun = Route(c, p, m.op)
      /\ m.toSend \cup m.didSend = {To(p, d) : d \in m.begun}
      /\ m.toReceive \cup m.didReceive = {Source(c, p, d, m.op) : d \in m.begun}
  BY <1>1, <1>2, <1>3, <1>5, ThreadsAt
<1>7. q # p
  <2>1. PICK d \in Route(c, p, m.op) : q = To(p, d) \/ q = Source(c, p, d, m.op)
    BY <1>4, <1>6
  <2> QED BY <1>3, <1>6, <2>1, RouteIs
<1>8. ExchangedWith(p) = {}
  BY <1>6 DEF ExchangedWith, Same
<1> QED BY <1>7, <1>8

(* CryptoPlayer: no two threads of a party use one TLS connection at a time. *)
THEOREM ThreadsApart == ChSpec => []OneThreadEach
<1>1. IInv /\ RoundsInv => OneThreadEach
  <2> SUFFICES ASSUME IInv, RoundsInv, layers = 2, NEW p \in Party, pc[p] = "done",
                      NEW a \in AtWork(p), NEW b \in AtWork(p), a[2] = b[2]
               PROVE  a[1] = b[1]
    BY DEF OneThreadEach
  <2>1. ASSUME NEW q \in Party, NEW l \in Layer PROVE sock[p][l][q] = Common(p, q, l)
    <3>1. layer[p] = 1 /\ (l = layer[p] \/ l < layer[p])
      BY DEF IInv, Loops, SockOK, Layer
    <3> QED BY <3>1 DEF IInv, Loops, SockOK, Has
  <2>2. ASSUME NEW q \in Party, NEW r \in Party, NEW l \in Layer, NEW k \in Layer,
               q # p, r # p, sock[p][l][q] = sock[p][k][r]
        PROVE  q = r /\ l = k
    <3>1. Common(p, q, l) = Common(p, r, k)
      BY <2>1, <2>2
    <3>2. /\ Common(p, q, l).layer = l /\ Common(p, r, k).layer = k
          /\ {Common(p, q, l).from, Common(p, q, l).to} = {p, q}
          /\ {Common(p, r, k).from, Common(p, r, k).to} = {p, r}
      BY DEF Common, Link
    <3>3. {p, q} = {p, r}
      BY <3>1, <3>2
    <3> QED BY <2>2, <3>1, <3>2, <3>3
  <2>3. ASSUME NEW q \in Party
        PROVE  SendLayer(p, q) \in Layer /\ ReceiveLayer(p, q) \in Layer
               /\ SendLayer(p, q) # ReceiveLayer(p, q)
    BY DEF SendLayer, ReceiveLayer, Layer
  <2>4. CASE ExchangedWith(p) # {}
    <3>1. \A q \in Party : <<"send", p, q>> \notin asked /\ <<"receive", p, q>> \notin asked
      BY <2>4, AskedOfThreads
    <3>2. ASSUME NEW w \in AtWork(p) PROVE w[1] = <<"main">>
      <4>1. {r \in Party : <<"send", p, r>> \in asked} = {}
            /\ {r \in Party : <<"receive", p, r>> \in asked} = {}
        BY <3>1
      <4>2. w \in {<<<<"main">>, sock[p][0][q]>> : q \in ExchangedWith(p)}
        BY <4>1 DEF AtWork
      <4>3. PICK q \in ExchangedWith(p) : w = <<<<"main">>, sock[p][0][q]>>
        BY <4>2
      <4> QED BY <4>3
    <3> QED BY <3>2
  <2>5. CASE ExchangedWith(p) = {}
    <3>1. ASSUME NEW w \in AtWork(p)
          PROVE  \E q \in Party : /\ q # p
                                  /\ \/ w = <<<<"send", q>>, sock[p][SendLayer(p, q)][q]>>
                                     \/ w = <<<<"receive", q>>, sock[p][ReceiveLayer(p, q)][q]>>
      <4>1. PICK q \in Party :
              \/ <<"send", p, q>> \in asked /\ w = <<<<"send", q>>, sock[p][SendLayer(p, q)][q]>>
              \/ <<"receive", p, q>> \in asked
                 /\ w = <<<<"receive", q>>, sock[p][ReceiveLayer(p, q)][q]>>
        BY <2>5, <3>1 DEF AtWork
      <4>2. q # p
        BY <4>1, AskedOfThreads
      <4> QED BY <4>1, <4>2
    <3>2. PICK q \in Party : /\ q # p
                             /\ \/ a = <<<<"send", q>>, sock[p][SendLayer(p, q)][q]>>
                                \/ a = <<<<"receive", q>>, sock[p][ReceiveLayer(p, q)][q]>>
      BY <3>1
    <3>3. PICK r \in Party : /\ r # p
                             /\ \/ b = <<<<"send", r>>, sock[p][SendLayer(p, r)][r]>>
                                \/ b = <<<<"receive", r>>, sock[p][ReceiveLayer(p, r)][r]>>
      BY <3>1
    <3>4. q = r
      BY <2>2, <2>3, <3>2, <3>3
    <3>5. sock[p][SendLayer(p, q)][q] # sock[p][ReceiveLayer(p, q)][q]
      BY <2>2, <2>3, <3>2
    <3> QED BY <3>2, <3>3, <3>4, <3>5
  <2> QED BY <2>4, <2>5
<1> QED BY <1>1, SetUpRefined, Invariant, RoundsInvariant, PTL
=============================================================================
