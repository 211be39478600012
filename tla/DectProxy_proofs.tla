-------------------------- MODULE DectProxy_proofs --------------------------
(* What dectproxy promises the programs behind it, for any number of       *)
(* clients, descriptors and mails and any size of a socket.                *)
EXTENDS DectProxy, FiniteSetTheorems, WellFoundedInduction, TLAPS

HistoryOK ==
  /\ since \in [Client -> Nat] /\ seen \in [Client -> Seq(Nat)]
  /\ \A c \in Client \ joined : seen[c] = << >>

(* Who has connected: a client waits once to be accepted, has one          *)
(* descriptor then, and keeps it at least until it leaves.                 *)
Waits(c) == \E i \in DOMAIN backlog : backlog[i] = c

ConnectionsOK ==
  /\ \A i, j \in DOMAIN backlog : backlog[i] = backlog[j] => i = j
  /\ \A c \in Client : Waits(c) => c \notin joined /\ left[c] # "new"
  /\ \A c \in joined : left[c] # "new"
  /\ \A f \in Open : owner[f] \in joined
  /\ \A f, g \in Open : owner[f] = owner[g] => f = g
  /\ \A c \in joined : left[c] = "no" => \E f \in Open : owner[f] = c
  /\ \A c \in Client : unsent[c] + written[c] <= MaxPieces

(* What the loop holds from one call to the next still holds: the          *)
(* descriptors it is to read are open, and what select announced is there. *)
LoopOK ==
  /\ \A f \in Open : f <= fdmax
  /\ at \in {"accept", "device", "send"} => rfds \cap Fd \subseteq Open
  /\ at = "recv" => todo \subseteq Open
  /\ at = "send" => todo \subseteq 1 .. fdmax
  /\ at = "accept" /\ Listener \in rfds => backlog # << >>
  /\ at \in {"accept", "device"} /\ Device \in rfds => mail < made

(* While a mail is sent round, the clients ahead lack that one mail, and   *)
(* nobody lacks another.                                                   *)
GivenOK ==
  \A f \in Open : left[owner[f]] = "no" =>
    IF at = "send" /\ f \in todo THEN since[owner[f]] + Len(seen[owner[f]]) + 1 = mail
    ELSE since[owner[f]] + Len(seen[owner[f]]) = mail

ProxyInv ==
  /\ ProxyTypeOK /\ SelectsOpen /\ HistoryOK
  /\ ConnectionsOK /\ LoopOK /\ GivenOK

-----------------------------------------------------------------------------
(* Descriptors.                                                            *)

LEMMA LeastExists ==
  ASSUME NEW S \in SUBSET Nat, S # {}
  PROVE  Min(S) \in S /\ \A y \in S : Min(S) <= y
<1>1. PICK x \in S : \A y \in S : ~(<<y, x>> \in OpToRel(<, Nat))
  BY NatLessThanWellFounded, WFMin
<1>2. \A y \in Nat : y < x => <<y, x>> \in OpToRel(<, Nat)
  BY Zenon DEF OpToRel
<1>3. \A y \in S : ~(y < x)
  BY <1>1, <1>2, Zenon
<1>4. \A y \in S : x <= y
  BY <1>3
<1> QED BY <1>4 DEF Min

LEMMA FdFacts ==
  /\ Fd \subseteq Nat /\ IsFiniteSet(Fd) /\ Cardinality(Fd) = MaxFd
  /\ \A f \in Fd : f >= 1 /\ f <= MaxFd
  /\ Listener \notin Fd /\ Device \notin Fd /\ Listener # Device
<1>1. MaxFd \in Nat /\ MaxFd >= 1
  BY ProxyAssumption
<1>2. IsFiniteSet(Fd) /\ Cardinality(Fd) = MaxFd
  BY <1>1, FS_Interval DEF Fd
<1> QED BY <1>1, <1>2 DEF Fd, Listener, Device

(* A descriptor is free for each client that waits: the clients that hold  *)
(* one are others, and there are no more clients than descriptors.         *)
LEMMA FreeFd ==
  ASSUME ProxyInv, backlog # << >>
  PROVE  Min(Fd \ Open) \in Fd \ Open
<1> DEFINE c == Head(backlog)
           others == Client \ {c}
<1>1. backlog \in Seq(Client) /\ owner \in [Fd -> Client \cup {None}]
      /\ joined \subseteq Client
  BY DEF ProxyInv, ProxyTypeOK
<1>2. c \in Client /\ 1 \in DOMAIN backlog /\ backlog[1] = c
  BY <1>1
<1>3. c \notin joined
  BY <1>2 DEF ProxyInv, ConnectionsOK, Waits
<1>4. IsFiniteSet(Client) /\ Cardinality(Client) <= MaxFd /\ MaxFd \in Nat
  BY ProxyAssumption
<1>5. IsFiniteSet(others) /\ Cardinality(others) = Cardinality(Client) - 1
      /\ Cardinality(Client) \in Nat
  BY <1>2, <1>4, FS_RemoveElement, FS_CardinalityType
<1>6. ASSUME Fd \subseteq Open
      PROVE  FALSE
  <2> DEFINE g == [f \in Fd |-> owner[f]]
  <2>1. \A f \in Fd : owner[f] \in others
    BY <1>1, <1>3, <1>6 DEF ProxyInv, ConnectionsOK
  <2>2. \A f, h \in Fd : owner[f] = owner[h] => f = h
    BY <1>6 DEF ProxyInv, ConnectionsOK
  <2> HIDE DEF others
  <2>3. g \in Injection(Fd, others)
    BY <2>1, <2>2 DEF Injection, IsInjective
  <2>4. Cardinality(Fd) <= Cardinality(others)
    BY <1>5, <2>3, FS_Injection
  <2> QED BY <1>4, <1>5, <2>4, FdFacts
<1>7. Fd \ Open # {} /\ Fd \ Open \in SUBSET Nat
  BY <1>6, FdFacts
<1> QED BY <1>7, LeastExists

-----------------------------------------------------------------------------
(* The calls of the loop.                                                  *)

LEMMA ConnectionsStay ==
  ASSUME ConnectionsOK, UNCHANGED <<backlog, left, owner, joined, unsent, written>>
  PROVE  ConnectionsOK'
BY DEF ConnectionsOK, Waits, Open

(* A client that leaves, or whose reset is reported, stays connected.      *)
LEMMA ConnectionsLeave ==
  ASSUME ConnectionsOK, joined \subseteq Client, Open' = Open,
         \A d \in Client : /\ left'[d] = "no" => left[d] = "no"
                           /\ left[d] # "new" => left'[d] # "new",
         UNCHANGED <<backlog, owner, joined, unsent, written>>
  PROVE  ConnectionsOK'
<1>1. \A d \in Client : Waits(d)' <=> Waits(d)
  BY DEF Waits
<1>2. \A d \in Client : Waits(d)' => d \notin joined' /\ left'[d] # "new"
  BY <1>1 DEF ConnectionsOK
<1>3. \A d \in joined' :
        /\ left'[d] # "new"
        /\ left'[d] = "no" => \E g \in Open' : owner'[g] = d
  BY DEF ConnectionsOK
<1>4. \A d \in Client : unsent'[d] + written'[d] <= MaxPieces
  BY DEF ConnectionsOK
<1>5. /\ \A i, j \in DOMAIN backlog' : backlog'[i] = backlog'[j] => i = j
      /\ \A g \in Open' : owner'[g] \in joined'
      /\ \A g, k \in Open' : owner'[g] = owner'[k] => g = k
  BY DEF ConnectionsOK
<1> QED BY <1>2, <1>3, <1>4, <1>5 DEF ConnectionsOK

LEMMA InitOK == Init => ProxyInv
<1> SUFFICES ASSUME Init PROVE ProxyInv
  OBVIOUS
<1> USE DEF Init
<1>1. Open = {} /\ \A c \in Client : ~Waits(c)
  BY DEF Open, Waits
<1>2. ProxyTypeOK /\ SelectsOpen /\ HistoryOK
  BY <1>1, ProxyAssumption DEF ProxyTypeOK, SelectsOpen, HistoryOK
<1>3. ConnectionsOK
  BY <1>1, ProxyAssumption DEF ConnectionsOK
<1>4. LoopOK /\ GivenOK
  BY <1>1 DEF LoopOK, GivenOK
<1> QED BY <1>2, <1>3, <1>4 DEF ProxyInv

LEMMA SelectOK ==
  ASSUME ProxyInv, Select
  PROVE  ProxyInv'
<1> USE DEF Select, network, history, ProxyInv
<1>1. Ready \cap Fd \subseteq Open /\ Ready \subseteq Fd \cup {Listener, Device}
  BY FdFacts DEF Ready, ProxyTypeOK, SelectsOpen
<1>2. /\ Listener \in Ready => backlog # << >>
      /\ Device \in Ready => mail < made
  BY FdFacts DEF Ready, ProxyTypeOK
<1>3. Open' = Open
  BY DEF Open
<1>4. ProxyTypeOK' /\ SelectsOpen' /\ HistoryOK'
  BY <1>1, <1>3 DEF ProxyTypeOK, SelectsOpen, HistoryOK
<1>5. ConnectionsOK'
  BY ConnectionsStay
<1>6. LoopOK'
  BY <1>1, <1>2, <1>3 DEF LoopOK
<1>7. GivenOK'
  BY <1>3 DEF GivenOK
<1> QED BY <1>4, <1>5, <1>6, <1>7

LEMMA TurnsOK ==
  ASSUME ProxyInv, NothingToAccept \/ TurnToClients \/ Again
  PROVE  ProxyInv'
<1> USE DEF NothingToAccept, TurnToClients, Again, network, history, ProxyInv
<1>1. Open' = Open
  BY DEF Open
<1>2. 1 .. fdmax \subseteq Fd
  BY ProxyAssumption DEF Fd, ProxyTypeOK
<1>3. ProxyTypeOK' /\ SelectsOpen' /\ HistoryOK'
  BY <1>1, <1>2 DEF ProxyTypeOK, SelectsOpen, HistoryOK, ReceiveFrom
<1>4. ConnectionsOK'
  BY ConnectionsStay
<1>5. LoopOK'
  BY <1>1, <1>2 DEF LoopOK, ReceiveFrom
<1>6. GivenOK'
  BY <1>1 DEF GivenOK
<1> QED BY <1>3, <1>4, <1>5, <1>6

LEMMA ReadDeviceOK ==
  ASSUME ProxyInv, ReadDevice
  PROVE  ProxyInv'
<1> USE DEF ReadDevice, network, history, ProxyInv
<1>1. Open' = Open
  BY DEF Open
<1>2. 1 .. fdmax \subseteq Fd
  BY ProxyAssumption DEF Fd, ProxyTypeOK
<1>3. mail < made
  BY DEF LoopOK
<1>4. mail \in Nat /\ made \in Nat /\ fdmax \in Nat
  BY ProxyAssumption DEF ProxyTypeOK
<1>5. ProxyTypeOK' /\ SelectsOpen' /\ HistoryOK'
  BY <1>1, <1>2, <1>3, <1>4 DEF ProxyTypeOK, SelectsOpen, HistoryOK, SendTo
<1>6. ConnectionsOK'
  BY ConnectionsStay
<1>7. LoopOK'
  BY <1>1 DEF LoopOK, SendTo
<1>8. \A f \in Open : f \in 1 .. fdmax
  BY <1>4, FdFacts DEF LoopOK, Open
<1>9. GivenOK'
  BY <1>1, <1>8 DEF GivenOK, SendTo
<1> QED BY <1>5, <1>6, <1>7, <1>9

LEMMA AcceptOK ==
  ASSUME ProxyInv, Accept
  PROVE  /\ ProxyInv'
         /\ \E c \in Client : /\ c \notin joined /\ joined' = joined \cup {c}
                              /\ since' = [since EXCEPT ![c] = mail]
<1> USE DEF ProxyInv
<1> DEFINE n == Min(Fd \ Open)
           c == Head(backlog)
<1>1. backlog # << >> /\ backlog \in Seq(Client)
  BY DEF Accept, LoopOK, ProxyTypeOK
<1>2. n \in Fd /\ n \notin Open
  BY <1>1, FreeFd
<1>3. c \in Client /\ Waits(c)
  BY <1>1 DEF Waits
<1>4. /\ at = "accept" /\ at' = "device"
      /\ owner' = [owner EXCEPT ![n] = c] /\ backlog' = Tail(backlog)
      /\ master' = master \cup {n} /\ fdmax' = HighestFd(n)
      /\ joined' = joined \cup {c} /\ since' = [since EXCEPT ![c] = mail]
      /\ UNCHANGED <<rfds, todo, mail, left, unread, unsent, written, made, seen>>
  BY DEF Accept
<1> HIDE DEF n, c
<1>5. c \notin joined /\ left[c] # "new" /\ c # None
  BY <1>3, ProxyAssumption DEF ConnectionsOK
<1>6. /\ Open' = Open \cup {n} /\ owner'[n] = c
      /\ \A f \in Open : owner'[f] = owner[f] /\ f # n
  BY <1>2, <1>4, <1>5 DEF Open, ProxyTypeOK
<1>7. /\ \A d \in Client : Waits(d)' => Waits(d) /\ d # c
      /\ \A i, j \in DOMAIN backlog' : backlog'[i] = backlog'[j] => i = j
  <2>1. \A i \in DOMAIN Tail(backlog) :
          i \in Nat /\ i + 1 \in DOMAIN backlog /\ i + 1 # 1
          /\ Tail(backlog)[i] = backlog[i + 1]
    BY <1>1
  <2>2. 1 \in DOMAIN backlog /\ backlog[1] = c
    BY <1>1 DEF c
  <2>3. \A i, j \in DOMAIN backlog : backlog[i] = backlog[j] => i = j
    BY DEF ConnectionsOK
  <2>4. \A i, j \in DOMAIN Tail(backlog) :
          Tail(backlog)[i] = Tail(backlog)[j] => i + 1 = j + 1
    BY <2>1, <2>3
  <2>5. \A i, j \in DOMAIN Tail(backlog) : i + 1 = j + 1 => i = j
    BY <2>1
  <2> QED BY <1>4, <2>1, <2>2, <2>3, <2>4, <2>5 DEF Waits
<1>8. /\ fdmax' \in 0 .. MaxFd /\ n <= fdmax'
      /\ \A f \in Nat : f <= fdmax => f <= fdmax'
  <2>1. fdmax \in Nat /\ fdmax <= MaxFd /\ n \in Nat /\ n <= MaxFd
        /\ MaxFd \in Nat
    BY <1>2, FdFacts, ProxyAssumption DEF ProxyTypeOK
  <2>2. \A a, b \in Nat : /\ Max({a, b}) \in {a, b}
                          /\ Max({a, b}) >= a /\ Max({a, b}) >= b
    <3> SUFFICES ASSUME NEW a \in Nat, NEW b \in Nat
                 PROVE  \E x \in {a, b} : \A y \in {a, b} : x >= y
      BY DEF Max
    <3>1. a >= b \/ b >= a
      OBVIOUS
    <3> QED BY <3>1
  <2>3. fdmax' \in {fdmax, n} /\ fdmax' >= fdmax /\ fdmax' >= n
    BY <1>4, <2>1, <2>2 DEF HighestFd
  <2> HIDE DEF ProxyInv
  <2>4. fdmax' \in Nat /\ fdmax' <= MaxFd
    BY <2>1, <2>3
  <2>5. ASSUME NEW f \in Nat, f <= fdmax
        PROVE  f <= fdmax'
    BY <2>1, <2>3, <2>4, <2>5
  <2> QED BY <2>1, <2>3, <2>4, <2>5
<1>9. ProxyTypeOK'
  <2>1. owner' \in [Fd -> Client \cup {None}] /\ joined' \subseteq Client
        /\ master' \subseteq Fd
    BY <1>2, <1>3, <1>4 DEF ProxyTypeOK
  <2>2. backlog' \in Seq(Client)
    BY <1>1, <1>4 DEF ProxyTypeOK
  <2> QED BY <1>4, <1>8, <2>1, <2>2 DEF ProxyTypeOK
<1>10. SelectsOpen' /\ HistoryOK'
  <2>1. SelectsOpen'
    BY <1>4, <1>6 DEF SelectsOpen
  <2>2. mail \in Nat
    BY ProxyAssumption DEF ProxyTypeOK
  <2> QED BY <1>3, <1>4, <2>1, <2>2 DEF HistoryOK
<1>11. ConnectionsOK'
  <2>1. \A d \in Client : Waits(d)' => d \notin joined' /\ left'[d] # "new"
    BY <1>4, <1>7 DEF ConnectionsOK
  <2>2. \A d \in joined' : left'[d] # "new"
    BY <1>4, <1>5 DEF ConnectionsOK
  <2>3. \A f \in Open' : owner'[f] \in joined'
    BY <1>4, <1>6 DEF ConnectionsOK
  <2>4. \A f, g \in Open' : owner'[f] = owner'[g] => f = g
    BY <1>5, <1>6 DEF ConnectionsOK
  <2>5. \A d \in joined' : left'[d] = "no" => \E f \in Open' : owner'[f] = d
    BY <1>4, <1>6 DEF ConnectionsOK
  <2>6. \A d \in Client : unsent'[d] + written'[d] <= MaxPieces
    BY <1>4 DEF ConnectionsOK
  <2> QED BY <1>7, <2>1, <2>2, <2>3, <2>4, <2>5, <2>6 DEF ConnectionsOK
<1>12. LoopOK'
  <2>1. \A f \in Open : f \in Nat
    BY FdFacts DEF Open
  <2> QED BY <1>4, <1>6, <1>8, <2>1 DEF LoopOK
<1>13. GivenOK'
  <2>1. ASSUME NEW f \in Open', left'[owner'[f]] = "no"
        PROVE  since'[owner'[f]] + Len(seen'[owner'[f]]) = mail'
    <3>1. CASE f = n
      <4>1. seen[c] = << >> /\ since'[c] = mail /\ mail \in Nat
        BY <1>3, <1>4, <1>5, ProxyAssumption DEF HistoryOK, ProxyTypeOK
      <4> QED BY <1>4, <1>6, <3>1, <4>1
    <3>2. CASE f \in Open
      <4>1. owner[f] \in joined /\ owner[f] # c
        BY <1>5, <3>2 DEF ConnectionsOK
      <4>2. since'[owner[f]] = since[owner[f]]
        BY <1>4, <4>1 DEF HistoryOK, ProxyTypeOK
      <4> QED BY <1>4, <1>6, <2>1, <3>2, <4>2 DEF GivenOK
    <3> QED BY <1>6, <3>1, <3>2
  <2> QED BY <1>4, <2>1 DEF GivenOK
<1> QED BY <1>3, <1>4, <1>5, <1>9, <1>10, <1>11, <1>12, <1>13

LEMMA SendOK ==
  ASSUME ProxyInv, Send
  PROVE  /\ ProxyInv'
         /\ \/ seen' = seen
            \/ \E c \in joined : /\ seen' = [seen EXCEPT ![c] = Append(@, mail)]
                                 /\ since[c] + Len(seen[c]) + 1 = mail
<1> USE DEF ProxyInv
<1> DEFINE f == Min(todo)
           c == owner[f]
           arrives == f \in Open /\ left[c] = "no"
<1>1. f \in todo /\ f \in Fd
  BY LeastExists, FdFacts DEF Send, ProxyTypeOK
<1>2. /\ at = "send"
      /\ arrives => unread[c] < SocketSize
      /\ unread' = IF arrives THEN [unread EXCEPT ![c] = @ + 1] ELSE unread
      /\ seen' = IF arrives THEN [seen EXCEPT ![c] = Append(@, mail)] ELSE seen
      /\ todo' = todo \ {f}
      /\ UNCHANGED <<at, rfds, master, fdmax, mail, owner, backlog, left, unsent,
                     written, made, joined, since>>
  BY DEF Send
<1> HIDE DEF f
<1>3. arrives => c \in joined /\ c \in Client /\ since[c] + Len(seen[c]) + 1 = mail
  BY <1>1, <1>2 DEF ConnectionsOK, GivenOK, ProxyTypeOK
<1>4. mail \in Nat /\ Open' = Open
  BY <1>2, ProxyAssumption DEF ProxyTypeOK, Open
<1>5. unread' \in [Client -> 0 .. SocketSize]
  <2>1. unread \in [Client -> 0 .. SocketSize]
    BY DEF ProxyTypeOK
  <2>2. CASE arrives
    <3>1. c \in Client /\ unread[c] < SocketSize
      BY <1>2, <1>3, <2>2
    <3>2. unread[c] + 1 \in 0 .. SocketSize
      <4> HIDE DEF c
      <4>1. unread[c] \in 0 .. SocketSize /\ SocketSize \in Nat
        BY <2>1, <3>1, ProxyAssumption DEF ProxyAssumption
      <4> QED BY <3>1, <4>1
    <3>3. unread' = [unread EXCEPT ![c] = unread[c] + 1]
      BY <1>2, <2>2
    <3> HIDE DEF c, arrives, ProxyInv
    <3> QED BY <2>1, <3>2, <3>3
  <2>3. CASE ~arrives
    BY <1>2, <2>1, <2>3
  <2> QED BY <2>2, <2>3
<1>6. ProxyTypeOK' /\ SelectsOpen'
  BY <1>2, <1>4, <1>5 DEF ProxyTypeOK, SelectsOpen
<1>7. HistoryOK'
  BY <1>2, <1>3, <1>4 DEF HistoryOK
<1>8. ConnectionsOK'
  BY <1>2, ConnectionsStay
<1>9. LoopOK'
  BY <1>2, <1>4 DEF LoopOK
<1>10. GivenOK'
  <2> SUFFICES ASSUME NEW g \in Open, left[owner[g]] = "no"
               PROVE  IF g \in todo'
                      THEN since[owner[g]] + Len(seen'[owner[g]]) + 1 = mail
                      ELSE since[owner[g]] + Len(seen'[owner[g]]) = mail
    BY <1>2, <1>4 DEF GivenOK
  <2>1. owner[g] \in Client /\ seen[owner[g]] \in Seq(Nat) /\ since[owner[g]] \in Nat
    BY DEF ConnectionsOK, ProxyTypeOK, HistoryOK
  <2>2. CASE g = f
    <3>1. seen'[c] = Append(seen[c], mail)
      BY <1>2, <2>1, <2>2 DEF HistoryOK
    <3>2. Len(Append(seen[c], mail)) = Len(seen[c]) + 1 /\ Len(seen[c]) \in Nat
      BY <1>4, <2>1, <2>2
    <3>3. since[c] + Len(seen'[c]) = since[c] + Len(seen[c]) + 1
      <4> HIDE DEF c
      <4>1. since[c] \in Nat
        BY <2>1, <2>2 DEF c
      <4> QED BY <3>1, <3>2, <4>1
    <3> QED BY <1>2, <1>3, <2>2, <3>3
  <2>3. CASE g # f
    <3>1. arrives => owner[g] # c
      BY <2>3 DEF ConnectionsOK
    <3>2. seen'[owner[g]] = seen[owner[g]]
      BY <1>2, <2>1, <3>1 DEF HistoryOK
    <3>3. Len(seen'[owner[g]]) = Len(seen[owner[g]])
      BY <1>2, <3>2
    <3> QED BY <1>2, <2>3, <3>3 DEF GivenOK
  <2> QED BY <2>2, <2>3
<1> QED BY <1>2, <1>3, <1>6, <1>7, <1>8, <1>9, <1>10

LEMMA ReceiveOK ==
  ASSUME ProxyInv, Receive
  PROVE  ProxyInv'
<1> USE DEF ProxyInv
<1> DEFINE f == Min(todo)
           c == owner[f]
<1>1. f \in todo /\ todo \subseteq Open /\ todo \subseteq Fd
  BY LeastExists, FdFacts DEF Receive, ProxyTypeOK, LoopOK
<1>2. /\ at = "recv"
      /\ Copy(c) \/ ReportError(c) \/ CloseClient(f, c)
      /\ todo' = todo \ {f}
      /\ UNCHANGED <<at, rfds, fdmax, mail, backlog, unread, made, joined, since, seen>>
  BY DEF Receive, history
<1> HIDE DEF f
<1>3. f \in Open /\ f \in Fd /\ c \in Client /\ c \in joined
  BY <1>1 DEF ConnectionsOK, ProxyTypeOK
<1> HIDE DEF c
<1>4. c = owner[f]
  BY DEF c
<1>5. HistoryOK'
  BY <1>2 DEF HistoryOK
<1>6. CASE Copy(c)
  <2>1. PICK n \in 1 .. unsent[c] :
          /\ unsent' = [unsent EXCEPT ![c] = @ - n]
          /\ written' = [written EXCEPT ![c] = @ + n]
          /\ UNCHANGED <<master, owner, left>>
    BY <1>6 DEF Copy
  <2>2. unsent[c] \in Nat /\ written[c] \in Nat /\ n \in Nat /\ n <= unsent[c]
        /\ unsent[c] + written[c] <= MaxPieces /\ MaxPieces \in Nat
    BY <1>3, ProxyAssumption DEF ProxyTypeOK, ConnectionsOK
  <2>3. /\ unsent[c] - n \in 0 .. MaxPieces /\ written[c] + n \in 0 .. MaxPieces
        /\ unsent[c] - n + (written[c] + n) <= MaxPieces
    BY <2>2
  <2>4. /\ unsent' \in [Client -> 0 .. MaxPieces]
        /\ written' \in [Client -> 0 .. MaxPieces]
        /\ \A d \in Client : unsent'[d] + written'[d] <= MaxPieces
    BY <1>3, <2>1, <2>3 DEF ProxyTypeOK, ConnectionsOK
  <2>5. Open' = Open
    BY <2>1 DEF Open
  <2>6. ProxyTypeOK' /\ SelectsOpen'
    BY <1>2, <2>1, <2>4, <2>5 DEF ProxyTypeOK, SelectsOpen
  <2>7. ConnectionsOK'
    BY <1>2, <2>1, <2>4, <2>5 DEF ConnectionsOK, Waits
  <2>8. LoopOK'
    BY <1>2, <2>1, <2>5 DEF LoopOK
  <2>9. GivenOK'
    BY <1>2, <2>1, <2>5 DEF GivenOK
  <2> QED BY <1>5, <2>6, <2>7, <2>8, <2>9
<1>7. CASE ReportError(c)
  <2>1. left' = [left EXCEPT ![c] = "closed"]
        /\ UNCHANGED <<master, owner, unsent, written>>
    BY <1>7 DEF ReportError
  <2>2. Open' = Open
    BY <2>1 DEF Open
  <2>3. left' \in [Client -> {"new", "no", "closed", "reset"}]
        /\ \A d \in Client : /\ left'[d] = "no" => left[d] = "no"
                             /\ left[d] # "new" => left'[d] # "new"
    BY <1>3, <2>1 DEF ProxyTypeOK
  <2>4. ProxyTypeOK' /\ SelectsOpen'
    BY <1>2, <2>1, <2>2, <2>3 DEF ProxyTypeOK, SelectsOpen
  <2>5. ConnectionsOK'
    <3>1. joined \subseteq Client
      BY DEF ProxyTypeOK
    <3> QED BY <1>2, <2>1, <2>2, <2>3, <3>1, ConnectionsLeave
  <2>6. LoopOK'
    BY <1>2, <2>1, <2>2 DEF LoopOK
  <2>7. \A g \in Open : left'[owner[g]] = "no" => left[owner[g]] = "no"
    BY <2>3 DEF ConnectionsOK, ProxyTypeOK
  <2>8. GivenOK'
    BY <1>2, <2>1, <2>2, <2>7 DEF GivenOK
  <2> QED BY <1>5, <2>4, <2>5, <2>6, <2>8
<1>8. CASE CloseClient(f, c)
  <2>1. /\ owner' = [owner EXCEPT ![f] = None] /\ master' = master \ {f}
        /\ left[c] = "closed" /\ UNCHANGED <<left, unsent, written>>
    BY <1>8 DEF CloseClient
  <2>2. /\ Open' = Open \ {f} /\ owner' \in [Fd -> Client \cup {None}]
        /\ \A g \in Open : g # f => owner'[g] = owner[g]
    BY <1>3, <2>1 DEF Open, ProxyTypeOK
  <2>3. ProxyTypeOK' /\ SelectsOpen'
    BY <1>2, <2>1, <2>2 DEF ProxyTypeOK, SelectsOpen
  <2>4. \A d \in joined' : left'[d] = "no" => \E g \in Open' : owner'[g] = d
    BY <1>2, <1>4, <2>1, <2>2 DEF ConnectionsOK
  <2>5. ConnectionsOK'
    BY <1>2, <2>1, <2>2, <2>4 DEF ConnectionsOK, Waits
  <2>6. LoopOK'
    BY <1>1, <1>2, <2>1, <2>2 DEF LoopOK
  <2>7. GivenOK'
    BY <1>2, <2>1, <2>2 DEF GivenOK
  <2> QED BY <1>5, <2>3, <2>5, <2>6, <2>7
<1> QED BY <1>2, <1>6, <1>7, <1>8

-----------------------------------------------------------------------------
(* The device and the clients.                                             *)

LEMMA OutsideOK ==
  ASSUME ProxyInv, Outside
  PROVE  ProxyInv'
<1> USE DEF ProxyInv
<1>1. /\ Make \/ \E c \in Client : Connect(c) \/ Write(c) \/ Read(c) \/ Leave(c)
      /\ UNCHANGED <<at, rfds, master, fdmax, todo, mail, owner, joined, since, seen>>
  BY DEF Outside, history
<1>2. Open' = Open /\ SelectsOpen' /\ HistoryOK'
  BY <1>1 DEF Open, SelectsOpen, HistoryOK
<1>3. CASE Make
  <2>1. made \in Nat /\ mail \in Nat /\ mail <= made /\ made < MaxMails
        /\ made' = made + 1 /\ MaxMails \in Nat
        /\ UNCHANGED <<backlog, left, unread, unsent, written>>
    BY <1>3, ProxyAssumption DEF Make, ProxyTypeOK
  <2>2. made' \in 0 .. MaxMails /\ mail \in 0 .. made' /\ (mail < made => mail < made')
    BY <2>1
  <2>3. ProxyTypeOK'
    BY <1>1, <2>1, <2>2 DEF ProxyTypeOK
  <2>4. ConnectionsOK'
    BY <1>1, <2>1, ConnectionsStay
  <2>5. LoopOK' /\ GivenOK'
    BY <1>1, <1>2, <2>1, <2>2 DEF LoopOK, GivenOK
  <2> QED BY <1>2, <2>3, <2>4, <2>5
<1>4. ASSUME NEW c \in Client, Connect(c)
      PROVE  ProxyInv'
  <2>1. /\ left[c] = "new" /\ left' = [left EXCEPT ![c] = "no"]
        /\ backlog' = Append(backlog, c)
        /\ UNCHANGED <<unread, unsent, written, made>>
    BY <1>4 DEF Connect
  <2>2. c \notin joined /\ ~Waits(c) /\ joined \subseteq Client
    BY <2>1 DEF ConnectionsOK, ProxyTypeOK
  <2>3. /\ left' \in [Client -> {"new", "no", "closed", "reset"}]
        /\ left'[c] = "no" /\ \A d \in Client : d # c => left'[d] = left[d]
    BY <2>1 DEF ProxyTypeOK
  <2>4. backlog \in Seq(Client)
    BY DEF ProxyTypeOK
  <2>5. /\ \A i \in DOMAIN backlog' :
             \/ i \in DOMAIN backlog /\ backlog'[i] = backlog[i]
             \/ i = Len(backlog) + 1 /\ backlog'[i] = c
        /\ backlog' \in Seq(Client) /\ backlog' # << >>
    BY <2>1, <2>4
  <2>6. \A i, j \in DOMAIN backlog' : backlog'[i] = backlog'[j] => i = j
    BY <2>2, <2>5 DEF ConnectionsOK, Waits
  <2>7. \A d : Waits(d)' => Waits(d) \/ d = c
    BY <2>5 DEF Waits
  <2>8. \A d \in Client : Waits(d)' => d \notin joined' /\ left'[d] # "new"
    BY <1>1, <2>2, <2>3, <2>7 DEF ConnectionsOK
  <2>9. ConnectionsOK'
    BY <1>1, <1>2, <2>1, <2>2, <2>3, <2>6, <2>8 DEF ConnectionsOK
  <2>10. ProxyTypeOK'
    BY <1>1, <2>1, <2>3, <2>5 DEF ProxyTypeOK
  <2>11. LoopOK'
    BY <1>1, <1>2, <2>1, <2>5 DEF LoopOK
  <2>12. GivenOK'
    BY <1>1, <1>2, <2>2, <2>3 DEF GivenOK, ConnectionsOK
  <2> QED BY <1>2, <2>9, <2>10, <2>11, <2>12
<1>5. ASSUME NEW c \in Client, Write(c)
      PROVE  ProxyInv'
  <2>1. /\ unsent[c] + written[c] < MaxPieces
        /\ unsent' = [unsent EXCEPT ![c] = @ + 1]
        /\ UNCHANGED <<backlog, left, unread, written, made>>
    BY <1>5 DEF Write
  <2>2. unsent[c] \in Nat /\ written[c] \in Nat /\ MaxPieces \in Nat
    BY ProxyAssumption DEF ProxyTypeOK
  <2>3. unsent[c] + 1 \in 0 .. MaxPieces /\ unsent[c] + 1 + written[c] <= MaxPieces
    BY <2>1, <2>2
  <2>4. /\ unsent' \in [Client -> 0 .. MaxPieces]
        /\ \A d \in Client : unsent'[d] + written'[d] <= MaxPieces
    BY <2>1, <2>3 DEF ProxyTypeOK, ConnectionsOK
  <2>5. ProxyTypeOK' /\ ConnectionsOK'
    BY <1>1, <1>2, <2>1, <2>4 DEF ProxyTypeOK, ConnectionsOK, Waits
  <2>6. LoopOK' /\ GivenOK'
    BY <1>1, <1>2, <2>1 DEF LoopOK, GivenOK
  <2> QED BY <1>2, <2>5, <2>6
<1>6. ASSUME NEW c \in Client, Read(c)
      PROVE  ProxyInv'
  <2>1. /\ unread[c] > 0 /\ unread' = [unread EXCEPT ![c] = @ - 1]
        /\ UNCHANGED <<backlog, left, unsent, written, made>>
    BY <1>6 DEF Read
  <2>2. unread[c] \in 0 .. SocketSize /\ SocketSize \in Nat
    BY ProxyAssumption DEF ProxyTypeOK
  <2>3. unread[c] - 1 \in 0 .. SocketSize
    BY <2>1, <2>2
  <2>4. ProxyTypeOK'
    BY <1>1, <2>1, <2>3 DEF ProxyTypeOK
  <2>5. ConnectionsOK'
    BY <1>1, <2>1, ConnectionsStay
  <2>6. LoopOK' /\ GivenOK'
    BY <1>1, <1>2, <2>1 DEF LoopOK, GivenOK
  <2> QED BY <1>2, <2>4, <2>5, <2>6
<1>7. ASSUME NEW c \in Client, Leave(c)
      PROVE  ProxyInv'
  <2>1. /\ left[c] = "no"
        /\ left' = [left EXCEPT ![c] = IF unread[c] > 0 THEN "reset" ELSE "closed"]
        /\ unread' = [unread EXCEPT ![c] = 0]
        /\ UNCHANGED <<backlog, unsent, written, made>>
    BY <1>7 DEF Leave
  <2>2. /\ left' \in [Client -> {"new", "no", "closed", "reset"}]
        /\ \A d \in Client : /\ left'[d] = "no" => left[d] = "no"
                             /\ left[d] # "new" => left'[d] # "new"
    BY <2>1 DEF ProxyTypeOK
  <2>3. 0 \in 0 .. SocketSize
    BY ProxyAssumption
  <2>4. ProxyTypeOK'
    BY <1>1, <2>1, <2>2, <2>3 DEF ProxyTypeOK
  <2>5. ConnectionsOK'
    <3>1. joined \subseteq Client
      BY DEF ProxyTypeOK
    <3> QED BY <1>1, <1>2, <2>1, <2>2, <3>1, ConnectionsLeave
  <2>6. LoopOK'
    BY <1>1, <1>2, <2>1 DEF LoopOK
  <2>7. GivenOK'
    <3>1. \A f \in Open : owner[f] \in Client
      BY DEF ConnectionsOK, ProxyTypeOK
    <3>2. \A f \in Open' : f \in Open /\ (left'[owner'[f]] = "no" => left[owner[f]] = "no")
      BY <1>1, <1>2, <2>2, <3>1
    <3> QED BY <1>1, <3>2 DEF GivenOK
  <2> QED BY <1>2, <2>4, <2>5, <2>6, <2>7
<1> QED BY <1>1, <1>3, <1>4, <1>5, <1>6, <1>7

-----------------------------------------------------------------------------
(* The theorems.                                                           *)

LEMMA NextOK ==
  ASSUME ProxyInv, [Next]_vars
  PROVE  ProxyInv'
<1>1. CASE Loop
  BY <1>1, SelectOK, AcceptOK, TurnsOK, ReadDeviceOK, SendOK, ReceiveOK DEF Loop
<1>2. CASE Outside
  BY <1>2, OutsideOK
<1>3. CASE UNCHANGED vars
  <2>1. UNCHANGED <<at, rfds, master, fdmax, todo, mail, owner, backlog, left, unread,
                    unsent, written, made, joined, since, seen>>
    BY <1>3 DEF vars, network, history
  <2>2. Open' = Open /\ ConnectionsOK'
    BY <2>1, ConnectionsStay DEF ProxyInv, Open
  <2>3. ProxyTypeOK' /\ SelectsOpen' /\ HistoryOK'
    BY <2>1, <2>2 DEF ProxyInv, ProxyTypeOK, SelectsOpen, HistoryOK
  <2>4. LoopOK' /\ GivenOK'
    BY <2>1, <2>2 DEF ProxyInv, LoopOK, GivenOK
  <2> QED BY <2>2, <2>3, <2>4 DEF ProxyInv
<1> QED BY <1>1, <1>2, <1>3 DEF Next

LEMMA ProxyInvAlways == Spec => []ProxyInv
BY InitOK, NextOK, PTL DEF Spec

(* No counter, set or table of dectproxy leaves its range: in particular a *)
(* free descriptor is there for each connection that is accepted, and a    *)
(* socket is never given more than it holds (dectproxy.c:106-133).         *)
THEOREM ProxyTypeCorrect == Spec => []ProxyTypeOK
BY ProxyInvAlways, PTL DEF ProxyInv

(* What is selected on is what is open, whatever descriptors are closed,   *)
(* given out again or reset: FD_SET comes with accept and FD_CLR with close*)
(* (dectproxy.c:114, 149-151).                                             *)
THEOREM OnlyOpenSelected == Spec => []SelectsOpen
BY ProxyInvAlways, PTL DEF ProxyInv

(* The loop over the descriptors up to fdmax (dectproxy.c:130) misses no   *)
(* client that stays: once a mail has been sent round all have it.         *)
THEOREM NobodyBehind == Spec => []NoneBehind
<1>1. ProxyInv => NoneBehind
  <2> SUFFICES ASSUME ProxyInv, at # "send", NEW c \in joined, left[c] = "no"
               PROVE  since[c] + Len(seen[c]) = mail
    BY DEF NoneBehind, Bus!Complete
  <2>1. PICK f \in Open : owner[f] = c
    BY DEF ProxyInv, ConnectionsOK
  <2> QED BY <2>1 DEF ProxyInv, GivenOK
<1> QED BY <1>1, ProxyInvAlways, PTL

(* dectproxy implements the bus: each client is given every mail from its  *)
(* accept on, in order, once and without a gap.  A call of the loop is one *)
(* step of the bus or none.                                                *)
THEOREM ProxyIsBus == Spec => ImplementsBus
<1>1. Init => Bus!Init
  BY DEF Init, Bus!Init
<1> DEFINE busvars == <<mail, joined, since, seen>>
<1>2. ASSUME ProxyInv, [Next]_vars
      PROVE  [Bus!Next]_busvars
  <2>1. CASE ReadDevice
    BY <2>1 DEF ReadDevice, history, Bus!Next, Bus!Post
  <2>2. CASE Accept
    <3>1. PICK c \in Client : /\ c \notin joined /\ joined' = joined \cup {c}
                              /\ since' = [since EXCEPT ![c] = mail]
      BY <1>2, <2>2, AcceptOK
    <3>2. mail' = mail /\ seen' = seen
      BY <2>2 DEF Accept
    <3> QED BY <3>1, <3>2 DEF Bus!Next, Bus!Join
  <2>3. CASE Send
    <3>1. UNCHANGED <<mail, joined, since>>
      BY <2>3 DEF Send
    <3>2. CASE seen' = seen
      BY <3>1, <3>2
    <3>3. CASE seen' # seen
      <4>1. PICK c \in joined : /\ seen' = [seen EXCEPT ![c] = Append(@, mail)]
                                /\ since[c] + Len(seen[c]) + 1 = mail
        BY <1>2, <2>3, <3>3, SendOK
      <4>2. c \in Client /\ mail <= mail
        BY <1>2, ProxyAssumption DEF ProxyInv, ProxyTypeOK
      <4>3. seen' = [seen EXCEPT ![c] = Append(@, since[c] + Len(seen[c]) + 1)]
        BY <4>1
      <4>4. Bus!Give(c)
        BY <3>1, <4>1, <4>2, <4>3 DEF Bus!Give
      <4> QED BY <4>2, <4>4 DEF Bus!Next
    <3> QED BY <3>2, <3>3
  <2>4. CASE \/ Select \/ NothingToAccept \/ TurnToClients \/ Receive \/ Again
             \/ Outside \/ UNCHANGED vars
    BY <2>4 DEF Select, NothingToAccept, TurnToClients, Receive, Again, Outside,
         vars, history
  <2> QED BY <1>2, <2>1, <2>2, <2>3, <2>4 DEF Next, Loop
<1> HIDE DEF busvars
<1>3. Spec => Bus!Init /\ [][Bus!Next]_busvars
  BY <1>1, <1>2, ProxyInvAlways, PTL DEF Spec
<1> QED BY <1>3 DEF ImplementsBus, Bus!Spec, busvars
=============================================================================
