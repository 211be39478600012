----------------------------- MODULE DectProxy -----------------------------
(* dectproxy (src/dectproxy.c): one select loop that copies every mail of  *)
(* /dev/dect to all clients and everything a client sends to the device.   *)
(*                                                                         *)
(* Each system call of the loop is an action, since clients connect, read, *)
(* write and leave in between, and send blocks when a client's socket is   *)
(* full.  Descriptors of clients are numbered from 1: those below, the     *)
(* device and the listener among them, are never a client's.               *)
EXTENDS Naturals, Sequences, FiniteSetsExt

CONSTANTS
  Client,     \* connections; a program that connects again is a new one
  None,       \* not a client
  MaxFd,      \* descriptors
  SocketSize, \* mails a socket holds for a client that does not read
  MaxMails,   \* bound: mails of the device
  MaxPieces   \* bound: pieces of data a client writes

ASSUME ProxyAssumption ==
  /\ IsFiniteSet(Client) /\ None \notin Client
  /\ MaxFd \in Nat \ {0} /\ Cardinality(Client) <= MaxFd
  /\ SocketSize \in Nat \ {0} /\ MaxMails \in Nat /\ MaxPieces \in Nat

Fd == 1 .. MaxFd
Listener == 0
Device == MaxFd + 1

VARIABLES
  at,       \* where the loop is: the call it makes next
  rfds,     \* what select returned
  master,   \* the clients' part of the set that is selected on
  fdmax,    \* the highest descriptor of a client so far
  todo,     \* the descriptors the running for loop has ahead
  mail,     \* mails read; the number of the last one
  owner,    \* owner[f]: the client behind an open descriptor
  backlog,  \* clients that wait to be accepted
  left,     \* left[c]: whether and how c has closed its end
  unread,   \* unread[c]: mails in the socket of c
  unsent,   \* unsent[c]: pieces c wrote that the proxy has not received
  written,  \* written[c]: pieces of c written to the device
  made,     \* mails the device has made
  joined, since, seen  \* history: see MailBus

network == <<backlog, left, unread, unsent, written, made>>
history == <<joined, since, seen>>
vars == <<at, rfds, master, fdmax, todo, mail, owner, network, history>>

Open == {f \in Fd : owner[f] # None}

Init ==
  /\ at = "select" /\ rfds = {} /\ master = {} /\ fdmax = 0 /\ todo = {}
  /\ mail = 0 /\ owner = [f \in Fd |-> None] /\ backlog = << >>
  /\ left = [c \in Client |-> "new"] /\ unread = [c \in Client |-> 0]
  /\ unsent = [c \in Client |-> 0] /\ written = [c \in Client |-> 0]
  /\ made = 0 /\ joined = {} /\ since = [c \in Client |-> 0]
  /\ seen = [c \in Client |-> << >>]

-----------------------------------------------------------------------------
(* The loop.  A slip is a mistake the properties catch when it stands in   *)
(* for the definition below it; no specification uses it.                  *)

Ready ==
  {f \in master : unsent[owner[f]] > 0 \/ left[owner[f]] # "no"}
  \cup {f \in {Listener} : backlog # << >>}
  \cup {f \in {Device} : mail < made}

Select ==
  /\ at = "select" /\ Ready # {}
  /\ rfds' = Ready /\ at' = "accept"
  /\ UNCHANGED <<master, fdmax, todo, mail, owner, network, history>>

(* Slip: fdmax follows the last descriptor, up and down.                   *)
HighestFd_last(n) == n

HighestFd(n) == Max({fdmax, n})

(* The kernel gives out the lowest descriptor that is free.                *)
Accept ==
  LET n == Min(Fd \ Open)
      c == Head(backlog)
  IN /\ at = "accept" /\ Listener \in rfds
     /\ owner' = [owner EXCEPT ![n] = c] /\ backlog' = Tail(backlog)
     /\ master' = master \cup {n} /\ fdmax' = HighestFd(n)
     /\ at' = "device"
     /\ joined' = joined \cup {c} /\ since' = [since EXCEPT ![c] = mail]
     /\ UNCHANGED <<rfds, todo, mail, left, unread, unsent, written, made, seen>>

NothingToAccept ==
  /\ at = "accept" /\ Listener \notin rfds /\ at' = "device"
  /\ UNCHANGED <<rfds, master, fdmax, todo, mail, owner, network, history>>

(* Slips: the loop ends one descriptor early, or one late, or has the      *)
(* condition of the loop over recv below.                                  *)
SendTo_ready == rfds \cap (1 .. fdmax)
SendTo_short == 1 .. fdmax - 1
SendTo_long == 1 .. fdmax + 1

SendTo == 1 .. fdmax

ReadDevice ==
  /\ at = "device" /\ Device \in rfds
  /\ mail' = mail + 1 /\ todo' = SendTo /\ at' = "send"
  /\ UNCHANGED <<rfds, master, fdmax, owner, network, history>>

(* send blocks on a full socket; on a descriptor that is closed, or whose  *)
(* client has left, nothing arrives and the loop goes on.                  *)
Send ==
  LET f == Min(todo)
      c == owner[f]
      arrives == f \in Open /\ left[c] = "no"
  IN /\ at = "send" /\ todo # {}
     /\ arrives => unread[c] < SocketSize
     /\ unread' = IF arrives THEN [unread EXCEPT ![c] = @ + 1] ELSE unread
     /\ seen' = IF arrives THEN [seen EXCEPT ![c] = Append(@, mail)] ELSE seen
     /\ todo' = todo \ {f}
     /\ UNCHANGED <<at, rfds, master, fdmax, mail, owner, backlog, left, unsent,
                    written, made, joined, since>>

(* Slip: the loop ends one descriptor early.                               *)
ReceiveFrom_short == rfds \cap (1 .. fdmax - 1)

ReceiveFrom == rfds \cap (1 .. fdmax)

TurnToClients ==
  /\ \/ at = "device" /\ Device \notin rfds
     \/ at = "send" /\ todo = {}
  /\ todo' = ReceiveFrom /\ at' = "recv"
  /\ UNCHANGED <<rfds, master, fdmax, mail, owner, network, history>>

(* recv returns data, in any portion, before it tells of an end.           *)
Copy(c) ==
  /\ \E n \in 1 .. unsent[c] :
       /\ unsent' = [unsent EXCEPT ![c] = @ - n]
       /\ written' = [written EXCEPT ![c] = @ + n]
  /\ UNCHANGED <<master, owner, left>>

(* -1, once: the descriptor stays in the set.                              *)
ReportError(c) ==
  /\ unsent[c] = 0 /\ left[c] = "reset"
  /\ left' = [left EXCEPT ![c] = "closed"]
  /\ UNCHANGED <<master, owner, unsent, written>>

(* Slip: the descriptor stays in the set.                                  *)
CloseClient_kept(f, c) ==
  /\ unsent[c] = 0 /\ left[c] = "closed"
  /\ owner' = [owner EXCEPT ![f] = None]
  /\ UNCHANGED <<master, left, unsent, written>>

(* 0: the client has closed the connection.                                *)
CloseClient(f, c) ==
  /\ unsent[c] = 0 /\ left[c] = "closed"
  /\ owner' = [owner EXCEPT ![f] = None] /\ master' = master \ {f}
  /\ UNCHANGED <<left, unsent, written>>

Receive ==
  LET f == Min(todo)
      c == owner[f]
  IN /\ at = "recv" /\ todo # {}
     /\ Copy(c) \/ ReportError(c) \/ CloseClient(f, c)
     /\ todo' = todo \ {f}
     /\ UNCHANGED <<at, rfds, fdmax, mail, backlog, unread, made, history>>

Again ==
  /\ at = "recv" /\ todo = {} /\ at' = "select"
  /\ UNCHANGED <<rfds, master, fdmax, todo, mail, owner, network, history>>

Loop == Select \/ Accept \/ NothingToAccept \/ ReadDevice \/ Send
          \/ TurnToClients \/ Receive \/ Again

-----------------------------------------------------------------------------
(* The device and the clients; they touch nothing of the loop.             *)

Make ==
  /\ made < MaxMails /\ made' = made + 1
  /\ UNCHANGED <<backlog, left, unread, unsent, written>>

Connect(c) ==
  /\ left[c] = "new" /\ left' = [left EXCEPT ![c] = "no"]
  /\ backlog' = Append(backlog, c)
  /\ UNCHANGED <<unread, unsent, written, made>>

Write(c) ==
  /\ left[c] = "no" /\ unsent[c] + written[c] < MaxPieces
  /\ unsent' = [unsent EXCEPT ![c] = @ + 1]
  /\ UNCHANGED <<backlog, left, unread, written, made>>

Read(c) ==
  /\ unread[c] > 0 /\ unread' = [unread EXCEPT ![c] = @ - 1]
  /\ UNCHANGED <<backlog, left, unsent, written, made>>

(* A program that ends with mails unread resets the connection.            *)
Leave(c) ==
  /\ left[c] = "no"
  /\ left' = [left EXCEPT ![c] = IF unread[c] > 0 THEN "reset" ELSE "closed"]
  /\ unread' = [unread EXCEPT ![c] = 0]
  /\ UNCHANGED <<backlog, unsent, written, made>>

Outside ==
  /\ Make \/ \E c \in Client : Connect(c) \/ Write(c) \/ Read(c) \/ Leave(c)
  /\ UNCHANGED <<at, rfds, master, fdmax, todo, mail, owner, history>>

Next == Loop \/ Outside

Spec == Init /\ [][Next]_vars

(* The proxy runs and the clients read what they get: one that stays and   *)
(* does not read would stop the loop in send.                              *)
ReadsOn(c) ==
  Read(c) /\ UNCHANGED <<at, rfds, master, fdmax, todo, mail, owner, history>>
FairSpec == Spec /\ WF_vars(Loop) /\ \A c \in Client : WF_vars(ReadsOn(c))

-----------------------------------------------------------------------------
(* Properties.                                                             *)

ProxyTypeOK ==
  /\ at \in {"select", "accept", "device", "send", "recv"}
  /\ rfds \subseteq Fd \cup {Listener, Device}
  /\ master \subseteq Fd /\ todo \subseteq Fd
  /\ fdmax \in 0 .. MaxFd /\ mail \in 0 .. made /\ made \in 0 .. MaxMails
  /\ owner \in [Fd -> Client \cup {None}]
  /\ backlog \in Seq(Client) /\ joined \subseteq Client
  /\ left \in [Client -> {"new", "no", "closed", "reset"}]
  /\ unread \in [Client -> 0 .. SocketSize]
  /\ unsent \in [Client -> 0 .. MaxPieces]
  /\ written \in [Client -> 0 .. MaxPieces]

(* What is selected on is what is open: a closed descriptor in the set     *)
(* would end the proxy, an open one that is missing would never be read,   *)
(* nor closed -- while descriptors are closed, given out again and reset.  *)
SelectsOpen == master = Open

Bus == INSTANCE MailBus WITH posted <- mail

(* Each client is given every mail from its accept on, in order and        *)
(* without a gap, whoever else comes, goes or stops reading.               *)
ImplementsBus == Bus!Spec

(* Once a mail has been sent round, no client that stays is behind, also   *)
(* one with a high descriptor when lower ones have come and gone.          *)
NoneBehind ==
  at # "send" => \A c \in joined : left[c] = "no" => Bus!Complete(c)

(* If all read, then a client that stays is accepted in the end and has    *)
(* been given all mails.                                                   *)
EventuallyComplete ==
  <>[](\A c \in Client : left[c] = "no" =>
         c \in joined /\ mail = made /\ Bus!Complete(c))

(* If all read, whatever a client wrote reaches the device, also when the  *)
(* client has left or was reset meanwhile.                                 *)
WritesReachDevice ==
  \A c \in Client : unsent[c] > 0 ~> unsent[c] = 0

(* If all read, the descriptor of a client that has left is closed.        *)
LeftIsClosed ==
  \A c \in Client : left[c] \in {"closed", "reset"} ~>
    c \in joined /\ \A f \in Fd : owner[f] # c
=============================================================================
