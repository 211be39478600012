------------------------------ MODULE MailBus ------------------------------
(* What dectproxy promises the programs connected to it: from the moment   *)
(* it joins, each sees every mail of the DECT device, once and in order,   *)
(* until it leaves.  Mails are numbered as the device made them.           *)
EXTENDS Naturals, Sequences

CONSTANT Client

VARIABLES
  posted,   \* mails of the device so far
  joined,   \* the clients that have joined
  since,    \* since[c]: mails posted before c joined
  seen      \* seen[c]: the mails given to c

Init ==
  /\ posted = 0 /\ joined = {}
  /\ since = [c \in Client |-> 0] /\ seen = [c \in Client |-> << >>]

Post == posted' = posted + 1 /\ UNCHANGED <<joined, since, seen>>

Join(c) ==
  /\ c \notin joined /\ joined' = joined \cup {c}
  /\ since' = [since EXCEPT ![c] = posted]
  /\ UNCHANGED <<posted, seen>>

Give(c) ==
  LET mail == since[c] + Len(seen[c]) + 1
  IN /\ c \in joined /\ mail <= posted
     /\ seen' = [seen EXCEPT ![c] = Append(@, mail)]
     /\ UNCHANGED <<posted, joined, since>>

Next == Post \/ \E c \in Client : Join(c) \/ Give(c)

Spec == Init /\ [][Next]_<<posted, joined, since, seen>>

Complete(c) == since[c] + Len(seen[c]) = posted
=============================================================================
