------------------------- MODULE DectClient_proofs -------------------------
(* What the command line client shows and asks for, for any command lines, *)
(* any number of invocations and every length of the handset table:        *)
(* theorems about DectClient.                                              *)
(*                                                                         *)
(* CInv is the inductive invariant: types (Shaped), and for each           *)
(* invocation ClientOK, a predicate of the values of its variables.  A     *)
(* step of an invocation is one lemma about those values (PlainSent,       *)
(* ListingSent, Ended, Received, Handled, Connected, Lost), whatever       *)
(* changes the daemon meanwhile is GoesOn, and the lemmas named ...CInv    *)
(* carry them to the actions.                                              *)
EXTENDS DectClient, DectMngr_proofs, FiniteSetTheorems, SequenceTheorems,
        WellFoundedInduction

USE DEF DISABLED, DELAYED_START, ENABLED_, AUTO

Option == DOMAIN PacketType

-----------------------------------------------------------------------------
(* The least and the greatest of a set of numbers.                         *)

LEMMA LeastExists ==
  ASSUME NEW S \in SUBSET Nat, S # {}
  PROVE  Min(S) \in S /\ \A y \in S : Min(S) <= y
<1>1. PICK x \in S : \A y \in S : ~(<<y, x>> \in OpToRel(<, Nat))
  BY NatLessThanWellFounded, WFMin
<1>2. \A y \in Nat : y < x => <<y, x>> \in OpToRel(<, Nat)
  BY Zenon DEF OpToRel
<1>3. \A y \in S : ~(y < x)
  BY <1>1, <1>2, Zenon
<1>4. \A y \in S : x <= y
  BY <1>3
<1> QED BY <1>4 DEF Min

LEMMA GreatestExists ==
  ASSUME NEW n \in Nat, NEW S \in SUBSET (1 .. n), S # {}
  PROVE  Max(S) \in S
<1> DEFINE T == {n - i : i \in S}
<1>1. T \in SUBSET Nat /\ T # {}
  <2>1. \A i \in S : n - i \in Nat
    OBVIOUS
  <2>2. PICK i \in S : TRUE
    OBVIOUS
  <2>3. n - i \in T
    BY <2>2
  <2> QED BY <2>1, <2>3
<1>2. Min(T) \in T /\ \A y \in T : Min(T) <= y
  BY <1>1, LeastExists, Zenon
<1>3. PICK x \in S : Min(T) = n - x
  BY <1>2
<1>4. \A y \in S : n - x <= n - y
  BY <1>2, <1>3
<1>5. \A y \in S : x >= y
  BY <1>4
<1> QED BY <1>5 DEF Max

-----------------------------------------------------------------------------
(* The flags and the options.                                              *)

LEMMA OrderFacts ==
  /\ DOMAIN MainOrder = 1 .. 12
  /\ \A i \in 1 .. 12 : MainOrder[i] \in Option
  /\ \A o \in Option : \E i \in 1 .. 12 : MainOrder[i] = o
  /\ \A i, j \in 1 .. 12 : MainOrder[i] = MainOrder[j] => i = j
  /\ \A i \in 1 .. 12 : MainOrder[i] \in {"s", "j"} <=> i \in {7, 8}
  /\ \A i \in 1 .. 12 : PacketType[MainOrder[i]] = "GET_STATUS" <=> i \in {7, 8}
<1>1. DOMAIN MainOrder = 1 .. 12
  BY DEF MainOrder
<1>2. \A i \in 1 .. 12 : MainOrder[i] \in Option
  BY DEF MainOrder, Option, PacketType
<1>3. \A o \in Option : \E i \in 1 .. 12 : MainOrder[i] = o
  BY DEF MainOrder, Option, PacketType
<1>4. \A i, j \in 1 .. 12 : MainOrder[i] = MainOrder[j] => i = j
  BY DEF MainOrder
<1>5. \A i \in 1 .. 12 : MainOrder[i] \in {"s", "j"} <=> i \in {7, 8}
  BY DEF MainOrder
<1>6. \A i \in 1 .. 12 : PacketType[MainOrder[i]] = "GET_STATUS" <=> i \in {7, 8}
  BY DEF MainOrder, PacketType
<1> QED BY <1>1, <1>2, <1>3, <1>4, <1>5, <1>6

(* The first of the flags, and the others.                                 *)
LEMMA FirstFlag ==
  ASSUME NEW F \in SUBSET (1 .. 12), F # {}
  PROVE  /\ Min(F) \in F /\ Min(F) \in 1 .. 12 /\ \A i \in F : Min(F) <= i
         /\ First(F) = MainOrder[Min(F)] /\ First(F) \in Option
         /\ First(F) \in {"s", "j"} <=> Min(F) \in {7, 8}
         /\ PacketType[First(F)] = "GET_STATUS" <=> Min(F) \in {7, 8}
<1>1. F \in SUBSET Nat
  OBVIOUS
<1>2. Min(F) \in F /\ \A i \in F : Min(F) <= i
  BY <1>1, LeastExists, Zenon
<1>3. Min(F) \in 1 .. 12
  BY <1>2
<1>4. First(F) = MainOrder[Min(F)]
  BY Zenon DEF First
<1> QED BY <1>2, <1>3, <1>4, OrderFacts

CommandLine == Seq([opt : Option, arg : Nat])

LEMMA PlaceFacts ==
  ASSUME NEW args \in CommandLine, NEW opts
  PROVE  /\ Places(args, opts) \in SUBSET (1 .. Len(args))
         /\ Places(args, opts) # {} =>
              /\ Max(Places(args, opts)) \in Places(args, opts)
              /\ Max(Places(args, opts)) \in DOMAIN args
<1>1. DOMAIN args = 1 .. Len(args) /\ Len(args) \in Nat
  BY DEF CommandLine
<1>2. Places(args, opts) \in SUBSET (1 .. Len(args))
  BY <1>1 DEF Places
<1>3. Places(args, opts) # {} => Max(Places(args, opts)) \in Places(args, opts)
  BY <1>1, <1>2, GreatestExists, Zenon
<1> QED BY <1>1, <1>2, <1>3

LEMMA CommandLineFacts ==
  ASSUME NEW c \in Invocation, NEW args \in CommandLines[c] \cup {<< >>}
  PROVE  /\ args \in CommandLine
         /\ \A i \in DOMAIN args : args[i].arg \in Nat /\ args[i].arg % 256 \in Data
<1>1. << >> \in CommandLine /\ DOMAIN << >> = {}
  BY DEF CommandLine
<1>2. CommandLines[c] \subseteq CommandLine
  BY ClientAssumption DEF CommandLine, Option
<1>3. args \in CommandLine
  BY <1>1, <1>2
<1>4. \A i \in DOMAIN args : args[i].arg \in Nat
  <2>1. DOMAIN args = 1 .. Len(args)
    BY <1>3 DEF CommandLine
  <2>2. \A i \in DOMAIN args : args[i] \in [opt : Option, arg : Nat]
    BY <1>3, <2>1, ElementOfSeq, Zenon DEF CommandLine
  <2> QED BY <2>2
<1>5. \A i \in DOMAIN args : args[i].arg % 256 \in Data
  <2>1. CASE args = << >>
    BY <2>1, <1>1
  <2>2. CASE args \in CommandLines[c]
    BY <2>2, ClientAssumption, Zenon
  <2> QED BY <2>1, <2>2
<1> QED BY <1>3, <1>4, <1>5

(* What is sent for an option is a packet the daemon knows.                *)
LEMMA SendType ==
  ASSUME NEW c \in Invocation, NEW args \in CommandLines[c] \cup {<< >>},
         NEW o \in Option
  PROVE  send_packet(args, o) \in ClientPacket
<1>1. /\ args \in CommandLine
      /\ \A i \in DOMAIN args : args[i].arg \in Nat /\ args[i].arg % 256 \in Data
  BY CommandLineFacts
<1>2. 0 \in Data /\ 0 % 256 = 0 /\ PacketType[o] \in Commands
  <2>1. 0 \in Data /\ PacketType[o] \in Commands
    BY ClientAssumption DEF Option
  <2>2. 0 % 256 = 0
    OBVIOUS
  <2> QED BY <2>1, <2>2
<1>3. \A opts : LastArg(args, opts) % 256 \in Data
  <2> TAKE opts
  <2>1. CASE Places(args, opts) = {}
    BY <2>1, <1>2 DEF LastArg
  <2>2. CASE Places(args, opts) # {}
    <3>1. Max(Places(args, opts)) \in DOMAIN args
      BY <1>1, <2>2, PlaceFacts
    <3>2. LastArg(args, opts) = args[Max(Places(args, opts))].arg
      BY <2>2, Zenon DEF LastArg
    <3> QED BY <3>1, <3>2, <1>1
  <2> QED BY <2>1, <2>2
<1>4. Argument(args, o) % 256 \in Data
  <2>1. \/ \E opts : Argument(args, o) = LastArg(args, opts)
        \/ Argument(args, o) = 0
    BY DEF Argument
  <2> QED BY <2>1, <1>2, <1>3
<1> QED BY <1>2, <1>4 DEF send_packet, ClientPacket

-----------------------------------------------------------------------------
(* The invariant, of one invocation.                                       *)

(* A cell of a status: the modes, or a handset.                            *)
Cell == [reg_mode : {DISABLED, DELAYED_START, ENABLED_},
         radio : {DISABLED, ENABLED_}] \cup Hset

(* The requests for the status among q.                                    *)
Asks(q, i) == q[i].type = "GET_STATUS"
NoneAsks(q) == \A i \in DOMAIN q : ~Asks(q, i)
OneAsks(q) == \A i, j \in DOMAIN q : Asks(q, i) /\ Asks(q, j) => i = j
LastAsks(q) == \A i \in DOMAIN q : Asks(q, i) => i = Len(q)

(* The values of the variables, for an invocation.                         *)
ArgsOK(args, td, ph) ==
  /\ td \subseteq Flags(args)
  /\ ph = "reading" => td # {} /\ Min(td) \in {7, 8}

NewOK(args, td, ph, rq, rp, hd) ==
  ph = "new" => args = << >> /\ rq = << >> /\ rp = << >> /\ hd = << >>

(* What the daemon has sent and will send never grows to two statuses: the *)
(* second (-j, the eighth flag) is not asked for before something of the   *)
(* first (-s, the seventh) has been received.                              *)
RoomOK(up, td, ph, rq, rp) ==
  /\ Len(rp) < 2 * StatusSize
  /\ up =>
       /\ 7 \in td /\ ph # "reading" => NoneAsks(rq) /\ Len(rp) = 0
       /\ 7 \in td => \/ NoneAsks(rq) /\ Len(rp) <= StatusSize
                      \/ OneAsks(rq) /\ Len(rp) = 0
       /\ 7 \notin td /\ 8 \in td /\ ph # "reading" =>
            NoneAsks(rq) /\ Len(rp) < StatusSize
       /\ \/ NoneAsks(rq)
          \/ OneAsks(rq) /\ Len(rp) < StatusSize

(* As long as no recv came short, a reply is one status, and one that the  *)
(* daemon has had since; st is the status now.                             *)
FreshOK(up, ph, rq, rp, fr, sh, st) ==
  /\ ph = "reading" => st \in fr
  /\ ~sh =>
       /\ rp # << >> => /\ ph = "reading" /\ rq = << >>
                        /\ Len(rp) = StatusSize /\ rp \in fr
       /\ ph # "reading" /\ (up \/ ph # "ended") => NoneAsks(rq)
       /\ ph = "reading" => LastAsks(rq)

(* Each packet sent stands for a flag, and each flag for one packet.       *)
MeansOK(up, args, td, ph, rq, hd) ==
  /\ \A i \in DOMAIN rq : \E f \in Flags(args) : rq[i] = send_packet(args, MainOrder[f])
  /\ \A i \in DOMAIN hd : \E f \in Flags(args) : hd[i] = send_packet(args, MainOrder[f])
  /\ up => Len(hd) + Len(rq) =
             Cardinality(Flags(args) \ td) + IF ph = "reading" THEN 1 ELSE 0
  /\ up /\ ph = "ended" => td = {}

ClientOK(up, st, args, td, ph, rq, rp, hd, fr, sh) ==
  /\ ArgsOK(args, td, ph) /\ NewOK(args, td, ph, rq, rp, hd)
  /\ RoomOK(up, td, ph, rq, rp) /\ FreshOK(up, ph, rq, rp, fr, sh, st)
  /\ MeansOK(up, args, td, ph, rq, hd)

Types(up, td, rq, rp, hd, sh) ==
  /\ up \in BOOLEAN /\ td \in SUBSET (1 .. 12) /\ sh \in BOOLEAN
  /\ rq \in Seq(ClientPacket) /\ rp \in Seq(Cell) /\ hd \in Seq(ClientPacket)

(* All of them.                                                            *)
Shaped ==
  /\ Inv(mngr) /\ packets \in 0 .. MaxPackets
  /\ argv \in [Invocation -> CommandLine]
  /\ \A c \in Invocation : argv[c] \in CommandLines[c] \cup {<< >>}
  /\ todo \in [Invocation -> SUBSET (1 .. 12)]
  /\ phase \in [Invocation -> {"new", "sending", "reading", "ended"}]
  /\ requests \in [Invocation -> Seq(ClientPacket)]
  /\ replies \in [Invocation -> Seq(Cell)]
  /\ handled \in [Invocation -> Seq(ClientPacket)]
  /\ cut \in [Invocation -> BOOLEAN] /\ short \in [Invocation -> BOOLEAN]
  /\ DOMAIN shown = Invocation /\ DOMAIN fresh = Invocation

EachOK ==
  \A c \in Invocation :
    ClientOK(mngr.up, Status(mngr), argv[c], todo[c], phase[c], requests[c],
             replies[c], handled[c], fresh[c], short[c])

CInv == Shaped /\ EachOK

-----------------------------------------------------------------------------
(* What a packet at the end, or at the head, means for the requests.       *)

LEMMA AppendAsks ==
  ASSUME NEW q \in Seq(ClientPacket), NEW p \in ClientPacket
  PROVE  /\ Append(q, p) \in Seq(ClientPacket) /\ Len(Append(q, p)) = Len(q) + 1
         /\ p.type # "GET_STATUS" /\ NoneAsks(q) => NoneAsks(Append(q, p))
         /\ p.type # "GET_STATUS" /\ OneAsks(q) => OneAsks(Append(q, p))
         /\ NoneAsks(q) => OneAsks(Append(q, p)) /\ LastAsks(Append(q, p))
<1> DEFINE r == Append(q, p)
<1>1. /\ r \in Seq(ClientPacket) /\ Len(r) = Len(q) + 1 /\ Len(q) \in Nat
      /\ DOMAIN r = 1 .. Len(q) + 1 /\ DOMAIN q = 1 .. Len(q)
      /\ r[Len(q) + 1] = p
  OBVIOUS
<1>2. \A i \in 1 .. Len(q) : r[i] = q[i]
  OBVIOUS
<1> HIDE DEF r
<1>3. \A i \in DOMAIN r : (i \in DOMAIN q /\ r[i] = q[i]) \/ i = Len(q) + 1
  BY <1>1, <1>2
<1>4. p.type # "GET_STATUS" =>
        \A i \in DOMAIN r : Asks(r, i) => i \in DOMAIN q /\ Asks(q, i)
  BY <1>1, <1>3 DEF Asks
<1>5. NoneAsks(q) => \A i \in DOMAIN r : Asks(r, i) => i = Len(q) + 1
  BY <1>3 DEF Asks, NoneAsks
<1>6. p.type # "GET_STATUS" /\ NoneAsks(q) => NoneAsks(r)
  BY <1>4, Zenon DEF NoneAsks
<1>7. p.type # "GET_STATUS" /\ OneAsks(q) => OneAsks(r)
  BY <1>4, Zenon DEF OneAsks
<1>8. NoneAsks(q) => OneAsks(r) /\ LastAsks(r)
  BY <1>1, <1>5 DEF OneAsks, LastAsks
<1> QED BY <1>1, <1>6, <1>7, <1>8 DEF r

LEMMA TailAsks ==
  ASSUME NEW q \in Seq(ClientPacket), q # << >>
  PROVE  /\ Head(q) \in ClientPacket /\ Tail(q) \in Seq(ClientPacket)
         /\ Len(Tail(q)) = Len(q) - 1 /\ Len(q) \in Nat \ {0}
         /\ NoneAsks(q) => Head(q).type # "GET_STATUS" /\ NoneAsks(Tail(q))
         /\ OneAsks(q) => OneAsks(Tail(q))
         /\ OneAsks(q) /\ Head(q).type = "GET_STATUS" => NoneAsks(Tail(q))
         /\ LastAsks(q) => LastAsks(Tail(q))
         /\ LastAsks(q) /\ Head(q).type = "GET_STATUS" => Tail(q) = << >>
<1> DEFINE r == Tail(q)
<1>1. /\ Head(q) = q[1] /\ Head(q) \in ClientPacket
      /\ r \in Seq(ClientPacket) /\ Len(r) = Len(q) - 1 /\ Len(q) \in Nat \ {0}
      /\ DOMAIN r = 1 .. Len(q) - 1 /\ DOMAIN q = 1 .. Len(q)
  OBVIOUS
<1>2. \A i \in 1 .. Len(q) - 1 : r[i] = q[i + 1]
  OBVIOUS
<1>3. Len(q) = 1 => r = << >>
  <2>1. Len(r) = 0 => r = << >>
    BY <1>1, EmptySeq, Zenon
  <2> HIDE DEF r
  <2> QED BY <1>1, <2>1
<1> HIDE DEF r
<1>4. \A i \in DOMAIN r : i + 1 \in DOMAIN q /\ r[i] = q[i + 1] /\ i \in Nat /\ i >= 1
  BY <1>1, <1>2
<1>5. \A i \in DOMAIN r : Asks(r, i) => Asks(q, i + 1)
  BY <1>4 DEF Asks
<1>6. 1 \in DOMAIN q /\ (Head(q).type = "GET_STATUS" <=> Asks(q, 1))
  BY <1>1 DEF Asks
<1>7. NoneAsks(q) => Head(q).type # "GET_STATUS" /\ NoneAsks(r)
  BY <1>4, <1>5, <1>6 DEF NoneAsks
<1>8. OneAsks(q) => OneAsks(r)
  BY <1>4, <1>5 DEF OneAsks
<1>9. OneAsks(q) /\ Head(q).type = "GET_STATUS" => NoneAsks(r)
  BY <1>4, <1>5, <1>6 DEF OneAsks, NoneAsks
<1>10. LastAsks(q) => LastAsks(r)
  BY <1>1, <1>4, <1>5 DEF LastAsks
<1>11. LastAsks(q) /\ Head(q).type = "GET_STATUS" => r = << >>
  BY <1>1, <1>3, <1>6 DEF LastAsks
<1> QED BY <1>1, <1>7, <1>8, <1>9, <1>10, <1>11 DEF r

LEMMA FlagFacts ==
  ASSUME NEW args
  PROVE  /\ Flags(args) \in SUBSET (1 .. 12)
         /\ \A td \in SUBSET Flags(args) :
              /\ IsFiniteSet(Flags(args) \ td)
              /\ Cardinality(Flags(args) \ td) \in Nat
              /\ \A m \in td : Cardinality(Flags(args) \ (td \ {m})) =
                                 Cardinality(Flags(args) \ td) + 1
<1>1. Flags(args) \in SUBSET (1 .. 12)
  BY OrderFacts DEF Flags
<1>2. IsFiniteSet(1 .. 12)
  <2>1. 1 \in Int /\ 12 \in Int
    OBVIOUS
  <2> QED BY <2>1, FS_Interval, Zenon
<1>3. ASSUME NEW td \in SUBSET Flags(args)
      PROVE  /\ IsFiniteSet(Flags(args) \ td)
             /\ Cardinality(Flags(args) \ td) \in Nat
             /\ \A m \in td : Cardinality(Flags(args) \ (td \ {m})) =
                                Cardinality(Flags(args) \ td) + 1
  <2> DEFINE F == Flags(args) \ td
  <2>1. F \subseteq 1 .. 12
    BY <1>1
  <2> HIDE DEF F
  <2>2. IsFiniteSet(F)
    BY <1>2, <2>1, FS_Subset, Zenon
  <2>3. Cardinality(F) \in Nat
    BY <2>2, FS_CardinalityType, Zenon
  <2>4. ASSUME NEW m \in td
        PROVE  Cardinality(Flags(args) \ (td \ {m})) = Cardinality(F) + 1
    <3>1. Flags(args) \ (td \ {m}) = F \cup {m} /\ m \notin F
      BY DEF F
    <3> QED BY <3>1, <2>2, FS_AddElement
  <2> QED BY <2>2, <2>3, <2>4 DEF F
<1> QED BY <1>1, <1>3

-----------------------------------------------------------------------------
(* Each step of one invocation preserves the invariant.                    *)

LEMMA SizeFact == StatusSize \in Nat /\ StatusSize >= 2
BY MngrAssumption DEF StatusSize

(* main sends a request that has no reply.                                 *)
LEMMA PlainSent ==
  ASSUME NEW up, NEW st, NEW args, NEW td,
         NEW rq, NEW rp,
         NEW hd, NEW fr, NEW sh,
         Types(up, td, rq, rp, hd, sh),
         ClientOK(up, st, args, td, "sending", rq, rp, hd, fr, sh),
         td # {}, First(td) \notin {"s", "j"},
         send_packet(args, First(td)) \in ClientPacket
  PROVE  ClientOK(up, st, args, td \ {Min(td)}, "sending",
                  Append(rq, send_packet(args, First(td))), rp, hd, fr, sh)
<1> /\ up \in BOOLEAN /\ td \in SUBSET (1 .. 12) /\ sh \in BOOLEAN
    /\ rq \in Seq(ClientPacket) /\ rp \in Seq(Cell) /\ hd \in Seq(ClientPacket)
  BY DEF Types
<1> DEFINE m == Min(td)
           p == send_packet(args, First(td))
           r == Append(rq, p)
           u == td \ {m}
<1>1. /\ m \in td /\ m \notin {7, 8} /\ First(td) = MainOrder[m]
      /\ p.type # "GET_STATUS"
  BY FirstFlag DEF send_packet
<1>2. /\ Len(r) = Len(rq) + 1
      /\ NoneAsks(rq) => NoneAsks(r)
      /\ OneAsks(rq) => OneAsks(r)
  BY <1>1, AppendAsks
<1>3. td \in SUBSET Flags(args)
  BY DEF ClientOK, ArgsOK
<1>4. Cardinality(Flags(args) \ u) = Cardinality(Flags(args) \ td) + 1
      /\ Cardinality(Flags(args) \ td) \in Nat
  BY <1>1, <1>3, FlagFacts
<1>5. \A i \in DOMAIN r : \E f \in Flags(args) : r[i] = send_packet(args, MainOrder[f])
  <2>1. \A i \in DOMAIN r : (i \in DOMAIN rq /\ r[i] = rq[i]) \/ r[i] = p
    OBVIOUS
  <2> HIDE DEF r
  <2>2. m \in Flags(args) /\ p = send_packet(args, MainOrder[m])
    BY <1>1, <1>3
  <2>3. \A i \in DOMAIN rq : \E f \in Flags(args) : rq[i] = send_packet(args, MainOrder[f])
    BY Zenon DEF ClientOK, MeansOK
  <2> HIDE DEF p, m
  <2> QED BY <2>1, <2>2, <2>3, Zenon
<1> HIDE DEF m, p, r
<1>6. ArgsOK(args, u, "sending")
  BY DEF ClientOK, ArgsOK
<1>7. NewOK(args, u, "sending", r, rp, hd)
  BY DEF NewOK
<1>8. RoomOK(up, u, "sending", r, rp)
  BY <1>1, <1>2 DEF ClientOK, RoomOK
<1>9. FreshOK(up, "sending", r, rp, fr, sh, st)
  BY <1>2 DEF ClientOK, FreshOK
<1>10. MeansOK(up, args, u, "sending", r, hd)
  <2>1. up => Len(hd) + Len(r) = Cardinality(Flags(args) \ u) + 0
    <3>1. up => Len(hd) + Len(rq) = Cardinality(Flags(args) \ td) + 0
      BY DEF ClientOK, MeansOK
    <3>2. Len(hd) \in Nat /\ Len(rq) \in Nat
      OBVIOUS
    <3> QED BY <3>1, <3>2, <1>2, <1>4
  <2> QED BY <2>1, <1>5 DEF ClientOK, MeansOK
<1> QED BY <1>6, <1>7, <1>8, <1>9, <1>10 DEF ClientOK, m, p, r

(* main asks for the status and waits for it.                              *)
LEMMA ListingSent ==
  ASSUME NEW up, NEW st, NEW args, NEW td,
         NEW rq, NEW rp,
         NEW hd, NEW fr, NEW sh,
         Types(up, td, rq, rp, hd, sh),
         ClientOK(up, st, args, td, "sending", rq, rp, hd, fr, sh),
         td # {}, First(td) \in {"s", "j"},
         send_packet(args, First(td)) \in ClientPacket
  PROVE  ClientOK(up, st, args, td, "reading",
                  Append(rq, send_packet(args, First(td))), rp, hd, {st}, sh)
<1> /\ up \in BOOLEAN /\ td \in SUBSET (1 .. 12) /\ sh \in BOOLEAN
    /\ rq \in Seq(ClientPacket) /\ rp \in Seq(Cell) /\ hd \in Seq(ClientPacket)
  BY DEF Types
<1> DEFINE m == Min(td)
           p == send_packet(args, First(td))
           r == Append(rq, p)
<1>1. /\ m \in td /\ m \in {7, 8} /\ First(td) = MainOrder[m]
      /\ p.type = "GET_STATUS" /\ \A i \in td : m <= i
  BY FirstFlag DEF send_packet
<1>2. /\ Len(r) = Len(rq) + 1
      /\ NoneAsks(rq) => OneAsks(r) /\ LastAsks(r)
  BY AppendAsks
<1>3. td \in SUBSET Flags(args)
  BY DEF ClientOK, ArgsOK
<1>4. Cardinality(Flags(args) \ td) \in Nat
  BY <1>3, FlagFacts
<1>5. \A i \in DOMAIN r : \E f \in Flags(args) : r[i] = send_packet(args, MainOrder[f])
  <2>1. \A i \in DOMAIN r : (i \in DOMAIN rq /\ r[i] = rq[i]) \/ r[i] = p
    OBVIOUS
  <2> HIDE DEF r
  <2>2. m \in Flags(args) /\ p = send_packet(args, MainOrder[m])
    BY <1>1, <1>3
  <2>3. \A i \in DOMAIN rq : \E f \in Flags(args) : rq[i] = send_packet(args, MainOrder[f])
    BY Zenon DEF ClientOK, MeansOK
  <2> HIDE DEF p, m
  <2> QED BY <2>1, <2>2, <2>3, Zenon
<1>6. ArgsOK(args, td, "reading")
  BY <1>1 DEF ClientOK, ArgsOK
<1> HIDE DEF p, r
<1>7. NewOK(args, td, "reading", r, rp, hd)
  BY DEF NewOK
<1>8. RoomOK(up, td, "reading", r, rp)
  <2>1. 7 \in td \/ (8 \in td /\ 7 \notin td)
    BY <1>1
  <2> QED BY <1>2, <2>1, SizeFact DEF ClientOK, RoomOK
<1>9. FreshOK(up, "reading", r, rp, {st}, sh, st)
  BY <1>2 DEF ClientOK, FreshOK
<1>10. MeansOK(up, args, td, "reading", r, hd)
  <2>1. up => Len(hd) + Len(r) = Cardinality(Flags(args) \ td) + 1
    <3>1. up => Len(hd) + Len(rq) = Cardinality(Flags(args) \ td) + 0
      BY DEF ClientOK, MeansOK
    <3>2. Len(hd) \in Nat /\ Len(rq) \in Nat
      OBVIOUS
    <3> QED BY <3>1, <3>2, <1>2, <1>4
  <2> QED BY <2>1, <1>5 DEF ClientOK, MeansOK
<1> QED BY <1>6, <1>7, <1>8, <1>9, <1>10 DEF ClientOK, p, r

(* main returns, or a system call fails.                                   *)
LEMMA Ended ==
  ASSUME NEW up, NEW st, NEW args, NEW td,
         NEW ph, NEW rq, NEW rp,
         NEW hd, NEW fr, NEW sh,
         Types(up, td, rq, rp, hd, sh),
         ClientOK(up, st, args, td, ph, rq, rp, hd, fr, sh),
         \/ ph = "sending" /\ (td = {} \/ ~up)
         \/ ph = "reading" /\ rp = << >> /\ ~up
  PROVE  ClientOK(up, st, args, td, "ended", rq, rp, hd, {}, sh)
<1> /\ up \in BOOLEAN /\ td \in SUBSET (1 .. 12) /\ sh \in BOOLEAN
    /\ rq \in Seq(ClientPacket) /\ rp \in Seq(Cell) /\ hd \in Seq(ClientPacket)
  BY DEF Types
<1>1. ArgsOK(args, td, "ended")
  BY DEF ClientOK, ArgsOK
<1>2. NewOK(args, td, "ended", rq, rp, hd)
  BY DEF NewOK
<1>3. RoomOK(up, td, "ended", rq, rp)
  BY DEF ClientOK, RoomOK
<1>4. FreshOK(up, "ended", rq, rp, {}, sh, st)
  BY DEF ClientOK, FreshOK
<1>5. MeansOK(up, args, td, "ended", rq, hd)
  BY DEF ClientOK, MeansOK
<1> QED BY <1>1, <1>2, <1>3, <1>4, <1>5 DEF ClientOK

(* recv returns n cells of the reply, or the end of the stream.            *)
ReceivedRule(up, st, args, td, rq, rp, hd, fr, sh, n, rest, sh2) ==
  /\ Types(up, td, rq, rp, hd, sh)
  /\ ClientOK(up, st, args, td, "reading", rq, rp, hd, fr, sh)
  /\ n \in 0 .. StatusSize /\ n <= Len(rp) /\ (n = 0 => rp = << >> /\ ~up)
  /\ rest = SubSeq(rp, n + 1, Len(rp))
  /\ sh2 \in BOOLEAN /\ (~sh2 => ~sh /\ n = StatusSize)
  => /\ rest \in Seq(Cell)
     /\ ClientOK(up, st, args, td \ {Min(td)}, "sending", rq, rest, hd, {}, sh2)

LEMMA Received ==
  ASSUME NEW up, NEW st, NEW args, NEW td, NEW rq, NEW rp, NEW hd, NEW fr,
         NEW sh, NEW n, NEW rest, NEW sh2
  PROVE  ReceivedRule(up, st, args, td, rq, rp, hd, fr, sh, n, rest, sh2)
<1> SUFFICES
      ASSUME Types(up, td, rq, rp, hd, sh),
             ClientOK(up, st, args, td, "reading", rq, rp, hd, fr, sh),
             n \in 0 .. StatusSize, n <= Len(rp), n = 0 => rp = << >> /\ ~up,
             rest = SubSeq(rp, n + 1, Len(rp)),
             sh2 \in BOOLEAN, ~sh2 => ~sh /\ n = StatusSize
      PROVE  /\ rest \in Seq(Cell)
             /\ ClientOK(up, st, args, td \ {Min(td)}, "sending", rq, rest, hd, {}, sh2)
  BY DEF ReceivedRule
<1> /\ up \in BOOLEAN /\ td \in SUBSET (1 .. 12) /\ sh \in BOOLEAN
    /\ rq \in Seq(ClientPacket) /\ rp \in Seq(Cell) /\ hd \in Seq(ClientPacket)
  BY DEF Types
<1> DEFINE m == Min(td)
           u == td \ {m}
<1>1. m \in td /\ m \in {7, 8} /\ \A i \in td : m <= i
  <2>1. td # {} /\ Min(td) \in {7, 8}
    BY DEF ClientOK, ArgsOK
  <2> QED BY <2>1, FirstFlag
<1>2. n \in Nat /\ StatusSize \in Nat /\ StatusSize >= 2 /\ Len(rp) \in Nat
  BY SizeFact
<1>3. rest \in Seq(Cell) /\ Len(rest) = Len(rp) - n
  BY <1>2
<1>4. Len(rest) = 0 => rest = << >>
  BY <1>3, EmptySeq, Zenon
<1>5. td \in SUBSET Flags(args)
  BY DEF ClientOK, ArgsOK
<1>6. Cardinality(Flags(args) \ u) = Cardinality(Flags(args) \ td) + 1
      /\ Cardinality(Flags(args) \ td) \in Nat
  BY <1>1, <1>5, FlagFacts
<1>7. up => n >= 1 /\ Len(rp) > 0
  BY <1>2
<1> HIDE DEF m
<1>8. ArgsOK(args, u, "sending")
  BY DEF ClientOK, ArgsOK
<1>9. NewOK(args, u, "sending", rq, rest, hd)
  BY DEF NewOK
<1>10. RoomOK(up, u, "sending", rq, rest)
  <2>1. Len(rp) < 2 * StatusSize /\ Len(rest) <= Len(rp)
    BY <1>2, <1>3 DEF ClientOK, RoomOK
  <2>2. up /\ m = 7 => NoneAsks(rq) /\ Len(rest) < StatusSize
    BY <1>1, <1>2, <1>3, <1>7 DEF ClientOK, RoomOK
  <2>3. up /\ m = 8 => 7 \notin u /\ 8 \notin u
                       /\ (NoneAsks(rq) \/ (OneAsks(rq) /\ Len(rest) < StatusSize))
    BY <1>1, <1>2, <1>3, <1>7 DEF ClientOK, RoomOK
  <2> QED BY <1>1, <1>2, <1>3, <2>1, <2>2, <2>3 DEF RoomOK
<1>11. FreshOK(up, "sending", rq, rest, {}, sh2, st)
  <2>1. ~sh2 => ~sh /\ n = StatusSize
    BY Zenon
  <2>2. ~sh2 => rp # << >>
    BY <1>2, <2>1
  <2>3. ~sh2 => rest = << >> /\ rq = << >>
    BY <1>2, <1>3, <1>4, <2>1, <2>2 DEF ClientOK, FreshOK
  <2>4. NoneAsks(<< >>)
    BY DEF NoneAsks
  <2> QED BY <2>3, <2>4 DEF FreshOK
<1>12. MeansOK(up, args, u, "sending", rq, hd)
  <2>1. up => Len(hd) + Len(rq) = Cardinality(Flags(args) \ u) + 0
    <3>1. up => Len(hd) + Len(rq) = Cardinality(Flags(args) \ td) + 1
      BY DEF ClientOK, MeansOK
    <3> QED BY <3>1, <1>6
  <2> QED BY <2>1 DEF ClientOK, MeansOK
<1> QED BY <1>3, <1>8, <1>9, <1>10, <1>11, <1>12 DEF ClientOK, m

(* The daemon goes on to now, and something else happens to it: the        *)
(* invocation is not touched, but the statuses it may be shown are added.  *)
GoesOnRule(up, st, args, td, ph, rq, rp, hd, fr, sh, up2, now, fr2) ==
  /\ ClientOK(up, st, args, td, ph, rq, rp, hd, fr, sh)
  /\ up \in BOOLEAN /\ sh \in BOOLEAN /\ up2 \in BOOLEAN /\ (up2 => up)
  /\ fr2 = IF ph = "reading" THEN fr \cup {now} ELSE {}
  => ClientOK(up2, now, args, td, ph, rq, rp, hd, fr2, sh)

LEMMA GoesOn ==
  ASSUME NEW up, NEW st, NEW args, NEW td, NEW ph, NEW rq, NEW rp, NEW hd,
         NEW fr, NEW sh, NEW up2, NEW now, NEW fr2
  PROVE  GoesOnRule(up, st, args, td, ph, rq, rp, hd, fr, sh, up2, now, fr2)
<1> SUFFICES ASSUME ClientOK(up, st, args, td, ph, rq, rp, hd, fr, sh),
                    up \in BOOLEAN, sh \in BOOLEAN, up2 \in BOOLEAN, up2 => up,
                    fr2 = IF ph = "reading" THEN fr \cup {now} ELSE {}
             PROVE  ClientOK(up2, now, args, td, ph, rq, rp, hd, fr2, sh)
  BY DEF GoesOnRule
<1>1. RoomOK(up2, td, ph, rq, rp)
  BY DEF ClientOK, RoomOK
<1>2. FreshOK(up2, ph, rq, rp, fr2, sh, now)
  BY DEF ClientOK, FreshOK
<1>3. MeansOK(up2, args, td, ph, rq, hd)
  BY DEF ClientOK, MeansOK
<1> QED BY <1>1, <1>2, <1>3 DEF ClientOK

(* The daemon exits, and what it has sent is lost.                         *)
LEMMA Lost ==
  ASSUME NEW st, NEW args, NEW td, NEW ph, NEW rq, NEW rp, NEW hd, NEW fr,
         NEW sh \in BOOLEAN,
         ClientOK(FALSE, st, args, td, ph, rq, rp, hd, fr, sh)
  PROVE  ClientOK(FALSE, st, args, td, ph, rq, << >>, hd, fr, sh)
<1>1. NewOK(args, td, ph, rq, << >>, hd)
  BY DEF ClientOK, NewOK
<1>2. RoomOK(FALSE, td, ph, rq, << >>)
  BY SizeFact DEF RoomOK
<1>3. FreshOK(FALSE, ph, rq, << >>, fr, sh, st)
  BY DEF ClientOK, FreshOK
<1> QED BY <1>1, <1>2, <1>3 DEF ClientOK

(* The daemon handles a request: now is the status after it, stat the one  *)
(* before, which answers a request for it.                                 *)
HandledRule(up, st, args, td, ph, rq, rp, hd, fr, sh, up2, now, rp2, fr2) ==
  /\ st \in Seq(Cell) /\ Len(st) = StatusSize /\ up = TRUE /\ up2 \in BOOLEAN
  /\ Types(up, td, rq, rp, hd, sh)
  /\ ClientOK(up, st, args, td, ph, rq, rp, hd, fr, sh) /\ rq # << >>
  /\ rp2 = IF Head(rq).type = "GET_STATUS" THEN rp \o st ELSE rp
  /\ fr2 = IF ph # "reading" THEN {}
           ELSE IF Head(rq).type = "GET_STATUS" THEN fr \cup {now} ELSE {now}
  => /\ rp2 \in Seq(Cell)
     /\ ClientOK(up2, now, args, td, ph, Tail(rq), rp2, Append(hd, Head(rq)), fr2, sh)

LEMMA Handled ==
  ASSUME NEW up, NEW st, NEW args, NEW td, NEW ph, NEW rq, NEW rp, NEW hd,
         NEW fr, NEW sh, NEW up2, NEW now, NEW rp2, NEW fr2
  PROVE  HandledRule(up, st, args, td, ph, rq, rp, hd, fr, sh, up2, now, rp2, fr2)
<1> SUFFICES
      ASSUME st \in Seq(Cell), Len(st) = StatusSize, up = TRUE, up2 \in BOOLEAN,
             Types(up, td, rq, rp, hd, sh),
             ClientOK(up, st, args, td, ph, rq, rp, hd, fr, sh), rq # << >>,
             rp2 = IF Head(rq).type = "GET_STATUS" THEN rp \o st ELSE rp,
             fr2 = IF ph # "reading" THEN {}
                   ELSE IF Head(rq).type = "GET_STATUS" THEN fr \cup {now} ELSE {now}
      PROVE  /\ rp2 \in Seq(Cell)
             /\ ClientOK(up2, now, args, td, ph, Tail(rq), rp2, Append(hd, Head(rq)),
                         fr2, sh)
  BY DEF HandledRule
<1> /\ td \in SUBSET (1 .. 12) /\ sh \in BOOLEAN
    /\ rq \in Seq(ClientPacket) /\ rp \in Seq(Cell) /\ hd \in Seq(ClientPacket)
  BY DEF Types
<1> DEFINE p == Head(rq)
           r == Tail(rq)
           h == Append(hd, p)
<1>1. /\ p \in ClientPacket /\ r \in Seq(ClientPacket)
      /\ Len(r) = Len(rq) - 1 /\ Len(rq) \in Nat \ {0}
  BY TailAsks
<1>2. /\ NoneAsks(rq) => p.type # "GET_STATUS" /\ NoneAsks(r)
      /\ OneAsks(rq) => OneAsks(r)
      /\ OneAsks(rq) /\ p.type = "GET_STATUS" => NoneAsks(r)
      /\ LastAsks(rq) => LastAsks(r)
      /\ LastAsks(rq) /\ p.type = "GET_STATUS" => r = << >>
  BY TailAsks
<1>3. /\ h \in Seq(ClientPacket) /\ Len(h) = Len(hd) + 1 /\ Len(hd) \in Nat
      /\ \A i \in DOMAIN h : (i \in DOMAIN hd /\ h[i] = hd[i]) \/ h[i] = p
  BY <1>1
<1>4. p = rq[1] /\ 1 \in DOMAIN rq /\ \A i \in DOMAIN r : i + 1 \in DOMAIN rq /\ r[i] = rq[i + 1]
  OBVIOUS
<1>5. /\ Len(rp) \in Nat /\ rp2 \in Seq(Cell)
      /\ p.type = "GET_STATUS" => Len(rp2) = Len(rp) + StatusSize
      /\ p.type # "GET_STATUS" => rp2 = rp
      /\ p.type = "GET_STATUS" /\ rp = << >> => rp2 = st
  <2>1. /\ rp \o st \in Seq(Cell) /\ Len(rp \o st) = Len(rp) + StatusSize
        /\ Len(rp) \in Nat /\ << >> \o st = st
    <3>1. /\ rp \o st \in Seq(Cell) /\ Len(rp \o st) = Len(rp) + Len(st)
      BY ConcatProperties, Zenon
    <3>2. Len(rp) \in Nat /\ << >> \o st = st
      OBVIOUS
    <3> QED BY <3>1, <3>2
  <2> QED BY <2>1
<1> HIDE DEF p, r, h
<1>6. ArgsOK(args, td, ph)
  BY DEF ClientOK
<1>7. NewOK(args, td, ph, r, rp2, h)
  BY DEF ClientOK, NewOK
<1>8. RoomOK(up2, td, ph, r, rp2)
  <2>1. p.type = "GET_STATUS" =>
          /\ OneAsks(rq) /\ Len(rp) < StatusSize /\ NoneAsks(r)
          /\ 7 \in td => Len(rp) = 0 /\ ph = "reading"
          /\ 7 \notin td /\ 8 \in td => ph = "reading"
    BY <1>2, SizeFact DEF ClientOK, RoomOK
  <2>2. CASE p.type = "GET_STATUS"
    <3>1. NoneAsks(r) /\ Len(rp2) < 2 * StatusSize
      BY <2>1, <2>2, <1>5, SizeFact
    <3>2. 7 \in td => Len(rp2) <= StatusSize
      BY <2>1, <2>2, <1>5, SizeFact
    <3> QED BY <3>1, <3>2, <2>1, <2>2 DEF RoomOK
  <2>3. CASE p.type # "GET_STATUS"
    <3>1. rp2 = rp
      BY <2>3, <1>5
    <3> QED BY <3>1, <1>2 DEF ClientOK, RoomOK
  <2> QED BY <2>2, <2>3
<1>9. FreshOK(up2, ph, r, rp2, fr2, sh, now)
  <2>1. ph = "reading" => now \in fr2
    OBVIOUS
  <2>2. ~sh => rp = << >>
    BY DEF ClientOK, FreshOK
  <2>3. ~sh /\ ph # "reading" => p.type # "GET_STATUS" /\ NoneAsks(r)
    BY <1>2 DEF ClientOK, FreshOK
  <2>4. ~sh /\ ph = "reading" => LastAsks(r) /\ (p.type = "GET_STATUS" => r = << >>)
    BY <1>2 DEF ClientOK, FreshOK
  <2>5. ~sh /\ rp2 # << >> => /\ ph = "reading" /\ r = << >> /\ rp2 = st
                              /\ Len(rp2) = StatusSize /\ rp2 \in fr2
    <3>1. ph = "reading" => st \in fr
      BY DEF ClientOK, FreshOK
    <3>2. ~sh /\ rp2 # << >> => p.type = "GET_STATUS" /\ ph = "reading" /\ rp2 = st
      BY <1>5, <2>2, <2>3
    <3> QED BY <3>1, <3>2, <2>4 DEF p
  <2> QED BY <2>1, <2>3, <2>4, <2>5, Zenon DEF FreshOK
<1>10. MeansOK(up2, args, td, ph, r, h)
  <2>1. /\ \A i \in DOMAIN rq : \E f \in Flags(args) : rq[i] = send_packet(args, MainOrder[f])
        /\ \A i \in DOMAIN hd : \E f \in Flags(args) : hd[i] = send_packet(args, MainOrder[f])
    BY Zenon DEF ClientOK, MeansOK
  <2>2. \A i \in DOMAIN r : \E f \in Flags(args) : r[i] = send_packet(args, MainOrder[f])
    <3> TAKE i \in DOMAIN r
    <3>1. i + 1 \in DOMAIN rq /\ r[i] = rq[i + 1]
      BY <1>4, Zenon
    <3>2. PICK f \in Flags(args) : rq[i + 1] = send_packet(args, MainOrder[f])
      BY <2>1, <3>1, Zenon
    <3> QED BY <3>1, <3>2, Zenon
  <2>3. \A i \in DOMAIN h : \E f \in Flags(args) : h[i] = send_packet(args, MainOrder[f])
    <3>1. \E f \in Flags(args) : p = send_packet(args, MainOrder[f])
      BY <2>1, <1>4, Zenon
    <3> TAKE i \in DOMAIN h
    <3>2. CASE i \in DOMAIN hd /\ h[i] = hd[i]
      BY <2>1, <3>2, Zenon
    <3>3. CASE h[i] = p
      BY <3>1, <3>3, Zenon
    <3> QED BY <1>3, <3>2, <3>3
  <2>4. Len(hd) + Len(rq) = Cardinality(Flags(args) \ td) + IF ph = "reading" THEN 1 ELSE 0
    BY DEF ClientOK, MeansOK
  <2>5. Len(h) + Len(r) = Len(hd) + Len(rq)
    BY <1>1, <1>3
  <2>6. up2 => Len(h) + Len(r) = Cardinality(Flags(args) \ td)
                                  + IF ph = "reading" THEN 1 ELSE 0
    BY <2>4, <2>5, Zenon
  <2>7. ph = "ended" => td = {}
    BY DEF ClientOK, MeansOK
  <2> QED BY <2>2, <2>3, <2>6, <2>7, Zenon DEF MeansOK
<1> QED BY <1>5, <1>6, <1>7, <1>8, <1>9, <1>10 DEF ClientOK, p, r, h

(* main connects, or finds no daemon.                                      *)
LEMMA Connected ==
  ASSUME NEW up \in BOOLEAN, NEW st, NEW old, NEW td, NEW args,
         NEW rq, NEW rp, NEW hd, NEW fr, NEW sh \in BOOLEAN,
         ClientOK(up, st, old, td, "new", rq, rp, hd, fr, sh)
  PROVE  ClientOK(up, st, args, IF up THEN Flags(args) ELSE {},
                  IF up THEN "sending" ELSE "ended", rq, rp, hd, fr, sh)
<1> DEFINE u == IF up THEN Flags(args) ELSE {}
           ph == IF up THEN "sending" ELSE "ended"
<1>1. rq = << >> /\ rp = << >> /\ hd = << >> /\ NoneAsks(<< >>)
  BY DEF ClientOK, NewOK, NoneAsks
<1>2. ArgsOK(args, u, ph)
  BY DEF ArgsOK
<1>3. NewOK(args, u, ph, rq, rp, hd)
  BY DEF NewOK
<1>4. RoomOK(up, u, ph, rq, rp)
  <2>1. Len(<< >>) = 0
    OBVIOUS
  <2> QED BY <1>1, <2>1, SizeFact DEF RoomOK
<1>5. FreshOK(up, ph, rq, rp, fr, sh, st)
  BY <1>1 DEF FreshOK
<1>6. MeansOK(up, args, u, ph, rq, hd)
  <2>1. up => Flags(args) \ u = {} /\ ph = "sending"
    OBVIOUS
  <2>2. Cardinality({}) = 0 /\ Len(<< >>) = 0 /\ DOMAIN << >> = {} /\ 0 + 0 = 0
    BY FS_EmptySet
  <2>3. up => Len(hd) + Len(rq) = Cardinality(Flags(args) \ u) + 0
    BY <1>1, <2>1, <2>2
  <2>4. up => Len(hd) + Len(rq) = Cardinality(Flags(args) \ u)
                                  + IF ph = "reading" THEN 1 ELSE 0
    BY <2>1, <2>3
  <2>5. up => ph # "ended"
    OBVIOUS
  <2> HIDE DEF u, ph
  <2> QED BY <1>1, <2>2, <2>4, <2>5, Zenon DEF MeansOK
<1> QED BY <1>2, <1>3, <1>4, <1>5, <1>6 DEF ClientOK

-----------------------------------------------------------------------------
(* The status.                                                             *)

LEMMA StatusType ==
  ASSUME NEW s, Inv(s)
  PROVE  Status(s) \in Seq(Cell) /\ Len(Status(s)) = StatusSize
<1> DEFINE modes == <<[reg_mode |-> s.reg_mode, radio |-> s.radio]>>
           cells == [h \in Handset |-> s.handset[h]]
<1>1. modes \in Seq(Cell) /\ Len(modes) = 1
  BY DEF Inv, State, Cell
<1>2. cells \in [1 .. MaxNrHandsets -> Cell] /\ MaxNrHandsets \in Nat
  BY MngrAssumption DEF Inv, State, Cell, Handset
<1>3. cells \in Seq(Cell) /\ Len(cells) = MaxNrHandsets
  <2> HIDE DEF cells
  <2> QED BY <1>2
<1> HIDE DEF modes, cells
<1>4. modes \o cells \in Seq(Cell) /\ Len(modes \o cells) = MaxNrHandsets + 1
  <2>1. modes \o cells \in Seq(Cell) /\ Len(modes \o cells) = Len(modes) + Len(cells)
    BY <1>1, <1>3, ConcatProperties, Zenon
  <2>2. Len(modes \o cells) = 1 + MaxNrHandsets
    BY <1>1, <1>3, <2>1, Zenon
  <2> HIDE <1>1, <1>3
  <2> QED BY <1>2, <2>1, <2>2
<1> QED BY <1>4 DEF Status, StatusSize, modes, cells

LEMMA SentStatus ==
  ASSUME NEW s \in State
  PROVE  Status(Sent(s)) = Status(s) /\ Sent(s).up = s.up
BY DEF State, Sent, Status

LEMMA AskedStatus ==
  ASSUME NEW s, NEW p, NEW f, p.type = "GET_STATUS"
  PROVE  handle_client_packet(s, p, f) = s
BY DEF handle_client_packet

-----------------------------------------------------------------------------
(* Each step preserves the invariant of all.                               *)

LEMMA ConnectCInv ==
  ASSUME CInv, NEW c \in Invocation, Connect(c)
  PROVE  CInv'
<1> USE DEF CInv
<1>1. PICK args \in CommandLines[c] :
        /\ argv' = [argv EXCEPT ![c] = args]
        /\ todo' = [todo EXCEPT ![c] = IF mngr.up THEN Flags(args) ELSE {}]
  BY DEF Connect
<1>2. /\ phase[c] = "new" /\ mngr.up \in BOOLEAN
      /\ phase' = [phase EXCEPT ![c] = IF mngr.up THEN "sending" ELSE "ended"]
      /\ UNCHANGED <<mngr, packets, fresh, requests, replies, cut, handled, shown, short>>
  BY DEF Connect, Shaped, Inv, State
<1>3. args \in CommandLine /\ Flags(args) \in SUBSET (1 .. 12)
  BY CommandLineFacts, FlagFacts
<1>4. Shaped'
  BY <1>1, <1>2, <1>3 DEF Shaped
<1>5. ASSUME NEW d \in Invocation
      PROVE  ClientOK(mngr.up, Status(mngr), argv'[d], todo'[d], phase'[d], requests[d],
                      replies[d], handled[d], fresh[d], short[d])
  <2>1. /\ ClientOK(mngr.up, Status(mngr), argv[d], todo[d], phase[d], requests[d],
                    replies[d], handled[d], fresh[d], short[d])
        /\ short[d] \in BOOLEAN
    BY DEF EachOK, Shaped
  <2>2. CASE d = c
    <3>1. /\ argv'[d] = args /\ todo'[d] = IF mngr.up THEN Flags(args) ELSE {}
          /\ phase'[d] = IF mngr.up THEN "sending" ELSE "ended"
      BY <1>1, <1>2, <2>2 DEF Shaped
    <3>2. phase[d] = "new"
      BY <1>2, <2>2
    <3> QED BY <1>2, <2>1, <3>1, <3>2, Connected
  <2>3. CASE d # c
    BY <1>1, <1>2, <2>1, <2>3 DEF Shaped
  <2> QED BY <2>2, <2>3
<1> QED BY <1>2, <1>4, <1>5 DEF EachOK

LEMMA SendCInv ==
  ASSUME CInv, NEW c \in Invocation, Send(c)
  PROVE  CInv'
<1> USE DEF CInv
<1> DEFINE o == First(todo[c])
           p == send_packet(argv[c], o)
<1>1. /\ phase[c] = "sending" /\ todo[c] # {}
      /\ requests' = [requests EXCEPT ![c] = Append(@, p)]
      /\ \/ /\ o \in {"s", "j"}
            /\ phase' = [phase EXCEPT ![c] = "reading"]
            /\ fresh' = [fresh EXCEPT ![c] = {Status(mngr)}]
            /\ UNCHANGED todo
         \/ /\ o \notin {"s", "j"}
            /\ todo' = [todo EXCEPT ![c] = @ \ {Min(@)}] /\ UNCHANGED <<phase, fresh>>
      /\ shown' = [shown EXCEPT ![c] = << >>]
      /\ UNCHANGED <<mngr, packets, argv, replies, cut, handled, short>>
  BY DEF Send
<1>2. p \in ClientPacket
  <2>1. /\ todo[c] \in SUBSET (1 .. 12) /\ argv[c] \in CommandLines[c] \cup {<< >>}
    BY DEF Shaped
  <2>2. o \in Option
    BY <1>1, <2>1, FirstFlag
  <2> QED BY <2>1, <2>2, SendType, Zenon
<1> HIDE DEF p
<1>3. Append(requests[c], p) \in Seq(ClientPacket)
  BY <1>2, AppendAsks DEF Shaped
<1>4. Shaped'
  BY <1>1, <1>3 DEF Shaped
<1>5. ASSUME NEW d \in Invocation
      PROVE  ClientOK(mngr.up, Status(mngr), argv[d], todo'[d], phase'[d], requests'[d],
                      replies[d], handled[d], fresh'[d], short[d])
  <2>1. /\ ClientOK(mngr.up, Status(mngr), argv[d], todo[d], phase[d], requests[d],
                    replies[d], handled[d], fresh[d], short[d])
        /\ Types(mngr.up, todo[d], requests[d], replies[d], handled[d], short[d])
    BY DEF EachOK, Shaped, Types, Inv, State
  <2>2. CASE d = c /\ o \in {"s", "j"}
    <3>1. /\ todo'[d] = todo[d] /\ phase'[d] = "reading" /\ fresh'[d] = {Status(mngr)}
          /\ requests'[d] = Append(requests[d], send_packet(argv[d], First(todo[d])))
      BY <1>1, <2>2 DEF Shaped, p
    <3>2. ClientOK(mngr.up, Status(mngr), argv[d], todo[d], "sending", requests[d],
                   replies[d], handled[d], fresh[d], short[d])
      BY <1>1, <2>1, <2>2, Zenon
    <3>3. /\ todo[d] # {} /\ First(todo[d]) \in {"s", "j"}
          /\ send_packet(argv[d], First(todo[d])) \in ClientPacket
      BY <1>1, <1>2, <2>2, Zenon DEF p
    <3>4. ClientOK(mngr.up, Status(mngr), argv[d], todo[d], "reading",
                   Append(requests[d], send_packet(argv[d], First(todo[d]))),
                   replies[d], handled[d], {Status(mngr)}, short[d])
      BY <2>1, <3>2, <3>3, ListingSent
    <3> QED BY <3>1, <3>4, Zenon
  <2>3. CASE d = c /\ o \notin {"s", "j"}
    <3>1. /\ todo'[d] = todo[d] \ {Min(todo[d])} /\ phase'[d] = "sending"
          /\ fresh'[d] = fresh[d]
          /\ requests'[d] = Append(requests[d], send_packet(argv[d], First(todo[d])))
      BY <1>1, <2>3 DEF Shaped, p
    <3>2. ClientOK(mngr.up, Status(mngr), argv[d], todo[d], "sending", requests[d],
                   replies[d], handled[d], fresh[d], short[d])
      BY <1>1, <2>1, <2>3, Zenon
    <3>3. /\ todo[d] # {} /\ First(todo[d]) \notin {"s", "j"}
          /\ send_packet(argv[d], First(todo[d])) \in ClientPacket
      BY <1>1, <1>2, <2>3, Zenon DEF p
    <3>4. ClientOK(mngr.up, Status(mngr), argv[d], todo[d] \ {Min(todo[d])}, "sending",
                   Append(requests[d], send_packet(argv[d], First(todo[d]))),
                   replies[d], handled[d], fresh[d], short[d])
      BY <2>1, <3>2, <3>3, PlainSent
    <3> QED BY <3>1, <3>4, Zenon
  <2>4. CASE d # c
    BY <1>1, <2>1, <2>4 DEF Shaped
  <2> QED BY <2>2, <2>3, <2>4
<1> QED BY <1>1, <1>4, <1>5 DEF EachOK

LEMMA EndCInv ==
  ASSUME CInv, NEW c \in Invocation, End(c)
  PROVE  CInv'
<1> USE DEF CInv
<1>1. /\ \/ phase[c] = "sending" /\ (todo[c] = {} \/ ~mngr.up)
         \/ phase[c] = "reading" /\ replies[c] = << >> /\ ~mngr.up
      /\ phase' = [phase EXCEPT ![c] = "ended"]
      /\ fresh' = [fresh EXCEPT ![c] = {}] /\ shown' = [shown EXCEPT ![c] = << >>]
      /\ UNCHANGED <<mngr, packets, argv, todo, requests, replies, cut, handled, short>>
  BY DEF End
<1>2. Shaped'
  BY <1>1 DEF Shaped
<1>3. ASSUME NEW d \in Invocation
      PROVE  ClientOK(mngr.up, Status(mngr), argv[d], todo[d], phase'[d], requests[d],
                      replies[d], handled[d], fresh'[d], short[d])
  <2>1. /\ ClientOK(mngr.up, Status(mngr), argv[d], todo[d], phase[d], requests[d],
                    replies[d], handled[d], fresh[d], short[d])
        /\ Types(mngr.up, todo[d], requests[d], replies[d], handled[d], short[d])
    BY DEF EachOK, Shaped, Types, Inv, State
  <2>2. CASE d = c
    <3>1. phase'[d] = "ended" /\ fresh'[d] = {}
      BY <1>1, <2>2 DEF Shaped
    <3>2. \/ phase[d] = "sending" /\ (todo[d] = {} \/ ~mngr.up)
          \/ phase[d] = "reading" /\ replies[d] = << >> /\ ~mngr.up
      BY <1>1, <2>2, Zenon
    <3>3. ClientOK(mngr.up, Status(mngr), argv[d], todo[d], "ended", requests[d],
                   replies[d], handled[d], {}, short[d])
      BY <2>1, <3>2, Ended
    <3> QED BY <3>1, <3>3, Zenon
  <2>3. CASE d # c
    BY <1>1, <2>1, <2>3 DEF Shaped
  <2> QED BY <2>2, <2>3
<1> QED BY <1>1, <1>2, <1>3 DEF EachOK

LEMMA PrintCInv ==
  ASSUME CInv, NEW c \in Invocation, get_reply(c) \/ get_end_of_file(c)
  PROVE  CInv'
<1> USE DEF CInv
<1>1. PICK n \in 0 .. StatusSize :
        /\ n <= Len(replies[c]) /\ (n = 0 => replies[c] = << >> /\ ~mngr.up)
        /\ PrintListing(c, n)
  <2>1. CASE get_reply(c)
    <3>1. PICK n \in 1 .. StatusSize : n <= Len(replies[c]) /\ PrintListing(c, n)
      BY <2>1 DEF get_reply
    <3>2. n \in 0 .. StatusSize /\ n # 0
      BY SizeFact
    <3> QED BY <3>1, <3>2
  <2>2. CASE get_end_of_file(c)
    <3>1. replies[c] = << >> /\ ~mngr.up /\ PrintListing(c, 0)
      BY <2>2 DEF get_end_of_file
    <3>2. 0 \in 0 .. StatusSize /\ 0 <= Len(<< >>)
      BY SizeFact
    <3> QED BY <3>1, <3>2
  <2> QED BY <2>1, <2>2
<1> DEFINE rest == SubSeq(replies[c], n + 1, Len(replies[c]))
<1>2. /\ phase[c] = "reading" /\ DOMAIN shown' = DOMAIN shown
      /\ replies' = [replies EXCEPT ![c] = rest]
      /\ short' = [short EXCEPT ![c] = @ \/ n < StatusSize]
      /\ todo' = [todo EXCEPT ![c] = @ \ {Min(@)}]
      /\ phase' = [phase EXCEPT ![c] = "sending"]
      /\ fresh' = [fresh EXCEPT ![c] = {}]
      /\ UNCHANGED <<mngr, packets, argv, requests, cut, handled>>
  BY <1>1 DEF PrintListing, RestOfReply
<1>3. ASSUME NEW d \in Invocation
      PROVE  /\ ClientOK(mngr.up, Status(mngr), argv[d], todo[d], phase[d], requests[d],
                         replies[d], handled[d], fresh[d], short[d])
             /\ Types(mngr.up, todo[d], requests[d], replies[d], handled[d], short[d])
  BY DEF EachOK, Shaped, Types, Inv, State
<1>4. /\ rest \in Seq(Cell)
      /\ ClientOK(mngr.up, Status(mngr), argv[c], todo[c] \ {Min(todo[c])}, "sending",
                  requests[c], rest, handled[c], {}, short'[c])
  <2>1. ClientOK(mngr.up, Status(mngr), argv[c], todo[c], "reading", requests[c],
                 replies[c], handled[c], fresh[c], short[c])
    BY <1>2, <1>3, Zenon
  <2>2. Types(mngr.up, todo[c], requests[c], replies[c], handled[c], short[c])
    BY <1>3
  <2>3. /\ n <= Len(replies[c]) /\ (n = 0 => replies[c] = << >> /\ ~mngr.up)
    BY <1>1
  <2>4. short'[c] \in BOOLEAN /\ (~short'[c] => ~short[c] /\ n = StatusSize)
    <3> DEFINE less == n < StatusSize
    <3>1. ~less => n = StatusSize
      BY SizeFact
    <3> HIDE DEF less
    <3>2. short' = [short EXCEPT ![c] = @ \/ less] /\ short \in [Invocation -> BOOLEAN]
      BY <1>2 DEF Shaped, less
    <3>3. short'[c] \in BOOLEAN /\ (short'[c] <=> (short[c] \/ less))
      BY <3>2
    <3> QED BY <3>1, <3>3, Zenon
  <2>5. /\ n \in 0 .. StatusSize /\ rest = SubSeq(replies[c], n + 1, Len(replies[c]))
    OBVIOUS
  <2> HIDE DEF rest
  <2>6. ReceivedRule(mngr.up, Status(mngr), argv[c], todo[c], requests[c], replies[c],
                     handled[c], fresh[c], short[c], n, rest, short'[c])
    BY Received, Zenon
  <2> QED BY <2>1, <2>2, <2>3, <2>4, <2>5, <2>6, Zenon DEF ReceivedRule
<1> HIDE DEF rest
<1>5. (short[c] \/ n < StatusSize) \in BOOLEAN
  OBVIOUS
<1>6. Shaped'
  BY <1>2, <1>4, <1>5 DEF Shaped
<1>7. ASSUME NEW d \in Invocation
      PROVE  ClientOK(mngr.up, Status(mngr), argv[d], todo'[d], phase'[d], requests[d],
                      replies'[d], handled[d], fresh'[d], short'[d])
  <2>1. CASE d = c
    <3>1. /\ todo'[d] = todo[d] \ {Min(todo[d])} /\ phase'[d] = "sending"
          /\ replies'[d] = rest /\ fresh'[d] = {}
      BY <1>2, <2>1 DEF Shaped
    <3> QED BY <1>4, <2>1, <3>1, Zenon
  <2>2. CASE d # c
    <3>1. /\ todo'[d] = todo[d] /\ phase'[d] = phase[d]
          /\ replies'[d] = replies[d] /\ fresh'[d] = fresh[d] /\ short'[d] = short[d]
      BY <1>2, <2>2 DEF Shaped
    <3> QED BY <1>3, <3>1
  <2> QED BY <2>1, <2>2
<1> QED BY <1>2, <1>6, <1>7 DEF EachOK

LEMMA CutCInv ==
  ASSUME CInv, NEW c \in Invocation, Cut(c)
  PROVE  CInv'
<1>1. /\ cut' = [cut EXCEPT ![c] = TRUE]
      /\ UNCHANGED <<mngr, packets, fresh, argv, todo, phase, requests, replies,
                     handled, shown, short>>
  BY DEF Cut
<1> QED BY <1>1 DEF CInv, Shaped, EachOK

LEMMA LoseReplyCInv ==
  ASSUME CInv, NEW c \in Invocation, LoseReply(c)
  PROVE  CInv'
<1> USE DEF CInv
<1>1. /\ ~mngr.up /\ replies' = [replies EXCEPT ![c] = << >>]
      /\ UNCHANGED <<mngr, packets, fresh, argv, todo, phase, requests, cut, handled,
                     shown, short>>
  BY DEF LoseReply
<1>2. << >> \in Seq(Cell) /\ mngr.up = FALSE
  BY <1>1 DEF Shaped, Inv, State
<1>3. Shaped'
  BY <1>1, <1>2 DEF Shaped
<1>4. ASSUME NEW d \in Invocation
      PROVE  ClientOK(mngr.up, Status(mngr), argv[d], todo[d], phase[d], requests[d],
                      replies'[d], handled[d], fresh[d], short[d])
  <2>1. /\ ClientOK(mngr.up, Status(mngr), argv[d], todo[d], phase[d], requests[d],
                    replies[d], handled[d], fresh[d], short[d])
        /\ short[d] \in BOOLEAN
    BY DEF EachOK, Shaped
  <2>2. CASE d = c
    <3>1. replies'[d] = << >>
      BY <1>1, <2>2 DEF Shaped
    <3> QED BY <1>2, <2>1, <3>1, Lost
  <2>3. CASE d # c
    BY <1>1, <2>1, <2>3 DEF Shaped
  <2> QED BY <2>2, <2>3
<1> QED BY <1>1, <1>3, <1>4 DEF EachOK

(* A callback of the daemon that concerns no invocation.                   *)
LEMMA MeanwhileCInv ==
  ASSUME CInv, NEW s, Inv(s), Meanwhile(s), packets' \in 0 .. MaxPackets
  PROVE  CInv'
<1> USE DEF CInv
<1>1. /\ mngr.up /\ mngr' = Sent(s) /\ fresh' = Seen(s)
      /\ UNCHANGED <<argv, todo, phase, requests, replies, cut, handled, shown, short>>
  BY DEF Meanwhile, Callback, connections
<1>2. Inv(mngr') /\ Status(mngr') = Status(s) /\ mngr'.up \in BOOLEAN /\ mngr.up = TRUE
  <2>1. Inv(mngr')
    BY CallbackInv DEF Meanwhile
  <2>2. Status(mngr') = Status(s)
    BY <1>1, SentStatus DEF Inv
  <2>3. mngr'.up \in BOOLEAN /\ mngr.up = TRUE
    BY <1>1, <2>1 DEF Inv, State, Shaped
  <2> QED BY <2>1, <2>2, <2>3
<1>3. DOMAIN fresh' = Invocation
  BY <1>1 DEF Seen
<1>4. Shaped'
  BY <1>1, <1>2, <1>3 DEF Shaped
<1>5. ASSUME NEW d \in Invocation
      PROVE  ClientOK(mngr'.up, Status(mngr'), argv[d], todo[d], phase[d], requests[d],
                      replies[d], handled[d], fresh'[d], short[d])
  <2>1. /\ ClientOK(mngr.up, Status(mngr), argv[d], todo[d], phase[d], requests[d],
                    replies[d], handled[d], fresh[d], short[d])
        /\ short[d] \in BOOLEAN
    BY <1>2 DEF EachOK, Shaped
  <2>2. fresh'[d] = IF phase[d] = "reading" THEN fresh[d] \cup {Status(s)} ELSE {}
    BY <1>1 DEF Seen
  <2>3. /\ fresh'[d] = IF phase[d] = "reading" THEN fresh[d] \cup {Status(mngr')} ELSE {}
        /\ short[d] \in BOOLEAN /\ mngr.up \in BOOLEAN /\ mngr'.up \in BOOLEAN
        /\ mngr'.up => mngr.up
    BY <1>2, <2>1, <2>2
  <2>4. ClientOK(mngr.up, Status(mngr), argv[d], todo[d], phase[d], requests[d],
                    replies[d], handled[d], fresh[d], short[d])
    BY <2>1
  <2>5. GoesOnRule(mngr.up, Status(mngr), argv[d], todo[d], phase[d], requests[d],
                   replies[d], handled[d], fresh[d], short[d], mngr'.up,
                   Status(mngr'), fresh'[d])
    BY GoesOn, Zenon
  <2> QED BY <2>3, <2>4, <2>5, Zenon DEF GoesOnRule
<1> QED BY <1>1, <1>4, <1>5 DEF EachOK

LEMMA HandleCInv ==
  ASSUME CInv, NEW c \in Invocation, Handle(c)
  PROVE  CInv'
<1> USE DEF CInv
<1> DEFINE p == Head(requests[c])
<1>1. PICK f \in Files :
        /\ Callback(handle_client_packet(mngr, p, f))
        /\ fresh' = IF p.type = "GET_STATUS" \/ phase[c] # "reading"
                    THEN Seen(handle_client_packet(mngr, p, f))
                    ELSE [Seen(handle_client_packet(mngr, p, f)) EXCEPT
                            ![c] = {Status(handle_client_packet(mngr, p, f))}]
  BY DEF Handle
<1>2. /\ requests[c] # << >>
      /\ requests' = [requests EXCEPT ![c] = Tail(@)]
      /\ replies' = [replies EXCEPT ![c] = get_status(c, mngr)]
      /\ handled' = [handled EXCEPT ![c] = Append(@, p)]
      /\ UNCHANGED <<packets, argv, todo, phase, cut, shown, short>>
  BY DEF Handle
<1> DEFINE s == handle_client_packet(mngr, p, f)
<1>3. /\ p \in ClientPacket /\ Tail(requests[c]) \in Seq(ClientPacket)
      /\ Append(handled[c], p) \in Seq(ClientPacket)
  <2>1. requests[c] \in Seq(ClientPacket) /\ handled[c] \in Seq(ClientPacket)
    BY DEF Shaped
  <2>2. p \in ClientPacket /\ Tail(requests[c]) \in Seq(ClientPacket)
    BY <1>2, <2>1
  <2> HIDE DEF p
  <2> QED BY <2>1, <2>2
<1>4. Inv(mngr) /\ Inv(s)
  BY <1>3, ClientInv DEF Shaped
<1> HIDE DEF s, p
<1>5. /\ mngr.up = TRUE /\ mngr' = Sent(s) /\ mngr'.up \in BOOLEAN
      /\ Inv(mngr') /\ Status(mngr') = Status(s)
  <2>1. mngr.up = TRUE /\ mngr' = Sent(s)
    BY <1>1, <1>4 DEF Callback, Inv, State, s
  <2>2. Inv(mngr')
    BY <1>1, <1>4, CallbackInv DEF s
  <2>3. Status(mngr') = Status(s)
    BY <1>4, <2>1, SentStatus DEF Inv
  <2> QED BY <2>1, <2>2, <2>3 DEF Inv, State
<1>6. ASSUME NEW d \in Invocation
      PROVE  /\ ClientOK(mngr.up, Status(mngr), argv[d], todo[d], phase[d], requests[d],
                         replies[d], handled[d], fresh[d], short[d])
             /\ Types(mngr.up, todo[d], requests[d], replies[d], handled[d], short[d])
  BY <1>5 DEF EachOK, Shaped, Types
<1>7. /\ DOMAIN fresh' = Invocation
      /\ \A d \in Invocation \ {c} : fresh'[d] =
            IF phase[d] = "reading" THEN fresh[d] \cup {Status(s)} ELSE {}
      /\ fresh'[c] = IF phase[c] # "reading" THEN {}
                     ELSE IF p.type = "GET_STATUS" THEN fresh[c] \cup {Status(s)}
                     ELSE {Status(s)}
  BY <1>1 DEF Seen, s, p
<1>8. replies'[c] = IF p.type = "GET_STATUS" THEN replies[c] \o Status(mngr)
                    ELSE replies[c]
  BY <1>2 DEF Shaped, get_status, p
<1>9. /\ replies'[c] \in Seq(Cell)
      /\ ClientOK(mngr'.up, Status(mngr'), argv[c], todo[c], phase[c], Tail(requests[c]),
                  replies'[c], Append(handled[c], p), fresh'[c], short[c])
  <2>1. Status(mngr) \in Seq(Cell) /\ Len(Status(mngr)) = StatusSize
    BY <1>4, StatusType
  <2>2. /\ ClientOK(mngr.up, Status(mngr), argv[c], todo[c], phase[c], requests[c],
                    replies[c], handled[c], fresh[c], short[c])
        /\ Types(mngr.up, todo[c], requests[c], replies[c], handled[c], short[c])
    BY <1>6
  <2>3. /\ requests[c] # << >> /\ mngr.up = TRUE /\ mngr'.up \in BOOLEAN
        /\ replies'[c] = IF Head(requests[c]).type = "GET_STATUS"
                         THEN replies[c] \o Status(mngr) ELSE replies[c]
        /\ fresh'[c] = IF phase[c] # "reading" THEN {}
                       ELSE IF Head(requests[c]).type = "GET_STATUS"
                       THEN fresh[c] \cup {Status(mngr')} ELSE {Status(mngr')}
    BY <1>2, <1>5, <1>7, <1>8 DEF p
  <2>4. /\ replies'[c] \in Seq(Cell)
        /\ ClientOK(mngr'.up, Status(mngr'), argv[c], todo[c], phase[c],
                    Tail(requests[c]), replies'[c],
                    Append(handled[c], Head(requests[c])), fresh'[c], short[c])
    <3>1. HandledRule(mngr.up, Status(mngr), argv[c], todo[c], phase[c], requests[c],
                      replies[c], handled[c], fresh[c], short[c], mngr'.up,
                      Status(mngr'), replies'[c], fresh'[c])
      BY Handled, Zenon
    <3> QED BY <2>1, <2>2, <2>3, <3>1, Zenon DEF HandledRule
  <2> QED BY <2>4 DEF p
<1>10. Shaped'
  <2>1. replies' \in [Invocation -> Seq(Cell)]
    BY <1>2, <1>9 DEF Shaped
  <2> QED BY <1>2, <1>3, <1>5, <1>7, <2>1 DEF Shaped
<1>11. ASSUME NEW d \in Invocation
       PROVE  ClientOK(mngr'.up, Status(mngr'), argv[d], todo[d], phase[d], requests'[d],
                       replies'[d], handled'[d], fresh'[d], short[d])
  <2>1. CASE d = c
    <3>1. requests'[d] = Tail(requests[d]) /\ handled'[d] = Append(handled[d], p)
      BY <1>2, <2>1 DEF Shaped
    <3> QED BY <1>9, <2>1, <3>1, Zenon
  <2>2. CASE d # c
    <3>1. /\ requests'[d] = requests[d] /\ handled'[d] = handled[d]
          /\ replies'[d] = replies[d]
      BY <1>2, <2>2 DEF Shaped
    <3>2. ClientOK(mngr.up, Status(mngr), argv[d], todo[d], phase[d], requests[d],
                   replies[d], handled[d], fresh[d], short[d]) /\ short[d] \in BOOLEAN
      BY <1>6 DEF Types
    <3>3. /\ fresh'[d] = IF phase[d] = "reading" THEN fresh[d] \cup {Status(mngr')} ELSE {}
          /\ mngr.up \in BOOLEAN /\ mngr'.up \in BOOLEAN /\ (mngr'.up => mngr.up)
      BY <1>5, <1>7, <2>2
    <3>4. ClientOK(mngr'.up, Status(mngr'), argv[d], todo[d], phase[d], requests[d],
                   replies[d], handled[d], fresh'[d], short[d])
      <4>1. GoesOnRule(mngr.up, Status(mngr), argv[d], todo[d], phase[d], requests[d],
                       replies[d], handled[d], fresh[d], short[d], mngr'.up,
                       Status(mngr'), fresh'[d])
        BY GoesOn, Zenon
      <4> QED BY <3>2, <3>3, <4>1 DEF GoesOnRule
    <3> QED BY <3>1, <3>4, Zenon
  <2> QED BY <2>1, <2>2
<1> QED BY <1>2, <1>10, <1>11 DEF EachOK

-----------------------------------------------------------------------------
(* The steps together, and the initial states.                             *)

LEMMA FromStackCInv ==
  ASSUME CInv, FromStack
  PROVE  CInv'
<1>1. PICK p \in StackPackets : Meanwhile(handle_dect_packet(mngr, p))
  BY DEF FromStack
<1>2. packets' \in 0 .. MaxPackets
  BY ClientAssumption DEF FromStack, CInv, Shaped
<1>3. Inv(handle_dect_packet(mngr, p))
  BY PacketTypes, DectPacketInv, ClientAssumption DEF CInv, Shaped
<1> QED BY <1>1, <1>2, <1>3, MeanwhileCInv

LEMMA TimerCInv ==
  ASSUME CInv, Timer
  PROVE  CInv'
<1>1. Inv(mngr) /\ packets' \in 0 .. MaxPackets
  BY DEF Timer, CInv, Shaped
<1>2. CASE mngr.listTimers > 0 /\ Meanwhile(list_expired(mngr))
  BY <1>1, <1>2, ListTimeoutInv, MeanwhileCInv
<1>3. CASE mngr.startTimers > 0 /\ Meanwhile(start_expired(mngr))
  BY <1>1, <1>3, DelayedStartInv, MeanwhileCInv
<1>4. CASE mngr.stopTimers > 0 /\ Meanwhile(stop_expired(mngr))
  BY <1>1, <1>4, StopTimeoutInv, MeanwhileCInv
<1>5. CASE mngr.pingTimers # << >> /\ Meanwhile(ping_expired(mngr))
  BY <1>1, <1>5, PingTimeoutInv, MeanwhileCInv
<1> QED BY <1>2, <1>3, <1>4, <1>5, Zenon DEF Timer

LEMMA NextCInv ==
  ASSUME CInv, [ClientNext]_vars
  PROVE  CInv'
<1>1. CASE UNCHANGED vars
  <2>1. UNCHANGED <<mngr, argv, todo, phase, requests, replies, cut, packets, handled,
                    shown, short, fresh>>
    BY <1>1 DEF vars, connections
  <2> QED BY <2>1 DEF CInv, Shaped, EachOK
<1>2. CASE FromStack
  BY <1>2, FromStackCInv
<1>3. CASE Timer
  BY <1>3, TimerCInv
<1>4. ASSUME NEW c \in Invocation, Main(c) \/ Handle(c) \/ Cut(c) \/ LoseReply(c)
      PROVE  CInv'
  <2>1. CASE Connect(c)
    BY <2>1, ConnectCInv
  <2>2. CASE Send(c)
    BY <2>2, SendCInv
  <2>3. CASE End(c)
    BY <2>3, EndCInv
  <2>4. CASE get_reply(c) \/ get_end_of_file(c)
    BY <2>4, PrintCInv
  <2>5. CASE Handle(c)
    BY <2>5, HandleCInv
  <2>6. CASE Cut(c)
    BY <2>6, CutCInv
  <2>7. CASE LoseReply(c)
    BY <2>7, LoseReplyCInv
  <2> QED BY <1>4, <2>1, <2>2, <2>3, <2>4, <2>5, <2>6, <2>7, Zenon DEF Main
<1> QED BY <1>1, <1>2, <1>3, <1>4, Zenon DEF ClientNext

LEMMA BootInv == Inv(init_status(ENABLED_))
<1>1. [h \in Handset |-> [registered |-> FALSE, present |-> FALSE,
                          pinging |-> FALSE, ipui |-> NoIpui]]
        \in [Handset -> Hset]
  BY DEF Hset
<1>2. << >> \in Seq(Handset) /\ << >> \in Seq(Request)
  OBVIOUS
<1>3. init_status(ENABLED_) \in State
  BY <1>1, <1>2 DEF init_status, State
<1>4. /\ Armed(init_status(ENABLED_)) /\ Pinged(init_status(ENABLED_))
      /\ Lit(init_status(ENABLED_)) /\ Gated(init_status(ENABLED_))
  BY DEF init_status, Armed, Pinged, Lit, Gated
<1> QED BY <1>3, <1>4 DEF Inv

LEMMA AfterPacketInv ==
  ASSUME NEW s, Inv(s), NEW p, PacketOK(p)
  PROVE  Inv(AfterPacket(s, p))
<1>1. Inv(handle_dect_packet(s, p))
  BY DectPacketInv
<1> QED BY <1>1, SentQuiet, QuietInv DEF AfterPacket, Inv

(* The replies to the requests of INIT lead to a state of the invariant.   *)
LEMMA StartedInv ==
  ASSUME NEW ids \in Seq(Nat), ids # << >>
  PROVE  Inv(Started(ids))
<1>1. /\ PacketOK(Packet("LINUX_INIT_CFM", 0)) /\ PacketOK(Packet("CC_FEATURES_CFM", 0))
      /\ PacketOK(Packet("HANDSET_PRESENT_IND", ids[1])) /\ PacketOK(Listed(ids))
  <2>1. << >> \in Seq(Nat) /\ ids[1] \in Nat
    OBVIOUS
  <2> QED BY <2>1 DEF PacketOK, Packet, Listed, Prims
<1> DEFINE initialised == AfterPacket(init_status(ENABLED_), Packet("LINUX_INIT_CFM", 0))
           asking == AfterPacket(initialised, Packet("CC_FEATURES_CFM", 0))
           listed == AfterPacket(asking, Listed(ids))
<1>2. Inv(initialised)
  BY <1>1, BootInv, AfterPacketInv
<1> HIDE DEF initialised
<1>3. Inv(asking)
  BY <1>1, <1>2, AfterPacketInv
<1> HIDE DEF asking
<1>4. Inv(listed)
  BY <1>1, <1>3, AfterPacketInv
<1> HIDE DEF listed
<1>5. Inv(AfterPacket(listed, Packet("HANDSET_PRESENT_IND", ids[1])))
  BY <1>1, <1>4, AfterPacketInv
<1> QED BY <1>5 DEF Started, initialised, asking, listed

(* An invocation that has not started satisfies the invariant.             *)
LEMMA NotStarted ==
  ASSUME NEW up, NEW st
  PROVE  ClientOK(up, st, << >>, {}, "new", << >>, << >>, << >>, {}, FALSE)
<1>1. Flags(<< >>) = {} /\ {} \ {} = {} /\ NoneAsks(<< >>)
  BY DEF Flags, Places, NoneAsks
<1>2. Cardinality({}) = 0 /\ Len(<< >>) = 0 /\ DOMAIN << >> = {} /\ 0 + 0 = 0
  BY FS_EmptySet
<1>3. ArgsOK(<< >>, {}, "new")
  BY DEF ArgsOK
<1>4. NewOK(<< >>, {}, "new", << >>, << >>, << >>)
  BY DEF NewOK
<1>5. RoomOK(up, {}, "new", << >>, << >>)
  BY <1>1, <1>2, SizeFact DEF RoomOK
<1>6. FreshOK(up, "new", << >>, << >>, {}, FALSE, st)
  BY <1>1 DEF FreshOK
<1>7. MeansOK(up, << >>, {}, "new", << >>, << >>)
  BY <1>1, <1>2 DEF MeansOK
<1> QED BY <1>3, <1>4, <1>5, <1>6, <1>7 DEF ClientOK

LEMMA InitCInv ==
  ASSUME ClientInit
  PROVE  CInv
<1>1. PICK ids \in IdLists : ids # << >> /\ mngr = Started(ids)
  BY DEF ClientInit
<1>2. Inv(mngr)
  <2>1. ids \in Seq(Nat)
    BY MngrAssumption
  <2> QED BY <1>1, <2>1, StartedInv
<1>3. /\ packets = 0
      /\ argv = [c \in Invocation |-> << >>] /\ todo = [c \in Invocation |-> {}]
      /\ phase = [c \in Invocation |-> "new"]
      /\ requests = [c \in Invocation |-> << >>]
      /\ replies = [c \in Invocation |-> << >>]
      /\ cut = [c \in Invocation |-> FALSE]
      /\ handled = [c \in Invocation |-> << >>]
      /\ shown = [c \in Invocation |-> << >>]
      /\ short = [c \in Invocation |-> FALSE]
      /\ fresh = [c \in Invocation |-> {}]
  BY DEF ClientInit
<1>4. /\ << >> \in CommandLine /\ << >> \in Seq(ClientPacket) /\ << >> \in Seq(Cell)
      /\ {} \in SUBSET (1 .. 12) /\ 0 \in 0 .. MaxPackets
  BY ClientAssumption DEF CommandLine
<1>5. Shaped
  BY <1>2, <1>3, <1>4 DEF Shaped
<1>6. EachOK
  <2> SUFFICES ASSUME NEW c \in Invocation
               PROVE  ClientOK(mngr.up, Status(mngr), argv[c], todo[c], phase[c],
                               requests[c], replies[c], handled[c], fresh[c], short[c])
    BY DEF EachOK
  <2>1. /\ argv[c] = << >> /\ todo[c] = {} /\ phase[c] = "new" /\ requests[c] = << >>
        /\ replies[c] = << >> /\ handled[c] = << >> /\ fresh[c] = {} /\ short[c] = FALSE
    BY <1>3
  <2>2. ClientOK(mngr.up, Status(mngr), << >>, {}, "new", << >>, << >>, << >>, {}, FALSE)
    BY NotStarted
  <2> QED BY <2>1, <2>2, Zenon
<1> QED BY <1>5, <1>6 DEF CInv

(* Every state of the clients and the daemon satisfies the invariant.      *)
THEOREM ClientInvariance == ClientSpec => []CInv
BY InitCInv, NextCInv, PTL DEF ClientSpec

-----------------------------------------------------------------------------
(* The properties.                                                         *)

(* The client and the daemon keep their types, and what the daemon has     *)
(* sent to an invocation never grows to two statuses.                      *)
THEOREM ClientTypeCorrect == ClientSpec => []ClientTypeOK
<1>1. CInv => ClientTypeOK
  <2> SUFFICES ASSUME CInv
               PROVE  ClientTypeOK
    OBVIOUS
  <2>1. /\ TypeOK /\ packets \in 0 .. MaxPackets
        /\ cut \in [Invocation -> BOOLEAN] /\ short \in [Invocation -> BOOLEAN]
    BY DEF CInv, Shaped, Inv, TypeOK
  <2>2. ASSUME NEW c \in Invocation
        PROVE  /\ argv[c] \in CommandLines[c] \cup {<< >>}
               /\ phase[c] \in {"new", "sending", "reading", "ended"}
               /\ \A i \in DOMAIN requests[c] : requests[c][i] \in ClientPacket
               /\ Len(replies[c]) < 2 * StatusSize
               /\ todo[c] \subseteq DOMAIN MainOrder
               /\ phase[c] = "reading" => todo[c] # {}
    <3>1. /\ argv[c] \in CommandLines[c] \cup {<< >>}
          /\ phase[c] \in {"new", "sending", "reading", "ended"}
          /\ todo[c] \subseteq DOMAIN MainOrder
          /\ requests[c] \in Seq(ClientPacket)
      BY OrderFacts DEF CInv, Shaped
    <3>2. ClientOK(mngr.up, Status(mngr), argv[c], todo[c], phase[c], requests[c],
                   replies[c], handled[c], fresh[c], short[c])
      BY DEF CInv, EachOK
    <3>3. Len(replies[c]) < 2 * StatusSize /\ (phase[c] = "reading" => todo[c] # {})
      BY <3>2, Zenon DEF ClientOK, RoomOK, ArgsOK
    <3>4. \A i \in DOMAIN requests[c] : requests[c][i] \in ClientPacket
      BY <3>1
    <3> QED BY <3>1, <3>3, <3>4
  <2> QED BY <2>1, <2>2 DEF ClientTypeOK
<1> QED BY <1>1, ClientInvariance, PTL

(* A listing made of a whole status shows it.                              *)
LEMMA ListingShows ==
  ASSUME NEW o \in {"s", "j"}, NEW buf
  PROVE  Shows(Listing(o, buf), o, buf)
<1> DEFINE l == Listing(o, buf)
           Left(h) == o = "j" /\ h > MaxNrPhones /\ h > MaxNrHandsets - MaxNrPhones
           hs == {h \in Handset : ~Left(h)}
           listed == IF o = "s" THEN l.handsets ELSE l.handsets \cup l.ule
<1>1. /\ MaxNrPhones \in Nat /\ MaxNrHandsets \in Nat /\ MaxNrPhones <= MaxNrHandsets
      /\ MaxNrPhones >= 1 /\ Handset = 1 .. MaxNrHandsets
  BY MngrAssumption, ClientAssumption DEF Handset
<1>2. listed = Entries(buf, hs)
  <2>1. CASE o = "s"
    <3>1. listed = Entries(buf, Handset)
      BY <2>1 DEF Listing, status_packet
    <3>2. hs = Handset
      BY <2>1
    <3> QED BY <3>1, <3>2
  <2>2. CASE o = "j"
    <3>1. listed = Entries(buf, 1 .. MaxNrPhones)
                     \cup Entries(buf, MaxNrPhones + 1 .. MaxNrHandsets - MaxNrPhones)
      BY <2>2 DEF Listing, status_packet_json
    <3>2. hs = (1 .. MaxNrPhones) \cup (MaxNrPhones + 1 .. MaxNrHandsets - MaxNrPhones)
      BY <1>1, <2>2
    <3>3. \A a, b : Entries(buf, a) \cup Entries(buf, b) = Entries(buf, a \cup b)
      BY Zenon DEF Entries
    <3> HIDE DEF hs, listed
    <3> QED BY <3>1, <3>2, <3>3
  <2> QED BY <2>1, <2>2
<1>3. hs \subseteq Handset
  OBVIOUS
<1> HIDE DEF hs, listed
<1>4. \A h : /\ Entry(buf, h).handset = h
             /\ Entry(buf, h).present = buf[h + 1].present
             /\ Entry(buf, h).pinging = buf[h + 1].pinging
             /\ Entry(buf, h).ipui = buf[h + 1].ipui
  BY DEF Entry
<1>5. {e.handset : e \in listed} = {h \in hs : buf[h + 1].registered}
  BY <1>2, <1>4 DEF Entries
<1>6. {e.handset : e \in listed} =
        {h \in Handset : buf[h + 1].registered /\ ~Left(h)}
  BY <1>5 DEF hs
<1>7. \A e \in listed : /\ e.present = buf[e.handset + 1].present
                        /\ e.pinging = buf[e.handset + 1].pinging
                        /\ e.ipui = buf[e.handset + 1].ipui
  <2>1. \A e \in listed : \E h \in hs : e = Entry(buf, h)
    BY <1>2 DEF Entries
  <2> TAKE e \in listed
  <2>2. PICK h \in hs : e = Entry(buf, h)
    BY <2>1, Zenon
  <2>3. e.handset = h
    BY <2>2, <1>4, Zenon
  <2>4. /\ e.present = buf[h + 1].present /\ e.pinging = buf[h + 1].pinging
        /\ e.ipui = buf[h + 1].ipui
    BY <2>2, <1>4, Zenon
  <2> QED BY <2>3, <2>4, Zenon
<1>8. o = "s" => /\ l.radio = buf[1].radio
                 /\ (l.reg_state = ENABLED_) = (buf[1].reg_mode = ENABLED_)
  BY DEF Listing, status_packet
<1>9. o = "j" => /\ l.radio_active = (buf[1].radio = ENABLED_)
                 /\ l.reg_active = (buf[1].reg_mode = ENABLED_)
  BY DEF Listing, status_packet_json
<1> QED BY <1>6, <1>7, <1>8, <1>9, Zenon DEF Shows, listed

(* A listing shows one status the daemon really had after it had handled   *)
(* everything the invocation asked for before, unless the one recv of      *)
(* get_reply (dect.c:231-244) came short, now or before.                   *)
THEOREM ListingsAreFresh == ClientSpec => ListingIsFresh
<1>1. ASSUME CInv, [ClientNext]_vars, NEW c \in Invocation,
             shown[c] = << >>, shown'[c] # << >>, ~short'[c]
      PROVE  \E st \in fresh[c] : Shows(Head(shown'[c]), First(todo[c]), st)
  <2>1. PICK n \in 0 .. StatusSize : PrintListing(c, n) /\ n <= Len(replies[c])
    <3>1. \A d \in Invocation : ~Connect(d) /\ ~Handle(d) /\ ~Cut(d) /\ ~LoseReply(d)
      <4>1. DOMAIN shown = Invocation
        BY <1>1 DEF CInv, Shaped
      <4>2. shown' # shown
        BY <1>1
      <4> QED BY <4>2 DEF Connect, Handle, Cut, LoseReply
    <3>2. ~FromStack /\ ~Timer /\ ~UNCHANGED vars
      BY <1>1 DEF FromStack, Timer, Meanwhile, vars, connections
    <3>3. PICK d \in Invocation : Send(d) \/ End(d) \/ get_reply(d) \/ get_end_of_file(d)
      BY <1>1, <3>1, <3>2, Zenon DEF ClientNext, Main
    <3>4. ~Send(d) /\ ~End(d)
      BY <1>1 DEF Send, End, CInv, Shaped
    <3>5. PICK n \in 0 .. StatusSize : PrintListing(d, n) /\ n <= Len(replies[d])
      <4>1. CASE get_reply(d)
        <5>1. \A n \in 1 .. StatusSize : n \in 0 .. StatusSize
          BY SizeFact
        <5> QED BY <4>1, <5>1 DEF get_reply
      <4>2. CASE get_end_of_file(d)
        <5>1. 0 \in 0 .. StatusSize /\ 0 <= Len(<< >>)
          BY SizeFact
        <5> QED BY <4>2, <5>1 DEF get_end_of_file
      <4> QED BY <3>3, <3>4, <4>1, <4>2
    <3>6. d = c
      BY <1>1, <3>5 DEF PrintListing, CInv, Shaped
    <3> QED BY <3>5, <3>6
  <2>2. /\ ClientOK(mngr.up, Status(mngr), argv[c], todo[c], phase[c], requests[c],
                    replies[c], handled[c], fresh[c], short[c])
        /\ replies[c] \in Seq(Cell) /\ short \in [Invocation -> BOOLEAN]
        /\ todo[c] \in SUBSET (1 .. 12)
    BY <1>1 DEF CInv, EachOK, Shaped
  <2>3. n = StatusSize /\ ~short[c]
    <3> DEFINE less == n < StatusSize
    <3>1. ~less => n = StatusSize
      BY SizeFact
    <3> HIDE DEF less
    <3>2. short' = [short EXCEPT ![c] = @ \/ less]
      BY <2>1 DEF PrintListing, less
    <3>3. short'[c] <=> (short[c] \/ less)
      BY <2>2, <3>2
    <3> QED BY <1>1, <3>1, <3>3, Zenon
  <2>4. /\ phase[c] = "reading" /\ Len(replies[c]) = StatusSize
        /\ replies[c] \in fresh[c]
    <3>1. replies[c] # << >>
      BY <2>1, <2>2, <2>3, SizeFact
    <3> QED BY <2>2, <2>3, <3>1, Zenon DEF ClientOK, FreshOK
  <2>5. First(todo[c]) \in {"s", "j"}
    <3>1. todo[c] # {} /\ Min(todo[c]) \in {7, 8}
      BY <2>2, <2>4 DEF ClientOK, ArgsOK
    <3> QED BY <2>2, <3>1, FirstFlag
  <2>6. shown'[c] = <<Listing(First(todo[c]), replies[c])>>
    <3>1. PICK m \in Memory :
            shown' = [shown EXCEPT ![c] =
              <<Listing(First(todo[c]),
                        SubSeq(replies[c], 1, IF Len(replies[c]) % StatusSize = 0 THEN n ELSE 0)
                          \o SubSeq(m, (IF Len(replies[c]) % StatusSize = 0 THEN n ELSE 0) + 1,
                                    StatusSize))>>]
      BY <2>1, Zenon DEF PrintListing
    <3>2. Len(replies[c]) % StatusSize = 0
      BY <2>4, SizeFact
    <3>3. SubSeq(replies[c], 1, StatusSize) = replies[c]
      BY <2>2, <2>4
    <3>4. SubSeq(m, StatusSize + 1, StatusSize) = << >>
      BY SizeFact
    <3>5. replies[c] \o << >> = replies[c]
      BY <2>2
    <3>6. shown' = [shown EXCEPT ![c] = <<Listing(First(todo[c]), replies[c])>>]
      BY <2>3, <3>1, <3>2, <3>3, <3>4, <3>5
    <3> QED BY <1>1, <3>6 DEF CInv, Shaped
  <2>7. Head(shown'[c]) = Listing(First(todo[c]), replies[c])
    BY <2>6
  <2>8. Shows(Listing(First(todo[c]), replies[c]), First(todo[c]), replies[c])
    BY <2>5, ListingShows
  <2> QED BY <2>4, <2>7, <2>8, Zenon
<1>2. CInv /\ [ClientNext]_vars =>
        (\A c \in Invocation :
           shown[c] = << >> /\ shown'[c] # << >> /\ ~short'[c] =>
             \E st \in fresh[c] : Shows(Head(shown'[c]), First(todo[c]), st))
  BY <1>1
<1> QED BY <1>2, ClientInvariance, PTL DEF ClientSpec, ListingIsFresh

(* As many options as flags.                                               *)
LEMMA FlagCount ==
  ASSUME NEW args
  PROVE  Cardinality({o \in Option : Places(args, {o}) # {}}) =
           Cardinality(Flags(args))
<1> DEFINE S == Flags(args)
           T == {o \in Option : Places(args, {o}) # {}}
           f == [i \in S |-> MainOrder[i]]
<1>1. S = {i \in 1 .. 12 : Places(args, {MainOrder[i]}) # {}}
  BY OrderFacts DEF Flags
<1>2. f \in [S -> T] /\ \A i \in S : f[i] = MainOrder[i]
  BY <1>1, OrderFacts
<1>3. \A i, j \in S : f[i] = f[j] => i = j
  BY <1>1, OrderFacts
<1>4. \A o \in T : \E i \in S : f[i] = o
  <2> TAKE o \in T
  <2>1. PICK i \in 1 .. 12 : MainOrder[i] = o
    BY OrderFacts
  <2>2. i \in S
    BY <1>1, <2>1
  <2> QED BY <2>1, <2>2
<1> HIDE DEF S, T, f
<1>5. f \in Bijection(S, T)
  BY <1>2, <1>3, <1>4 DEF Bijection, Injection, Surjection, IsInjective
<1>6. IsFiniteSet(S)
  <2>1. S \ {} = S /\ {} \in SUBSET S
    OBVIOUS
  <2> QED BY <2>1, FlagFacts DEF S
<1>7. ExistsBijection(S, T)
  BY <1>5 DEF ExistsBijection
<1>8. Cardinality(T) = Cardinality(S)
  BY <1>6, <1>7, FS_Bijection, Zenon
<1> QED BY <1>8 DEF S, T

(* What is sent for an option that is set means what the user gave.        *)
LEMMA SentMeans ==
  ASSUME NEW args \in CommandLine, Unambiguous(args),
         NEW o \in Option, Places(args, {o}) # {}
  PROVE  send_packet(args, o) =
           [type |-> PacketType[o],
            data |-> IF o \in {"d", "p", "z", "x", "b"}
                     THEN args[Max(Places(args, {o}))].arg ELSE 0]
<1> DEFINE n == args[Max(Places(args, {o}))].arg
<1>1. n \in 0 .. 255
  <2>1. Max(Places(args, {o})) \in DOMAIN args /\ DOMAIN args = 1 .. Len(args)
    <3>1. Max(Places(args, {o})) \in DOMAIN args
      BY PlaceFacts, Zenon
    <3>2. DOMAIN args = 1 .. Len(args)
      BY DEF CommandLine
    <3> QED BY <3>1, <3>2
  <2>2. args[Max(Places(args, {o}))] \in [opt : Option, arg : Nat]
    BY <2>1, ElementOfSeq, Zenon DEF CommandLine
  <2>3. n < 256
    BY <2>1 DEF Unambiguous
  <2> QED BY <2>2, <2>3
<1>2. LastArg(args, {o}) = n
  BY Zenon DEF LastArg
<1>3. \A a, b : Places(args, {a, b}) = Places(args, {a}) \cup Places(args, {b})
  BY DEF Places
<1>4. o \in {"d", "p"} => LastArg(args, {"d", "p"}) = n
  <2>1. o \in {"d", "p"} => Places(args, {"d", "p"}) = Places(args, {o})
    <3>1. Places(args, {"d"}) = {} \/ Places(args, {"p"}) = {}
      BY Zenon DEF Unambiguous
    <3>2. Places(args, {"d", "p"}) = Places(args, {"d"}) \cup Places(args, {"p"})
      BY <1>3
    <3>3. CASE o = "d"
      BY <3>1, <3>2, <3>3
    <3>4. CASE o = "p"
      BY <3>1, <3>2, <3>4
    <3> QED BY <3>3, <3>4
  <2> QED BY <1>2, <2>1, Zenon DEF LastArg
<1>5. o \in {"z", "x"} => LastArg(args, {"z", "x"}) = n
  <2>1. o \in {"z", "x"} => Places(args, {"z", "x"}) = Places(args, {o})
    <3>1. Places(args, {"z"}) = {} \/ Places(args, {"x"}) = {}
      BY Zenon DEF Unambiguous
    <3>2. Places(args, {"z", "x"}) = Places(args, {"z"}) \cup Places(args, {"x"})
      BY <1>3
    <3>3. CASE o = "z"
      BY <3>1, <3>2, <3>3
    <3>4. CASE o = "x"
      BY <3>1, <3>2, <3>4
    <3> QED BY <3>3, <3>4
  <2> QED BY <1>2, <2>1, Zenon DEF LastArg
<1> HIDE DEF n
<1>6. n % 256 = n /\ 0 % 256 = 0
  BY <1>1
<1>7. Argument(args, o) = IF o \in {"d", "p", "z", "x", "b"} THEN n ELSE 0
  BY <1>2, <1>4, <1>5 DEF Argument
<1>8. Argument(args, o) % 256 = IF o \in {"d", "p", "z", "x", "b"} THEN n ELSE 0
  BY <1>6, <1>7
<1> QED BY <1>8 DEF send_packet, n

(* What the daemon handles is what the user asked for: with options that   *)
(* share no variable of main (dect.c:322-372) and numbers of one byte,     *)
(* whatever is handled for an invocation stands for one of its options,    *)
(* and by its end as many were handled as it has options.                  *)
THEOREM RequestsAreMeant == ClientSpec => []RequestsMeanOptions
<1>1. CInv => RequestsMeanOptions
  <2> SUFFICES ASSUME CInv, NEW c \in Invocation, Unambiguous(argv[c])
               PROVE  LET Asked(o) == Places(argv[c], {o}) # {}
                          Meant(o) == [type |-> PacketType[o],
                                       data |-> IF o \in {"d", "p", "z", "x", "b"}
                                                THEN argv[c][Max(Places(argv[c], {o}))].arg
                                                ELSE 0]
                          options  == {o \in DOMAIN PacketType : Asked(o)}
                      IN /\ \A i \in DOMAIN handled[c] :
                              \E o \in options : handled[c][i] = Meant(o)
                         /\ phase[c] = "ended" /\ requests[c] = << >> /\ mngr.up =>
                              Len(handled[c]) = Cardinality(options)
    BY DEF RequestsMeanOptions
  <2> DEFINE args == argv[c]
             Meant(o) == [type |-> PacketType[o],
                          data |-> IF o \in {"d", "p", "z", "x", "b"}
                                   THEN args[Max(Places(args, {o}))].arg ELSE 0]
             options  == {o \in Option : Places(args, {o}) # {}}
  <2>1. /\ args \in CommandLine
        /\ requests[c] \in Seq(ClientPacket) /\ handled[c] \in Seq(ClientPacket)
        /\ MeansOK(mngr.up, args, todo[c], phase[c], requests[c], handled[c])
    BY Zenon DEF CInv, Shaped, EachOK, ClientOK
  <2>2. \A f \in Flags(args) : MainOrder[f] \in options
    BY OrderFacts DEF Flags
  <2>3. \A o \in options : send_packet(args, o) = Meant(o)
    BY <2>1, SentMeans
  <2>4. \A i \in DOMAIN handled[c] : \E o \in options : handled[c][i] = Meant(o)
    <3>1. \A i \in DOMAIN handled[c] :
            \E f \in Flags(args) : handled[c][i] = send_packet(args, MainOrder[f])
      BY <2>1, Zenon DEF MeansOK
    <3> HIDE DEF options, args, Meant
    <3> TAKE i \in DOMAIN handled[c]
    <3>2. PICK f \in Flags(args) : handled[c][i] = send_packet(args, MainOrder[f])
      BY <3>1, Zenon
    <3>3. handled[c][i] = Meant(MainOrder[f]) /\ MainOrder[f] \in options
      BY <2>2, <2>3, <3>2, Zenon
    <3> QED BY <3>3, Zenon
  <2>5. phase[c] = "ended" /\ requests[c] = << >> /\ mngr.up =>
          Len(handled[c]) = Cardinality(options)
    <3>1. Cardinality(options) = Cardinality(Flags(args))
      BY FlagCount, Zenon
    <3> SUFFICES ASSUME phase[c] = "ended", requests[c] = << >>, mngr.up
                 PROVE  Len(handled[c]) = Cardinality(options)
      OBVIOUS
    <3>2. todo[c] = {} /\ Flags(args) \ {} = Flags(args)
      BY <2>1, Zenon DEF MeansOK
    <3>3. Len(handled[c]) + Len(requests[c]) = Cardinality(Flags(args) \ todo[c]) + 0
      BY <2>1 DEF MeansOK
    <3>4. Len(requests[c]) = 0 /\ Len(handled[c]) \in Nat
      BY <2>1
    <3>5. Cardinality(Flags(args)) \in Nat
      <4>1. {} \in SUBSET Flags(args)
        OBVIOUS
      <4> QED BY <4>1, <3>2, FlagFacts
    <3> HIDE DEF options, args
    <3> QED BY <3>1, <3>2, <3>3, <3>4, <3>5
  <2> QED BY <2>4, <2>5, Zenon DEF Option
<1> QED BY <1>1, ClientInvariance, PTL
=============================================================================
