------------------------- MODULE BinaryServerProofs -------------------------
(***************************************************************************)
(* For any clients, packets, segments and crashes: the types of            *)
(* BinaryServer, and its three invariants.  ServerInv follows each client  *)
(* that did not pause within a packet: what is unread of it is what        *)
(* follows the tokens it was read for, so that a header is read where one  *)
(* stands, and the one buffer holds its records while they are written.    *)
(***************************************************************************)
EXTENDS BinaryServer, FiniteSetTheorems, SequenceTheorems, WellFoundedInduction, TLAPS

HeadTokens == [head : 0 .. BufferSize]
RecTokens  == [rec : Records]
AllTokens  == HeadTokens \cup RecTokens

Stream(c)   == sock[c] \o wire[c]
TokensOf(c) == [k \in DOMAIN Packets[c] |-> Tokens(Packets[c][k])]

(* The handling of an event, and that of a packet that was accepted.       *)
Handling == pc \in {"head", "body", "refuse", "write", "close"}
Handled(c) == Handling /\ c = iSocket
Busy(c)    == pc \in {"body", "write"} /\ c = iSocket
Lost(c)    == conn[c] = "closed" \/ (pc \in {"refuse", "close"} /\ c = iSocket)
Answered(c) == Len(replies[c])
Current(c)  == Packets[c][Answered(c) + 1]

(* how many tokens were read since the packets that were answered          *)
Taken(c) == IF ~Busy(c) THEN 0 ELSE IF pc = "body" THEN iNum + 1 ELSE iTotal + 1

NoRepeats(s) == \A i, j \in DOMAIN s : s[i] = s[j] => i = j

QueueInv ==
  /\ NoRepeats(ready) /\ NoRepeats(batch)
  /\ Handling \/ pc = "save" => conn[iSocket] = "open" /\ ~Contains(batch, iSocket)
  /\ pc = "down" => batch = <<>>
  /\ \A c \in Clients : fin[c] => wire[c] = <<>>

Typed ==
  /\ ready \in Seq(Clients) /\ batch \in Seq(Clients)
  /\ sock \in [Clients -> Seq(AllTokens)] /\ wire \in [Clients -> Seq(AllTokens)]
  /\ unsent \in [Clients -> Seq(Seq(Records))]
  /\ log \in [Clients -> Seq(Records \cup {Garbage})]
  /\ replies \in [Clients -> Seq(0 .. BufferSize)]
  /\ reset \subseteq Clients

ClockInv ==
  /\ pc # "down" => CurTime <= g_sMaxTime
  /\ pc \notin {"down", "write", "save"} => CurTime = g_sMaxTime \/ failed
  /\ pc \in {"write", "save"} =>
       /\ sPerMaxTime <= g_sMaxTime /\ CurTime <= sPerMaxTime
       /\ CurTime = sPerMaxTime \/ failed

(* What is unread of a client, str, is what follows the first a tokens of u, *)
(* and all of that unless the client has closed.                             *)
Follows(u, a, str, closed) ==
  /\ a + Len(str) <= Len(u)
  /\ ~closed => a + Len(str) = Len(u)
  /\ \A i \in 1 .. Len(str) : str[i] = u[a + i]

(* It follows t tokens after its first k packets, among those of m packets.  *)
PlacedAt(c, m, k, t, str, closed) ==
  LET T == Joined(TokensOf(c))
  IN  k <= m /\ Follows(T[m], Len(T[k]) + t, str, closed)

Placed(c) == PlacedAt(c, SentBy(c), Answered(c), Taken(c), Stream(c), fin[c])

(* the replies it was sent, and the records written for it                 *)
Written(c) == pc = "write" /\ c = iSocket

Served(c) ==
  /\ replies[c] = [k \in 1 .. Answered(c) |-> Len(Packets[c][k])]
  /\ log[c] = IF Written(c) THEN Joined(Packets[c])[Answered(c)] \o SubSeq(Current(c), 1, iNum)
                            ELSE Joined(Packets[c])[Answered(c)]
  /\ c \in Pipelining \/ SentBy(c) <= Answered(c) + 1

(* the packet that is read, or was read and is written                     *)
Reading(c) ==
  /\ Answered(c) < SentBy(c)
  /\ iTotal = Len(Current(c))
  /\ \A i \in 1 .. (IF pc = "write" THEN iTotal ELSE iNum) : m_psPacket[i] = Current(c)[i]

(* After a pause within a packet the next token is a record, for ever.     *)
Behind(c) ==
  /\ ~(c = iSocket /\ pc = "body")
  /\ IF Stream(c) = <<>> THEN fin[c] ELSE Stream(c)[1] \in RecTokens

Kept(c) ==
  /\ IsPrefix(log[c], Sent(c))
  /\ Told(c) <= Len(log[c])

Awake(c) ==
  c \in Pipelining \/ conn[c] # "open" \/ (sock[c] = <<>> /\ ~fin[c])
    \/ Contains(ready, c) \/ Contains(batch, c) \/ c \in reset \/ Handled(c)

Live(c)     == c \notin paused /\ ~Lost(c)
Followed(c) == Placed(c) /\ Served(c) /\ (Busy(c) => Reading(c))

Body(c) == Live(c) => Followed(c)
Back(c) == c \in paused /\ ~Lost(c) => Behind(c)

Empty(c) == conn[c] \in {"out", "closed"} => sock[c] = <<>> /\ wire[c] = <<>>

ClientInv(c) ==
  /\ Empty(c) /\ Body(c) /\ Back(c)
  /\ c \notin paused => Awake(c)
  /\ c \notin paused /\ Lost(c) => Kept(c)

PauseInv == pc = "refuse" => iSocket \in paused
HeadInv  == pc = "head" => iNum = 0

ServerInv ==
  /\ TypeOK /\ Typed /\ QueueInv /\ ClockInv /\ PauseInv /\ HeadInv
  /\ \A c \in Clients : ClientInv(c)

-----------------------------------------------------------------------------
(* Induction over the numbers of a set.                                    *)
LEMMA SetInduction ==
  ASSUME NEW S, 0 \in S, \A n \in Nat : n \in S => n + 1 \in S
  PROVE  \A n \in Nat : n \in S
<1> DEFINE less == OpToRel(<, Nat)
           out  == Nat \ S
<1> SUFFICES ASSUME out # {} PROVE FALSE
  OBVIOUS
<1>1. IsWellFoundedOn(less, Nat)
  BY NatLessThanWellFounded
<1>2. PICK n \in out : \A m \in out : <<m, n>> \notin less
  <2> out \subseteq Nat
    OBVIOUS
  <2> HIDE DEF less, out
  <2> QED
    BY <1>1, WFMin
<1>3. \A m \in out : ~(m < n)
  BY <1>2 DEF OpToRel
<1>4. n \in Nat /\ n # 0
  BY <1>2
<1>5. n - 1 \notin out /\ n - 1 \in Nat
  BY <1>3, <1>4
<1>6. (n - 1) + 1 = n
  BY <1>4
<1> QED
  BY <1>2, <1>5, <1>6

(* What Joined is: each of its values is the one before, and a sequence.   *)
IsJoined(f, s, m) == f = [n \in 0 .. m |-> IF n = 0 THEN <<>> ELSE f[n - 1] \o s[n]]

LEMMA JoinedLonger ==
  ASSUME NEW s, NEW f, NEW m \in Nat, IsJoined(f, s, m)
  PROVE  \E g : IsJoined(g, s, m + 1)
<1> DEFINE g == [n \in 0 .. m + 1 |-> IF n = m + 1 THEN f[m] \o s[m + 1] ELSE f[n]]
<1>1. \A n \in 0 .. m : f[n] = IF n = 0 THEN <<>> ELSE f[n - 1] \o s[n]
  BY DEF IsJoined
<1>2. ASSUME NEW n \in 0 .. m + 1
      PROVE  g[n] = IF n = 0 THEN <<>> ELSE g[n - 1] \o s[n]
  <2>1. CASE n = m + 1
    <3>1. n # 0 /\ n - 1 = m /\ n - 1 \in 0 .. m + 1 /\ n - 1 # m + 1
      BY <2>1
    <3>2. g[n] = f[m] \o s[m + 1] /\ g[n - 1] = f[m]
      BY <2>1, <3>1
    <3> QED
      BY <2>1, <3>1, <3>2
  <2>2. CASE n # m + 1
    <3>1. n \in 0 .. m /\ (n # 0 => n - 1 \in 0 .. m + 1 /\ n - 1 # m + 1)
      BY <2>2
    <3>2. g[n] = f[n] /\ (n # 0 => g[n - 1] = f[n - 1])
      BY <2>2, <3>1
    <3> QED
      BY <1>1, <3>1, <3>2
  <2> QED
    BY <2>1, <2>2
<1>3. g = [n \in 0 .. m + 1 |-> IF n = 0 THEN <<>> ELSE g[n - 1] \o s[n]]
  <2>1. g = [n \in 0 .. m + 1 |-> g[n]]
    OBVIOUS
  <2> HIDE DEF g
  <2> QED
    BY <1>2, <2>1, Zenon
<1>4. IsJoined(g, s, m + 1)
  <2> HIDE DEF g
  <2> QED
    BY <1>3 DEF IsJoined
<1> QED
  BY <1>4

LEMMA JoinedExists ==
  ASSUME NEW s
  PROVE  \A m \in Nat : \E f : IsJoined(f, s, m)
<1> DEFINE good == {m \in Nat : \E f : IsJoined(f, s, m)}
<1>1. 0 \in good
  <2> DEFINE f == [n \in 0 .. 0 |-> <<>>]
  <2>1. IsJoined(f, s, 0)
    BY DEF IsJoined
  <2> QED
    BY <2>1
<1>2. \A m \in Nat : m \in good => m + 1 \in good
  BY JoinedLonger
<1>3. \A m \in Nat : m \in good
  <2> HIDE DEF good
  <2> QED
    BY <1>1, <1>2, SetInduction
<1> QED
  BY <1>3

LEMMA JoinedIs ==
  ASSUME NEW S, NEW s \in Seq(Seq(S))
  PROVE  /\ Joined(s) \in [0 .. Len(s) -> Seq(S)]
         /\ Joined(s)[0] = <<>>
         /\ \A n \in 1 .. Len(s) : Joined(s)[n] = Joined(s)[n - 1] \o s[n]
<1>0. Len(s) \in Nat /\ \A n \in 1 .. Len(s) : s[n] \in Seq(S)
  OBVIOUS
<1> DEFINE J == CHOOSE f : f = [n \in 0 .. Len(s) |-> IF n = 0 THEN <<>> ELSE f[n - 1] \o s[n]]
<1>1. Joined(s) = J
  BY Zenon DEF Joined
<1>2. \E f : f = [n \in 0 .. Len(s) |-> IF n = 0 THEN <<>> ELSE f[n - 1] \o s[n]]
  BY <1>0, JoinedExists DEF IsJoined
<1>3. J = [n \in 0 .. Len(s) |-> IF n = 0 THEN <<>> ELSE J[n - 1] \o s[n]]
  BY <1>2, Zenon
<1> HIDE DEF J
<1>4. /\ DOMAIN J = 0 .. Len(s) /\ J = [n \in 0 .. Len(s) |-> J[n]]
      /\ \A n \in 0 .. Len(s) : J[n] = IF n = 0 THEN <<>> ELSE J[n - 1] \o s[n]
  BY <1>3, Zenon
<1>5. J[0] = <<>> /\ \A n \in 1 .. Len(s) : J[n] = J[n - 1] \o s[n]
  <2>1. 0 \in 0 .. Len(s) /\ \A n \in 1 .. Len(s) : n \in 0 .. Len(s) /\ n # 0
    BY <1>0
  <2> QED
    BY <1>4, <2>1
<1> DEFINE typed == {m \in Nat : m <= Len(s) => J[m] \in Seq(S)}
<1>6. 0 \in typed
  <2>1. <<>> \in Seq(S)
    OBVIOUS
  <2> QED
    BY <1>5, <2>1
<1>7. ASSUME NEW m \in Nat, m \in typed PROVE m + 1 \in typed
  <2>1. SUFFICES ASSUME m + 1 <= Len(s) PROVE J[m + 1] \in Seq(S)
    OBVIOUS
  <2>2. m + 1 \in 1 .. Len(s) /\ (m + 1) - 1 = m
    BY <1>0, <2>1
  <2>3. J[m] \in Seq(S) /\ s[m + 1] \in Seq(S)
    BY <1>0, <1>7, <2>1, <2>2
  <2>4. J[m + 1] = J[m] \o s[m + 1]
    BY <1>5, <2>2
  <2>5. J[m] \o s[m + 1] \in Seq(S)
    BY <2>3, ConcatProperties
  <2> QED
    BY <2>4, <2>5
<1>8. \A m \in Nat : m \in typed
  <2> HIDE DEF typed
  <2> QED
    BY <1>6, <1>7, SetInduction
<1>9. \A m \in 0 .. Len(s) : J[m] \in Seq(S)
  BY <1>0, <1>8
<1> QED
  BY <1>1, <1>4, <1>5, <1>9

(* The first sequences are a beginning of what more of them make.          *)
LEMMA JoinedGrows ==
  ASSUME NEW S, NEW s \in Seq(Seq(S)), NEW i \in 0 .. Len(s), NEW j \in i .. Len(s)
  PROVE  /\ Len(Joined(s)[i]) <= Len(Joined(s)[j])
         /\ \A x \in 1 .. Len(Joined(s)[i]) : Joined(s)[j][x] = Joined(s)[i][x]
<1>1. PICK J \in [0 .. Len(s) -> Seq(S)] :
        J = Joined(s) /\ \A n \in 1 .. Len(s) : J[n] = J[n - 1] \o s[n]
  BY JoinedIs
<1>0. Len(s) \in Nat /\ (\A n \in 1 .. Len(s) : s[n] \in Seq(S)) /\ i \in Nat /\ J[i] \in Seq(S)
  OBVIOUS
<1> DEFINE Begins(n) == /\ Len(J[i]) <= Len(J[n])
                        /\ \A x \in 1 .. Len(J[i]) : J[n][x] = J[i][x]
           good == {m \in Nat : i <= m /\ m <= Len(s) => Begins(m)}
<1>2. 0 \in good
  <2>1. i <= 0 => i = 0
    BY <1>0
  <2> QED
    BY <1>0, <2>1
<1>3. ASSUME NEW m \in Nat, m \in good PROVE m + 1 \in good
  <2>1. SUFFICES ASSUME i <= m + 1, m + 1 <= Len(s) PROVE Begins(m + 1)
    OBVIOUS
  <2>2. CASE i = m + 1
    BY <1>0, <2>2
  <2>3. CASE i # m + 1
    <3>1. i <= m /\ m <= Len(s) /\ m \in 0 .. Len(s) /\ m + 1 \in 1 .. Len(s) /\ (m + 1) - 1 = m
      BY <1>0, <2>1, <2>3
    <3>2. PICK a \in Seq(S), b \in Seq(S), d \in Seq(S) : a = J[i] /\ b = J[m] /\ d = s[m + 1]
      BY <1>0, <3>1
    <3>3. J[m + 1] = b \o d
      BY <1>1, <3>1, <3>2
    <3>4. Len(a) <= Len(b) /\ \A x \in 1 .. Len(a) : b[x] = a[x]
      BY <1>3, <3>1, <3>2
    <3>5. PICK e \in Seq(S) : e = b \o d
      BY ConcatProperties
    <3>6. Len(e) = Len(b) + Len(d) /\ \A x \in 1 .. Len(b) : e[x] = b[x]
      BY <3>5
    <3>7. Len(a) \in Nat /\ Len(b) \in Nat /\ Len(d) \in Nat
      OBVIOUS
    <3>8. \A x \in 1 .. Len(a) : x \in 1 .. Len(b)
      BY <3>4, <3>7
    <3>9. Len(a) <= Len(e) /\ \A x \in 1 .. Len(a) : e[x] = a[x]
      BY <3>4, <3>6, <3>7, <3>8
    <3> QED
      BY <3>2, <3>3, <3>5, <3>9
  <2> QED
    BY <2>2, <2>3
<1>4. \A m \in Nat : m \in good
  <2> HIDE DEF good
  <2> QED
    BY <1>2, <1>3, SetInduction
<1>5. j \in Nat /\ j \in good
  BY <1>0, <1>4
<1>6. Begins(j)
  BY <1>0, <1>5
<1> QED
  BY <1>1, <1>6

(* What Total is, and its value for the lengths of joined sequences.       *)
IsTotal(f, r, m) == f = [n \in 0 .. m |-> IF n = 0 THEN 0 ELSE f[n - 1] + r[n]]

LEMMA TotalLonger ==
  ASSUME NEW r, NEW f, NEW m \in Nat, IsTotal(f, r, m)
  PROVE  \E g : IsTotal(g, r, m + 1)
<1> DEFINE g == [n \in 0 .. m + 1 |-> IF n = m + 1 THEN f[m] + r[m + 1] ELSE f[n]]
<1>1. \A n \in 0 .. m : f[n] = IF n = 0 THEN 0 ELSE f[n - 1] + r[n]
  BY DEF IsTotal
<1>2. ASSUME NEW n \in 0 .. m + 1
      PROVE  g[n] = IF n = 0 THEN 0 ELSE g[n - 1] + r[n]
  <2>1. CASE n = m + 1
    <3>1. n # 0 /\ n - 1 = m /\ n - 1 \in 0 .. m + 1 /\ n - 1 # m + 1
      BY <2>1
    <3>2. g[n] = f[m] + r[m + 1] /\ g[n - 1] = f[m]
      BY <2>1, <3>1
    <3> QED
      BY <2>1, <3>1, <3>2
  <2>2. CASE n # m + 1
    <3>1. n \in 0 .. m /\ (n # 0 => n - 1 \in 0 .. m + 1 /\ n - 1 # m + 1)
      BY <2>2
    <3>2. g[n] = f[n] /\ (n # 0 => g[n - 1] = f[n - 1])
      BY <2>2, <3>1
    <3> QED
      BY <1>1, <3>1, <3>2
  <2> QED
    BY <2>1, <2>2
<1>3. g = [n \in 0 .. m + 1 |-> IF n = 0 THEN 0 ELSE g[n - 1] + r[n]]
  <2>1. g = [n \in 0 .. m + 1 |-> g[n]]
    OBVIOUS
  <2> HIDE DEF g
  <2> QED
    BY <1>2, <2>1, Zenon
<1>4. IsTotal(g, r, m + 1)
  <2> HIDE DEF g
  <2> QED
    BY <1>3 DEF IsTotal
<1> QED
  BY <1>4

LEMMA TotalExists ==
  ASSUME NEW r
  PROVE  \A m \in Nat : \E f : IsTotal(f, r, m)
<1> DEFINE good == {m \in Nat : \E f : IsTotal(f, r, m)}
<1>1. 0 \in good
  <2> DEFINE f == [n \in 0 .. 0 |-> 0]
  <2>1. IsTotal(f, r, 0)
    BY DEF IsTotal
  <2> QED
    BY <2>1
<1>2. \A m \in Nat : m \in good => m + 1 \in good
  BY TotalLonger
<1>3. \A m \in Nat : m \in good
  <2> HIDE DEF good
  <2> QED
    BY <1>1, <1>2, SetInduction
<1> QED
  BY <1>3

LEMMA TotalIs ==
  ASSUME NEW r \in Seq(Nat)
  PROVE  /\ Total(r)[0] = 0
         /\ \A n \in 1 .. Len(r) : Total(r)[n] = Total(r)[n - 1] + r[n]
<1>0. Len(r) \in Nat
  OBVIOUS
<1> DEFINE F == CHOOSE f : f = [n \in 0 .. Len(r) |-> IF n = 0 THEN 0 ELSE f[n - 1] + r[n]]
<1>1. Total(r) = F
  BY Zenon DEF Total
<1>2. \E f : f = [n \in 0 .. Len(r) |-> IF n = 0 THEN 0 ELSE f[n - 1] + r[n]]
  BY <1>0, TotalExists DEF IsTotal
<1>3. F = [n \in 0 .. Len(r) |-> IF n = 0 THEN 0 ELSE F[n - 1] + r[n]]
  BY <1>2, Zenon
<1> HIDE DEF F
<1>4. \A n \in 0 .. Len(r) : F[n] = IF n = 0 THEN 0 ELSE F[n - 1] + r[n]
  BY <1>3, Zenon
<1>5. 0 \in 0 .. Len(r) /\ \A n \in 1 .. Len(r) : n \in 0 .. Len(r) /\ n # 0
  BY <1>0
<1> QED
  BY <1>1, <1>4, <1>5

LEMMA TotalOfLengths ==
  ASSUME NEW S, NEW s \in Seq(Seq(S)), NEW k \in 0 .. Len(s), NEW r,
         r = [i \in 1 .. k |-> Len(s[i])]
  PROVE  /\ Len(r) = k
         /\ Total(r)[k] = Len(Joined(s)[k])
<1> DEFINE good == {m \in Nat : m <= k => Total(r)[m] = Len(Joined(s)[m])}
<1>1. \A i \in 1 .. k : s[i] \in Seq(S) /\ Len(s[i]) \in Nat
  OBVIOUS
<1>2. r \in Seq(Nat) /\ Len(r) = k
  <2>1. r \in [1 .. k -> Nat]
    BY <1>1
  <2> QED
    BY <2>1
<1>3. Total(r)[0] = 0 /\ \A n \in 1 .. k : Total(r)[n] = Total(r)[n - 1] + Len(s[n])
  BY <1>2, TotalIs
<1>4. /\ Joined(s) \in [0 .. Len(s) -> Seq(S)] /\ Joined(s)[0] = <<>>
      /\ \A n \in 1 .. Len(s) : Joined(s)[n] = Joined(s)[n - 1] \o s[n]
  BY JoinedIs
<1>5. 0 \in good
  BY <1>3, <1>4
<1>6. ASSUME NEW m \in Nat, m \in good PROVE m + 1 \in good
  <2> SUFFICES ASSUME m + 1 <= k PROVE Total(r)[m + 1] = Len(Joined(s)[m + 1])
    OBVIOUS
  <2>1. Total(r)[m] = Len(Joined(s)[m]) /\ m + 1 \in 1 .. k /\ (m + 1) - 1 = m
    BY <1>6
  <2>2. Joined(s)[m] \in Seq(S) /\ s[m + 1] \in Seq(S)
    BY <1>1, <1>4, <2>1
  <2>3. Len(Joined(s)[m + 1]) = Len(Joined(s)[m]) + Len(s[m + 1])
    <3>1. m + 1 \in 1 .. Len(s)
      BY <2>1
    <3>2. Joined(s)[m + 1] = Joined(s)[m] \o s[m + 1]
      BY <1>4, <2>1, <3>1
    <3> QED
      BY <2>2, <3>2
  <2> QED
    BY <1>3, <2>1, <2>3
<1>7. \A m \in Nat : m \in good
  <2> HIDE DEF good
  <2> QED
    BY <1>5, <1>6, SetInduction
<1> QED
  BY <1>2, <1>7

-----------------------------------------------------------------------------
(* Tokens, and those of all packets of a client as one sequence.           *)
LEMMA TokenKinds ==
  /\ \A t \in HeadTokens : IsHead(t) /\ t.head \in 0 .. BufferSize
  /\ \A t \in RecTokens : ~IsHead(t) /\ t.rec \in Records
  /\ \A n \in 0 .. BufferSize : [head |-> n] \in HeadTokens
  /\ \A r \in Records : [rec |-> r] \in RecTokens
<1>1. \A t \in HeadTokens : DOMAIN t = {"head"} /\ t.head \in 0 .. BufferSize
  BY DEF HeadTokens
<1>2. \A t \in RecTokens : DOMAIN t = {"rec"} /\ t.rec \in Records
  BY DEF RecTokens
<1>3. {"rec"} # {"head"}
  OBVIOUS
<1>4. /\ \A n \in 0 .. BufferSize : [head |-> n] \in HeadTokens
      /\ \A r \in Records : [rec |-> r] \in RecTokens
  BY DEF HeadTokens, RecTokens
<1> QED
  BY <1>1, <1>2, <1>3, <1>4 DEF IsHead

LEMMA TokensAre ==
  ASSUME NEW p \in Seq(Records), Len(p) <= BufferSize
  PROVE  /\ Tokens(p) \in Seq(AllTokens)
         /\ Len(Tokens(p)) = Len(p) + 1
         /\ Tokens(p)[1] = [head |-> Len(p)]
         /\ \A i \in 1 .. Len(p) : Tokens(p)[i + 1] = [rec |-> p[i]]
<1>0. Len(p) \in Nat /\ DOMAIN p = 1 .. Len(p) /\ Len(p) \in 0 .. BufferSize
  BY ServerAssumption
<1>1. PICK h \in AllTokens : h = [head |-> Len(p)]
  BY <1>0, TokenKinds DEF AllTokens
<1>2. PICK q : q = [i \in 1 .. Len(p) |-> [rec |-> p[i]]]
  OBVIOUS
<1>3. q \in [1 .. Len(p) -> AllTokens]
  <2>1. \A i \in 1 .. Len(p) : [rec |-> p[i]] \in AllTokens
    BY TokenKinds DEF AllTokens
  <2> QED
    BY <1>2, <2>1
<1>4. q \in Seq(AllTokens) /\ Len(q) = Len(p)
  BY <1>0, <1>3
<1>5. Tokens(p) = <<h>> \o q
  BY <1>0, <1>1, <1>2 DEF Tokens
<1>6. /\ <<h>> \o q \in Seq(AllTokens) /\ Len(<<h>> \o q) = Len(p) + 1
      /\ (<<h>> \o q)[1] = h
      /\ \A i \in 1 .. Len(p) : (<<h>> \o q)[i + 1] = q[i]
  BY <1>0, <1>4
<1>7. \A i \in 1 .. Len(p) : q[i] = [rec |-> p[i]]
  BY <1>2
<1> QED
  BY <1>1, <1>5, <1>6, <1>7

LEMMA PacketsAre ==
  ASSUME NEW c \in Clients
  PROVE  /\ Packets[c] \in Seq(Seq(Records)) /\ Len(Packets[c]) \in Nat
         /\ \A k \in 1 .. Len(Packets[c]) :
              /\ Packets[c][k] \in Seq(Records)
              /\ Len(Packets[c][k]) \in 0 .. BufferSize
              /\ TokensOf(c)[k] = Tokens(Packets[c][k])
         /\ TokensOf(c) \in Seq(Seq(AllTokens)) /\ Len(TokensOf(c)) = Len(Packets[c])
<1>1. Packets[c] \in Seq(Seq(Records)) /\ Len(Packets[c]) \in Nat
      /\ DOMAIN Packets[c] = 1 .. Len(Packets[c])
  BY ServerAssumption
<1>2. \A k \in 1 .. Len(Packets[c]) :
        Packets[c][k] \in Seq(Records) /\ Len(Packets[c][k]) \in 0 .. BufferSize
  <2> TAKE k \in 1 .. Len(Packets[c])
  <2>1. Packets[c][k] \in Seq(Records)
    BY <1>1
  <2>2. Len(Packets[c][k]) \in Nat /\ Len(Packets[c][k]) <= BufferSize
    BY <1>1, <2>1, ServerAssumption
  <2> QED
    BY <2>1, <2>2, ServerAssumption
<1>3. TokensOf(c) = [k \in 1 .. Len(Packets[c]) |-> Tokens(Packets[c][k])]
  BY <1>1 DEF TokensOf
<1>4. \A k \in 1 .. Len(Packets[c]) : Tokens(Packets[c][k]) \in Seq(AllTokens)
  <2> TAKE k \in 1 .. Len(Packets[c])
  <2>1. PICK p \in Seq(Records) : p = Packets[c][k] /\ Len(p) <= BufferSize
    BY <1>2
  <2> QED
    BY <2>1, TokensAre
<1>5. TokensOf(c) \in [1 .. Len(Packets[c]) -> Seq(AllTokens)]
  BY <1>3, <1>4
<1>6. TokensOf(c) \in Seq(Seq(AllTokens)) /\ Len(TokensOf(c)) = Len(Packets[c])
  BY <1>1, <1>5
<1> QED
  BY <1>1, <1>2, <1>3, <1>6

LEMMA ConcatAfter ==
  ASSUME NEW S, NEW a \in Seq(S), NEW t \in Seq(S)
  PROVE  /\ a \o t \in Seq(S) /\ Len(a \o t) = Len(a) + Len(t)
         /\ \A x \in 1 .. Len(a) : (a \o t)[x] = a[x]
         /\ \A x \in 1 .. Len(t) : (a \o t)[Len(a) + x] = t[x]
<1>1. Len(a) \in Nat /\ Len(t) \in Nat
  OBVIOUS
<1>2. /\ a \o t \in Seq(S) /\ Len(a \o t) = Len(a) + Len(t)
      /\ \A i \in 1 .. Len(a) + Len(t) : (a \o t)[i] = IF i <= Len(a) THEN a[i] ELSE t[i - Len(a)]
  BY ConcatProperties
<1>3. ASSUME NEW x \in 1 .. Len(t) PROVE (a \o t)[Len(a) + x] = t[x]
  <2>1. Len(a) + x \in 1 .. Len(a) + Len(t) /\ ~(Len(a) + x <= Len(a)) /\ (Len(a) + x) - Len(a) = x
    BY <1>1
  <2> QED
    BY <1>2, <2>1
<1>4. ASSUME NEW x \in 1 .. Len(a) PROVE (a \o t)[x] = a[x]
  BY <1>1, <1>2
<1> QED
  BY <1>2, <1>3, <1>4

(* What follows a whole number of packets: the next one.                   *)
LEMMA TokenAt ==
  ASSUME NEW c \in Clients, NEW m \in 0 .. Len(Packets[c]), NEW k \in 0 .. m, k # m
  PROVE  LET T == Joined(TokensOf(c))
             p == Packets[c][k + 1]
         IN  /\ T[k] \in Seq(AllTokens) /\ T[m] \in Seq(AllTokens)
             /\ T[k + 1] \in Seq(AllTokens)
             /\ Len(T[k + 1]) = Len(T[k]) + Len(p) + 1
             /\ Len(T[k + 1]) <= Len(T[m])
             /\ T[m][Len(T[k]) + 1] = [head |-> Len(p)]
             /\ \A i \in 1 .. Len(p) : T[m][Len(T[k]) + i + 1] = [rec |-> p[i]]
<1>0. /\ k \in Nat /\ m \in Nat /\ Len(Packets[c]) \in Nat
      /\ k + 1 \in 1 .. Len(Packets[c]) /\ k + 1 \in 0 .. m /\ (k + 1) - 1 = k
  BY PacketsAre
<1>1. PICK P : P = TokensOf(c)
  OBVIOUS
<1>2. /\ P \in Seq(Seq(AllTokens)) /\ Len(P) = Len(Packets[c])
      /\ P[k + 1] = Tokens(Packets[c][k + 1])
  BY <1>0, <1>1, PacketsAre
<1>3. PICK T : /\ T = Joined(P)
               /\ T \in [0 .. Len(P) -> Seq(AllTokens)]
               /\ \A n \in 1 .. Len(P) : T[n] = T[n - 1] \o P[n]
  BY <1>2, JoinedIs
<1>4. PICK p \in Seq(Records) : p = Packets[c][k + 1] /\ Len(p) <= BufferSize
  <2>1. Packets[c][k + 1] \in Seq(Records) /\ Len(Packets[c][k + 1]) \in 0 .. BufferSize
    BY <1>0, PacketsAre
  <2>2. Len(Packets[c][k + 1]) <= BufferSize
    BY <2>1, ServerAssumption
  <2> QED
    BY <2>1, <2>2, Zenon
<1>5. PICK t \in Seq(AllTokens) :
        /\ t = Tokens(p) /\ Len(t) = Len(p) + 1 /\ t[1] = [head |-> Len(p)]
        /\ \A i \in 1 .. Len(p) : t[i + 1] = [rec |-> p[i]]
  BY <1>4, TokensAre
<1>6. PICK a \in Seq(AllTokens), b \in Seq(AllTokens), d \in Seq(AllTokens) :
        a = T[k] /\ b = T[k + 1] /\ d = T[m]
  <2>1. k \in 0 .. Len(P) /\ k + 1 \in 0 .. Len(P) /\ m \in 0 .. Len(P)
    BY <1>0, <1>2
  <2>2. T[k] \in Seq(AllTokens) /\ T[k + 1] \in Seq(AllTokens) /\ T[m] \in Seq(AllTokens)
    BY <1>3, <2>1
  <2> QED
    BY <2>2, Zenon
<1>7. b = a \o t
  <2>1. T[k + 1] = T[(k + 1) - 1] \o P[k + 1]
    BY <1>0, <1>2, <1>3
  <2> QED
    BY <1>0, <1>2, <1>4, <1>5, <1>6, <2>1
<1>8. Len(a) \in Nat /\ Len(b) \in Nat /\ Len(d) \in Nat /\ Len(p) \in Nat
  OBVIOUS
<1>9. /\ Len(b) = Len(a) + Len(p) + 1
      /\ b[Len(a) + 1] = [head |-> Len(p)]
      /\ \A i \in 1 .. Len(p) : b[Len(a) + i + 1] = [rec |-> p[i]]
  <2>1. Len(b) = Len(a) + Len(t) /\ \A x \in 1 .. Len(t) : b[Len(a) + x] = t[x]
    BY <1>7, <1>8, ConcatAfter
  <2>2. b[Len(a) + 1] = t[1]
    BY <1>5, <1>8, <2>1
  <2>3. \A i \in 1 .. Len(p) : b[Len(a) + i + 1] = t[i + 1]
    <3> TAKE i \in 1 .. Len(p)
    <3>1. i + 1 \in 1 .. Len(t) /\ Len(a) + (i + 1) = Len(a) + i + 1
      BY <1>5, <1>8
    <3> QED
      BY <2>1, <3>1
  <2> QED
    BY <1>5, <1>8, <2>1, <2>2, <2>3
<1>10. Len(b) <= Len(d) /\ \A x \in 1 .. Len(b) : d[x] = b[x]
  <2>1. k + 1 \in 0 .. Len(P) /\ m \in (k + 1) .. Len(P)
    BY <1>0, <1>2
  <2> QED
    BY <1>2, <1>3, <1>6, <2>1, JoinedGrows
<1>11. /\ d[Len(a) + 1] = [head |-> Len(p)]
       /\ \A i \in 1 .. Len(p) : d[Len(a) + i + 1] = [rec |-> p[i]]
  <2>1. Len(a) + 1 \in 1 .. Len(b)
    BY <1>8, <1>9
  <2>2. \A i \in 1 .. Len(p) : Len(a) + i + 1 \in 1 .. Len(b)
    BY <1>8, <1>9
  <2> QED
    BY <1>9, <1>10, <2>1, <2>2
<1> QED
  BY <1>1, <1>3, <1>4, <1>6, <1>9, <1>10, <1>11

-----------------------------------------------------------------------------
(* Queues of tokens.                                                       *)
IsConcat(u, s, a) == u = s \o a

LEMMA ConcatThree ==
  ASSUME NEW S, NEW s \in Seq(S), NEW a \in Seq(S), NEW b \in Seq(S),
         NEW u \in Seq(S), IsConcat(u, s, a), NEW w \in Seq(S), IsConcat(w, a, b),
         NEW v, IsConcat(v, u, b)
  PROVE  IsConcat(v, s, w)
<1>0. u = s \o a /\ w = a \o b /\ v = u \o b
  BY DEF IsConcat
<1>1. PICK l \in Seq(S), r \in Seq(S) : l = u \o b /\ r = s \o w
  BY ConcatProperties, Zenon
<1>2. Len(l) = Len(s) + Len(a) + Len(b) /\ Len(r) = Len(s) + Len(w)
      /\ Len(w) = Len(a) + Len(b)
  <2>1. Len(l) = Len(u) + Len(b) /\ Len(r) = Len(s) + Len(w)
    BY <1>1, ConcatProperties
  <2>2. Len(u) = Len(s) + Len(a) /\ Len(w) = Len(a) + Len(b)
    BY <1>0, ConcatProperties
  <2>3. Len(s) \in Nat /\ Len(a) \in Nat /\ Len(b) \in Nat
    OBVIOUS
  <2>4. Len(l) = Len(s) + Len(a) + Len(b)
    BY <2>1, <2>2, <2>3
  <2> QED
    BY <2>1, <2>2, <2>4
<1>3. /\ \A i \in 1 .. Len(s) + Len(a) : u[i] = IF i <= Len(s) THEN s[i] ELSE a[i - Len(s)]
      /\ \A i \in 1 .. Len(u) + Len(b) : l[i] = IF i <= Len(u) THEN u[i] ELSE b[i - Len(u)]
      /\ \A i \in 1 .. Len(s) + Len(w) : r[i] = IF i <= Len(s) THEN s[i] ELSE w[i - Len(s)]
      /\ \A i \in 1 .. Len(a) + Len(b) : w[i] = IF i <= Len(a) THEN a[i] ELSE b[i - Len(a)]
      /\ Len(u) = Len(s) + Len(a)
  <2>1. /\ \A i \in 1 .. Len(s) + Len(a) : u[i] = IF i <= Len(s) THEN s[i] ELSE a[i - Len(s)]
        /\ Len(u) = Len(s) + Len(a)
    BY <1>0, ConcatProperties
  <2>2. \A i \in 1 .. Len(u) + Len(b) : l[i] = IF i <= Len(u) THEN u[i] ELSE b[i - Len(u)]
    BY <1>1, ConcatProperties
  <2>3. \A i \in 1 .. Len(s) + Len(w) : r[i] = IF i <= Len(s) THEN s[i] ELSE w[i - Len(s)]
    BY <1>1, ConcatProperties
  <2>4. \A i \in 1 .. Len(a) + Len(b) : w[i] = IF i <= Len(a) THEN a[i] ELSE b[i - Len(a)]
    BY <1>0, ConcatProperties
  <2> QED
    BY <2>1, <2>2, <2>3, <2>4
<1>5. Len(s) \in Nat /\ Len(a) \in Nat /\ Len(b) \in Nat
  OBVIOUS
<1>6. ASSUME NEW i \in 1 .. Len(l) PROVE l[i] = r[i]
  <2>1. CASE i <= Len(s)
    <3>1. i \in 1 .. Len(s) + Len(a) /\ i <= Len(u) /\ i \in 1 .. Len(u) + Len(b)
          /\ i \in 1 .. Len(s) + Len(w)
      BY <1>2, <1>3, <1>5, <2>1
    <3> QED
      BY <1>3, <2>1, <3>1
  <2>2. CASE ~(i <= Len(s)) /\ i <= Len(u)
    <3>1. /\ i \in 1 .. Len(s) + Len(a) /\ i \in 1 .. Len(u) + Len(b)
          /\ i \in 1 .. Len(s) + Len(w)
          /\ i - Len(s) \in 1 .. Len(a) + Len(b) /\ i - Len(s) <= Len(a)
      BY <1>2, <1>3, <1>5, <2>2
    <3> QED
      BY <1>3, <2>2, <3>1
  <2>3. CASE ~(i <= Len(u))
    <3>1. /\ i \in 1 .. Len(u) + Len(b) /\ i \in 1 .. Len(s) + Len(w) /\ ~(i <= Len(s))
          /\ i - Len(s) \in 1 .. Len(a) + Len(b) /\ ~(i - Len(s) <= Len(a))
          /\ (i - Len(s)) - Len(a) = i - Len(u)
      BY <1>2, <1>3, <1>5, <2>3
    <3> QED
      BY <1>3, <2>3, <3>1
  <2> QED
    BY <2>1, <2>2, <2>3
<1>4. l = r
  <2>1. Len(l) = Len(r)
    BY <1>2, <1>5
  <2> QED
    BY <1>6, <2>1, SeqEqual
<1> QED
  BY <1>0, <1>1, <1>4 DEF IsConcat

LEMMA Delivered ==
  ASSUME NEW S, NEW s \in Seq(S), NEW w \in Seq(S), NEW n \in 1 .. Len(w)
  PROVE  /\ s \o SubSeq(w, 1, n) \in Seq(S)
         /\ SubSeq(w, n + 1, Len(w)) \in Seq(S)
         /\ (s \o SubSeq(w, 1, n)) \o SubSeq(w, n + 1, Len(w)) = s \o w
<1>0. Len(w) \in Nat /\ n \in Nat /\ n <= Len(w)
  OBVIOUS
<1>1. PICK a \in Seq(S) : a = SubSeq(w, 1, n)
  <2>1. \A i \in 1 .. n : w[i] \in S
    BY <1>0
  <2>2. SubSeq(w, 1, n) \in Seq(S)
    BY <1>0, <2>1, SubSeqProperties
  <2> QED
    BY <2>2, Zenon
<1>2. PICK b \in Seq(S) : b = SubSeq(w, n + 1, Len(w))
  <2>1. (\A i \in n + 1 .. Len(w) : w[i] \in S) /\ n + 1 \in Int /\ Len(w) \in Int
    BY <1>0
  <2>2. SubSeq(w, n + 1, Len(w)) \in Seq(S)
    BY <2>1, SubSeqProperties
  <2> QED
    BY <2>2, Zenon
<1>3. a \o b = w
  <2>1. 1 \in 1 .. Len(w) + 1 /\ n \in 1 - 1 .. Len(w) /\ Len(w) \in n .. Len(w)
    BY <1>0
  <2>2. SubSeq(w, 1, n) \o SubSeq(w, n + 1, Len(w)) = SubSeq(w, 1, Len(w))
    BY <2>1, ConcatAdjacentSubSeq
  <2>3. SubSeq(w, 1, Len(w)) = w
    BY SubSeqFull
  <2> QED
    BY <1>1, <1>2, <2>2, <2>3
<1>4. PICK u \in Seq(S) : u = s \o a
  BY <1>1, ConcatProperties, Zenon
<1>5. u \o b = s \o w
  <2>1. PICK v : v = u \o b
    OBVIOUS
  <2>2. IsConcat(u, s, a) /\ IsConcat(w, a, b) /\ IsConcat(v, u, b)
    BY <1>3, <1>4, <2>1 DEF IsConcat
  <2>3. IsConcat(v, s, w)
    BY <2>2, ConcatThree, Zenon
  <2> QED
    BY <2>1, <2>3 DEF IsConcat
<1> QED
  BY <1>1, <1>2, <1>3, <1>4, <1>5

LEMMA DeliveredSame ==
  ASSUME NEW S, NEW s \in Seq(S), NEW w \in Seq(S), NEW n \in 1 .. Len(w), NEW u, NEW a, NEW b,
         IsConcat(a, s, SubSeq(w, 1, n)), b = SubSeq(w, n + 1, Len(w)), IsConcat(u, s, w)
  PROVE  IsConcat(u, a, b)
BY Delivered DEF IsConcat

LEMMA TokenTaken ==
  ASSUME NEW S, NEW s \in Seq(S), NEW w \in Seq(S), s # <<>>
  PROVE  /\ Tail(s) \in Seq(S) /\ s \o w \in Seq(S) /\ Tail(s) \o w \in Seq(S)
         /\ Head(s) \in S /\ Head(s) = (s \o w)[1]
         /\ Len(s \o w) >= 1 /\ Len(s \o w) \in Nat
         /\ Len(Tail(s) \o w) = Len(s \o w) - 1
         /\ \A i \in 1 .. Len(s \o w) - 1 : (Tail(s) \o w)[i] = (s \o w)[i + 1]
<1>1. Len(s) \in Nat /\ Len(s) >= 1 /\ Len(w) \in Nat
  BY EmptySeq
<1>2. PICK u \in Seq(S) : u = Tail(s)
  BY HeadTailProperties, Zenon
<1>3. Len(u) = Len(s) - 1 /\ (\A i \in 1 .. Len(u) : u[i] = s[i + 1]) /\ Head(s) = s[1]
  BY <1>1, <1>2
<1>4. /\ Len(s \o w) = Len(s) + Len(w) /\ Len(u \o w) = Len(u) + Len(w)
      /\ \A i \in 1 .. Len(s) + Len(w) : (s \o w)[i] = IF i <= Len(s) THEN s[i] ELSE w[i - Len(s)]
      /\ \A i \in 1 .. Len(u) + Len(w) : (u \o w)[i] = IF i <= Len(u) THEN u[i] ELSE w[i - Len(u)]
      /\ s \o w \in Seq(S) /\ u \o w \in Seq(S)
  BY ConcatProperties
<1>5. \A i \in 1 .. Len(s) + Len(w) - 1 : (u \o w)[i] = (s \o w)[i + 1]
  <2> TAKE i \in 1 .. Len(s) + Len(w) - 1
  <2>1. i \in 1 .. Len(u) + Len(w) /\ i + 1 \in 1 .. Len(s) + Len(w)
    BY <1>1, <1>3
  <2>2. CASE i <= Len(u)
    <3>1. i \in 1 .. Len(u) /\ i + 1 <= Len(s)
      BY <1>1, <1>3, <2>1, <2>2
    <3> QED
      BY <1>3, <1>4, <2>1, <2>2, <3>1
  <2>3. CASE ~(i <= Len(u))
    <3>1. ~(i + 1 <= Len(s)) /\ i - Len(u) = (i + 1) - Len(s)
      BY <1>1, <1>3, <2>1, <2>3
    <3> QED
      BY <1>4, <2>1, <2>3, <3>1
  <2> QED
    BY <2>2, <2>3
<1>6. (s \o w)[1] = s[1] /\ Head(s) \in S
  BY <1>1, <1>4
<1> QED
  BY <1>1, <1>2, <1>3, <1>4, <1>5, <1>6

-----------------------------------------------------------------------------
(* Queues of events.                                                       *)
LEMMA QueueGrows ==
  ASSUME NEW S, NEW s \in Seq(S), NEW c \in S, NoRepeats(s), NEW t,
         t = IF Contains(s, c) THEN s ELSE Append(s, c)
  PROVE  /\ t \in Seq(S) /\ NoRepeats(t)
         /\ \A d \in S : Contains(t, d) <=> Contains(s, d) \/ d = c
<1>1. Len(s) \in Nat /\ DOMAIN s = 1 .. Len(s)
  OBVIOUS
<1>2. CASE Contains(s, c)
  BY <1>2
<1>3. CASE ~Contains(s, c)
  <2>1. /\ t \in Seq(S) /\ Len(t) = Len(s) + 1 /\ t[Len(s) + 1] = c
        /\ \A i \in 1 .. Len(s) : t[i] = s[i]
    BY <1>3
  <2>2. DOMAIN t = 1 .. Len(s) + 1
    BY <1>1, <2>1
  <2>3. \A i \in 1 .. Len(s) : s[i] # c
    BY <1>3 DEF Contains
  <2>4. NoRepeats(t)
    <3> SUFFICES ASSUME NEW i \in 1 .. Len(s) + 1, NEW j \in 1 .. Len(s) + 1, t[i] = t[j]
                 PROVE  i = j
      BY <2>2 DEF NoRepeats
    <3>1. i \in 1 .. Len(s) \/ i = Len(s) + 1
      BY <1>1
    <3>2. j \in 1 .. Len(s) \/ j = Len(s) + 1
      BY <1>1
    <3> QED
      BY <1>1, <2>1, <2>3, <3>1, <3>2 DEF NoRepeats
  <2>5. \A i \in 1 .. Len(t) : i \in 1 .. Len(s) \/ i = Len(s) + 1
    BY <1>1, <2>1
  <2>6. Len(s) + 1 \in 1 .. Len(t) /\ \A i \in 1 .. Len(s) : i \in 1 .. Len(t)
    BY <1>1, <2>1
  <2>7. \A d \in S : Contains(t, d) <=> Contains(s, d) \/ d = c
    BY <2>1, <2>5, <2>6 DEF Contains
  <2> QED
    BY <2>1, <2>4, <2>7
<1> QED
  BY <1>2, <1>3

LEMMA QueueShrinks ==
  ASSUME NEW S, NEW s \in Seq(S), NEW c \in S, NoRepeats(s), NEW t,
         t = IF Contains(s, c) THEN RemoveAt(s, CHOOSE i \in DOMAIN s : s[i] = c) ELSE s
  PROVE  /\ t \in Seq(S) /\ NoRepeats(t)
         /\ \A d \in S : Contains(t, d) <=> Contains(s, d) /\ d # c
<1>1. Len(s) \in Nat /\ DOMAIN s = 1 .. Len(s)
  OBVIOUS
<1>2. CASE Contains(s, c)
  <2>1. PICK i \in 1 .. Len(s) : i = CHOOSE k \in DOMAIN s : s[k] = c
    BY <1>1, <1>2 DEF Contains
  <2>2. s[i] = c
    BY <1>1, <1>2, <2>1 DEF Contains
  <2>3. PICK a \in Seq(S) : a = SubSeq(s, 1, i - 1)
    <3>1. \A k \in 1 .. i - 1 : s[k] \in S
      BY <1>1
    <3>2. SubSeq(s, 1, i - 1) \in Seq(S)
      BY <1>1, <3>1, SubSeqProperties
    <3> QED
      BY <3>2, Zenon
  <2>4. PICK b \in Seq(S) : b = SubSeq(s, i + 1, Len(s))
    <3>1. \A k \in i + 1 .. Len(s) : s[k] \in S
      BY <1>1
    <3>2. SubSeq(s, i + 1, Len(s)) \in Seq(S)
      BY <1>1, <3>1, SubSeqProperties
    <3> QED
      BY <3>2, Zenon
  <2>5. Len(a) = i - 1 /\ \A k \in 1 .. i - 1 : a[k] = s[k]
    BY <1>1, <2>3
  <2>6. Len(b) = Len(s) - i /\ \A k \in 1 .. Len(s) - i : b[k] = s[i + k]
    <3>0. i + 1 \in Int /\ Len(s) \in Int
      BY <1>1
    <3>1. PICK m \in Int, n \in Int : m = i + 1 /\ n = Len(s)
      BY <3>0, Zenon
    <3>2. \A k \in m .. n : s[k] \in S
      BY <1>1, <3>1
    <3>3. /\ Len(SubSeq(s, m, n)) = IF m <= n THEN n - m + 1 ELSE 0
          /\ \A k \in 1 .. n - m + 1 : SubSeq(s, m, n)[k] = s[m + k - 1]
      BY <3>2, SubSeqProperties
    <3>4. b = SubSeq(s, m, n)
      BY <2>4, <3>1
    <3>5. \A k \in 1 .. Len(s) - i : k \in 1 .. n - m + 1 /\ m + k - 1 = i + k
      BY <1>1, <3>1
    <3>6. \A k \in 1 .. n - m + 1 : b[k] = s[m + k - 1]
      BY <3>3, <3>4, Zenon
    <3>7. Len(b) = Len(s) - i
      <4>1. i \in Nat /\ n \in Nat /\ i <= n /\ m = i + 1
        BY <1>1, <3>1
      <4>2. (IF m <= n THEN n - m + 1 ELSE 0) = n - i
        BY <4>1
      <4> QED
        BY <3>1, <3>3, <3>4, <4>2, Zenon
    <3>8. \A k \in 1 .. Len(s) - i : b[k] = s[i + k]
      <4> TAKE k \in 1 .. Len(s) - i
      <4>1. k \in 1 .. n - m + 1 /\ m + k - 1 = i + k
        BY <3>5, Zenon
      <4>2. b[k] = s[m + k - 1]
        BY <3>6, <4>1, Zenon
      <4> QED
        BY <4>1, <4>2, Zenon
    <3> QED
      BY <3>7, <3>8
  <2>7. t = a \o b
    BY <1>2, <2>1, <2>3, <2>4 DEF RemoveAt
  <2>8. /\ t \in Seq(S) /\ Len(t) = Len(s) - 1
        /\ \A k \in 1 .. Len(s) - 1 : t[k] = IF k < i THEN s[k] ELSE s[k + 1]
    <3>1. t \in Seq(S) /\ Len(t) = Len(a) + Len(b)
      BY <2>7, ConcatProperties
    <3>2. \A k \in 1 .. Len(a) + Len(b) : t[k] = IF k <= Len(a) THEN a[k] ELSE b[k - Len(a)]
      BY <2>7, ConcatProperties
    <3>3. ASSUME NEW k \in 1 .. Len(s) - 1 PROVE t[k] = IF k < i THEN s[k] ELSE s[k + 1]
      <4>1. k \in 1 .. Len(a) + Len(b)
        BY <1>1, <2>5, <2>6
      <4>2. ASSUME k < i PROVE t[k] = s[k]
        <5>1. k <= Len(a) /\ k \in 1 .. i - 1
          BY <1>1, <2>5, <4>2
        <5> QED
          BY <2>5, <3>2, <4>1, <4>2, <5>1
      <4>3. ASSUME ~(k < i) PROVE t[k] = s[k + 1]
        <5>1. ~(k <= Len(a)) /\ k - Len(a) \in 1 .. Len(s) - i /\ i + (k - Len(a)) = k + 1
          BY <1>1, <2>5, <4>3
        <5> QED
          BY <2>6, <3>2, <4>1, <4>3, <5>1
      <4> QED
        BY <4>2, <4>3, Zenon
    <3>4. Len(t) = Len(s) - 1
      <4>1. Len(t) = (i - 1) + (Len(s) - i)
        BY <2>5, <2>6, <3>1, Zenon
      <4>2. (i - 1) + (Len(s) - i) = Len(s) - 1
        BY <1>1
      <4> QED
        BY <4>1, <4>2, Zenon
    <3> QED
      BY <3>1, <3>3, <3>4, Zenon
  <2>9. DOMAIN t = 1 .. Len(s) - 1
    BY <2>8, LenProperties
  <2>10. ASSUME NEW k \in 1 .. Len(s) - 1
         PROVE  /\ t[k] # c
                /\ \E x \in 1 .. Len(s) : x # i /\ s[x] = t[k] /\ x = IF k < i THEN k ELSE k + 1
    <3>1. (k < i => k \in 1 .. Len(s) /\ k # i) /\ (~(k < i) => k + 1 \in 1 .. Len(s) /\ k + 1 # i)
      BY <1>1
    <3> QED
      BY <1>1, <2>2, <2>8, <3>1 DEF NoRepeats
  <2>11. NoRepeats(t)
    <3> SUFFICES ASSUME NEW x \in 1 .. Len(s) - 1, NEW y \in 1 .. Len(s) - 1, t[x] = t[y]
                 PROVE  x = y
      BY <2>9 DEF NoRepeats
    <3>1. PICK u \in 1 .. Len(s) : s[u] = t[x] /\ u = IF x < i THEN x ELSE x + 1
      BY <2>10
    <3>2. PICK v \in 1 .. Len(s) : s[v] = t[y] /\ v = IF y < i THEN y ELSE y + 1
      BY <2>10
    <3>3. u = v
      BY <1>1, <3>1, <3>2 DEF NoRepeats
    <3> QED
      BY <1>1, <3>1, <3>2, <3>3
  <2>12. ASSUME NEW x \in 1 .. Len(s), s[x] # c PROVE \E k \in 1 .. Len(s) - 1 : t[k] = s[x]
    <3>1. x # i
      BY <2>2, <2>12
    <3>2. CASE x < i
      <4>1. x \in 1 .. Len(s) - 1
        BY <1>1, <3>2
      <4> QED
        BY <2>8, <3>2, <4>1
    <3>3. CASE ~(x < i)
      <4>1. x - 1 \in 1 .. Len(s) - 1 /\ ~(x - 1 < i) /\ (x - 1) + 1 = x
        BY <1>1, <3>1, <3>3
      <4> QED
        BY <2>8, <4>1
    <3> QED
      BY <3>2, <3>3
  <2>13. \A d \in S : Contains(t, d) <=> Contains(s, d) /\ d # c
    <3> TAKE d \in S
    <3>1. Contains(t, d) <=> \E k \in 1 .. Len(s) - 1 : t[k] = d
      BY <2>8 DEF Contains
    <3>2. Contains(s, d) <=> \E x \in 1 .. Len(s) : s[x] = d
      BY DEF Contains
    <3> HIDE DEF Contains
    <3>3. ASSUME Contains(t, d) PROVE Contains(s, d) /\ d # c
      <4>1. PICK k \in 1 .. Len(s) - 1 : t[k] = d
        BY <3>1, <3>3, Zenon
      <4>2. PICK x \in 1 .. Len(s) : s[x] = t[k]
        BY <2>10, Zenon
      <4>3. t[k] # c
        BY <2>10, Zenon
      <4> QED
        BY <3>2, <4>1, <4>2, <4>3, Zenon
    <3>4. ASSUME Contains(s, d), d # c PROVE Contains(t, d)
      <4>1. PICK x \in 1 .. Len(s) : s[x] = d
        BY <3>2, <3>4, Zenon
      <4>2. \E k \in 1 .. Len(s) - 1 : t[k] = s[x]
        BY <2>12, <3>4, <4>1, Zenon
      <4> QED
        BY <3>1, <4>1, <4>2, Zenon
    <3> QED
      BY <3>3, <3>4, Zenon
  <2> QED
    BY <2>8, <2>11, <2>13
<1>3. CASE ~Contains(s, c)
  BY <1>3
<1> QED
  BY <1>2, <1>3

LEMMA QueueHead ==
  ASSUME NEW S, NEW s \in Seq(S), s # <<>>, NoRepeats(s)
  PROVE  /\ Head(s) \in S /\ Contains(s, Head(s))
         /\ Tail(s) \in Seq(S) /\ NoRepeats(Tail(s)) /\ ~Contains(Tail(s), Head(s))
         /\ \A d \in S : Contains(s, d) <=> Contains(Tail(s), d) \/ d = Head(s)
<1>1. Len(s) \in Nat /\ Len(s) # 0 /\ DOMAIN s = 1 .. Len(s)
  BY EmptySeq
<1>2. PICK t \in Seq(S) : t = Tail(s)
  BY HeadTailProperties, Zenon
<1>3. /\ Len(t) = Len(s) - 1 /\ DOMAIN t = 1 .. Len(s) - 1 /\ Head(s) = s[1] /\ 1 \in 1 .. Len(s)
      /\ \A i \in 1 .. Len(s) - 1 : t[i] = s[i + 1] /\ i + 1 \in 1 .. Len(s)
  BY <1>1, <1>2
<1>4. NoRepeats(t)
  BY <1>1, <1>3 DEF NoRepeats
<1>5. ~Contains(t, s[1])
  BY <1>1, <1>3 DEF NoRepeats, Contains
<1>6. \A i \in 1 .. Len(s) : i # 1 => i - 1 \in 1 .. Len(s) - 1 /\ (i - 1) + 1 = i
  BY <1>1
<1>7. \A d \in S : Contains(s, d) <=> Contains(t, d) \/ d = s[1]
  <2> TAKE d \in S
  <2>1. Contains(t, d) <=> \E k \in 1 .. Len(s) - 1 : t[k] = d
    BY <1>3 DEF Contains
  <2>2. Contains(s, d) <=> \E x \in 1 .. Len(s) : s[x] = d
    BY DEF Contains
  <2>3. ASSUME NEW x \in 1 .. Len(s), s[x] = d, x # 1 PROVE \E k \in 1 .. Len(s) - 1 : t[k] = d
    BY <1>3, <1>6, <2>3
  <2> QED
    BY <1>3, <2>1, <2>2, <2>3
<1>8. s[1] \in S /\ Contains(s, s[1])
  BY <1>3 DEF Contains
<1> QED
  BY <1>2, <1>3, <1>4, <1>5, <1>7, <1>8

LEMMA QueueOf ==
  ASSUME NEW S, NEW s \in Seq(S), NEW X \in SUBSET S
  PROVE  ToSet(s) \subseteq X <=> \A d \in S : Contains(s, d) => d \in X
<1>1. DOMAIN s = 1 .. Len(s) /\ \A i \in 1 .. Len(s) : s[i] \in S
  OBVIOUS
<1> QED
  BY <1>1 DEF ToSet, Contains

LEMMA MaxOfTwo ==
  ASSUME NEW a \in Nat, NEW b \in Nat
  PROVE  Max({a, b}) \in Nat /\ Max({a, b}) >= a
<1>1. \E x \in {a, b} : \A y \in {a, b} : x >= y
  <2>1. a >= b \/ b >= a
    OBVIOUS
  <2> QED
    BY <2>1
<1>2. Max({a, b}) \in {a, b} /\ \A y \in {a, b} : Max({a, b}) >= y
  BY <1>1 DEF Max
<1> QED
  BY <1>2

-----------------------------------------------------------------------------
(* What a client has sent, and what is read next.                          *)
LEMMA Sending ==
  ASSUME ServerInv, NEW c \in Clients
  PROVE  /\ SentBy(c) \in 0 .. Len(Packets[c])
         /\ unsent[c] = SubSeq(Packets[c], SentBy(c) + 1, Len(Packets[c]))
         /\ unsent[c] # <<>> =>
              /\ SentBy(c) + 1 \in 1 .. Len(Packets[c])
              /\ Head(unsent[c]) = Packets[c][SentBy(c) + 1]
              /\ Tail(unsent[c]) = SubSeq(Packets[c], SentBy(c) + 2, Len(Packets[c]))
              /\ Len(Tail(unsent[c])) = Len(unsent[c]) - 1
<1>1. PICK P \in Seq(Seq(Records)) : P = Packets[c]
  BY PacketsAre, Zenon
<1>2. PICK k \in 0 .. Len(P) : unsent[c] = SubSeq(P, k + 1, Len(P))
  BY <1>1 DEF ServerInv, TypeOK
<1>3. Len(P) \in Nat /\ k \in Nat /\ k <= Len(P)
  OBVIOUS
<1>4. PICK i \in Int, n \in Int : i = k + 1 /\ n = Len(P)
  <2>1. k + 1 \in Int /\ Len(P) \in Int
    BY <1>3
  <2> QED
    BY <2>1, Zenon
<1>5. \A x \in i .. n : P[x] \in Seq(Records)
  BY <1>3, <1>4
<1>6. /\ SubSeq(P, i, n) \in Seq(Seq(Records))
      /\ Len(SubSeq(P, i, n)) = IF i <= n THEN n - i + 1 ELSE 0
      /\ \A x \in 1 .. n - i + 1 : SubSeq(P, i, n)[x] = P[i + x - 1]
  BY <1>5, SubSeqProperties
<1>7. unsent[c] = SubSeq(P, i, n)
  BY <1>2, <1>4
<1>8. Len(unsent[c]) = Len(P) - k /\ unsent[c] \in Seq(Seq(Records))
  BY <1>3, <1>4, <1>6, <1>7
<1>9. SentBy(c) = k
  BY <1>1, <1>3, <1>8 DEF SentBy
<1>10. ASSUME unsent[c] # <<>>
       PROVE  /\ k + 1 \in 1 .. Len(P)
              /\ Head(unsent[c]) = P[k + 1]
              /\ Tail(unsent[c]) = SubSeq(P, k + 2, Len(P))
              /\ Len(Tail(unsent[c])) = Len(unsent[c]) - 1
  <2>1. Len(unsent[c]) # 0
    BY <1>8, <1>10, EmptySeq
  <2>2. i \in 1 .. Len(P) /\ n \in i .. Len(P) /\ i + 1 = k + 2
    BY <1>3, <1>4, <1>8, <2>1
  <2>3. Head(SubSeq(P, i, n)) = P[i] /\ Tail(SubSeq(P, i, n)) = SubSeq(P, i + 1, n)
    BY <2>2, HeadTailOfSubSeq
  <2>4. Len(Tail(unsent[c])) = Len(unsent[c]) - 1
    BY <1>8, <1>10, HeadTailProperties
  <2>5. k + 1 \in 1 .. Len(P)
    BY <1>4, <2>2
  <2> QED
    BY <1>4, <1>7, <2>2, <2>3, <2>4, <2>5, Zenon
<1> QED
  BY <1>1, <1>2, <1>3, <1>9, <1>10

LEMMA NextToken ==
  ASSUME ServerInv, pc \in {"head", "body", "refuse"}, sock[iSocket] # <<>>
  PROVE  /\ Token \in AllTokens
         /\ iSocket \in paused => pc # "body" /\ (pc = "head" => Token \in RecTokens)
         /\ pc = "refuse" => iSocket \in paused
         /\ pc = "head" /\ iSocket \notin paused =>
              Answered(iSocket) < SentBy(iSocket) /\ Token = [head |-> Len(Current(iSocket))]
         /\ pc = "body" /\ iNum < iTotal => Token = [rec |-> Current(iSocket)[iNum + 1]]
<1>1. PICK c \in Clients : c = iSocket
  BY Zenon DEF ServerInv, TypeOK
<1>2. PICK s \in Seq(AllTokens), w \in Seq(AllTokens) : s = sock[c] /\ w = wire[c]
  BY DEF ServerInv, Typed
<1>3. /\ Head(s) \in AllTokens /\ Head(s) = (s \o w)[1]
      /\ Len(s \o w) \in Nat /\ Len(s \o w) >= 1
  <2>1. s # <<>>
    BY <1>1, <1>2
  <2> QED
    BY <2>1, TokenTaken
<1>4. Token = Stream(c)[1] /\ Token \in AllTokens /\ Len(Stream(c)) \in Nat /\ Len(Stream(c)) >= 1
  BY <1>1, <1>2, <1>3 DEF Token, Stream
<1>5. Stream(c) # <<>>
  BY <1>4
<1>6. conn[c] = "open"
  BY <1>1 DEF ServerInv, QueueInv, Handling
<1>7. pc # "refuse" => ~Lost(c)
  BY <1>6 DEF Lost
<1>8. ClientInv(c)
  BY DEF ServerInv
<1>9. ASSUME c \in paused
      PROVE  pc # "body" /\ (pc = "head" => Token \in RecTokens)
  <2>1. CASE pc = "refuse"
    BY <2>1
  <2>2. CASE pc # "refuse"
    <3>1. Behind(c)
      BY <1>7, <1>8, <1>9, <2>2 DEF ClientInv, Back
    <3> QED
      BY <1>1, <1>4, <1>5, <3>1 DEF Behind
  <2> QED
    BY <2>1, <2>2
<1>10. ASSUME c \notin paused, pc # "refuse"
       PROVE  /\ Placed(c) /\ (Busy(c) => Reading(c))
              /\ Answered(c) \in Nat
              /\ SentBy(c) \in 0 .. Len(Packets[c])
  <2>1. Placed(c) /\ (Busy(c) => Reading(c))
    BY <1>7, <1>8, <1>10 DEF ClientInv, Body, Live, Followed
  <2>2. replies[c] \in Seq(0 .. BufferSize)
    BY DEF ServerInv, Typed
  <2>3. Answered(c) \in Nat
    BY <2>2 DEF Answered
  <2> QED
    BY <2>1, <2>3, Sending
<1>11. ASSUME pc = "head", c \notin paused
       PROVE  Answered(c) < SentBy(c) /\ Token = [head |-> Len(Current(c))]
  <2>1. PICK k \in Nat, m \in 0 .. Len(Packets[c]) : k = Answered(c) /\ m = SentBy(c)
    BY <1>10, <1>11
  <2>2. PICK T : T = Joined(TokensOf(c))
    OBVIOUS
  <2>3. /\ k <= m /\ Len(T[k]) + 0 + Len(Stream(c)) <= Len(T[m])
        /\ Stream(c)[1] = T[m][Len(T[k]) + 0 + 1]
    <3>1. Taken(c) = 0
      BY <1>11 DEF Taken, Busy
    <3>2. 1 \in 1 .. Len(Stream(c))
      BY <1>4
    <3> QED
      BY <1>10, <1>11, <2>1, <2>2, <3>1, <3>2 DEF Placed, PlacedAt, Follows
  <2>4. Len(T[m]) \in Nat /\ Len(T[k]) \in Nat
    <3>1. PICK P \in Seq(Seq(AllTokens)) : P = TokensOf(c) /\ Len(P) = Len(Packets[c])
      BY PacketsAre
    <3>2. T \in [0 .. Len(P) -> Seq(AllTokens)]
      BY <2>2, <3>1, JoinedIs
    <3>3. k \in 0 .. Len(P) /\ m \in 0 .. Len(P)
      BY <2>1, <2>3, <3>1
    <3> QED
      BY <3>2, <3>3
  <2>5. k # m
    BY <1>4, <2>3, <2>4
  <2>6. k \in 0 .. m
    BY <2>1, <2>3
  <2>7. T[m][Len(T[k]) + 1] = [head |-> Len(Packets[c][k + 1])]
    BY <2>2, <2>5, <2>6, TokenAt
  <2>8. Len(T[k]) + 0 + 1 = Len(T[k]) + 1 /\ k < m
    BY <2>4, <2>5, <2>6
  <2> QED
    BY <1>4, <2>1, <2>3, <2>7, <2>8 DEF Current
<1>12. ASSUME pc = "body", iNum < iTotal
       PROVE  Token = [rec |-> Current(c)[iNum + 1]]
  <2>0. c \notin paused /\ Busy(c)
    BY <1>1, <1>9, <1>12 DEF Busy
  <2>1. PICK k \in Nat, m \in 0 .. Len(Packets[c]) : k = Answered(c) /\ m = SentBy(c)
    BY <1>10, <1>12, <2>0
  <2>2. PICK T : T = Joined(TokensOf(c))
    OBVIOUS
  <2>3. k < m /\ k \in 0 .. m /\ k # m /\ iTotal = Len(Packets[c][k + 1])
    BY <1>10, <1>12, <2>0, <2>1 DEF Reading, Current
  <2>4. iNum \in 0 .. iTotal /\ iTotal \in Nat
    BY DEF ServerInv, TypeOK
  <2>5. /\ T[k] \in Seq(AllTokens)
        /\ \A i \in 1 .. Len(Packets[c][k + 1]) :
             T[m][Len(T[k]) + i + 1] = [rec |-> Packets[c][k + 1][i]]
    BY <2>2, <2>3, TokenAt
  <2>6. Len(T[k]) \in Nat /\ iNum + 1 \in 1 .. iTotal
    BY <1>12, <2>4, <2>5
  <2>7. T[m][Len(T[k]) + (iNum + 1) + 1] = [rec |-> Packets[c][k + 1][iNum + 1]]
    BY <2>3, <2>5, <2>6
  <2>8. Stream(c)[1] = T[m][Len(T[k]) + (iNum + 1) + 1]
    <3>1. Taken(c) = iNum + 1
      BY <1>12, <2>0 DEF Taken
    <3>2. 1 \in 1 .. Len(Stream(c))
      BY <1>4
    <3> QED
      BY <1>10, <1>12, <2>0, <2>1, <2>2, <3>1, <3>2 DEF Placed, PlacedAt, Follows
  <2> QED
    BY <1>4, <2>1, <2>7, <2>8 DEF Current
<1>13. pc = "refuse" => c \in paused
  BY <1>1 DEF ServerInv, PauseInv
<1> QED
  BY <1>1, <1>4, <1>9, <1>11, <1>12, <1>13

-----------------------------------------------------------------------------
(* The file with the largest hour.                                         *)
LEMMA ClockStep ==
  ASSUME ServerInv, [Next]_vars
  PROVE  ClockInv'
<1>1. ClockInv /\ g_sMaxTime \in Nat /\ CurTime \in Nat /\ sPerMaxTime \in Nat
  BY DEF ServerInv, TypeOK
<1>2. ASSUME UNCHANGED <<pc, sPerMaxTime, clock, failed>> PROVE ClockInv'
  BY <1>1, <1>2 DEF ClockInv, clock
<1>3. CASE UNCHANGED vars
  BY <1>2, <1>3 DEF vars, packet, history
<1>4. ASSUME NEW c \in Clients,
             Connect(c) \/ Send(c) \/ Deliver(c) \/ Finish(c) \/ Reset(c) \/ Accept(c)
      PROVE  ClockInv'
  <2>1. UNCHANGED <<pc, packet, clock, history>>
    BY <1>4 DEF Connect, Send, Deliver, Finish, Reset, Accept
  <2> QED
    BY <1>2, <2>1 DEF packet, history
<1>5. CASE EpollWait
  BY <1>2, <1>5 DEF EpollWait, packet, history
<1>6. CASE HandleEvent
  BY <1>1, <1>6 DEF HandleEvent, ClockInv, clock, history
<1>7. CASE CloseSocket
  BY <1>1, <1>7 DEF CloseSocket, ClockInv, clock, history, packet
<1>8. CASE RecvHead
  BY <1>1, <1>8 DEF RecvHead, ClockInv, clock, history
<1>9. CASE RecvBody
  BY <1>1, <1>9 DEF RecvBody, ClockInv, clock, history
<1>10. CASE RecvEnds
  BY <1>1, <1>10 DEF RecvEnds, ClockInv, clock, history
<1>11. CASE RecvDone \/ RecvTimeout
  <2>1. pc = "body" /\ StartWrite
    BY <1>11 DEF RecvDone, RecvTimeout
  <2> QED
    BY <1>1, <2>1 DEF StartWrite, ClockInv, clock
<1>12. CASE WriteToMem
  <2>1. PICK r : r = m_psPacket[iNum + 1]
    OBVIOUS
  <2>2. r \in Records \cup {Garbage}
    <3>1. iNum \in 0 .. iTotal /\ iTotal \in 0 .. BufferSize /\ iNum < iTotal /\ BufferSize \in Nat
      BY <1>12, ServerAssumption DEF ServerInv, TypeOK, WriteToMem
    <3>2. iNum + 1 \in Slots
      BY <3>1 DEF Slots
    <3> QED
      BY <2>1, <3>2 DEF ServerInv, TypeOK
  <2>3. PICK h \in Nat : h = Hour(r)
    BY <2>2, ServerAssumption DEF Hour
  <2>4. g_sMaxTime' = Max({g_sMaxTime, h})
    BY <1>12, <2>1, <2>3 DEF WriteToMem
  <2>5. g_sMaxTime' \in Nat /\ g_sMaxTime' >= g_sMaxTime
    BY <1>1, <2>4, MaxOfTwo
  <2>6. pc = "write" /\ UNCHANGED <<pc, sPerMaxTime, CurTime, failed>>
    BY <1>12 DEF WriteToMem
  <2> QED
    BY <1>1, <2>5, <2>6 DEF ClockInv
<1>13. CASE Reply
  BY <1>1, <1>13 DEF Reply, ClockInv, clock
<1>14. CASE SaveCurTime
  BY <1>1, <1>14 DEF SaveCurTime, NewMaximum, ClockInv, history
<1>15. CASE GpsInit
  BY <1>1, <1>15 DEF GpsInit, ClockInv
<1>16. CASE Kill
  BY <1>1, <1>16 DEF Kill, ClockInv
<1> QED
  BY <1>3, <1>4, <1>5, <1>6, <1>7, <1>8, <1>9, <1>10, <1>11, <1>12, <1>13, <1>14, <1>15, <1>16
     DEF Next, ServerStep

(* A packet is refused only after a pause.                                 *)
LEMMA PauseStep ==
  ASSUME ServerInv, [Next]_vars
  PROVE  PauseInv'
<1>1. PauseInv
  BY DEF ServerInv
<1>2. ASSUME UNCHANGED <<pc, iSocket, paused>> PROVE PauseInv'
  BY <1>1, <1>2 DEF PauseInv
<1>3. ASSUME pc' # "refuse" PROVE PauseInv'
  BY <1>3 DEF PauseInv
<1>4. CASE UNCHANGED vars
  BY <1>2, <1>4 DEF vars, packet, history
<1>5. ASSUME NEW c \in Clients,
             Connect(c) \/ Send(c) \/ Deliver(c) \/ Finish(c) \/ Reset(c) \/ Accept(c)
      PROVE  PauseInv'
  <2>1. UNCHANGED <<pc, packet, history>>
    BY <1>5 DEF Connect, Send, Deliver, Finish, Reset, Accept
  <2> QED
    BY <1>2, <2>1 DEF packet, history
<1>6. CASE EpollWait \/ RecvBody
  BY <1>2, <1>6 DEF EpollWait, RecvBody, packet, history
<1>7. CASE HandleEvent \/ CloseSocket \/ RecvEnds \/ SaveCurTime \/ GpsInit \/ Kill
  BY <1>3, <1>7 DEF HandleEvent, CloseSocket, RecvEnds, SaveCurTime, GpsInit, Kill
<1>8. CASE RecvDone \/ RecvTimeout
  BY <1>3, <1>8 DEF RecvDone, RecvTimeout, StartWrite
<1>9. CASE WriteToMem
  BY <1>3, <1>9 DEF WriteToMem
<1>10. CASE Reply
  BY <1>3, <1>10 DEF Reply
<1>11. CASE RecvHead
  <2>1. pc = "head" /\ sock[iSocket] # <<>> /\ UNCHANGED <<iSocket, paused>>
    BY <1>11 DEF RecvHead, Arrived, history
  <2>2. CASE iSocket \in paused
    BY <2>1, <2>2 DEF PauseInv
  <2>3. CASE iSocket \notin paused
    <3>1. PICK n \in 0 .. BufferSize : Token = [head |-> n]
      <4>1. /\ Answered(iSocket) < SentBy(iSocket)
            /\ Token = [head |-> Len(Current(iSocket))]
        BY <2>1, <2>3, NextToken
      <4>2. iSocket \in Clients /\ Answered(iSocket) \in Nat
        BY DEF ServerInv, TypeOK, Typed, Answered
      <4>3. SentBy(iSocket) \in 0 .. Len(Packets[iSocket]) /\ Len(Packets[iSocket]) \in Nat
        BY <4>2, Sending, PacketsAre
      <4>4. Answered(iSocket) + 1 \in 1 .. Len(Packets[iSocket])
        BY <4>1, <4>2, <4>3
      <4>5. Len(Current(iSocket)) \in 0 .. BufferSize
        BY <4>2, <4>4, PacketsAre DEF Current
      <4> QED
        BY <4>1, <4>5
    <3>2. IsHead(Token)
      BY <3>1, TokenKinds
    <3>3. pc' = "body"
      BY <1>11, <3>2 DEF RecvHead
    <3> QED
      BY <1>3, <3>3
  <2> QED
    BY <2>2, <2>3
<1> QED
  BY <1>4, <1>5, <1>6, <1>7, <1>8, <1>9, <1>10, <1>11 DEF Next, ServerStep

-----------------------------------------------------------------------------
(* The queues of events hold open connections, each once, and not that     *)
(* whose event is handled.                                                 *)
Queues ==
  /\ ready \in Seq(Clients) /\ batch \in Seq(Clients)
  /\ QueueInv
  /\ \A d \in Clients : Contains(ready, d) \/ Contains(batch, d) => conn[d] = "open"

OpenQueued == ToSet(ready) \cup ToSet(batch) \subseteq {c \in Clients : conn[c] = "open"}

LEMMA QueuesAre ==
  ASSUME ready \in Seq(Clients), batch \in Seq(Clients)
  PROVE  OpenQueued <=>
            \A d \in Clients : Contains(ready, d) \/ Contains(batch, d) => conn[d] = "open"
<1>1. PICK X \in SUBSET Clients : X = {c \in Clients : conn[c] = "open"}
  OBVIOUS
<1>2. ToSet(ready) \subseteq X <=> \A d \in Clients : Contains(ready, d) => d \in X
  BY QueueOf
<1>3. ToSet(batch) \subseteq X <=> \A d \in Clients : Contains(batch, d) => d \in X
  BY QueueOf
<1> QED
  BY <1>1, <1>2, <1>3 DEF OpenQueued

LEMMA QueuesPrimed ==
  ASSUME ready' \in Seq(Clients), batch' \in Seq(Clients),
         \A d \in Clients : Contains(ready', d) \/ Contains(batch', d) => conn'[d] = "open"
  PROVE  OpenQueued'
<1>1. PICK X \in SUBSET Clients : X = {c \in Clients : conn'[c] = "open"}
  OBVIOUS
<1>2. PICK r \in Seq(Clients), b \in Seq(Clients) : r = ready' /\ b = batch'
  OBVIOUS
<1>3. ToSet(r) \subseteq X /\ ToSet(b) \subseteq X
  BY <1>1, <1>2, QueueOf
<1> QED
  BY <1>1, <1>2, <1>3 DEF OpenQueued

LEMMA ServerQueues ==
  ASSUME ServerInv
  PROVE  Queues
<1>1. OpenQueued /\ ready \in Seq(Clients) /\ batch \in Seq(Clients) /\ QueueInv
  BY DEF ServerInv, TypeOK, Typed, OpenQueued
<1> QED
  BY <1>1, QueuesAre DEF Queues

(* One more event.                                                         *)
LEMMA Woken ==
  ASSUME Queues, NEW c \in Clients
  PROVE  /\ Wake(c) \in Seq(Clients) /\ NoRepeats(Wake(c))
         /\ \A d \in Clients : Contains(Wake(c), d) <=> Contains(ready, d) \/ d = c
<1>1. PICK s \in Seq(Clients) : s = ready /\ NoRepeats(s)
  BY DEF Queues, QueueInv
<1>2. PICK t : t = IF Contains(s, c) THEN s ELSE Append(s, c)
  OBVIOUS
<1>3. /\ t \in Seq(Clients) /\ NoRepeats(t)
      /\ \A d \in Clients : Contains(t, d) <=> Contains(s, d) \/ d = c
  BY <1>1, <1>2, QueueGrows
<1>4. t = Wake(c)
  BY <1>1, <1>2 DEF Wake
<1> QED
  BY <1>1, <1>3, <1>4

LEMMA Waned ==
  ASSUME Queues, NEW c \in Clients
  PROVE  \A d \in Clients : Contains(Without(c), d) <=> Contains(ready, d) /\ d # c
<1>1. ready \in Seq(Clients) /\ NoRepeats(ready)
  BY DEF Queues, QueueInv
<1>2. PICK t : t = Without(c)
  OBVIOUS
<1>3. \A d \in Clients : Contains(t, d) <=> Contains(ready, d) /\ d # c
  BY <1>1, <1>2, QueueShrinks DEF Without
<1> QED
  BY <1>2, <1>3

LEMMA QueuesStep ==
  ASSUME ServerInv, [Next]_vars
  PROVE  Queues'
<1> USE DEF Handling
<1>1. Queues
  BY ServerQueues
<1>2. conn \in [Clients -> {"out", "new", "open", "closed"}] /\ iSocket \in Clients
      /\ fin \in [Clients -> BOOLEAN] /\ wire \in [Clients -> Seq(AllTokens)]
      /\ pc \in {"down", "loop", "head", "body", "refuse", "write", "save", "close"}
  BY DEF ServerInv, TypeOK, Typed
<1>3. ASSUME UNCHANGED <<ready, batch, conn, wire, fin, pc, iSocket>> PROVE Queues'
  BY <1>1, <1>3 DEF Queues, QueueInv, Contains, NoRepeats
<1>4. CASE UNCHANGED vars
  BY <1>3, <1>4 DEF vars, client, socket, packet
(* steps that only change which step is next                               *)
<1>5. ASSUME UNCHANGED <<ready, batch, conn, wire, fin, iSocket>>,
             pc \notin {"down", "loop"}, pc' # "down"
      PROVE  Queues'
  BY <1>1, <1>2, <1>5 DEF Queues, QueueInv, Contains, NoRepeats
(* events of clients                                                       *)
<1>6. ASSUME NEW c \in Clients,
             ready' = IF conn[c] = "open" THEN Wake(c) ELSE ready,
             UNCHANGED <<batch, conn, pc, iSocket>>,
             \A d \in Clients : fin[d]' => wire[d]' = <<>>
      PROVE  Queues'
  <2>1. CASE conn[c] = "open"
    <3>1. /\ ready' \in Seq(Clients) /\ NoRepeats(ready')
          /\ \A d \in Clients : Contains(ready', d) => Contains(ready, d) \/ d = c
      BY <1>1, <1>6, <2>1, Woken
    <3>2. \A d \in Clients : Contains(ready', d) \/ Contains(batch', d) => conn'[d] = "open"
      BY <1>1, <1>6, <2>1, <3>1 DEF Queues
    <3>3. QueueInv'
      BY <1>1, <1>6, <3>1 DEF Queues, QueueInv
    <3> QED
      BY <1>1, <1>6, <3>1, <3>2, <3>3 DEF Queues
  <2>2. CASE conn[c] # "open"
    BY <1>1, <1>6, <2>2 DEF Queues, QueueInv, Contains, NoRepeats
  <2> QED
    BY <2>1, <2>2
<1>7. ASSUME NEW c \in Clients, Connect(c) PROVE Queues'
  <2>1. /\ UNCHANGED <<ready, batch, wire, fin, pc, iSocket>>
        /\ conn[c] = "out" /\ conn' = [conn EXCEPT ![c] = "new"]
    BY <1>7 DEF Connect, client, packet
  <2>2. \A d \in Clients : conn[d] = "open" => conn'[d] = "open"
    BY <1>2, <2>1
  <2> QED
    BY <1>1, <1>2, <2>1, <2>2 DEF Queues, QueueInv, Contains, NoRepeats
<1>8. ASSUME NEW c \in Clients, Send(c) PROVE Queues'
  <2>1. /\ UNCHANGED <<ready, batch, conn, fin, pc, iSocket>> /\ ~fin[c]
        /\ \E t : wire' = [wire EXCEPT ![c] = t]
    BY <1>8 DEF Send, socket, packet
  <2>2. \A d \in Clients : fin[d]' => wire[d]' = <<>>
    BY <1>1, <1>2, <2>1 DEF Queues, QueueInv
  <2> QED
    BY <1>1, <2>1, <2>2 DEF Queues, QueueInv, Contains, NoRepeats
<1>9. ASSUME NEW c \in Clients, Deliver(c) PROVE Queues'
  <2>1. /\ UNCHANGED <<batch, conn, fin, pc, iSocket>>
        /\ ready' = IF conn[c] = "open" THEN Wake(c) ELSE ready
        /\ \E n \in DOMAIN wire[c] : \E t : wire' = [wire EXCEPT ![c] = t]
    BY <1>9 DEF Deliver, packet
  <2>2. wire[c] # <<>>
    BY <2>1
  <2>3. \A d \in Clients : fin[d]' => wire[d]' = <<>>
    BY <1>1, <1>2, <2>1, <2>2 DEF Queues, QueueInv
  <2> QED
    BY <1>6, <2>1, <2>3
<1>10. ASSUME NEW c \in Clients, Finish(c) PROVE Queues'
  <2>1. /\ UNCHANGED <<batch, conn, pc, iSocket>>
        /\ ready' = IF conn[c] = "open" THEN Wake(c) ELSE ready
        /\ fin' = [fin EXCEPT ![c] = TRUE] /\ wire' = [wire EXCEPT ![c] = <<>>]
    BY <1>10 DEF Finish, packet
  <2>2. \A d \in Clients : fin[d]' => wire[d]' = <<>>
    BY <1>1, <1>2, <2>1 DEF Queues, QueueInv
  <2> QED
    BY <1>6, <2>1, <2>2
<1>11. ASSUME NEW c \in Clients, Reset(c) PROVE Queues'
  <2>1. /\ UNCHANGED <<batch, conn, pc, iSocket, fin, wire>>
        /\ ready' = IF conn[c] = "open" THEN Wake(c) ELSE ready
    BY <1>11 DEF Reset, packet
  <2> QED
    BY <1>1, <1>6, <2>1 DEF Queues, QueueInv
<1>12. ASSUME NEW c \in Clients, Accept(c) PROVE Queues'
  <2>1. /\ UNCHANGED <<batch, wire, fin, pc, iSocket>> /\ pc = "loop"
        /\ conn[c] = "new" /\ conn' = [conn EXCEPT ![c] = "open"]
        /\ ready' = ready \/ ready' = Wake(c)
    BY <1>12 DEF Accept, client, packet
  <2>2. (\A d \in Clients : conn[d] = "open" => conn'[d] = "open") /\ conn'[c] = "open"
    BY <1>2, <2>1
  <2>3. /\ Wake(c) \in Seq(Clients) /\ NoRepeats(Wake(c))
        /\ \A d \in Clients : Contains(Wake(c), d) <=> Contains(ready, d) \/ d = c
    BY <1>1, Woken
  <2>5. Queues'
    <3>1. ready' \in Seq(Clients) /\ NoRepeats(ready')
          /\ \A d \in Clients : Contains(ready', d) => Contains(ready, d) \/ d = c
      BY <1>1, <2>1, <2>3 DEF Queues, QueueInv
    <3>2. \A d \in Clients : Contains(ready', d) \/ Contains(batch', d) => conn'[d] = "open"
      BY <1>1, <2>1, <2>2, <3>1 DEF Queues
    <3>3. QueueInv'
      BY <1>1, <2>1, <3>1 DEF Queues, QueueInv
    <3> QED
      BY <1>1, <2>1, <3>1, <3>2, <3>3 DEF Queues
  <2> QED
    BY <2>5
<1>13. CASE EpollWait
  <2>1. /\ pc = "loop" /\ batch' = ready /\ ready' = <<>>
        /\ UNCHANGED <<conn, wire, fin, pc, iSocket>>
    BY <1>13 DEF EpollWait, client, packet
  <2>2. <<>> \in Seq(Clients) /\ NoRepeats(<<>>) /\ \A d \in Clients : ~Contains(<<>>, d)
    BY DEF NoRepeats, Contains
  <2> QED
    BY <1>1, <2>1, <2>2 DEF Queues, QueueInv, Contains, NoRepeats
<1>14. CASE HandleEvent
  <2>1. /\ batch # <<>> /\ iSocket' = Head(batch) /\ batch' = Tail(batch) /\ pc' = "head"
        /\ UNCHANGED <<ready, conn, wire, fin>>
    BY <1>14 DEF HandleEvent, client, socket
  <2>2. PICK q \in Seq(Clients) : q = batch /\ q # <<>> /\ NoRepeats(q)
    BY <1>1, <2>1 DEF Queues, QueueInv
  <2>3. /\ Head(q) \in Clients /\ Contains(q, Head(q))
        /\ Tail(q) \in Seq(Clients) /\ NoRepeats(Tail(q)) /\ ~Contains(Tail(q), Head(q))
        /\ \A d \in Clients : Contains(q, d) <=> Contains(Tail(q), d) \/ d = Head(q)
    BY <2>2, QueueHead
  <2> QED
    BY <1>1, <2>1, <2>2, <2>3 DEF Queues, QueueInv
<1>15. CASE CloseSocket
  <2>1. /\ pc = "close" /\ pc' = "loop" /\ batch' = batch /\ ready' = Without(iSocket)
        /\ conn' = [conn EXCEPT ![iSocket] = "closed"]
        /\ wire' = [wire EXCEPT ![iSocket] = <<>>]
        /\ UNCHANGED <<fin, iSocket>>
    BY <1>15 DEF CloseSocket, Pending, packet
  <2>2. PICK t : t = Without(iSocket)
    OBVIOUS
  <2>3. ready \in Seq(Clients) /\ NoRepeats(ready)
    BY <1>1 DEF Queues, QueueInv
  <2>4. /\ t \in Seq(Clients) /\ NoRepeats(t)
        /\ \A d \in Clients : Contains(t, d) <=> Contains(ready, d) /\ d # iSocket
    BY <1>2, <2>2, <2>3, QueueShrinks DEF Without
  <2>5. \A d \in Clients : fin[d]' => wire[d]' = <<>>
    BY <1>1, <1>2, <2>1 DEF Queues, QueueInv
  <2>6. ~Contains(batch, iSocket)
    BY <1>1, <2>1 DEF Queues, QueueInv
  <2>7. \A d \in Clients : d # iSocket => conn'[d] = conn[d]
    BY <1>2, <2>1
  <2> QED
    BY <1>1, <2>1, <2>2, <2>4, <2>5, <2>6, <2>7 DEF Queues, QueueInv
<1>16. CASE RecvHead
  BY <1>5, <1>16 DEF RecvHead, client
<1>17. CASE RecvBody
  BY <1>5, <1>17 DEF RecvBody, client
<1>18. CASE RecvEnds
  BY <1>5, <1>18 DEF RecvEnds, client, socket, packet
<1>19. CASE RecvDone \/ RecvTimeout
  BY <1>5, <1>19 DEF RecvDone, RecvTimeout, StartWrite, client, socket
<1>20. CASE WriteToMem
  BY <1>5, <1>20 DEF WriteToMem, client, socket
<1>21. CASE Reply
  BY <1>5, <1>21 DEF Reply, socket
<1>22. CASE SaveCurTime
  BY <1>5, <1>22 DEF SaveCurTime, client, socket, packet
<1>23. CASE GpsInit
  <2>1. pc = "down" /\ pc' = "loop" /\ UNCHANGED <<ready, batch, conn, wire, fin, iSocket>>
    BY <1>23 DEF GpsInit, client, socket, packet
  <2> QED
    BY <1>1, <2>1 DEF Queues, QueueInv, Contains, NoRepeats
<1>24. CASE Kill
  <2>1. /\ ready' = <<>> /\ batch' = <<>> /\ pc' = "down"
        /\ wire' = [c \in Clients |-> <<>>]
    BY <1>24 DEF Kill
  <2>2. <<>> \in Seq(Clients) /\ NoRepeats(<<>>) /\ \A d \in Clients : ~Contains(<<>>, d)
    BY DEF NoRepeats, Contains
  <2>3. \A d \in Clients : wire'[d] = <<>>
    BY <2>1
  <2> QED
    BY <2>1, <2>2, <2>3 DEF Queues, QueueInv
<1> QED
  BY <1>4, <1>7, <1>8, <1>9, <1>10, <1>11, <1>12, <1>13, <1>14, <1>15, <1>16, <1>17, <1>18,
     <1>19, <1>20, <1>21, <1>22, <1>23, <1>24 DEF Next, ServerStep

-----------------------------------------------------------------------------
(* Types.                                                                  *)
Steps == {"down", "loop", "head", "body", "refuse", "write", "save", "close"}

Flows ==
  /\ sock \in [Clients -> Seq(AllTokens)] /\ wire \in [Clients -> Seq(AllTokens)]
  /\ unsent \in [Clients -> Seq(Seq(Records))]
  /\ \A c \in Clients : \E k \in 0 .. Len(Packets[c]) :
       unsent[c] = SubSeq(Packets[c], k + 1, Len(Packets[c]))
  /\ log \in [Clients -> Seq(Records \cup {Garbage})]
  /\ replies \in [Clients -> Seq(0 .. BufferSize)]

Buffers ==
  /\ pc \in Steps /\ iSocket \in Clients
  /\ m_psPacket \in [Slots -> Records \cup {Garbage}]
  /\ iNum \in 0 .. iTotal /\ iTotal \in 0 .. BufferSize
  /\ sPerMaxTime \in Nat /\ g_sMaxTime \in Nat /\ CurTime \in Nat

Ends ==
  /\ fin \in [Clients -> BOOLEAN] /\ reset \subseteq Clients /\ \A c \in reset : fin[c]
  /\ conn \in [Clients -> {"out", "new", "open", "closed"}]
  /\ paused \subseteq Clients /\ failed \in BOOLEAN /\ crashes \in 0 .. MaxCrashes

LEMMA TypeIs ==
  (TypeOK /\ Typed) <=> (Flows /\ Buffers /\ Ends /\ OpenQueued
                           /\ ready \in Seq(Clients) /\ batch \in Seq(Clients))
BY DEF TypeOK, Typed, Flows, Buffers, Ends, OpenQueued, Steps

LEMMA TypePrimed ==
  (Flows' /\ Buffers' /\ Ends' /\ OpenQueued' /\ ready' \in Seq(Clients) /\ batch' \in Seq(Clients))
    => TypeOK' /\ Typed'
BY DEF TypeOK, Typed, Flows, Buffers, Ends, OpenQueued, Steps

LEMMA BuffersStep ==
  ASSUME ServerInv, [Next]_vars
  PROVE  Buffers'
<1>1. Buffers /\ Queues /\ BufferSize \in Nat
  BY TypeIs, ServerQueues, ServerAssumption DEF ServerInv
<1>2. ASSUME UNCHANGED <<pc, packet, clock>> PROVE Buffers'
  BY <1>1, <1>2 DEF Buffers, packet, clock, Steps
<1>3. ASSUME UNCHANGED <<packet, clock>>, pc' \in Steps PROVE Buffers'
  BY <1>1, <1>3 DEF Buffers, packet, clock
<1>4. CASE UNCHANGED vars
  BY <1>2, <1>4 DEF vars
<1>5. ASSUME NEW c \in Clients,
             Connect(c) \/ Send(c) \/ Deliver(c) \/ Finish(c) \/ Reset(c) \/ Accept(c)
      PROVE  Buffers'
  <2>1. UNCHANGED <<pc, packet, clock>>
    BY <1>5 DEF Connect, Send, Deliver, Finish, Reset, Accept
  <2> QED
    BY <1>2, <2>1
<1>6. CASE EpollWait
  BY <1>2, <1>6 DEF EpollWait
<1>7. CASE HandleEvent
  <2>1. Head(batch) \in Clients
    BY <1>1, <1>7, HeadTailProperties DEF HandleEvent, Queues
  <2>2. 0 \in 0 .. BufferSize /\ 0 \in 0 .. 0
    BY <1>1
  <2> QED
    BY <1>1, <1>7, <2>1, <2>2 DEF HandleEvent, Buffers, clock, Steps
<1>8. CASE CloseSocket
  BY <1>3, <1>8 DEF CloseSocket, Steps
<1>9. CASE RecvHead
  <2>1. pc = "head" /\ sock[iSocket] # <<>>
    BY <1>9 DEF RecvHead, Arrived
  <2>2. iNum = 0
    BY <2>1 DEF ServerInv, HeadInv
  <2>3. iTotal' \in 0 .. BufferSize /\ pc' \in Steps
    <3>1. Token \in AllTokens
      BY <2>1, NextToken
    <3>2. IsHead(Token) => Token.head \in 0 .. BufferSize
      BY <3>1, TokenKinds DEF AllTokens
    <3> QED
      BY <1>9, <3>2 DEF RecvHead, Steps
  <2>4. iNum \in 0 .. iTotal'
    BY <2>2, <2>3
  <2> QED
    BY <1>1, <1>9, <2>3, <2>4 DEF RecvHead, Buffers, clock
<1>10. CASE RecvBody
  <2>1. pc \in {"body", "refuse"} /\ iNum # iTotal /\ sock[iSocket] # <<>>
    BY <1>10 DEF RecvBody, Arrived, BodyRead
  <2>2. iNum < iTotal /\ iNum + 1 \in 0 .. iTotal /\ iNum + 1 \in Slots
    BY <1>1, <2>1 DEF Buffers, Slots
  <2>3. pc = "body" => Token.rec \in Records
    <3> SUFFICES ASSUME pc = "body" PROVE Token.rec \in Records
      OBVIOUS
    <3>1. Token \in AllTokens /\ Token = [rec |-> Current(iSocket)[iNum + 1]]
      BY <2>1, <2>2, NextToken
    <3>2. Token \notin HeadTokens
      <4>1. DOMAIN Token = {"rec"}
        BY <3>1
      <4>2. {"rec"} # {"head"}
        OBVIOUS
      <4> QED
        BY <4>1, <4>2, TokenKinds DEF IsHead
    <3> QED
      BY <3>1, <3>2, TokenKinds DEF AllTokens
  <2>4. m_psPacket' \in [Slots -> Records \cup {Garbage}]
    BY <1>1, <1>10, <2>2, <2>3 DEF RecvBody, Buffers
  <2> QED
    BY <1>1, <1>10, <2>2, <2>4 DEF RecvBody, Buffers, clock
<1>11. CASE RecvEnds
  BY <1>3, <1>11 DEF RecvEnds, Steps
<1>12. CASE RecvDone \/ RecvTimeout
  <2>1. StartWrite
    BY <1>12 DEF RecvDone, RecvTimeout
  <2>2. 0 \in 0 .. iTotal
    BY <1>1 DEF Buffers
  <2> QED
    BY <1>1, <2>1, <2>2 DEF StartWrite, Buffers, clock, Steps
<1>13. CASE WriteToMem
  <2>1. iNum < iTotal /\ iNum + 1 \in 0 .. iTotal /\ iNum + 1 \in Slots
    BY <1>1, <1>13 DEF WriteToMem, Buffers, Slots
  <2>2. PICK h \in Nat : h = Hour(m_psPacket[iNum + 1])
    <3>1. m_psPacket[iNum + 1] \in Records \cup {Garbage}
      BY <1>1, <2>1 DEF Buffers
    <3> QED
      BY <3>1, ServerAssumption DEF Hour
  <2>3. g_sMaxTime' \in Nat
    <3>1. g_sMaxTime' = Max({g_sMaxTime, h})
      BY <1>13, <2>2 DEF WriteToMem
    <3> QED
      BY <1>1, <3>1, MaxOfTwo DEF Buffers
  <2> QED
    BY <1>1, <1>13, <2>1, <2>3 DEF WriteToMem, Buffers
<1>14. CASE Reply
  <2>1. m_psPacket' \in [Slots -> Records \cup {Garbage}]
    BY <1>1, <1>14 DEF Reply, Buffers
  <2> QED
    BY <1>1, <1>14, <2>1 DEF Reply, Buffers, clock, Steps
<1>15. CASE SaveCurTime
  <2>1. CurTime' \in Nat
    BY <1>1, <1>15 DEF SaveCurTime, Buffers
  <2> QED
    BY <1>1, <1>15, <2>1 DEF SaveCurTime, Buffers, packet, Steps
<1>16. CASE GpsInit
  BY <1>1, <1>16 DEF GpsInit, Buffers, packet, Steps
<1>17. CASE Kill
  <2>1. EmptyBuffer \in [Slots -> Records \cup {Garbage}]
    BY DEF EmptyBuffer
  <2>2. 0 \in 0 .. BufferSize /\ 0 \in 0 .. 0
    BY <1>1
  <2> QED
    BY <1>1, <1>17, <2>1, <2>2 DEF Kill, Buffers, Steps
<1> QED
  BY <1>4, <1>5, <1>6, <1>7, <1>8, <1>9, <1>10, <1>11, <1>12, <1>13, <1>14, <1>15, <1>16, <1>17
     DEF Next, ServerStep

LEMMA HeadStep ==
  ASSUME ServerInv, [Next]_vars
  PROVE  HeadInv'
<1>1. HeadInv
  BY DEF ServerInv
<1>2. ASSUME UNCHANGED <<pc, packet>> PROVE HeadInv'
  BY <1>1, <1>2 DEF HeadInv, packet
<1>3. CASE UNCHANGED vars
  BY <1>2, <1>3 DEF vars
<1>4. ASSUME NEW c \in Clients,
             Connect(c) \/ Send(c) \/ Deliver(c) \/ Finish(c) \/ Reset(c) \/ Accept(c)
      PROVE  HeadInv'
  BY <1>2, <1>4 DEF Connect, Send, Deliver, Finish, Reset, Accept
<1>5. CASE EpollWait
  BY <1>2, <1>5 DEF EpollWait
<1>6. CASE HandleEvent
  BY <1>6 DEF HandleEvent, HeadInv
<1>7. ASSUME pc' # "head" PROVE HeadInv'
  BY <1>7 DEF HeadInv
<1>8. CASE CloseSocket \/ RecvHead \/ RecvBody \/ RecvEnds \/ RecvDone \/ RecvTimeout
  BY <1>7, <1>8 DEF CloseSocket, RecvHead, RecvBody, RecvEnds, RecvDone, RecvTimeout, StartWrite
<1>9. CASE WriteToMem \/ Reply \/ SaveCurTime \/ GpsInit \/ Kill
  BY <1>7, <1>9 DEF WriteToMem, Reply, SaveCurTime, GpsInit, Kill
<1> QED
  BY <1>3, <1>4, <1>5, <1>6, <1>8, <1>9 DEF Next, ServerStep

LEMMA EndsStep ==
  ASSUME ServerInv, [Next]_vars
  PROVE  Ends'
<1>1. Ends /\ iSocket \in Clients /\ MaxCrashes \in Nat
  BY TypeIs, ServerAssumption DEF ServerInv, Buffers
<1>2. ASSUME UNCHANGED <<fin, reset, conn, history>> PROVE Ends'
  BY <1>1, <1>2 DEF Ends, history
<1>3. CASE UNCHANGED vars
  BY <1>2, <1>3 DEF vars, client, socket
<1>4. ASSUME NEW c \in Clients, Connect(c) PROVE Ends'
  <2>1. conn' \in [Clients -> {"out", "new", "open", "closed"}]
    BY <1>1, <1>4 DEF Connect, Ends
  <2> QED
    BY <1>1, <1>4, <2>1 DEF Connect, Ends, client, history
<1>5. ASSUME NEW c \in Clients, Send(c) \/ Deliver(c) PROVE Ends'
  BY <1>2, <1>5 DEF Send, Deliver, socket
<1>6. ASSUME NEW c \in Clients, Finish(c) PROVE Ends'
  <2>1. fin' \in [Clients -> BOOLEAN] /\ \A d \in Clients : fin[d] => fin'[d]
    BY <1>1, <1>6 DEF Finish, Ends
  <2> QED
    BY <1>1, <1>6, <2>1 DEF Finish, Ends, history
<1>7. ASSUME NEW c \in Clients, Reset(c) PROVE Ends'
  BY <1>1, <1>7 DEF Reset, Ends, history
<1>8. ASSUME NEW c \in Clients, Accept(c) PROVE Ends'
  <2>1. conn' \in [Clients -> {"out", "new", "open", "closed"}]
    BY <1>1, <1>8 DEF Accept, Ends
  <2> QED
    BY <1>1, <1>8, <2>1 DEF Accept, Ends, client, history
<1>9. CASE EpollWait \/ HandleEvent \/ RecvEnds \/ SaveCurTime \/ GpsInit
  BY <1>2, <1>9 DEF EpollWait, HandleEvent, RecvEnds, SaveCurTime, GpsInit, client, socket
<1>10. CASE CloseSocket
  <2>1. conn' \in [Clients -> {"out", "new", "open", "closed"}]
    BY <1>1, <1>10 DEF CloseSocket, Ends
  <2> QED
    BY <1>1, <1>10, <2>1 DEF CloseSocket, Ends, history
<1>11. CASE RecvHead \/ RecvBody
  BY <1>2, <1>11 DEF RecvHead, RecvBody, client
<1>12. CASE RecvDone \/ RecvTimeout
  BY <1>1, <1>12 DEF RecvDone, RecvTimeout, StartWrite, Ends, client, socket
<1>13. CASE WriteToMem
  BY <1>1, <1>13 DEF WriteToMem, Ends, client, socket
<1>14. CASE Reply
  BY <1>1, <1>14 DEF Reply, Ends, socket
<1>15. CASE Kill
  <2>1. conn' \in [Clients -> {"out", "new", "open", "closed"}]
    BY <1>1, <1>15 DEF Kill, Ends
  <2>2. crashes' \in 0 .. MaxCrashes
    BY <1>1, <1>15 DEF Kill, Ends
  <2> QED
    BY <1>1, <1>15, <2>1, <2>2 DEF Kill, Ends
<1> QED
  BY <1>3, <1>4, <1>5, <1>6, <1>7, <1>8, <1>9, <1>10, <1>11, <1>12, <1>13, <1>14, <1>15
     DEF Next, ServerStep

LEMMA FlowsStep ==
  ASSUME ServerInv, [Next]_vars
  PROVE  Flows'
<1>1. Flows /\ Buffers
  BY TypeIs DEF ServerInv
<1>2. ASSUME UNCHANGED <<sock, wire, unsent, log, replies>> PROVE Flows'
  BY <1>1, <1>2 DEF Flows
<1>3. CASE UNCHANGED vars
  BY <1>2, <1>3 DEF vars, client, socket, history
<1>4. ASSUME NEW c \in Clients, Connect(c) \/ Reset(c) \/ Accept(c) PROVE Flows'
  BY <1>2, <1>4 DEF Connect, Reset, Accept, client, history
<1>5. ASSUME NEW c \in Clients, Send(c) PROVE Flows'
  <2>1. /\ unsent[c] # <<>> /\ wire' = [wire EXCEPT ![c] = wire[c] \o Tokens(Head(unsent[c]))]
        /\ unsent' = [unsent EXCEPT ![c] = Tail(unsent[c])]
        /\ UNCHANGED <<sock, log, replies>>
    BY <1>5 DEF Send, socket, history
  <2>2. /\ SentBy(c) + 1 \in 1 .. Len(Packets[c])
        /\ Head(unsent[c]) = Packets[c][SentBy(c) + 1]
        /\ Tail(unsent[c]) = SubSeq(Packets[c], SentBy(c) + 2, Len(Packets[c]))
        /\ SentBy(c) \in 0 .. Len(Packets[c]) /\ Len(Packets[c]) \in Nat
    BY <2>1, Sending, PacketsAre
  <2>3. PICK k \in 0 .. Len(Packets[c]) : k = SentBy(c) + 1 /\ k + 1 = SentBy(c) + 2
    <3>1. SentBy(c) + 1 \in 0 .. Len(Packets[c]) /\ (SentBy(c) + 1) + 1 = SentBy(c) + 2
      BY <2>2
    <3> QED
      BY <3>1
  <2>4. Tokens(Head(unsent[c])) \in Seq(AllTokens)
    <3>1. PICK p \in Seq(Records) : p = Packets[c][SentBy(c) + 1] /\ Len(p) \in 0 .. BufferSize
      BY <2>2, PacketsAre
    <3>2. Len(p) <= BufferSize
      BY <3>1, ServerAssumption
    <3> QED
      BY <2>2, <3>1, <3>2, TokensAre
  <2>5. wire' \in [Clients -> Seq(AllTokens)]
    <3>1. wire[c] \o Tokens(Head(unsent[c])) \in Seq(AllTokens)
      BY <1>1, <2>4, ConcatProperties DEF Flows
    <3> QED
      BY <1>1, <2>1, <3>1 DEF Flows
  <2>6. unsent' \in [Clients -> Seq(Seq(Records))]
    <3>1. Tail(unsent[c]) \in Seq(Seq(Records))
      BY <1>1, <2>1, HeadTailProperties DEF Flows
    <3> QED
      BY <1>1, <2>1, <3>1 DEF Flows
  <2>7. ASSUME NEW d \in Clients
        PROVE  \E n \in 0 .. Len(Packets[d]) :
                 unsent'[d] = SubSeq(Packets[d], n + 1, Len(Packets[d]))
    <3>1. CASE d = c
      <4>1. unsent'[d] = SubSeq(Packets[d], k + 1, Len(Packets[d]))
        BY <1>1, <2>1, <2>2, <2>3, <3>1 DEF Flows
      <4> QED
        BY <2>3, <3>1, <4>1
    <3>2. CASE d # c
      BY <1>1, <2>1, <3>2 DEF Flows
    <3> QED
      BY <3>1, <3>2
  <2> QED
    BY <1>1, <2>1, <2>5, <2>6, <2>7 DEF Flows
<1>6. ASSUME NEW c \in Clients, Deliver(c) PROVE Flows'
  <2>1. PICK n \in DOMAIN wire[c] :
          /\ sock' = [sock EXCEPT ![c] = sock[c] \o SubSeq(wire[c], 1, n)]
          /\ wire' = [wire EXCEPT ![c] = SubSeq(wire[c], n + 1, Len(wire[c]))]
          /\ UNCHANGED <<unsent, log, replies>>
    BY <1>6 DEF Deliver, history
  <2>2. PICK s \in Seq(AllTokens), w \in Seq(AllTokens) : s = sock[c] /\ w = wire[c]
    BY <1>1 DEF Flows
  <2>3. n \in 1 .. Len(w)
    BY <2>1, <2>2
  <2>4. s \o SubSeq(w, 1, n) \in Seq(AllTokens) /\ SubSeq(w, n + 1, Len(w)) \in Seq(AllTokens)
    BY <2>3, Delivered
  <2> QED
    BY <1>1, <2>1, <2>2, <2>4 DEF Flows
<1>7. ASSUME NEW c \in Clients, Finish(c) PROVE Flows'
  <2>1. wire' = [wire EXCEPT ![c] = <<>>] /\ UNCHANGED <<sock, unsent, log, replies>>
    BY <1>7 DEF Finish, history
  <2>2. <<>> \in Seq(AllTokens)
    OBVIOUS
  <2> QED
    BY <1>1, <2>1, <2>2 DEF Flows
<1>8. CASE EpollWait \/ HandleEvent \/ RecvEnds \/ SaveCurTime \/ GpsInit
  BY <1>2, <1>8 DEF EpollWait, HandleEvent, RecvEnds, SaveCurTime, GpsInit, client, socket, history
<1>9. CASE CloseSocket
  <2>1. /\ wire' = [wire EXCEPT ![iSocket] = <<>>] /\ sock' = [sock EXCEPT ![iSocket] = <<>>]
        /\ UNCHANGED <<unsent, log, replies>>
    BY <1>9 DEF CloseSocket, history
  <2>2. <<>> \in Seq(AllTokens)
    OBVIOUS
  <2> QED
    BY <1>1, <2>1, <2>2 DEF Flows
<1>10. CASE RecvHead \/ RecvBody
  <2>1. /\ sock[iSocket] # <<>> /\ sock' = [sock EXCEPT ![iSocket] = Tail(sock[iSocket])]
        /\ UNCHANGED <<wire, unsent, log, replies>>
    BY <1>10 DEF RecvHead, RecvBody, Arrived, client, history
  <2>2. Tail(sock[iSocket]) \in Seq(AllTokens)
    BY <1>1, <2>1, HeadTailProperties DEF Flows, Buffers
  <2> QED
    BY <1>1, <2>1, <2>2 DEF Flows
<1>11. CASE RecvDone \/ RecvTimeout
  BY <1>2, <1>11 DEF RecvDone, RecvTimeout, StartWrite, client, socket
<1>12. CASE WriteToMem
  <2>1. PICK r : /\ r = m_psPacket[iNum + 1]
                 /\ log' = [log EXCEPT ![iSocket] = Append(log[iSocket], r)]
                 /\ iNum < iTotal /\ UNCHANGED <<sock, wire, unsent, replies>>
    BY <1>12 DEF WriteToMem, client, socket
  <2>2. r \in Records \cup {Garbage}
    <3>1. iNum + 1 \in Slots
      BY <1>1, <2>1, ServerAssumption DEF Buffers, Slots
    <3> QED
      BY <1>1, <2>1, <3>1 DEF Buffers
  <2>3. Append(log[iSocket], r) \in Seq(Records \cup {Garbage})
    BY <1>1, <2>2, AppendProperties DEF Flows, Buffers
  <2> QED
    BY <1>1, <2>1, <2>3 DEF Flows
<1>13. CASE Reply
  <2>1. replies' = replies
        \/ replies' = [replies EXCEPT ![iSocket] = Append(replies[iSocket], iTotal)]
    BY <1>13 DEF Reply
  <2>2. UNCHANGED <<sock, wire, unsent, log>>
    BY <1>13 DEF Reply, socket
  <2>3. Append(replies[iSocket], iTotal) \in Seq(0 .. BufferSize)
    BY <1>1, AppendProperties DEF Flows, Buffers
  <2> QED
    BY <1>1, <2>1, <2>2, <2>3 DEF Flows
<1>14. CASE Kill
  <2>1. /\ wire' = [c \in Clients |-> <<>>] /\ sock' = wire'
        /\ UNCHANGED <<unsent, log, replies>>
    BY <1>14 DEF Kill
  <2>2. <<>> \in Seq(AllTokens)
    OBVIOUS
  <2> QED
    BY <1>1, <2>1, <2>2 DEF Flows
<1> QED
  BY <1>3, <1>4, <1>5, <1>6, <1>7, <1>8, <1>9, <1>10, <1>11, <1>12, <1>13, <1>14
     DEF Next, ServerStep

-----------------------------------------------------------------------------
(* What steps do to the place of a client in its stream.                   *)
LEMMA Offsets ==
  ASSUME NEW c \in Clients, NEW k \in 0 .. Len(Packets[c])
  PROVE  /\ Joined(TokensOf(c))[k] \in Seq(AllTokens)
         /\ Len(Joined(TokensOf(c))[k]) \in Nat
<1>1. PICK P \in Seq(Seq(AllTokens)) : P = TokensOf(c) /\ Len(P) = Len(Packets[c])
  BY PacketsAre
<1>2. Joined(P) \in [0 .. Len(P) -> Seq(AllTokens)]
  BY JoinedIs
<1>3. Joined(P)[k] \in Seq(AllTokens)
  BY <1>1, <1>2
<1> QED
  BY <1>1, <1>3

LEMMA FollowsTaken ==
  ASSUME NEW S, NEW u, NEW a \in Nat, NEW f, NEW s \in Seq(S), NEW w \in Seq(S), s # <<>>,
         Len(u) \in Nat, Follows(u, a, s \o w, f)
  PROVE  Follows(u, a + 1, Tail(s) \o w, f)
<1>1. PICK str : str = s \o w
  OBVIOUS
<1>2. PICK rest : rest = Tail(s) \o w
  OBVIOUS
<1>3. PICK n \in Nat : Len(str) = n + 1 /\ Len(rest) = n
  <2>1. Len(str) \in Nat /\ Len(str) >= 1 /\ Len(rest) = Len(str) - 1
    BY <1>1, <1>2, TokenTaken
  <2>2. Len(str) - 1 \in Nat /\ Len(str) = (Len(str) - 1) + 1
    BY <2>1
  <2> QED
    BY <2>1, <2>2, Zenon
<1>4. \A i \in 1 .. n : rest[i] = str[i + 1]
  <2>1. \A i \in 1 .. Len(str) - 1 : rest[i] = str[i + 1]
    BY <1>1, <1>2, TokenTaken
  <2>2. Len(str) - 1 = n
    BY <1>3
  <2> QED
    BY <2>1, <2>2
<1>5. /\ a + (n + 1) <= Len(u) /\ (~f => a + (n + 1) = Len(u))
      /\ \A i \in 1 .. n + 1 : str[i] = u[a + i]
  BY <1>1, <1>3 DEF Follows
<1>6. \A i \in 1 .. n : rest[i] = u[(a + 1) + i]
  <2> TAKE i \in 1 .. n
  <2>1. i + 1 \in 1 .. n + 1 /\ a + (i + 1) = (a + 1) + i
    OBVIOUS
  <2>2. str[i + 1] = u[a + (i + 1)]
    BY <1>5, <2>1
  <2> QED
    BY <1>4, <2>1, <2>2
<1>7. (a + 1) + n <= Len(u) /\ (~f => (a + 1) + n = Len(u))
  BY <1>5
<1>8. Follows(u, a + 1, rest, f)
  BY <1>3, <1>6, <1>7, Zenon DEF Follows
<1> QED
  BY <1>2, <1>8

(* The client closes: the end of its stream is cut off.                    *)
LEMMA FollowsCut ==
  ASSUME NEW S, NEW u, NEW a \in Nat, NEW f, NEW s \in Seq(S), NEW w \in Seq(S),
         Len(u) \in Nat, Follows(u, a, s \o w, f)
  PROVE  Follows(u, a, s \o <<>>, TRUE)
<1>1. PICK str : str = s \o w
  OBVIOUS
<1>2. PICK n \in Nat, l \in Nat : n = Len(s) /\ l = Len(w) /\ Len(str) = n + l
  BY <1>1, ConcatAfter
<1>3. \A i \in 1 .. n : str[i] = s[i]
  BY <1>1, <1>2, ConcatAfter
<1>4. s \o <<>> = s
  BY ConcatEmptySeq
<1>5. a + (n + l) <= Len(u) /\ \A i \in 1 .. n + l : str[i] = u[a + i]
  BY <1>1, <1>2 DEF Follows
<1>6. a + n <= Len(u)
  BY <1>5
<1>7. \A i \in 1 .. n : s[i] = u[a + i]
  BY <1>3, <1>5
<1>8. Follows(u, a, s, TRUE)
  BY <1>2, <1>6, <1>7, Zenon DEF Follows
<1> QED
  BY <1>4, <1>8

(* The client sends another packet.                                        *)
LEMMA FollowsMore ==
  ASSUME NEW S, NEW u \in Seq(S), NEW a \in Nat, NEW str \in Seq(S), NEW p \in Seq(S),
         Follows(u, a, str, FALSE)
  PROVE  Follows(u \o p, a, str \o p, FALSE)
<1>1. PICK new \in Seq(S), d \in Seq(S) : new = str \o p /\ d = u \o p
  BY ConcatProperties, Zenon
<1>2. PICK n \in Nat, l \in Nat, b \in Nat : n = Len(str) /\ l = Len(p) /\ b = Len(u)
  OBVIOUS
<1>3. /\ Len(new) = n + l
      /\ \A i \in 1 .. n : new[i] = str[i]
      /\ \A i \in 1 .. l : new[n + i] = p[i]
  BY <1>1, <1>2, ConcatAfter
<1>4. /\ Len(d) = b + l
      /\ \A i \in 1 .. b : d[i] = u[i]
      /\ \A i \in 1 .. l : d[b + i] = p[i]
  BY <1>1, <1>2, ConcatAfter
<1>5. a + n = b /\ \A i \in 1 .. n : str[i] = u[a + i]
  BY <1>2 DEF Follows
<1>6. ASSUME NEW i \in 1 .. n + l PROVE new[i] = d[a + i]
  <2>1. CASE i <= n
    <3>1. i \in 1 .. n /\ a + i \in 1 .. b
      BY <1>5, <2>1
    <3>2. new[i] = str[i] /\ str[i] = u[a + i] /\ d[a + i] = u[a + i]
      BY <1>3, <1>4, <1>5, <3>1, Zenon
    <3> QED
      BY <3>2, Zenon
  <2>2. CASE ~(i <= n)
    <3>1. PICK j \in 1 .. l : i = n + j
      <4>1. i - n \in 1 .. l /\ i = n + (i - n)
        BY <2>2
      <4> QED
        BY <4>1, Zenon
    <3>2. a + i = b + j
      BY <1>5, <3>1
    <3>3. new[n + j] = p[j] /\ d[b + j] = p[j]
      BY <1>3, <1>4, Zenon
    <3> QED
      BY <3>1, <3>2, <3>3, Zenon
  <2> QED
    BY <2>1, <2>2, Zenon
<1>7. a + (n + l) = b + l /\ a + (n + l) <= b + l
  BY <1>5
<1>8. Follows(d, a, new, FALSE)
  BY <1>3, <1>4, <1>6, <1>7, Zenon DEF Follows
<1> QED
  BY <1>1, <1>8, Zenon

(* The same, of a client.                                                  *)
LEMMA PlacedTaken ==
  ASSUME NEW c \in Clients, NEW m \in 0 .. Len(Packets[c]), NEW k \in Nat, NEW t \in Nat,
         NEW f, NEW s \in Seq(AllTokens), NEW w \in Seq(AllTokens), s # <<>>,
         PlacedAt(c, m, k, t, s \o w, f)
  PROVE  PlacedAt(c, m, k, t + 1, Tail(s) \o w, f)
<1>1. PICK T : T = Joined(TokensOf(c))
  OBVIOUS
<1>2. k <= m /\ Follows(T[m], Len(T[k]) + t, s \o w, f)
  BY <1>1 DEF PlacedAt
<1>3. k \in 0 .. Len(Packets[c])
  BY <1>2, PacketsAre
<1>4. Len(T[k]) \in Nat /\ Len(T[m]) \in Nat
  BY <1>1, <1>3, Offsets
<1>5. PICK a \in Nat : a = Len(T[k]) + t /\ a + 1 = Len(T[k]) + (t + 1)
  <2>1. PICK n \in Nat : n = Len(T[k])
    BY <1>4, Zenon
  <2>2. n + t \in Nat /\ (n + t) + 1 = n + (t + 1)
    OBVIOUS
  <2> QED
    BY <2>1, <2>2, Zenon
<1>6. Follows(T[m], a + 1, Tail(s) \o w, f)
  BY <1>2, <1>4, <1>5, FollowsTaken
<1> QED
  BY <1>1, <1>2, <1>5, <1>6, Zenon DEF PlacedAt

LEMMA PlacedCut ==
  ASSUME NEW c \in Clients, NEW m \in 0 .. Len(Packets[c]), NEW k \in Nat, NEW t \in Nat,
         NEW f, NEW s \in Seq(AllTokens), NEW w \in Seq(AllTokens),
         PlacedAt(c, m, k, t, s \o w, f)
  PROVE  PlacedAt(c, m, k, t, s \o <<>>, TRUE)
<1>1. PICK T : T = Joined(TokensOf(c))
  OBVIOUS
<1>2. k <= m /\ Follows(T[m], Len(T[k]) + t, s \o w, f)
  BY <1>1 DEF PlacedAt
<1>3. k \in 0 .. Len(Packets[c])
  BY <1>2, PacketsAre
<1>4. Len(T[k]) \in Nat /\ Len(T[m]) \in Nat
  BY <1>1, <1>3, Offsets
<1>5. Len(T[k]) + t \in Nat
  BY <1>4
<1>6. Follows(T[m], Len(T[k]) + t, s \o <<>>, TRUE)
  BY <1>2, <1>4, <1>5, FollowsCut
<1> QED
  BY <1>1, <1>2, <1>6, Zenon DEF PlacedAt

LEMMA PlacedMore ==
  ASSUME NEW c \in Clients, NEW m \in Nat, m + 1 \in 1 .. Len(Packets[c]), NEW k \in Nat,
         NEW t \in Nat, NEW str \in Seq(AllTokens), PlacedAt(c, m, k, t, str, FALSE),
         NEW p \in Seq(AllTokens), p = Tokens(Packets[c][m + 1])
  PROVE  PlacedAt(c, m + 1, k, t, str \o p, FALSE)
<1>1. PICK P \in Seq(Seq(AllTokens)) :
        P = TokensOf(c) /\ Len(P) = Len(Packets[c]) /\ P[m + 1] = p
  BY PacketsAre
<1>2. PICK T \in [0 .. Len(P) -> Seq(AllTokens)] :
        T = Joined(P) /\ \A n \in 1 .. Len(P) : T[n] = T[n - 1] \o P[n]
  BY JoinedIs
<1>3. m + 1 \in 1 .. Len(P) /\ (m + 1) - 1 = m /\ m \in 0 .. Len(Packets[c])
  BY <1>1, PacketsAre
<1>4. PICK u \in Seq(AllTokens) : u = T[m]
  BY <1>1, <1>2, <1>3
<1>5. T[m + 1] = u \o p
  BY <1>1, <1>2, <1>3, <1>4
<1>6. k <= m /\ Follows(u, Len(T[k]) + t, str, FALSE)
  BY <1>1, <1>2, <1>4 DEF PlacedAt
<1>7. k \in 0 .. Len(Packets[c])
  BY <1>3, <1>6, PacketsAre
<1>8. Len(T[k]) + t \in Nat
  <2>1. Len(T[k]) \in Nat
    BY <1>1, <1>2, <1>7, Offsets
  <2> QED
    BY <2>1
<1>9. Follows(T[m + 1], Len(T[k]) + t, str \o p, FALSE)
  BY <1>5, <1>6, <1>8, FollowsMore, Zenon
<1>10. k <= m + 1
  BY <1>6
<1> QED
  BY <1>1, <1>2, <1>9, <1>10, Zenon DEF PlacedAt

(* A packet that was read is answered.                                     *)
LEMMA PlacedAnswered ==
  ASSUME NEW c \in Clients, NEW m \in 0 .. Len(Packets[c]), NEW k \in 0 .. m, k # m,
         NEW str, NEW f, PlacedAt(c, m, k, Len(Packets[c][k + 1]) + 1, str, f)
  PROVE  PlacedAt(c, m, k + 1, 0, str, f)
<1>1. PICK T : T = Joined(TokensOf(c))
  OBVIOUS
<1>2. k + 1 \in 1 .. Len(Packets[c]) /\ k \in 0 .. Len(Packets[c])
  BY PacketsAre
<1>3. PICK n \in Nat : n = Len(Packets[c][k + 1])
  <2>1. Packets[c][k + 1] \in Seq(Records)
    BY <1>2, PacketsAre
  <2>2. Len(Packets[c][k + 1]) \in Nat
    BY <2>1
  <2> QED
    BY <2>2, Zenon
<1>4. Len(T[k]) \in Nat /\ Len(T[k + 1]) = Len(T[k]) + n + 1
  <2>1. Len(T[k]) \in Nat
    BY <1>1, <1>2, Offsets
  <2>2. Len(T[k + 1]) = Len(T[k]) + Len(Packets[c][k + 1]) + 1
    BY <1>1, TokenAt
  <2> QED
    BY <1>3, <2>1, <2>2, Zenon
<1>5. Len(T[k]) + (n + 1) = Len(T[k + 1]) + 0
  <2>1. PICK a \in Nat : a = Len(T[k])
    BY <1>4, Zenon
  <2>2. a + (n + 1) = (a + n + 1) + 0
    OBVIOUS
  <2> QED
    BY <1>4, <2>1, <2>2, Zenon
<1>6. Follows(T[m], Len(T[k]) + (n + 1), str, f)
  BY <1>1, <1>3, Zenon DEF PlacedAt
<1>7. Follows(T[m], Len(T[k + 1]) + 0, str, f)
  BY <1>5, <1>6, Zenon
<1>8. k + 1 <= m
  OBVIOUS
<1> QED
  BY <1>1, <1>7, <1>8, Zenon DEF PlacedAt

(* With no packet sent after the one that was read, nothing is unread.     *)
LEMMA PlacedLast ==
  ASSUME NEW c \in Clients, NEW m \in 0 .. Len(Packets[c]),
         NEW s \in Seq(AllTokens), NEW w \in Seq(AllTokens), NEW f,
         PlacedAt(c, m, m, 0, s \o w, f)
  PROVE  s = <<>>
<1>1. PICK n \in Nat : n = Len(Joined(TokensOf(c))[m])
  BY Offsets
<1>2. Len(s) \in Nat /\ Len(w) \in Nat /\ Len(s \o w) = Len(s) + Len(w)
  BY ConcatAfter
<1>3. n + 0 + Len(s \o w) <= n
  BY <1>1 DEF PlacedAt, Follows
<1>4. Len(s) = 0
  BY <1>2, <1>3
<1> QED
  BY <1>4, EmptySeq

-----------------------------------------------------------------------------
(* A client that is followed was followed before, and most steps leave what *)
(* is known of it as it was.                                                *)
Own(c) == <<unsent[c], wire[c], sock[c], fin[c], replies[c], log[c]>>

LEMMA LostStays ==
  ASSUME ServerInv, [Next]_vars, NEW c \in Clients, ~Lost(c)'
  PROVE  ~Lost(c)
<1>1. /\ pc \in {"close", "refuse"} => conn[iSocket] = "open"
      /\ conn \in [Clients -> {"out", "new", "open", "closed"}] /\ iSocket \in Clients
  BY DEF ServerInv, QueueInv, Handling, TypeOK
<1>2. conn'[c] # "closed" /\ ~(pc' \in {"refuse", "close"} /\ c = iSocket')
  BY DEF Lost
<1>3. ASSUME UNCHANGED <<conn, pc, iSocket>> PROVE ~Lost(c)
  BY <1>2, <1>3 DEF Lost
<1>4. CASE UNCHANGED vars
  BY <1>3, <1>4 DEF vars, socket, packet, history
<1>5. ASSUME NEW d \in Clients, Connect(d) \/ Accept(d) PROVE ~Lost(c)
  <2>1. /\ UNCHANGED <<pc, iSocket>> /\ conn[d] \in {"out", "new"}
        /\ \E x : conn' = [conn EXCEPT ![d] = x]
    BY <1>5 DEF Connect, Accept, packet, history
  <2>2. conn[c] # "closed"
    BY <1>1, <1>2, <2>1
  <2> QED
    BY <1>2, <2>1, <2>2 DEF Lost
<1>6. ASSUME NEW d \in Clients, Send(d) \/ Deliver(d) \/ Finish(d) \/ Reset(d) PROVE ~Lost(c)
  BY <1>3, <1>6 DEF Send, Deliver, Finish, Reset, socket, packet, history
<1>7. ASSUME UNCHANGED conn, pc \notin {"close", "refuse"} PROVE ~Lost(c)
  BY <1>2, <1>7 DEF Lost
<1>8. CASE EpollWait \/ HandleEvent \/ RecvHead \/ RecvDone \/ SaveCurTime \/ GpsInit
  BY <1>7, <1>8 DEF EpollWait, HandleEvent, RecvHead, RecvDone, StartWrite, SaveCurTime, GpsInit,
                    socket, history
<1>9. CASE CloseSocket
  <2>1. conn' = [conn EXCEPT ![iSocket] = "closed"]
    BY <1>9 DEF CloseSocket
  <2>2. c # iSocket /\ conn[c] # "closed"
    BY <1>1, <1>2, <2>1
  <2> QED
    BY <1>2, <2>1, <2>2 DEF Lost
<1>10. CASE RecvBody
  BY <1>3, <1>10 DEF RecvBody, history
<1>11. CASE RecvEnds
  <2>1. pc' = "close" /\ UNCHANGED <<conn, iSocket>>
    BY <1>11 DEF RecvEnds, socket, packet, history
  <2> QED
    BY <1>2, <2>1 DEF Lost
<1>12. CASE RecvTimeout
  <2>1. pc = "body" /\ conn' = conn
    BY <1>12 DEF RecvTimeout, StartWrite, socket
  <2> QED
    BY <1>2, <2>1 DEF Lost
<1>13. CASE WriteToMem \/ Reply
  BY <1>7, <1>13 DEF WriteToMem, Reply, socket, history
<1>14. CASE Kill
  <2>1. conn' = [d \in Clients |-> IF Connected(d) THEN "closed" ELSE conn[d]]
    BY <1>14 DEF Kill
  <2>2. ~Connected(c) /\ conn[c] # "closed"
    BY <1>1, <1>2, <2>1
  <2>3. ~(pc \in {"close", "refuse"} /\ c = iSocket)
    BY <1>1, <2>2 DEF Connected
  <2> QED
    BY <1>2, <2>1, <2>2, <2>3 DEF Lost
<1> QED
  BY <1>4, <1>5, <1>6, <1>8, <1>9, <1>10, <1>11, <1>12, <1>13, <1>14 DEF Next, ServerStep

LEMMA PausedStays ==
  ASSUME ServerInv, [Next]_vars
  PROVE  paused' = paused \/ (RecvTimeout /\ paused' = paused \cup {iSocket})
<1>1. CASE UNCHANGED vars
  BY <1>1 DEF vars, history
<1>2. CASE RecvTimeout
  BY <1>2 DEF RecvTimeout
<1>3. ASSUME NEW c \in Clients,
             Connect(c) \/ Send(c) \/ Deliver(c) \/ Finish(c) \/ Reset(c) \/ Accept(c)
      PROVE  paused' = paused
  BY <1>3 DEF Connect, Send, Deliver, Finish, Reset, Accept, history
<1>4. CASE EpollWait \/ HandleEvent \/ CloseSocket \/ RecvHead \/ RecvBody \/ RecvEnds \/ RecvDone
  BY <1>4 DEF EpollWait, HandleEvent, CloseSocket, RecvHead, RecvBody, RecvEnds, RecvDone,
                    history
<1>5. CASE WriteToMem \/ Reply \/ SaveCurTime \/ GpsInit \/ Kill
  BY <1>5 DEF WriteToMem, Reply, SaveCurTime, GpsInit, Kill, history
<1> QED
  BY <1>1, <1>2, <1>3, <1>4, <1>5 DEF Next, ServerStep

LEMMA LiveBefore ==
  ASSUME ServerInv, [Next]_vars, NEW c \in Clients, Live(c)'
  PROVE  Live(c) /\ Followed(c)
<1>1. ~Lost(c)
  BY LostStays DEF Live
<1>2. c \notin paused
  BY PausedStays DEF Live
<1> QED
  BY <1>1, <1>2 DEF ServerInv, ClientInv, Body, Live

LEMMA FollowedSame ==
  ASSUME NEW c \in Clients, Followed(c), UNCHANGED Own(c),
         UNCHANGED <<pc, packet>> \/ (~Busy(c) /\ ~Busy(c)')
  PROVE  Followed(c)'
<1>1. UNCHANGED <<unsent[c], wire[c], sock[c], fin[c], replies[c], log[c]>>
  BY DEF Own
<1>2. UNCHANGED <<SentBy(c), Answered(c), Current(c), Stream(c)>>
  BY <1>1 DEF SentBy, Answered, Current, Stream
<1>3. CASE UNCHANGED <<pc, packet>>
  <2>1. UNCHANGED <<Busy(c), Taken(c), Written(c), iNum, iTotal, m_psPacket, pc>>
    BY <1>3 DEF packet, Busy, Taken, Written
  <2>2. UNCHANGED Placed(c)
    BY <1>1, <1>2, <2>1 DEF Placed
  <2>3. UNCHANGED Served(c)
    BY <1>1, <1>2, <2>1 DEF Served
  <2>4. UNCHANGED Reading(c)
    BY <1>1, <1>2, <2>1 DEF Reading
  <2> QED
    BY <2>1, <2>2, <2>3, <2>4 DEF Followed
<1>4. CASE ~Busy(c) /\ ~Busy(c)'
  <2>1. Taken(c) = 0 /\ Taken(c)' = 0 /\ ~Written(c) /\ ~Written(c)'
    BY <1>4 DEF Taken, Written, Busy
  <2>2. Placed(c)'
    BY <1>1, <1>2, <2>1 DEF Placed, Followed
  <2>3. Served(c)'
    BY <1>1, <1>2, <2>1 DEF Served, Followed
  <2> QED
    BY <1>4, <2>2, <2>3 DEF Followed
<1> QED
  BY <1>3, <1>4

(* What is known of a client that is followed.                             *)
LEMMA FollowedFacts ==
  ASSUME ServerInv, NEW c \in Clients, Followed(c)
  PROVE  /\ SentBy(c) \in 0 .. Len(Packets[c])
         /\ Answered(c) \in 0 .. SentBy(c)
         /\ Taken(c) \in Nat
         /\ sock[c] \in Seq(AllTokens) /\ wire[c] \in Seq(AllTokens)
         /\ Stream(c) \in Seq(AllTokens)
         /\ PlacedAt(c, SentBy(c), Answered(c), Taken(c), sock[c] \o wire[c], fin[c])
<1>1. SentBy(c) \in 0 .. Len(Packets[c]) /\ Len(Packets[c]) \in Nat
  BY Sending, PacketsAre
<1>2. replies[c] \in Seq(0 .. BufferSize) /\ sock[c] \in Seq(AllTokens)
      /\ wire[c] \in Seq(AllTokens)
  BY DEF ServerInv, Typed
<1>3. Answered(c) \in Nat
  BY <1>2 DEF Answered
<1>4. PlacedAt(c, SentBy(c), Answered(c), Taken(c), sock[c] \o wire[c], fin[c])
  BY DEF Followed, Placed, Stream
<1>5. Answered(c) <= SentBy(c)
  BY <1>4 DEF PlacedAt
<1>6. Taken(c) \in Nat
  BY ServerAssumption DEF ServerInv, TypeOK, Taken
<1>7. Stream(c) \in Seq(AllTokens)
  BY <1>2, ConcatProperties DEF Stream
<1> QED
  BY <1>1, <1>2, <1>3, <1>4, <1>5, <1>6, <1>7

LEMMA FollowedSend ==
  ASSUME ServerInv, NEW c \in Clients, Followed(c), Send(c)
  PROVE  Followed(c)'
<1>1. /\ ~fin[c] /\ unsent[c] # <<>>
      /\ c \in Pipelining \/ Answered(c) = SentBy(c)
      /\ wire' = [wire EXCEPT ![c] = wire[c] \o Tokens(Head(unsent[c]))]
      /\ unsent' = [unsent EXCEPT ![c] = Tail(unsent[c])]
      /\ UNCHANGED <<fin, sock, replies, log, pc, packet>>
  BY DEF Send, Answered, socket, history
<1>2. wire \in [Clients -> Seq(AllTokens)] /\ unsent \in [Clients -> Seq(Seq(Records))]
      /\ fin \in [Clients -> BOOLEAN]
  BY DEF ServerInv, Typed, TypeOK
<1>3. PICK m \in Nat : m = SentBy(c) /\ m + 1 \in 1 .. Len(Packets[c])
  BY <1>1, Sending
<1>4. PICK p \in Seq(AllTokens) : p = Tokens(Packets[c][m + 1]) /\ p = Tokens(Head(unsent[c]))
  <2>1. Tokens(Packets[c][m + 1]) \in Seq(AllTokens)
    <3>0. Packets[c][m + 1] \in Seq(Records) /\ Len(Packets[c][m + 1]) \in 0 .. BufferSize
      BY <1>3, PacketsAre
    <3>1. PICK q \in Seq(Records) : q = Packets[c][m + 1] /\ Len(q) \in 0 .. BufferSize
      BY <3>0, Zenon
    <3>2. Len(q) <= BufferSize
      BY <3>1, ServerAssumption
    <3> QED
      BY <3>1, <3>2, TokensAre
  <2>2. Head(unsent[c]) = Packets[c][m + 1]
    BY <1>1, <1>3, Sending
  <2> QED
    BY <2>1, <2>2, Zenon
<1>5. SentBy(c)' = m + 1
  <2>1. unsent'[c] = Tail(unsent[c])
    BY <1>1, <1>2
  <2>2. Len(Tail(unsent[c])) = Len(unsent[c]) - 1 /\ Len(unsent[c]) \in Nat
    BY <1>1, <1>2, Sending
  <2>3. Len(Packets[c]) \in Nat /\ m = Len(Packets[c]) - Len(unsent[c])
    BY <1>3, PacketsAre DEF SentBy
  <2>4. SentBy(c)' = Len(Packets[c]) - (Len(unsent[c]) - 1)
    BY <2>1, <2>2 DEF SentBy
  <2> QED
    BY <2>2, <2>3, <2>4
<1>6. PICK k \in Nat, n \in Nat, s \in Seq(AllTokens), w \in Seq(AllTokens), u \in Seq(AllTokens) :
        /\ k = Answered(c) /\ n = Taken(c) /\ s = sock[c] /\ w = wire[c] /\ u = Stream(c)
        /\ u = s \o w /\ k <= m
  <2>1. Answered(c) \in Nat /\ Answered(c) <= m
    BY <1>3, FollowedFacts
  <2>2. Taken(c) \in Nat /\ sock[c] \in Seq(AllTokens) /\ wire[c] \in Seq(AllTokens)
        /\ Stream(c) \in Seq(AllTokens)
    BY FollowedFacts
  <2> QED
    BY <2>1, <2>2, Zenon DEF Stream
<1>7. Answered(c)' = k /\ Taken(c)' = n /\ fin'[c] = FALSE /\ Current(c)' = Current(c)
      /\ Busy(c)' = Busy(c) /\ Written(c)' = Written(c)
  BY <1>1, <1>2, <1>6 DEF Answered, Taken, Current, Busy, Written, packet
<1>8. Stream(c)' = u \o p
  <2>1. PICK x \in Seq(AllTokens), v \in Seq(AllTokens) : x = w \o p /\ v = u \o p
    <3>1. w \o p \in Seq(AllTokens) /\ u \o p \in Seq(AllTokens)
      BY <1>4, <1>6, ConcatProperties
    <3> QED
      BY <3>1, Zenon
  <2>2. IsConcat(u, s, w) /\ IsConcat(x, w, p) /\ IsConcat(v, u, p)
    BY <1>6, <2>1 DEF IsConcat
  <2>3. v = s \o x
    BY <2>2, ConcatThree DEF IsConcat
  <2>4. sock'[c] = s /\ wire'[c] = x
    BY <1>1, <1>2, <1>4, <1>6, <2>1
  <2> QED
    BY <2>1, <2>3, <2>4, Zenon DEF Stream
<1>9. Placed(c)'
  <2>1. PlacedAt(c, m, k, n, u, FALSE)
    BY <1>1, <1>2, <1>3, <1>6 DEF Followed, Placed
  <2>2. PlacedAt(c, m + 1, k, n, u \o p, FALSE)
    BY <1>3, <1>4, <2>1, PlacedMore
  <2> QED
    BY <1>5, <1>7, <1>8, <2>2, Zenon DEF Placed
<1>10. Served(c)'
  <2>1. c \in Pipelining \/ m + 1 <= k + 1
    BY <1>1, <1>3, <1>6
  <2>2. /\ replies[c] = [i \in 1 .. k |-> Len(Packets[c][i])]
        /\ log[c] = IF Written(c) THEN Joined(Packets[c])[k] \o SubSeq(Current(c), 1, iNum)
                                  ELSE Joined(Packets[c])[k]
    BY <1>6 DEF Followed, Served
  <2>3. UNCHANGED <<replies, log, iNum>>
    BY <1>1 DEF packet
  <2> QED
    BY <1>5, <1>7, <2>1, <2>2, <2>3, Zenon DEF Served
<1>11. Busy(c) => Reading(c)'
  <2> HAVE Busy(c)
  <2>1. k < m /\ Reading(c)
    BY <1>3, <1>6 DEF Followed, Reading
  <2>2. k < m + 1 /\ UNCHANGED <<iTotal, iNum, m_psPacket, pc>>
    BY <1>1, <2>1 DEF packet
  <2> QED
    BY <1>5, <1>7, <2>1, <2>2 DEF Reading
<1> QED
  BY <1>7, <1>9, <1>10, <1>11 DEF Followed

(* A segment arrives: what is unread is the same.                          *)
LEMMA DeliverStream ==
  ASSUME ServerInv, NEW c \in Clients, Deliver(c)
  PROVE  Stream(c)' = Stream(c)
<1>1. PICK n \in DOMAIN wire[c] :
        /\ sock' = [sock EXCEPT ![c] = sock[c] \o SubSeq(wire[c], 1, n)]
        /\ wire' = [wire EXCEPT ![c] = SubSeq(wire[c], n + 1, Len(wire[c]))]
  BY DEF Deliver
<1>2. sock \in [Clients -> Seq(AllTokens)] /\ wire \in [Clients -> Seq(AllTokens)]
  BY DEF ServerInv, Typed
<1>3. PICK s \in Seq(AllTokens), w \in Seq(AllTokens) : s = sock[c] /\ w = wire[c]
  BY <1>2
<1>4. n \in 1 .. Len(w)
  BY <1>1, <1>3
<1>5. sock'[c] = s \o SubSeq(w, 1, n) /\ wire'[c] = SubSeq(w, n + 1, Len(w))
  BY <1>1, <1>2, <1>3
<1>6. IsConcat(sock'[c], s, SubSeq(w, 1, n)) /\ IsConcat(Stream(c), s, w)
  BY <1>3, <1>5, Zenon DEF IsConcat, Stream
<1>7. IsConcat(Stream(c), sock'[c], wire'[c])
  BY <1>4, <1>5, <1>6, DeliveredSame, Zenon
<1> QED
  BY <1>7, Zenon DEF Stream, IsConcat

LEMMA FollowedDeliver ==
  ASSUME ServerInv, NEW c \in Clients, Followed(c), Deliver(c)
  PROVE  Followed(c)'
<1>1. UNCHANGED <<unsent, fin, log, replies, pc, packet>>
  BY DEF Deliver, history
<1>2. Stream(c)' = Stream(c)
  BY DeliverStream
<1>3. UNCHANGED <<SentBy(c), Answered(c), Taken(c), Current(c), Busy(c), Written(c)>>
  BY <1>1 DEF SentBy, Answered, Taken, Current, Busy, Written, packet
<1>4. Placed(c)'
  BY <1>1, <1>2, <1>3 DEF Followed, Placed
<1>5. Served(c)' /\ (Busy(c) => Reading(c)')
  BY <1>1, <1>3 DEF Followed, Served, Reading, packet
<1> QED
  BY <1>3, <1>4, <1>5 DEF Followed

LEMMA FollowedFinish ==
  ASSUME ServerInv, NEW c \in Clients, Followed(c), Finish(c)
  PROVE  Followed(c)'
<1>1. /\ fin' = [fin EXCEPT ![c] = TRUE] /\ wire' = [wire EXCEPT ![c] = <<>>]
      /\ UNCHANGED <<unsent, sock, log, replies, pc, packet>>
  BY DEF Finish, history
<1>2. wire \in [Clients -> Seq(AllTokens)] /\ fin \in [Clients -> BOOLEAN]
  BY DEF ServerInv, Typed, TypeOK
<1>3. fin'[c] = TRUE /\ Stream(c)' = sock[c] \o <<>>
  BY <1>1, <1>2 DEF Stream
<1>4. UNCHANGED <<SentBy(c), Answered(c), Taken(c), Current(c), Busy(c), Written(c)>>
  BY <1>1 DEF SentBy, Answered, Taken, Current, Busy, Written, packet
<1>5. Placed(c)'
  <2>1. PICK m \in 0 .. Len(Packets[c]), k \in Nat, t \in Nat :
          m = SentBy(c) /\ k = Answered(c) /\ t = Taken(c)
    BY FollowedFacts
  <2>2. PlacedAt(c, m, k, t, sock[c] \o wire[c], fin[c])
        /\ sock[c] \in Seq(AllTokens) /\ wire[c] \in Seq(AllTokens)
    BY <2>1, FollowedFacts
  <2>3. PlacedAt(c, m, k, t, sock[c] \o <<>>, TRUE)
    BY <2>2, PlacedCut
  <2> QED
    BY <1>3, <1>4, <2>1, <2>3, Zenon DEF Placed
<1>6. Served(c)' /\ (Busy(c) => Reading(c)')
  BY <1>1, <1>4 DEF Followed, Served, Reading, packet
<1> QED
  BY <1>4, <1>5, <1>6 DEF Followed

LEMMA FollowedHead ==
  ASSUME ServerInv, NEW c \in Clients, c = iSocket, c \notin paused, Followed(c),
         RecvHead, pc' = "body"
  PROVE  Followed(c)'
<1>1. /\ pc = "head" /\ sock[c] # <<>> /\ sock' = [sock EXCEPT ![c] = Tail(sock[c])]
      /\ iTotal' = Token.head /\ pc' = "body"
      /\ UNCHANGED <<unsent, fin, wire, log, replies, iSocket, m_psPacket, iNum>>
  BY DEF RecvHead, Arrived, client, history
<1>2. Answered(c) < SentBy(c) /\ Token = [head |-> Len(Current(c))]
  BY <1>1, NextToken
<1>3. iTotal' = Len(Current(c))
  BY <1>1, <1>2
<1>4. PICK m \in 0 .. Len(Packets[c]), k \in Nat, s \in Seq(AllTokens), w \in Seq(AllTokens) :
        m = SentBy(c) /\ k = Answered(c) /\ s = sock[c] /\ w = wire[c]
  BY FollowedFacts
<1>5. sock \in [Clients -> Seq(AllTokens)] /\ iNum = 0
  BY <1>1 DEF ServerInv, Typed, HeadInv
<1>6. UNCHANGED <<SentBy(c), Answered(c), Current(c), fin[c]>>
  BY <1>1 DEF SentBy, Answered, Current
<1>7. Taken(c) = 0 /\ Taken(c)' = 0 + 1 /\ Busy(c)' /\ ~Written(c) /\ ~Written(c)'
  BY <1>1, <1>5 DEF Taken, Busy, Written
<1>8. Stream(c)' = Tail(s) \o w
  BY <1>1, <1>4, <1>5 DEF Stream
<1>9. Placed(c)'
  <2>1. PlacedAt(c, m, k, 0, s \o w, fin[c])
    BY <1>4, <1>7 DEF Followed, Placed, Stream
  <2>2. PlacedAt(c, m, k, 0 + 1, Tail(s) \o w, fin[c])
    BY <1>1, <1>4, <2>1, PlacedTaken
  <2> QED
    BY <1>4, <1>6, <1>7, <1>8, <2>2, Zenon DEF Placed
<1>10. Served(c)'
  BY <1>1, <1>6, <1>7 DEF Followed, Served
<1>11. Reading(c)'
  BY <1>1, <1>2, <1>3, <1>5, <1>6 DEF Reading
<1> QED
  BY <1>1, <1>9, <1>10, <1>11 DEF Followed

LEMMA FollowedRecord ==
  ASSUME ServerInv, NEW c \in Clients, c = iSocket, c \notin paused, Followed(c),
         RecvBody, pc = "body"
  PROVE  Followed(c)'
<1>1. /\ iNum # iTotal /\ sock[c] # <<>> /\ sock' = [sock EXCEPT ![c] = Tail(sock[c])]
      /\ m_psPacket' = [m_psPacket EXCEPT ![iNum + 1] = Token.rec] /\ iNum' = iNum + 1
      /\ UNCHANGED <<unsent, fin, wire, log, replies, iSocket, iTotal, pc>>
  BY DEF RecvBody, BodyRead, Arrived, client, history
<1>2. iNum \in 0 .. iTotal /\ iTotal \in 0 .. BufferSize /\ BufferSize \in Nat
      /\ m_psPacket \in [Slots -> Records \cup {Garbage}] /\ sock \in [Clients -> Seq(AllTokens)]
  BY ServerAssumption DEF ServerInv, TypeOK, Typed
<1>3. iNum < iTotal /\ iNum \in Nat /\ iTotal \in Nat /\ iNum + 1 \in Slots
      /\ \A i \in 1 .. iTotal : i \in Slots
  BY <1>1, <1>2 DEF Slots
<1>4. Token = [rec |-> Current(c)[iNum + 1]]
  BY <1>1, <1>3, NextToken
<1>5. PICK m \in 0 .. Len(Packets[c]), k \in Nat, s \in Seq(AllTokens), w \in Seq(AllTokens) :
        m = SentBy(c) /\ k = Answered(c) /\ s = sock[c] /\ w = wire[c]
  BY FollowedFacts
<1>6. UNCHANGED <<SentBy(c), Answered(c), Current(c), fin[c]>>
  BY <1>1 DEF SentBy, Answered, Current
<1>7. Taken(c) = iNum + 1 /\ Taken(c)' = (iNum + 1) + 1 /\ Busy(c) /\ ~Written(c) /\ ~Written(c)'
  BY <1>1 DEF Taken, Busy, Written
<1>8. Stream(c)' = Tail(s) \o w
  BY <1>1, <1>2, <1>5 DEF Stream
<1>9. Placed(c)'
  <2>1. PICK t \in Nat : t = iNum + 1
    BY <1>3
  <2>2. PlacedAt(c, m, k, t, s \o w, fin[c])
    BY <1>5, <1>7, <2>1 DEF Followed, Placed, Stream
  <2>3. PlacedAt(c, m, k, t + 1, Tail(s) \o w, fin[c])
    BY <1>1, <1>5, <2>2, PlacedTaken
  <2> QED
    BY <1>5, <1>6, <1>7, <1>8, <2>1, <2>3, Zenon DEF Placed
<1>10. Served(c)'
  BY <1>1, <1>6, <1>7 DEF Followed, Served
<1>11. Reading(c)'
  <2>1. /\ Answered(c) < SentBy(c) /\ iTotal = Len(Current(c))
        /\ \A i \in 1 .. iNum : m_psPacket[i] = Current(c)[i]
    BY <1>7 DEF Followed, Reading
  <2>2. m_psPacket'[iNum + 1] = Current(c)[iNum + 1]
    BY <1>1, <1>2, <1>3, <1>4
  <2>3. \A i \in 1 .. iNum : m_psPacket'[i] = m_psPacket[i]
    BY <1>1, <1>2, <1>3
  <2>4. \A i \in 1 .. iNum + 1 : i \in 1 .. iNum \/ i = iNum + 1
    BY <1>3
  <2>5. \A i \in 1 .. iNum + 1 : m_psPacket'[i] = Current(c)[i]
    BY <2>1, <2>2, <2>3, <2>4, Zenon
  <2> QED
    BY <1>1, <1>6, <2>1, <2>5 DEF Reading
<1> QED
  BY <1>1, <1>9, <1>10, <1>11 DEF Followed

LEMMA FollowedDone ==
  ASSUME ServerInv, NEW c \in Clients, c = iSocket, Followed(c), RecvDone
  PROVE  Followed(c)'
<1>1. /\ pc = "body" /\ iNum = iTotal /\ pc' = "write" /\ iNum' = 0
      /\ UNCHANGED <<unsent, fin, wire, sock, log, replies, iSocket, iTotal, m_psPacket>>
  BY DEF RecvDone, BodyRead, StartWrite, client, socket
<1>2. UNCHANGED <<SentBy(c), Answered(c), Current(c), Stream(c), fin[c]>>
  BY <1>1 DEF SentBy, Answered, Current, Stream
<1>3. Busy(c) /\ Busy(c)' /\ Taken(c)' = Taken(c) /\ ~Written(c) /\ Written(c)'
  BY <1>1 DEF Busy, Taken, Written
<1>4. Placed(c)'
  BY <1>2, <1>3 DEF Followed, Placed
<1>5. Reading(c)'
  BY <1>1, <1>2, <1>3 DEF Followed, Reading
<1>6. Joined(Packets[c])[Answered(c)] \o SubSeq(Current(c), 1, 0) = Joined(Packets[c])[Answered(c)]
  <2>1. PICK k \in 0 .. Len(Packets[c]) : k = Answered(c) /\ k + 1 \in 1 .. Len(Packets[c])
    <3>1. Answered(c) < SentBy(c)
      BY <1>3 DEF Followed, Reading
    <3>2. Answered(c) \in 0 .. SentBy(c) /\ SentBy(c) \in 0 .. Len(Packets[c])
          /\ Len(Packets[c]) \in Nat
      BY FollowedFacts, PacketsAre
    <3>3. Answered(c) \in 0 .. Len(Packets[c]) /\ Answered(c) + 1 \in 1 .. Len(Packets[c])
      BY <3>1, <3>2
    <3> QED
      BY <3>3, Zenon
  <2>2. Joined(Packets[c])[k] \in Seq(Records)
    BY JoinedIs, PacketsAre
  <2>3. SubSeq(Current(c), 1, 0) = <<>>
    BY SubSeqEmpty
  <2>4. Joined(Packets[c])[k] \o <<>> = Joined(Packets[c])[k]
    BY <2>2, ConcatEmptySeq
  <2> QED
    BY <2>1, <2>3, <2>4, Zenon
<1>7. Served(c)'
  <2>1. log[c] = Joined(Packets[c])[Answered(c)] \o SubSeq(Current(c), 1, iNum')
    BY <1>1, <1>3, <1>6 DEF Followed, Served
  <2> QED
    BY <1>1, <1>2, <1>3, <2>1 DEF Followed, Served
<1> QED
  BY <1>1, <1>4, <1>5, <1>7 DEF Followed

(* One more record of the packet is written.                               *)
LEMMA RecordAppended ==
  ASSUME NEW S, NEW j \in Seq(S), NEW p \in Seq(S), NEW n \in Nat, n < Len(p)
  PROVE  Append(j \o SubSeq(p, 1, n), p[n + 1]) = j \o SubSeq(p, 1, n + 1)
<1>1. /\ Len(p) \in Nat /\ n + 1 \in 1 .. Len(p) /\ 1 \in 1 .. Len(p) /\ n + 1 \in 1 .. Len(p)
      /\ (n + 1) - 1 = n
  OBVIOUS
<1>2. PICK r \in S : r = p[n + 1]
  BY <1>1
<1>3. PICK a \in Seq(S), b \in Seq(S) : a = SubSeq(p, 1, n) /\ b = SubSeq(p, 1, n + 1)
  <2>1. (\A i \in 1 .. n : p[i] \in S) /\ (\A i \in 1 .. n + 1 : p[i] \in S)
    BY <1>1
  <2>2. 1 \in Int /\ n \in Int /\ n + 1 \in Int
    OBVIOUS
  <2>3. SubSeq(p, 1, n) \in Seq(S) /\ SubSeq(p, 1, n + 1) \in Seq(S)
    BY <2>1, <2>2, SubSeqProperties
  <2> QED
    BY <2>3, Zenon
<1>4. b = a \o <<r>>
  <2>1. SubSeq(p, 1, n + 1) = SubSeq(p, 1, (n + 1) - 1) \o <<p[n + 1]>>
    BY <1>1, SubSeqRecursiveSecond
  <2> QED
    BY <1>1, <1>2, <1>3, <2>1, Zenon
<1>5. PICK x \in Seq(S), y \in Seq(S) : x = <<r>> /\ y = j \o a
  <2>1. <<r>> \in Seq(S)
    OBVIOUS
  <2>2. j \o a \in Seq(S)
    BY ConcatProperties
  <2> QED
    BY <2>1, <2>2, Zenon
<1>6. PICK v : v = Append(y, r) /\ v = y \o x
  <2>1. Append(y, r) = y \o <<r>>
    BY AppendIsConcat
  <2> QED
    BY <1>5, <2>1, Zenon
<1>7. IsConcat(y, j, a) /\ IsConcat(b, a, x) /\ IsConcat(v, y, x)
  BY <1>4, <1>5, <1>6, Zenon DEF IsConcat
<1>8. v = j \o b
  <2>1. IsConcat(v, j, b)
    BY <1>7, ConcatThree, Zenon
  <2> QED
    BY <2>1, Zenon DEF IsConcat
<1> QED
  BY <1>2, <1>3, <1>5, <1>6, <1>8, Zenon

(* With all its records the packet is one more of those that are joined.   *)
LEMMA PacketJoined ==
  ASSUME NEW S, NEW s \in Seq(Seq(S)), NEW k \in Nat, k < Len(s)
  PROVE  Joined(s)[k] \o SubSeq(s[k + 1], 1, Len(s[k + 1])) = Joined(s)[k + 1]
<1>1. k + 1 \in 1 .. Len(s) /\ (k + 1) - 1 = k
  OBVIOUS
<1>2. Joined(s)[k + 1] = Joined(s)[(k + 1) - 1] \o s[k + 1]
  BY <1>1, JoinedIs
<1>3. SubSeq(s[k + 1], 1, Len(s[k + 1])) = s[k + 1]
  <2>1. s[k + 1] \in Seq(S)
    BY <1>1
  <2> QED
    BY <2>1, SubSeqFull
<1> QED
  BY <1>1, <1>2, <1>3, Zenon

(* and its number one more of those that are replied.                      *)
LEMMA CountAppended ==
  ASSUME NEW f, NEW k \in Nat, NEW r \in Seq(Nat), r = [i \in 1 .. k |-> f[i]],
         f[k + 1] \in Nat
  PROVE  /\ Len(r) = k
         /\ Append(r, f[k + 1]) = [i \in 1 .. k + 1 |-> f[i]]
         /\ Len(Append(r, f[k + 1])) = k + 1
<1>1. Len(r) = k /\ \A i \in 1 .. k : r[i] = f[i]
  OBVIOUS
<1>2. PICK q \in Seq(Nat) : q = Append(r, f[k + 1])
  BY AppendProperties, Zenon
<1>3. Len(q) = k + 1 /\ q[k + 1] = f[k + 1] /\ \A i \in 1 .. k : q[i] = r[i]
  BY <1>1, <1>2, AppendProperties
<1>4. \A i \in 1 .. k + 1 : q[i] = f[i]
  <2>1. \A i \in 1 .. k + 1 : i \in 1 .. k \/ i = k + 1
    OBVIOUS
  <2> QED
    BY <1>1, <1>3, <2>1, Zenon
<1>5. q = [i \in 1 .. k + 1 |-> f[i]]
  BY <1>3, <1>4
<1> QED
  BY <1>1, <1>2, <1>3, <1>5

LEMMA FollowedWrite ==
  ASSUME ServerInv, NEW c \in Clients, c = iSocket, Followed(c), WriteToMem
  PROVE  Followed(c)'
<1>1. PICK r : /\ pc = "write" /\ iNum < iTotal /\ r = m_psPacket[iNum + 1]
               /\ log' = [log EXCEPT ![c] = Append(log[c], r)] /\ iNum' = iNum + 1
               /\ UNCHANGED <<unsent, fin, wire, sock, replies, pc, iSocket, iTotal, m_psPacket>>
  BY DEF WriteToMem, client, socket
<1>2. UNCHANGED <<SentBy(c), Answered(c), Current(c), Stream(c), fin[c]>>
  BY <1>1 DEF SentBy, Answered, Current, Stream
<1>3. Busy(c) /\ Busy(c)' /\ Taken(c)' = Taken(c) /\ Written(c) /\ Written(c)'
  BY <1>1 DEF Busy, Taken, Written
<1>4. Placed(c)'
  BY <1>2, <1>3 DEF Followed, Placed
<1>5. Reading(c) /\ Reading(c)'
  BY <1>1, <1>2, <1>3 DEF Followed, Reading
<1>6. log \in [Clients -> Seq(Records \cup {Garbage})] /\ iNum \in Nat /\ iTotal \in Nat
  <2>1. iNum \in 0 .. iTotal /\ iTotal \in 0 .. BufferSize /\ BufferSize \in Nat
    BY ServerAssumption DEF ServerInv, TypeOK
  <2>2. log \in [Clients -> Seq(Records \cup {Garbage})]
    BY DEF ServerInv, Typed
  <2> QED
    BY <2>1, <2>2
<1>7. PICK k \in 0 .. Len(Packets[c]) : k = Answered(c) /\ k + 1 \in 1 .. Len(Packets[c])
  <2>1. Answered(c) < SentBy(c)
    BY <1>5 DEF Reading
  <2>2. Answered(c) \in 0 .. SentBy(c) /\ SentBy(c) \in 0 .. Len(Packets[c])
        /\ Len(Packets[c]) \in Nat
    BY FollowedFacts, PacketsAre
  <2>3. Answered(c) \in 0 .. Len(Packets[c]) /\ Answered(c) + 1 \in 1 .. Len(Packets[c])
    BY <2>1, <2>2
  <2> QED
    BY <2>3, Zenon
<1>8. PICK p \in Seq(Records), j \in Seq(Records) : p = Current(c) /\ j = Joined(Packets[c])[k]
  <2>1. Current(c) \in Seq(Records)
    BY <1>7, PacketsAre DEF Current
  <2>2. Joined(Packets[c])[k] \in Seq(Records)
    BY JoinedIs, PacketsAre
  <2> QED
    BY <2>1, <2>2, Zenon
<1>9. iNum < Len(p) /\ r = p[iNum + 1]
  <2>1. iNum + 1 \in 1 .. iTotal
    BY <1>1, <1>6
  <2> QED
    BY <1>1, <1>5, <1>8, <2>1 DEF Reading
<1>10. log'[c] = j \o SubSeq(p, 1, iNum')
  <2>1. log[c] = j \o SubSeq(p, 1, iNum)
    BY <1>3, <1>7, <1>8 DEF Followed, Served
  <2>2. log'[c] = Append(log[c], r)
    BY <1>1, <1>6
  <2> QED
    BY <1>1, <1>6, <1>9, <2>1, <2>2, RecordAppended
<1>11. Served(c)'
  <2>1. log'[c] = Joined(Packets[c])[Answered(c)] \o SubSeq(Current(c), 1, iNum')
    BY <1>7, <1>8, <1>10, Zenon
  <2>2. /\ replies[c] = [i \in 1 .. Answered(c) |-> Len(Packets[c][i])]
        /\ c \in Pipelining \/ SentBy(c) <= Answered(c) + 1
    BY DEF Followed, Served
  <2> QED
    BY <1>1, <1>2, <1>3, <2>1, <2>2, Zenon DEF Served
<1> QED
  BY <1>1, <1>4, <1>5, <1>11 DEF Followed

LEMMA FollowedReply ==
  ASSUME ServerInv, NEW c \in Clients, c = iSocket, Followed(c), Reply, pc' = "save"
  PROVE  Followed(c)'
<1>1. /\ pc = "write" /\ iNum = iTotal /\ pc' = "save"
      /\ replies' = [replies EXCEPT ![c] = Append(replies[c], iTotal)]
      /\ UNCHANGED <<unsent, fin, wire, sock, log, iSocket, iTotal, iNum>>
  BY DEF Reply, socket
<1>2. Busy(c) /\ ~Busy(c)' /\ Written(c) /\ ~Written(c)' /\ Taken(c) = iTotal + 1 /\ Taken(c)' = 0
  BY <1>1 DEF Busy, Written, Taken
<1>3. UNCHANGED <<SentBy(c), Stream(c), fin[c]>>
  BY <1>1 DEF SentBy, Stream
<1>4. PICK k \in Nat, m \in 0 .. Len(Packets[c]) :
        k = Answered(c) /\ m = SentBy(c) /\ k < m /\ k < Len(Packets[c])
        /\ k + 1 \in 1 .. Len(Packets[c])
  <2>1. Answered(c) < SentBy(c)
    BY <1>2 DEF Followed, Reading
  <2>2. Answered(c) \in 0 .. SentBy(c) /\ SentBy(c) \in 0 .. Len(Packets[c])
        /\ Len(Packets[c]) \in Nat
    BY FollowedFacts, PacketsAre
  <2>3. Answered(c) \in Nat /\ Answered(c) < Len(Packets[c])
        /\ Answered(c) + 1 \in 1 .. Len(Packets[c])
    BY <2>1, <2>2
  <2> QED
    BY <2>1, <2>2, <2>3, Zenon
<1>5. iTotal = Len(Packets[c][k + 1]) /\ iTotal \in Nat
  BY <1>2, <1>4, ServerAssumption DEF Followed, Reading, Current, ServerInv, TypeOK
<1>6. replies \in [Clients -> Seq(0 .. BufferSize)] /\ replies[c] \in Seq(Nat)
  BY ServerAssumption DEF ServerInv, Typed
<1>7. replies'[c] = [i \in 1 .. k + 1 |-> Len(Packets[c][i])] /\ Answered(c)' = k + 1
  <2> DEFINE f == [i \in 1 .. Len(Packets[c]) |-> Len(Packets[c][i])]
  <2>1. replies[c] = [i \in 1 .. k |-> Len(Packets[c][i])]
    BY <1>4 DEF Followed, Served
  <2>2. \A i \in 1 .. k + 1 : i \in 1 .. Len(Packets[c])
    BY <1>4, PacketsAre
  <2>3. /\ replies[c] = [i \in 1 .. k |-> f[i]] /\ f[k + 1] = iTotal
        /\ [i \in 1 .. k + 1 |-> Len(Packets[c][i])] = [i \in 1 .. k + 1 |-> f[i]]
    <3>1. \A i \in 1 .. k : i \in 1 .. k + 1
      OBVIOUS
    <3>2. \A i \in 1 .. k + 1 : f[i] = Len(Packets[c][i])
      BY <2>2
    <3>3. [i \in 1 .. k |-> Len(Packets[c][i])] = [i \in 1 .. k |-> f[i]]
      BY <3>1, <3>2
    <3>4. [i \in 1 .. k + 1 |-> Len(Packets[c][i])] = [i \in 1 .. k + 1 |-> f[i]]
      BY <3>2
    <3>5. f[k + 1] = iTotal
      BY <1>4, <1>5
    <3> QED
      BY <2>1, <3>3, <3>4, <3>5, Zenon
  <2>4. replies'[c] = Append(replies[c], iTotal)
    BY <1>1, <1>6
  <2> HIDE DEF f
  <2>5. Append(replies[c], f[k + 1]) = [i \in 1 .. k + 1 |-> f[i]]
        /\ Len(Append(replies[c], f[k + 1])) = k + 1
    BY <1>5, <1>6, <2>3, CountAppended
  <2> QED
    BY <2>3, <2>4, <2>5, Zenon DEF Answered
<1>8. Placed(c)'
  <2>1. PICK str : str = Stream(c)
    OBVIOUS
  <2>2. PlacedAt(c, m, k, Len(Packets[c][k + 1]) + 1, str, fin[c])
    BY <1>2, <1>4, <1>5, <2>1 DEF Followed, Placed
  <2>3. k \in 0 .. m /\ k # m
    BY <1>4
  <2>4. PlacedAt(c, m, k + 1, 0, str, fin[c])
    BY <2>2, <2>3, PlacedAnswered
  <2> QED
    BY <1>2, <1>3, <1>4, <1>7, <2>1, <2>4, Zenon DEF Placed
<1>9. Served(c)'
  <2>1. log'[c] = Joined(Packets[c])[k + 1]
    <3>1. log'[c] = Joined(Packets[c])[k] \o SubSeq(Packets[c][k + 1], 1, Len(Packets[c][k + 1]))
      BY <1>1, <1>2, <1>4, <1>5 DEF Followed, Served, Current
    <3>2. Packets[c] \in Seq(Seq(Records))
      BY PacketsAre
    <3> QED
      BY <1>4, <3>1, <3>2, PacketJoined
  <2>2. c \in Pipelining \/ m <= (k + 1) + 1
    <3>1. c \in Pipelining \/ m <= k + 1
      BY <1>4 DEF Followed, Served
    <3> QED
      BY <1>4, <3>1
  <2> QED
    BY <1>2, <1>3, <1>4, <1>7, <2>1, <2>2, Zenon DEF Served
<1> QED
  BY <1>1, <1>2, <1>8, <1>9 DEF Followed

LEMMA BodyStep ==
  ASSUME ServerInv, [Next]_vars, NEW c \in Clients
  PROVE  Body(c)'
<1>1. SUFFICES ASSUME Live(c)' PROVE Followed(c)'
  BY DEF Body
<1>2. Live(c) /\ Followed(c) /\ c \notin paused /\ iSocket \in Clients
  BY <1>1, LiveBefore DEF Live, ServerInv, TypeOK
<1>3. /\ c \notin paused' /\ conn'[c] # "closed"
      /\ ~(pc' \in {"refuse", "close"} /\ c = iSocket')
  BY <1>1 DEF Live, Lost
<1>4. ASSUME UNCHANGED <<client, sock, log, replies>>,
             UNCHANGED <<pc, packet>> \/ (~Busy(c) /\ ~Busy(c)')
      PROVE  Followed(c)'
  <2>1. UNCHANGED Own(c)
    BY <1>4 DEF client, Own
  <2> QED
    BY <1>2, <1>4, <2>1, FollowedSame
<1>5. CASE UNCHANGED vars
  BY <1>4, <1>5 DEF vars, socket, history
<1>6. ASSUME NEW d \in Clients, Connect(d) \/ Reset(d) \/ Accept(d) PROVE Followed(c)'
  <2>1. UNCHANGED <<unsent, wire, fin, sock, log, replies, pc, packet>>
    BY <1>6 DEF Connect, Reset, Accept, client, history
  <2>2. UNCHANGED Own(c)
    BY <2>1 DEF Own
  <2> QED
    BY <1>2, <2>1, <2>2, FollowedSame
<1>7. ASSUME NEW d \in Clients, Send(d) \/ Deliver(d) \/ Finish(d) PROVE Followed(c)'
  <2>1. CASE d = c
    BY <1>2, <1>7, <2>1, FollowedSend, FollowedDeliver, FollowedFinish
  <2>2. CASE d # c
    <3>1. /\ \E x : unsent' = [unsent EXCEPT ![d] = x]
          /\ \E x : wire' = [wire EXCEPT ![d] = x]
          /\ \E x : sock' = [sock EXCEPT ![d] = x]
          /\ \E x : fin' = [fin EXCEPT ![d] = x]
          /\ UNCHANGED <<log, replies, pc, packet>>
      <4>0. /\ unsent = [unsent EXCEPT ![d] = unsent[d]] /\ wire = [wire EXCEPT ![d] = wire[d]]
            /\ sock = [sock EXCEPT ![d] = sock[d]] /\ fin = [fin EXCEPT ![d] = fin[d]]
        BY DEF ServerInv, Typed, TypeOK
      <4>1. CASE Send(d)
        BY <4>0, <4>1 DEF Send, socket, history
      <4>2. CASE Deliver(d)
        BY <4>0, <4>2 DEF Deliver, history
      <4>3. CASE Finish(d)
        BY <4>0, <4>3 DEF Finish, history
      <4> QED
        BY <1>7, <4>1, <4>2, <4>3
    <3>2. unsent'[c] = unsent[c] /\ wire'[c] = wire[c] /\ sock'[c] = sock[c] /\ fin'[c] = fin[c]
      BY <2>2, <3>1 DEF ServerInv, Typed, TypeOK
    <3>3. UNCHANGED Own(c)
      BY <3>1, <3>2 DEF Own
    <3> QED
      BY <1>2, <3>1, <3>3, FollowedSame
  <2> QED
    BY <2>1, <2>2
<1>8. CASE EpollWait
  BY <1>4, <1>8 DEF EpollWait, history
<1>9. CASE HandleEvent \/ SaveCurTime \/ GpsInit
  <2>1. ~Busy(c) /\ ~Busy(c)'
    BY <1>9 DEF HandleEvent, SaveCurTime, GpsInit, Busy
  <2> QED
    BY <1>4, <1>9, <2>1 DEF HandleEvent, SaveCurTime, GpsInit, socket, history
<1>10. CASE RecvEnds
  <2>1. c # iSocket /\ UNCHANGED <<client, socket, packet, log, replies>>
    BY <1>3, <1>10 DEF RecvEnds, packet, history
  <2>2. ~Busy(c) /\ ~Busy(c)'
    BY <2>1 DEF Busy, packet
  <2> QED
    BY <1>4, <2>1, <2>2 DEF socket
<1>11. ASSUME c # iSocket, iSocket' = iSocket, UNCHANGED <<unsent, fin>>,
              wire' = wire \/ \E x : wire' = [wire EXCEPT ![iSocket] = x],
              sock' = sock \/ \E x : sock' = [sock EXCEPT ![iSocket] = x],
              log' = log \/ \E x : log' = [log EXCEPT ![iSocket] = x],
              replies' = replies \/ \E x : replies' = [replies EXCEPT ![iSocket] = x]
       PROVE  Followed(c)'
  <2>1. wire'[c] = wire[c] /\ sock'[c] = sock[c] /\ log'[c] = log[c] /\ replies'[c] = replies[c]
    BY <1>11 DEF ServerInv, Typed
  <2>2. UNCHANGED Own(c)
    BY <1>11, <2>1 DEF Own
  <2>3. ~Busy(c) /\ ~Busy(c)'
    BY <1>11 DEF Busy
  <2> QED
    BY <1>2, <2>2, <2>3, FollowedSame
<1>12. CASE CloseSocket
  <2>1. c # iSocket
    BY <1>3, <1>12 DEF CloseSocket, ServerInv, TypeOK
  <2> QED
    BY <1>11, <1>12, <2>1 DEF CloseSocket, packet, history
<1>13. CASE RecvHead
  <2>1. CASE c = iSocket
    <3>1. pc' = "body"
      BY <1>3, <1>13, <2>1 DEF RecvHead
    <3> QED
      BY <1>2, <1>13, <2>1, <3>1, FollowedHead
  <2>2. CASE c # iSocket
    BY <1>11, <1>13, <2>2 DEF RecvHead, client, history
  <2> QED
    BY <2>1, <2>2
<1>14. CASE RecvBody
  <2>1. CASE c = iSocket
    <3>1. pc = "body"
      BY <1>3, <1>14, <2>1 DEF RecvBody
    <3> QED
      BY <1>2, <1>14, <2>1, <3>1, FollowedRecord
  <2>2. CASE c # iSocket
    BY <1>11, <1>14, <2>2 DEF RecvBody, client, history
  <2> QED
    BY <2>1, <2>2
<1>15. CASE RecvDone
  <2>1. CASE c = iSocket
    BY <1>2, <1>15, <2>1, FollowedDone
  <2>2. CASE c # iSocket
    BY <1>11, <1>15, <2>2 DEF RecvDone, StartWrite, client, socket
  <2> QED
    BY <2>1, <2>2
<1>16. CASE RecvTimeout
  <2>1. c # iSocket
    BY <1>3, <1>16 DEF RecvTimeout
  <2> QED
    BY <1>11, <1>16, <2>1 DEF RecvTimeout, StartWrite, client, socket
<1>17. CASE WriteToMem
  <2>1. CASE c = iSocket
    BY <1>2, <1>17, <2>1, FollowedWrite
  <2>2. CASE c # iSocket
    BY <1>11, <1>17, <2>2 DEF WriteToMem, client, socket
  <2> QED
    BY <2>1, <2>2
<1>18. CASE Reply
  <2>1. CASE c = iSocket
    <3>1. pc' = "save"
      BY <1>3, <1>18, <2>1 DEF Reply
    <3> QED
      BY <1>2, <1>18, <2>1, <3>1, FollowedReply
  <2>2. CASE c # iSocket
    BY <1>11, <1>18, <2>2 DEF Reply, socket
  <2> QED
    BY <2>1, <2>2
<1>19. CASE Kill
  <2>1. /\ conn' = [d \in Clients |-> IF Connected(d) THEN "closed" ELSE conn[d]]
        /\ wire' = [d \in Clients |-> <<>>] /\ sock' = wire' /\ pc' = "down"
        /\ UNCHANGED <<unsent, fin, log, replies>>
    BY <1>19 DEF Kill
  <2>2. ~Connected(c) /\ conn[c] \in {"out", "closed"}
    BY <1>3, <2>1 DEF Connected, ServerInv, TypeOK
  <2>3. sock[c] = <<>> /\ wire[c] = <<>>
    BY <2>2 DEF ServerInv, ClientInv, Empty
  <2>4. UNCHANGED Own(c)
    BY <2>1, <2>3 DEF Own
  <2>5. ~Busy(c) /\ ~Busy(c)'
    BY <2>1, <2>2 DEF Busy, ServerInv, QueueInv, Handling
  <2> QED
    BY <1>2, <2>4, <2>5, FollowedSame
<1> QED
  BY <1>5, <1>6, <1>7, <1>8, <1>9, <1>10, <1>12, <1>13, <1>14, <1>15, <1>16, <1>17, <1>18, <1>19
     DEF Next, ServerStep

-----------------------------------------------------------------------------
(* Nothing lies in the socket of a client that is not connected.           *)
LEMMA EmptyStep ==
  ASSUME ServerInv, [Next]_vars, NEW c \in Clients
  PROVE  Empty(c)'
<1>1. /\ Empty(c) /\ iSocket \in Clients
      /\ conn \in [Clients -> {"out", "new", "open", "closed"}]
      /\ sock \in [Clients -> Seq(AllTokens)] /\ wire \in [Clients -> Seq(AllTokens)]
      /\ pc \in {"head", "body", "refuse"} => conn[iSocket] = "open"
  BY DEF ServerInv, ClientInv, TypeOK, Typed, QueueInv, Handling
<1>2. ASSUME UNCHANGED <<sock, wire, conn>> PROVE Empty(c)'
  BY <1>1, <1>2 DEF Empty
<1>3. CASE UNCHANGED vars
  BY <1>2, <1>3 DEF vars, client, socket
<1>4. ASSUME NEW d \in Clients, Connect(d) \/ Accept(d) PROVE Empty(c)'
  <2>1. /\ conn' = [conn EXCEPT ![d] = "new"] \/ conn' = [conn EXCEPT ![d] = "open"]
        /\ UNCHANGED <<sock, wire>>
    BY <1>4 DEF Connect, Accept, client
  <2> QED
    BY <1>1, <2>1 DEF Empty
<1>5. ASSUME NEW d \in Clients, Send(d) \/ Deliver(d) \/ Finish(d) PROVE Empty(c)'
  <2>1. Connected(d) /\ conn' = conn
    BY <1>5 DEF Send, Deliver, Finish, socket
  <2>2. /\ \E x : sock' = [sock EXCEPT ![d] = x]
        /\ \E x : wire' = [wire EXCEPT ![d] = x]
    <3>1. sock = [sock EXCEPT ![d] = sock[d]]
      BY <1>1
    <3> QED
      BY <1>5, <3>1 DEF Send, Deliver, Finish, socket
  <2>3. CASE c = d
    BY <2>1, <2>3 DEF Empty, Connected
  <2>4. CASE c # d
    <3>1. sock'[c] = sock[c] /\ wire'[c] = wire[c]
      BY <1>1, <2>2, <2>4
    <3> QED
      BY <1>1, <2>1, <3>1 DEF Empty
  <2> QED
    BY <2>3, <2>4
<1>6. ASSUME NEW d \in Clients, Reset(d) PROVE Empty(c)'
  BY <1>2, <1>6 DEF Reset
<1>7. CASE EpollWait \/ HandleEvent \/ RecvEnds \/ SaveCurTime \/ GpsInit
  BY <1>2, <1>7 DEF EpollWait, HandleEvent, RecvEnds, SaveCurTime, GpsInit, client, socket
<1>8. CASE CloseSocket
  BY <1>1, <1>8 DEF CloseSocket, Empty
<1>9. CASE RecvHead \/ RecvBody
  <2>1. /\ conn[iSocket] = "open" /\ UNCHANGED <<conn, wire>>
        /\ \E x : sock' = [sock EXCEPT ![iSocket] = x]
    BY <1>1, <1>9 DEF RecvHead, RecvBody, client
  <2> QED
    BY <1>1, <2>1 DEF Empty
<1>10. CASE RecvDone \/ RecvTimeout
  BY <1>2, <1>10 DEF RecvDone, RecvTimeout, StartWrite, client, socket
<1>11. CASE WriteToMem \/ Reply
  BY <1>2, <1>11 DEF WriteToMem, Reply, client, socket
<1>12. CASE Kill
  BY <1>12 DEF Kill, Empty
<1> QED
  BY <1>3, <1>4, <1>5, <1>6, <1>7, <1>8, <1>9, <1>10, <1>11, <1>12 DEF Next, ServerStep

-----------------------------------------------------------------------------
(* After a pause a client is behind until its connection is closed.        *)
LEMMA BehindSame ==
  ASSUME NEW c \in Clients, Behind(c), UNCHANGED <<sock[c], wire[c], fin[c]>>,
         ~(c = iSocket' /\ pc' = "body")
  PROVE  Behind(c)'
BY DEF Behind, Stream

LEMMA FirstStays ==
  ASSUME NEW S, NEW s \in Seq(S), NEW w \in Seq(S), s # <<>>
  PROVE  s \o w # <<>> /\ (s \o w)[1] = s[1]
<1>1. Len(s) \in Nat /\ Len(s) >= 1 /\ Len(w) \in Nat
  BY EmptySeq
<1>2. Len(s \o w) = Len(s) + Len(w) /\ (s \o w)[1] = s[1]
  BY <1>1, ConcatAfter
<1> QED
  BY <1>1, <1>2

(* The packet in which a client paused has records that were not read.     *)
LEMMA BehindPause ==
  ASSUME ServerInv, NEW c \in Clients, c = iSocket, RecvTimeout
  PROVE  Behind(c)'
<1>1. /\ pc = "body" /\ iNum # iTotal /\ sock[c] = <<>> /\ fin[c] = FALSE
      /\ pc' = "write" /\ UNCHANGED <<sock, wire, fin, iSocket>>
  <2>1. fin[c] \in BOOLEAN
    BY DEF ServerInv, TypeOK
  <2> QED
    BY <2>1 DEF RecvTimeout, StartWrite, BodyRead, Arrived, Ended, client, socket
<1>2. ~Lost(c) /\ Busy(c)
  BY <1>1 DEF Lost, Busy, ServerInv, QueueInv, Handling
<1>3. c \notin paused
  BY <1>1, <1>2 DEF ServerInv, ClientInv, Back, Behind
<1>4. Followed(c) /\ Reading(c)
  BY <1>2, <1>3 DEF ServerInv, ClientInv, Body, Live, Followed
<1>5. PICK m \in 0 .. Len(Packets[c]), k \in Nat, w \in Seq(AllTokens) :
        m = SentBy(c) /\ k = Answered(c) /\ w = wire[c]
  BY <1>4, FollowedFacts
<1>6. k < m /\ k \in 0 .. m /\ k # m /\ iTotal = Len(Packets[c][k + 1])
  BY <1>4, <1>5 DEF Reading, Current
<1>7. iNum \in Nat /\ iTotal \in Nat /\ iNum + 1 \in 1 .. iTotal
  <2>1. iNum \in 0 .. iTotal /\ iTotal \in 0 .. BufferSize /\ BufferSize \in Nat
    BY ServerAssumption DEF ServerInv, TypeOK
  <2> QED
    BY <1>1, <2>1
<1>8. Stream(c) = w
  <2>1. <<>> \o w = w
    BY ConcatEmptySeq
  <2> QED
    BY <1>1, <1>5, <2>1 DEF Stream
<1>9. PICK T : T = Joined(TokensOf(c))
  OBVIOUS
<1>10. Follows(T[m], Len(T[k]) + (iNum + 1), w, FALSE)
  BY <1>1, <1>2, <1>4, <1>5, <1>8, <1>9 DEF Followed, Placed, PlacedAt, Taken
<1>11. PICK a \in Nat : a = Len(T[k])
  <2>1. k \in 0 .. Len(Packets[c])
    BY <1>6
  <2> QED
    BY <1>9, <2>1, Offsets
<1>12. /\ Len(T[m]) \in Nat /\ Len(T[m]) >= a + iTotal + 1
       /\ \A i \in 1 .. iTotal : T[m][a + i + 1] = [rec |-> Packets[c][k + 1][i]]
  <2>1. /\ Len(T[k + 1]) = a + iTotal + 1 /\ Len(T[k + 1]) <= Len(T[m])
        /\ \A i \in 1 .. iTotal : T[m][a + i + 1] = [rec |-> Packets[c][k + 1][i]]
    BY <1>6, <1>9, <1>11, TokenAt
  <2>2. Len(T[m]) \in Nat
    BY <1>9, Offsets
  <2> QED
    BY <2>1, <2>2
<1>13. Len(w) \in Nat /\ a + (iNum + 1) + Len(w) = Len(T[m])
  BY <1>10, <1>11 DEF Follows
<1>14. 1 \in 1 .. Len(w)
  <2>1. PICK n \in Nat, t \in Nat, l \in Nat : n = iNum /\ t = iTotal /\ l = Len(w)
    BY <1>7, <1>13, Zenon
  <2>2. a + (n + 1) + l >= a + t + 1 /\ n + 1 <= t
    BY <1>7, <1>12, <1>13, <2>1
  <2>3. l >= 1
    BY <2>2
  <2> QED
    BY <2>1, <2>3
<1>15. w[1] = [rec |-> Packets[c][k + 1][iNum + 1]]
  <2>1. w[1] = T[m][a + (iNum + 1) + 1]
    BY <1>10, <1>11, <1>14 DEF Follows
  <2> QED
    BY <1>7, <1>12, <2>1
<1>16. w[1] \in RecTokens
  <2>1. k + 1 \in 1 .. Len(Packets[c])
    BY <1>6, PacketsAre
  <2>2. PICK p \in Seq(Records) : p = Packets[c][k + 1]
    BY <2>1, PacketsAre
  <2>3. p[iNum + 1] \in Records
    <3>1. iTotal = Len(p)
      BY <1>6, <2>2, Zenon
    <3>2. iNum + 1 \in 1 .. Len(p)
      BY <1>7, <3>1, Zenon
    <3> QED
      BY <3>2
  <2> QED
    BY <1>15, <2>2, <2>3, TokenKinds
<1>17. w # <<>>
  BY <1>14
<1> QED
  BY <1>1, <1>8, <1>16, <1>17 DEF Behind, Stream

LEMMA BackStep ==
  ASSUME ServerInv, [Next]_vars, NEW c \in Clients
  PROVE  Back(c)'
<1>1. SUFFICES ASSUME c \in paused', ~Lost(c)' PROVE Behind(c)'
  BY DEF Back
<1>2. ~Lost(c) /\ conn'[c] # "closed" /\ ~(pc' \in {"refuse", "close"} /\ c = iSocket')
  BY <1>1, LostStays DEF Lost
<1>3. CASE RecvTimeout /\ c = iSocket
  BY <1>3, BehindPause
<1>4. SUFFICES ASSUME ~(RecvTimeout /\ c = iSocket) PROVE Behind(c)'
  BY <1>3
<1>5. c \in paused /\ Behind(c)
  <2>1. c \in paused
    BY <1>1, <1>4, PausedStays
  <2> QED
    BY <1>2, <2>1 DEF ServerInv, ClientInv, Back
<1>6. /\ sock \in [Clients -> Seq(AllTokens)] /\ wire \in [Clients -> Seq(AllTokens)]
      /\ fin \in [Clients -> BOOLEAN] /\ iSocket \in Clients
      /\ conn \in [Clients -> {"out", "new", "open", "closed"}]
  BY DEF ServerInv, Typed, TypeOK
<1>7. ~(c = iSocket /\ pc = "body")
  BY <1>5 DEF Behind
<1>8. ASSUME UNCHANGED <<sock[c], wire[c], fin[c]>>,
             UNCHANGED <<pc, iSocket>> \/ pc' # "body" \/ c # iSocket'
      PROVE  Behind(c)'
  BY <1>5, <1>7, <1>8, BehindSame
<1>9. CASE UNCHANGED vars
  BY <1>8, <1>9 DEF vars, client, socket, packet
<1>10. ASSUME NEW d \in Clients, Connect(d) \/ Reset(d) \/ Accept(d) PROVE Behind(c)'
  BY <1>8, <1>10 DEF Connect, Reset, Accept, client, packet
<1>11. ASSUME NEW d \in Clients, Send(d) \/ Deliver(d) \/ Finish(d) PROVE Behind(c)'
  <2>0. UNCHANGED <<pc, iSocket>>
    BY <1>11 DEF Send, Deliver, Finish, packet
  <2>1. CASE d # c
    <3>1. wire'[c] = wire[c] /\ sock'[c] = sock[c] /\ fin'[c] = fin[c]
      BY <1>6, <1>11, <2>1 DEF Send, Deliver, Finish, socket
    <3> QED
      BY <1>8, <2>0, <3>1
  <2>2. PICK s \in Seq(AllTokens), w \in Seq(AllTokens), u \in Seq(AllTokens) :
          s = sock[c] /\ w = wire[c] /\ u = s \o w
    <3>1. sock[c] \in Seq(AllTokens) /\ wire[c] \in Seq(AllTokens)
      BY <1>6
    <3>2. sock[c] \o wire[c] \in Seq(AllTokens)
      BY <3>1, ConcatProperties
    <3> QED
      BY <3>1, <3>2, Zenon
  <2>3. IF u = <<>> THEN fin[c] ELSE u[1] \in RecTokens
    BY <1>5, <2>2 DEF Behind, Stream
  <2>4. CASE Send(c)
    <3>1. /\ ~fin[c] /\ unsent[c] # <<>> /\ UNCHANGED sock
          /\ wire' = [wire EXCEPT ![c] = wire[c] \o Tokens(Head(unsent[c]))]
      BY <2>4 DEF Send, socket
    <3>2. PICK p \in Seq(AllTokens) : p = Tokens(Head(unsent[c]))
      <4>1. SentBy(c) + 1 \in 1 .. Len(Packets[c]) /\ Head(unsent[c]) = Packets[c][SentBy(c) + 1]
        BY <3>1, Sending
      <4>2. Packets[c][SentBy(c) + 1] \in Seq(Records)
            /\ Len(Packets[c][SentBy(c) + 1]) \in 0 .. BufferSize
        BY <4>1, PacketsAre
      <4>3. PICK q \in Seq(Records) : q = Head(unsent[c]) /\ Len(q) \in 0 .. BufferSize
        BY <4>1, <4>2, Zenon
      <4>4. Len(q) <= BufferSize
        BY <4>3, ServerAssumption
      <4>5. Tokens(q) \in Seq(AllTokens)
        BY <4>4, TokensAre
      <4> QED
        BY <4>3, <4>5, Zenon
    <3>3. PICK x \in Seq(AllTokens), v \in Seq(AllTokens) : x = w \o p /\ v = u \o p
      <4>1. w \o p \in Seq(AllTokens) /\ u \o p \in Seq(AllTokens)
        BY <2>2, <3>2, ConcatProperties
      <4> QED
        BY <4>1, Zenon
    <3>4. v = s \o x
      <4>1. IsConcat(u, s, w) /\ IsConcat(x, w, p) /\ IsConcat(v, u, p)
        BY <2>2, <3>3 DEF IsConcat
      <4> QED
        BY <4>1, ConcatThree DEF IsConcat
    <3>5. sock'[c] = s /\ wire'[c] = x
      BY <1>6, <2>2, <3>1, <3>2, <3>3
    <3>6. Stream(c)' = v
      BY <3>4, <3>5, Zenon DEF Stream
    <3>7. u # <<>> /\ u[1] \in RecTokens
      BY <2>3, <3>1
    <3>8. v # <<>> /\ v[1] = u[1]
      BY <3>3, <3>7, FirstStays
    <3> QED
      BY <1>7, <2>0, <3>6, <3>7, <3>8 DEF Behind
  <2>5. CASE Deliver(c)
    <3>1. Stream(c)' = u /\ fin' = fin
      BY <2>2, <2>5, DeliverStream DEF Deliver, Stream
    <3> QED
      BY <1>7, <2>0, <2>3, <3>1 DEF Behind
  <2>6. CASE Finish(c)
    <3>1. fin'[c] = TRUE /\ sock'[c] = s /\ wire'[c] = <<>>
      BY <1>6, <2>2, <2>6 DEF Finish
    <3>2. s \o <<>> = s
      BY ConcatEmptySeq
    <3>3. Stream(c)' = s
      BY <3>1, <3>2, Zenon DEF Stream
    <3>4. s # <<>> => s[1] \in RecTokens
      <4> HAVE s # <<>>
      <4>1. u # <<>> /\ u[1] = s[1]
        BY <2>2, FirstStays
      <4> QED
        BY <2>3, <4>1
    <3> QED
      BY <1>7, <2>0, <3>1, <3>3, <3>4 DEF Behind
  <2> QED
    BY <1>11, <2>1, <2>4, <2>5, <2>6
<1>12. CASE EpollWait \/ HandleEvent \/ RecvEnds \/ SaveCurTime \/ GpsInit
  BY <1>8, <1>12 DEF EpollWait, HandleEvent, RecvEnds, SaveCurTime, GpsInit, client, socket, packet
<1>13. CASE CloseSocket
  <2>1. c # iSocket /\ UNCHANGED fin /\ pc' = "loop"
        /\ sock' = [sock EXCEPT ![iSocket] = <<>>] /\ wire' = [wire EXCEPT ![iSocket] = <<>>]
    BY <1>2, <1>6, <1>13 DEF CloseSocket
  <2>2. sock'[c] = sock[c] /\ wire'[c] = wire[c]
    BY <1>6, <2>1
  <2> QED
    BY <1>8, <2>1, <2>2
<1>14. CASE RecvHead \/ RecvBody
  <2>1. c # iSocket
    <3>1. CASE RecvBody
      BY <1>2, <1>7, <3>1 DEF RecvBody, Lost
    <3>2. CASE RecvHead
      <4>1. SUFFICES ASSUME c = iSocket PROVE FALSE
        OBVIOUS
      <4>2. pc = "head" /\ sock[iSocket] # <<>>
        BY <3>2 DEF RecvHead, Arrived
      <4>3. Token \in RecTokens
        BY <1>5, <4>1, <4>2, NextToken
      <4>4. ~IsHead(Token)
        BY <4>3, TokenKinds
      <4> QED
        BY <1>2, <3>2, <4>1, <4>4 DEF RecvHead
    <3> QED
      BY <1>14, <3>1, <3>2
  <2>2. /\ sock' = [sock EXCEPT ![iSocket] = Tail(sock[iSocket])]
        /\ UNCHANGED <<wire, fin, iSocket>>
    BY <1>14 DEF RecvHead, RecvBody, client
  <2>3. sock'[c] = sock[c]
    BY <1>6, <2>1, <2>2
  <2> QED
    BY <1>8, <2>1, <2>2, <2>3
<1>15. CASE RecvDone \/ RecvTimeout
  BY <1>8, <1>15 DEF RecvDone, RecvTimeout, StartWrite, client, socket
<1>16. CASE WriteToMem \/ Reply
  <2>1. UNCHANGED <<sock, wire, fin, iSocket>> /\ (pc' = pc \/ pc' # "body")
    BY <1>16 DEF WriteToMem, Reply, client, socket
  <2> QED
    BY <1>8, <2>1
<1>17. CASE Kill
  <2>1. /\ conn' = [d \in Clients |-> IF Connected(d) THEN "closed" ELSE conn[d]]
        /\ wire' = [d \in Clients |-> <<>>] /\ sock' = wire' /\ pc' = "down" /\ fin' = fin
    BY <1>17 DEF Kill
  <2>2. conn[c] \in {"out", "closed"}
    BY <1>2, <1>6, <2>1 DEF Connected
  <2>3. sock[c] = <<>> /\ wire[c] = <<>>
    BY <2>2 DEF ServerInv, ClientInv, Empty
  <2>4. UNCHANGED <<sock[c], wire[c], fin[c]>>
    BY <2>1, <2>3
  <2> QED
    BY <1>8, <2>1, <2>4
<1> QED
  BY <1>9, <1>10, <1>11, <1>12, <1>13, <1>14, <1>15, <1>16, <1>17 DEF Next, ServerStep

-----------------------------------------------------------------------------
(* A client that awaits replies and has something unread has an event.     *)
LEMMA AwakeSame ==
  ASSUME NEW c \in Clients, Awake(c),
         conn'[c] = conn[c] \/ conn'[c] # "open",
         UNCHANGED <<sock[c], fin[c]>>,
         Contains(ready, c) => Contains(ready', c),
         Contains(batch, c) => Contains(batch', c) \/ Handled(c)',
         c \in reset => c \in reset',
         Handled(c) => Handled(c)'
  PROVE  Awake(c)'
BY DEF Awake

LEMMA AwakeReply ==
  ASSUME ServerInv, NEW c \in Clients, c = iSocket, c \notin paused, c \notin Pipelining,
         Reply, pc' = "save", ~fin[c]
  PROVE  sock[c] = <<>>
<1>1. pc = "write" /\ iNum = iTotal
  BY DEF Reply
<1>2. ~Lost(c) /\ Busy(c)
  BY <1>1 DEF Lost, Busy, ServerInv, QueueInv, Handling
<1>3. Followed(c) /\ Reading(c) /\ Served(c)
  BY <1>2 DEF ServerInv, ClientInv, Body, Live, Followed
<1>4. PICK m \in 0 .. Len(Packets[c]), k \in Nat, s \in Seq(AllTokens), w \in Seq(AllTokens) :
        m = SentBy(c) /\ k = Answered(c) /\ s = sock[c] /\ w = wire[c]
  BY <1>3, FollowedFacts
<1>5. k < m /\ m <= k + 1 /\ iTotal = Len(Packets[c][k + 1])
  BY <1>3, <1>4 DEF Reading, Served, Current
<1>6. m = k + 1 /\ k \in 0 .. m /\ k # m
  BY <1>4, <1>5
<1>7. PlacedAt(c, m, k, Len(Packets[c][k + 1]) + 1, s \o w, fin[c])
  <2>1. Taken(c) = Len(Packets[c][k + 1]) + 1
    BY <1>1, <1>2, <1>5 DEF Taken
  <2> QED
    BY <1>3, <1>4, <2>1, Zenon DEF Followed, Placed, Stream
<1>8. PlacedAt(c, m, k + 1, 0, s \o w, fin[c])
  <2>1. PICK str : str = s \o w
    OBVIOUS
  <2>2. PlacedAt(c, m, k + 1, 0, str, fin[c])
    BY <1>6, <1>7, <2>1, PlacedAnswered
  <2> QED
    BY <2>1, <2>2, Zenon
<1>9. PlacedAt(c, m, m, 0, s \o w, fin[c])
  BY <1>6, <1>8, Zenon
<1> QED
  BY <1>4, <1>9, PlacedLast

LEMMA AwakeStep ==
  ASSUME ServerInv, [Next]_vars, NEW c \in Clients, c \notin paused'
  PROVE  Awake(c)'
<1> USE DEF Handling
<1>1. c \notin paused /\ Awake(c)
  <2>1. c \notin paused
    BY PausedStays
  <2> QED
    BY <2>1 DEF ServerInv, ClientInv
<1>2. /\ Queues /\ iSocket \in Clients /\ fin \in [Clients -> BOOLEAN]
      /\ sock \in [Clients -> Seq(AllTokens)]
      /\ conn \in [Clients -> {"out", "new", "open", "closed"}]
      /\ pc \in {"head", "body", "refuse", "write", "close", "save"} => conn[iSocket] = "open"
  BY ServerQueues DEF ServerInv, TypeOK, Typed, QueueInv
<1>3. ASSUME UNCHANGED <<conn, sock, fin, ready, batch, reset>>, Handled(c) => Handled(c)'
      PROVE  Awake(c)'
  BY <1>1, <1>3, AwakeSame
<1>4. CASE UNCHANGED vars
  BY <1>3, <1>4 DEF vars, client, socket, packet, Handled
<1>5. ASSUME NEW d \in Clients, Connect(d) PROVE Awake(c)'
  <2>1. /\ conn' = [conn EXCEPT ![d] = "new"]
        /\ UNCHANGED <<sock, fin, ready, batch, reset, pc, iSocket>>
    BY <1>5 DEF Connect, client, packet
  <2>2. conn'[c] = conn[c] \/ conn'[c] # "open"
    BY <1>2, <2>1
  <2> QED
    BY <1>1, <2>1, <2>2, AwakeSame DEF Handled
<1>6. ASSUME NEW d \in Clients, Send(d) PROVE Awake(c)'
  BY <1>3, <1>6 DEF Send, socket, packet, Handled
<1>7. ASSUME NEW d \in Clients, Deliver(d) \/ Finish(d) \/ Reset(d) PROVE Awake(c)'
  <2>1. /\ UNCHANGED <<conn, batch, pc, iSocket>> /\ reset' \in {reset, reset \ {d}}
        /\ ready' = IF conn[d] = "open" THEN Wake(d) ELSE ready
    BY <1>7 DEF Deliver, Finish, Reset, packet
  <2>2. Contains(ready, c) => Contains(ready', c)
    BY <1>2, <2>1, Woken
  <2>3. CASE d = c
    <3>1. conn[c] = "open" => Contains(ready', c)
      BY <1>2, <2>1, <2>3, Woken
    <3> QED
      BY <2>1, <3>1 DEF Awake
  <2>4. CASE d # c
    <3>1. sock'[c] = sock[c] /\ fin'[c] = fin[c]
      BY <1>2, <1>7, <2>4 DEF Deliver, Finish, Reset
    <3>2. c \in reset => c \in reset'
      BY <2>1, <2>4
    <3> QED
      BY <1>1, <2>1, <2>2, <3>1, <3>2, AwakeSame DEF Handled
  <2> QED
    BY <2>3, <2>4
<1>8. ASSUME NEW d \in Clients, Accept(d) PROVE Awake(c)'
  <2>1. /\ conn' = [conn EXCEPT ![d] = "open"] /\ UNCHANGED <<sock, fin, batch, reset, pc, iSocket>>
        /\ ready' = IF sock[d] # <<>> \/ fin[d] THEN Wake(d) ELSE ready
    BY <1>8 DEF Accept, client, packet
  <2>2. CASE d = c
    <3>1. sock[c] # <<>> \/ fin[c] => Contains(ready', c)
      BY <1>2, <2>1, <2>2, Woken
    <3> QED
      BY <2>1, <3>1 DEF Awake
  <2>3. CASE d # c
    <3>1. Contains(ready, c) => Contains(ready', c)
      BY <1>2, <2>1, Woken
    <3>2. conn'[c] = conn[c]
      BY <1>2, <2>1, <2>3
    <3> QED
      BY <1>1, <2>1, <3>1, <3>2, AwakeSame DEF Handled
  <2> QED
    BY <2>2, <2>3
<1>9. CASE EpollWait
  <2>1. /\ pc = "loop" /\ batch = <<>> /\ batch' = ready
        /\ UNCHANGED <<conn, sock, fin, reset, pc, iSocket>>
    BY <1>9 DEF EpollWait, client, packet
  <2>2. ~Contains(batch, c) /\ ~Handled(c)
    BY <2>1 DEF Contains, Handled
  <2> QED
    BY <1>1, <2>1, <2>2 DEF Awake
<1>10. CASE HandleEvent
  <2>1. /\ pc = "loop" /\ batch # <<>> /\ iSocket' = Head(batch) /\ batch' = Tail(batch)
        /\ pc' = "head" /\ UNCHANGED <<conn, sock, fin, reset, ready>>
    BY <1>10 DEF HandleEvent, client, socket
  <2>2. Contains(batch, c) => Contains(batch', c) \/ Handled(c)'
    <3>1. batch \in Seq(Clients) /\ NoRepeats(batch)
      BY <1>2 DEF Queues, QueueInv
    <3>2. Contains(batch, c) => Contains(Tail(batch), c) \/ c = Head(batch)
      BY <2>1, <3>1, QueueHead
    <3> QED
      BY <2>1, <3>2 DEF Handled
  <2>3. ~Handled(c)
    BY <2>1 DEF Handled
  <2> QED
    BY <1>1, <2>1, <2>2, <2>3, AwakeSame
<1>11. CASE CloseSocket
  <2>1. /\ conn' = [conn EXCEPT ![iSocket] = "closed"] /\ sock' = [sock EXCEPT ![iSocket] = <<>>]
        /\ ready' = Without(iSocket) /\ UNCHANGED <<batch, fin, reset>>
    BY <1>11 DEF CloseSocket, Pending
  <2>2. CASE c = iSocket
    <3>1. conn'[c] # "open"
      BY <1>2, <2>1, <2>2
    <3> QED
      BY <3>1 DEF Awake
  <2>3. CASE c # iSocket
    <3>1. conn'[c] = conn[c] /\ sock'[c] = sock[c] /\ ~Handled(c)
      BY <1>2, <2>1, <2>3 DEF Handled
    <3>2. Contains(ready, c) => Contains(ready', c)
      <4>1. Contains(ready, c) => Contains(Without(iSocket), c)
        BY <1>2, <2>3, Waned
      <4> QED
        BY <2>1, <4>1
    <3> QED
      BY <1>1, <2>1, <3>1, <3>2, AwakeSame
  <2> QED
    BY <2>2, <2>3
<1>12. CASE RecvHead \/ RecvBody
  <2>1. /\ sock' = [sock EXCEPT ![iSocket] = Tail(sock[iSocket])]
        /\ pc' \in {"body", "refuse"} /\ UNCHANGED <<conn, fin, ready, batch, reset, iSocket>>
    BY <1>12 DEF RecvHead, RecvBody, client
  <2>2. CASE c = iSocket
    BY <2>1, <2>2 DEF Awake, Handled
  <2>3. CASE c # iSocket
    <3>1. sock'[c] = sock[c] /\ ~Handled(c)
      BY <1>2, <2>1, <2>3 DEF Handled
    <3> QED
      BY <1>1, <2>1, <3>1, AwakeSame
  <2> QED
    BY <2>2, <2>3
<1>13. CASE RecvEnds
  BY <1>3, <1>13 DEF RecvEnds, client, socket, packet, Handled
<1>14. CASE RecvDone \/ RecvTimeout
  BY <1>3, <1>14 DEF RecvDone, RecvTimeout, StartWrite, client, socket, Handled
<1>15. CASE WriteToMem
  BY <1>3, <1>15 DEF WriteToMem, client, socket, Handled
<1>16. CASE Reply
  <2>1. /\ pc' \in {"save", "close"} /\ UNCHANGED <<conn, sock, fin, ready, batch, iSocket>>
        /\ reset' = reset \/ (fin[iSocket] /\ reset' = reset \cup {iSocket})
        /\ pc' = "save" /\ fin[iSocket] => iSocket \in reset'
    BY <1>16 DEF Reply, socket
  <2>2. CASE c # iSocket
    <3>1. ~Handled(c)
      BY <2>2 DEF Handled
    <3> QED
      BY <1>1, <2>1, <3>1, AwakeSame
  <2>3. CASE c = iSocket /\ pc' = "close"
    BY <2>1, <2>3 DEF Awake, Handled
  <2>4. CASE c = iSocket /\ pc' = "save"
    <3>1. CASE fin[c]
      BY <2>1, <2>4, <3>1 DEF Awake
    <3>2. CASE ~fin[c]
      <4>1. c \in Pipelining \/ sock[c] = <<>>
        BY <1>1, <1>16, <2>4, <3>2, AwakeReply
      <4> QED
        BY <2>1, <3>2, <4>1 DEF Awake
    <3> QED
      BY <3>1, <3>2
  <2> QED
    BY <2>1, <2>2, <2>3, <2>4
<1>17. CASE SaveCurTime \/ GpsInit
  BY <1>3, <1>17 DEF SaveCurTime, GpsInit, client, socket, Handled
<1>18. CASE Kill
  <2>1. conn'[c] # "open"
    BY <1>18 DEF Kill, Connected
  <2> QED
    BY <2>1 DEF Awake
<1> QED
  BY <1>4, <1>5, <1>6, <1>7, <1>8, <1>9, <1>10, <1>11, <1>12, <1>13, <1>14, <1>15, <1>16, <1>17,
     <1>18 DEF Next, ServerStep

-----------------------------------------------------------------------------
(* What was written for a client and what it was told, when it is followed. *)
LEMMA PrefixIs ==
  ASSUME NEW S, NEW s \in Seq(S), NEW u \in Seq(S)
  PROVE  IsPrefix(s, u) <=> Len(s) <= Len(u) /\ \A i \in 1 .. Len(s) : s[i] = u[i]
<1>1. Len(s) \in Nat /\ Len(u) \in Nat
  OBVIOUS
<1>2. SUFFICES ASSUME Len(s) <= Len(u)
               PROVE  SubSeq(s, 1, Len(s)) = SubSeq(u, 1, Len(s))
                        <=> \A i \in 1 .. Len(s) : s[i] = u[i]
  BY DEF IsPrefix
<1>3. SubSeq(s, 1, Len(s)) = s
  BY SubSeqFull
<1>4. PICK b \in Seq(S) : /\ b = SubSeq(u, 1, Len(s)) /\ Len(b) = Len(s)
                          /\ \A i \in 1 .. Len(s) : b[i] = u[i]
  <2>1. PICK n \in Nat : n = Len(s)
    BY <1>1
  <2>2. \A i \in 1 .. n : u[i] \in S
    BY <1>1, <1>2, <2>1
  <2>3. /\ SubSeq(u, 1, n) \in Seq(S)
        /\ Len(SubSeq(u, 1, n)) = IF 1 <= n THEN n - 1 + 1 ELSE 0
        /\ \A i \in 1 .. n - 1 + 1 : SubSeq(u, 1, n)[i] = u[1 + i - 1]
    BY <2>2, SubSeqProperties
  <2>4. PICK b \in Seq(S) : b = SubSeq(u, 1, n)
    BY <2>3, Zenon
  <2>5. Len(b) = n
    BY <2>3, <2>4
  <2>6. \A i \in 1 .. n : b[i] = u[i]
    <3> TAKE i \in 1 .. n
    <3>1. i \in 1 .. n - 1 + 1 /\ 1 + i - 1 = i
      OBVIOUS
    <3> QED
      BY <2>3, <2>4, <3>1
  <2> QED
    BY <2>1, <2>4, <2>5, <2>6, Zenon
<1>5. s = b <=> \A i \in 1 .. Len(s) : s[i] = b[i]
  BY <1>4, SeqEqual
<1> QED
  BY <1>3, <1>4, <1>5, Zenon

LEMMA PrefixAfter ==
  ASSUME NEW S, NEW s \in Seq(S), NEW u \in Seq(S), NEW v \in Seq(S), IsPrefix(s, u),
         Len(u) <= Len(v), \A i \in 1 .. Len(u) : v[i] = u[i]
  PROVE  IsPrefix(s, v)
<1>1. Len(s) \in Nat /\ Len(u) \in Nat /\ Len(v) \in Nat
  OBVIOUS
<1>2. Len(s) <= Len(u) /\ \A i \in 1 .. Len(s) : s[i] = u[i]
  BY PrefixIs
<1>3. Len(s) <= Len(v) /\ \A i \in 1 .. Len(s) : i \in 1 .. Len(u)
  BY <1>1, <1>2
<1>4. \A i \in 1 .. Len(s) : s[i] = v[i]
  BY <1>2, <1>3
<1> QED
  BY <1>3, <1>4, PrefixIs

LEMMA FollowedKept ==
  ASSUME ServerInv, NEW c \in Clients, Followed(c)
  PROVE  Kept(c) /\ (~Written(c) => Told(c) = Len(log[c]))
<1>1. PICK m \in 0 .. Len(Packets[c]), k \in 0 .. Len(Packets[c]) :
        m = SentBy(c) /\ k = Answered(c) /\ k <= m
  <2>1. SentBy(c) \in 0 .. Len(Packets[c]) /\ Answered(c) \in 0 .. SentBy(c)
        /\ Len(Packets[c]) \in Nat
    BY FollowedFacts, PacketsAre
  <2>2. Answered(c) \in 0 .. Len(Packets[c]) /\ Answered(c) <= SentBy(c)
    BY <2>1
  <2> QED
    BY <2>1, <2>2, Zenon
<1>2. PICK P \in Seq(Seq(Records)) : P = Packets[c] /\ Len(P) \in Nat
  BY PacketsAre
<1>3. PICK J \in [0 .. Len(P) -> Seq(Records)] : J = Joined(P)
  BY <1>2, JoinedIs
<1>4. PICK a \in Seq(Records), b \in Seq(Records) : a = J[k] /\ b = J[m] /\ b = Sent(c)
  <2>1. J[k] \in Seq(Records) /\ J[m] \in Seq(Records)
    BY <1>1, <1>2, <1>3
  <2> QED
    BY <1>1, <1>2, <1>3, <2>1, Zenon DEF Sent
<1>5. Len(a) <= Len(b) /\ \A i \in 1 .. Len(a) : b[i] = a[i]
  <2>1. k \in 0 .. Len(P) /\ m \in k .. Len(P)
    BY <1>1, <1>2
  <2>2. /\ Len(Joined(P)[k]) <= Len(Joined(P)[m])
        /\ \A x \in 1 .. Len(Joined(P)[k]) : Joined(P)[m][x] = Joined(P)[k][x]
    BY <2>1, JoinedGrows
  <2> QED
    BY <1>3, <1>4, <2>2, Zenon
<1>6. Told(c) = Len(a)
  <2>1. replies[c] = [i \in 1 .. k |-> Len(P[i])]
    BY <1>1, <1>2 DEF Followed, Served
  <2>2. PICK r : r = replies[c]
    OBVIOUS
  <2>3. k \in 0 .. Len(P) /\ r = [i \in 1 .. k |-> Len(P[i])]
    BY <1>2, <2>1, <2>2, Zenon
  <2>4. Total(r)[k] = Len(Joined(P)[k])
    BY <2>3, TotalOfLengths
  <2>5. Total(replies[c])[k] = Len(Joined(P)[k])
    BY <2>2, <2>4, Zenon
  <2> QED
    BY <1>1, <1>3, <1>4, <2>5, Zenon DEF Told, Answered
<1>7. Len(a) \in Nat /\ Len(b) \in Nat
  OBVIOUS
<1>8. CASE ~Written(c)
  <2>1. log[c] = a
    BY <1>1, <1>2, <1>3, <1>4, <1>8 DEF Followed, Served
  <2>2. IsPrefix(a, b)
    BY <1>5, PrefixIs
  <2> QED
    BY <1>4, <1>6, <1>7, <2>1, <2>2 DEF Kept
<1>9. CASE Written(c)
  <2>1. k < m /\ iTotal = Len(P[k + 1])
    BY <1>1, <1>2, <1>9 DEF Followed, Reading, Busy, Written, Current
  <2>2. k + 1 \in 1 .. Len(P) /\ k + 1 \in 0 .. Len(P) /\ m \in k + 1 .. Len(P) /\ (k + 1) - 1 = k
    BY <1>1, <1>2, <2>1
  <2>3. PICK n \in Nat, p \in Seq(Records) : n = iNum /\ p = P[k + 1] /\ n <= Len(p)
    <3>1. iNum \in 0 .. iTotal /\ iTotal \in Nat
      BY ServerAssumption DEF ServerInv, TypeOK
    <3>2. P[k + 1] \in Seq(Records) /\ iNum \in Nat /\ iNum <= Len(P[k + 1])
      BY <2>1, <2>2, <3>1
    <3> QED
      BY <3>2, Zenon
  <2>4. PICK q \in Seq(Records) : /\ q = SubSeq(p, 1, n) /\ Len(q) = n
                                  /\ \A i \in 1 .. n : q[i] = p[i]
    <3>1. \A i \in 1 .. n : p[i] \in Records
      BY <2>3
    <3>2. /\ SubSeq(p, 1, n) \in Seq(Records)
          /\ Len(SubSeq(p, 1, n)) = IF 1 <= n THEN n - 1 + 1 ELSE 0
          /\ \A i \in 1 .. n - 1 + 1 : SubSeq(p, 1, n)[i] = p[1 + i - 1]
      BY <3>1, SubSeqProperties
    <3>3. PICK q \in Seq(Records) : q = SubSeq(p, 1, n)
      BY <3>2, Zenon
    <3>4. Len(q) = n
      BY <3>2, <3>3
    <3>5. \A i \in 1 .. n : q[i] = p[i]
      <4> TAKE i \in 1 .. n
      <4>1. i \in 1 .. n - 1 + 1 /\ 1 + i - 1 = i
        OBVIOUS
      <4> QED
        BY <3>2, <3>3, <4>1
    <3> QED
      BY <3>3, <3>4, <3>5, Zenon
  <2>5. PICK l \in Seq(Records), d \in Seq(Records) : l = a \o q /\ d = a \o p
    BY ConcatProperties, Zenon
  <2>6. log[c] = l
    BY <1>1, <1>2, <1>3, <1>4, <1>9, <2>3, <2>4, <2>5 DEF Followed, Served, Current
  <2>7. d = J[k + 1]
    <3>1. Joined(P)[k + 1] = Joined(P)[(k + 1) - 1] \o P[k + 1]
      BY <2>2, JoinedIs
    <3> QED
      BY <1>3, <1>4, <2>2, <2>3, <2>5, <3>1, Zenon
  <2>8. Len(d) <= Len(b) /\ \A i \in 1 .. Len(d) : b[i] = d[i]
    <3>1. /\ Len(Joined(P)[k + 1]) <= Len(Joined(P)[m])
          /\ \A x \in 1 .. Len(Joined(P)[k + 1]) : Joined(P)[m][x] = Joined(P)[k + 1][x]
      BY <2>2, JoinedGrows
    <3> QED
      BY <1>3, <1>4, <2>7, <3>1, Zenon
  <2>9. /\ Len(l) = Len(a) + n /\ \A i \in 1 .. Len(a) : l[i] = a[i]
        /\ \A i \in 1 .. n : l[Len(a) + i] = q[i]
    BY <2>4, <2>5, ConcatAfter
  <2>10. /\ Len(d) = Len(a) + Len(p) /\ \A i \in 1 .. Len(a) : d[i] = a[i]
         /\ \A i \in 1 .. Len(p) : d[Len(a) + i] = p[i]
    BY <2>5, ConcatAfter
  <2>11. IsPrefix(l, d)
    <3>1. PICK x \in Nat, y \in Nat : x = Len(a) /\ y = Len(p) /\ n <= y
      BY <1>7, <2>3
    <3>2. ASSUME NEW i \in 1 .. x + n PROVE l[i] = d[i]
      <4>1. CASE i <= x
        <5>1. i \in 1 .. x
          BY <4>1
        <5> QED
          BY <2>9, <2>10, <3>1, <5>1, Zenon
      <4>2. CASE ~(i <= x)
        <5>1. PICK j \in 1 .. n : i = x + j /\ j \in 1 .. y
          <6>1. i - x \in 1 .. n /\ i = x + (i - x) /\ i - x \in 1 .. y
            BY <3>1, <4>2
          <6> QED
            BY <6>1, Zenon
        <5>2. l[x + j] = q[j] /\ q[j] = p[j] /\ d[x + j] = p[j]
          BY <2>4, <2>9, <2>10, <3>1, <5>1, Zenon
        <5> QED
          BY <5>1, <5>2, Zenon
      <4> QED
        BY <4>1, <4>2, Zenon
    <3>3. x + n <= x + y
      BY <3>1
    <3> QED
      BY <2>9, <2>10, <3>1, <3>2, <3>3, PrefixIs
  <2>12. IsPrefix(l, b)
    BY <2>8, <2>11, PrefixAfter
  <2>13. Len(a) <= Len(l)
    BY <1>7, <2>9
  <2> QED
    BY <1>4, <1>6, <1>9, <2>6, <2>12, <2>13 DEF Kept
<1> QED
  BY <1>8, <1>9

(* Nothing is written for a client that is no longer followed.             *)
LEMMA KeptStep ==
  ASSUME ServerInv, [Next]_vars, NEW c \in Clients, c \notin paused', Lost(c)'
  PROVE  Kept(c)'
<1>1. Kept(c) /\ ClientInv(c)
  <2>1. c \notin paused /\ ClientInv(c)
    BY PausedStays DEF ServerInv
  <2>2. CASE Lost(c)
    BY <2>1, <2>2 DEF ClientInv
  <2>3. CASE ~Lost(c)
    <3>1. Followed(c)
      BY <2>1, <2>3 DEF ClientInv, Body, Live
    <3> QED
      BY <2>1, <3>1, FollowedKept
  <2> QED
    BY <2>1, <2>2, <2>3
<1>2. /\ iSocket \in Clients /\ unsent \in [Clients -> Seq(Seq(Records))]
      /\ log \in [Clients -> Seq(Records \cup {Garbage})]
      /\ replies \in [Clients -> Seq(0 .. BufferSize)]
      /\ pc = "write" => conn[iSocket] = "open"
  BY DEF ServerInv, TypeOK, Typed, QueueInv, Handling
<1>3. ASSUME UNCHANGED <<unsent[c], log[c], replies[c]>> PROVE Kept(c)'
  BY <1>1, <1>3 DEF Kept, Sent, SentBy, Told
<1>4. CASE UNCHANGED vars
  BY <1>3, <1>4 DEF vars, client, history
<1>5. ASSUME NEW d \in Clients, Connect(d) \/ Deliver(d) \/ Finish(d) \/ Reset(d) \/ Accept(d)
      PROVE  Kept(c)'
  BY <1>3, <1>5 DEF Connect, Deliver, Finish, Reset, Accept, client, history
<1>6. ASSUME NEW d \in Clients, Send(d) PROVE Kept(c)'
  <2>1. /\ unsent[d] # <<>> /\ unsent' = [unsent EXCEPT ![d] = Tail(unsent[d])]
        /\ UNCHANGED <<log, replies>>
    BY <1>6 DEF Send, history
  <2>2. CASE d # c
    BY <1>2, <1>3, <2>1, <2>2
  <2>3. CASE d = c
    <3>1. PICK P \in Seq(Seq(Records)), m \in Nat :
            P = Packets[c] /\ m = SentBy(c) /\ m + 1 \in 1 .. Len(P)
      <4>1. SentBy(c) \in Nat /\ SentBy(c) + 1 \in 1 .. Len(Packets[c])
        BY <2>1, <2>3, Sending
      <4>2. Packets[c] \in Seq(Seq(Records))
        BY PacketsAre
      <4> QED
        BY <4>1, <4>2, Zenon
    <3>2. SentBy(c)' = m + 1
      <4>1. unsent'[c] = Tail(unsent[c])
        BY <1>2, <2>1, <2>3
      <4>2. Len(Tail(unsent[c])) = Len(unsent[c]) - 1 /\ Len(unsent[c]) \in Nat
        BY <1>2, <2>1, <2>3, Sending
      <4>3. Len(P) \in Nat /\ m = Len(P) - Len(unsent[c])
        BY <3>1 DEF SentBy
      <4>4. SentBy(c)' = Len(P) - (Len(unsent[c]) - 1)
        BY <3>1, <4>1, <4>2 DEF SentBy
      <4> QED
        BY <4>2, <4>3, <4>4
    <3>3. m \in 0 .. Len(P) /\ m + 1 \in m .. Len(P) /\ m + 1 \in 0 .. Len(P) /\ Len(P) \in Nat
      BY <3>1
    <3>4. PICK u \in Seq(Records \cup {Garbage}), v \in Seq(Records \cup {Garbage}) :
            u = Joined(P)[m] /\ v = Joined(P)[m + 1]
      <4>1. Joined(P) \in [0 .. Len(P) -> Seq(Records)]
        BY JoinedIs
      <4>2. Joined(P)[m] \in Seq(Records) /\ Joined(P)[m + 1] \in Seq(Records)
        BY <3>3, <4>1
      <4>3. \A s \in Seq(Records) : s \in Seq(Records \cup {Garbage})
        OBVIOUS
      <4> QED
        BY <4>2, <4>3, Zenon
    <3>5. Len(u) <= Len(v) /\ \A i \in 1 .. Len(u) : v[i] = u[i]
      <4>1. /\ Len(Joined(P)[m]) <= Len(Joined(P)[m + 1])
            /\ \A x \in 1 .. Len(Joined(P)[m]) : Joined(P)[m + 1][x] = Joined(P)[m][x]
        BY <3>3, JoinedGrows
      <4> QED
        BY <3>4, <4>1, Zenon
    <3>6. PICK l \in Seq(Records \cup {Garbage}) : l = log[c]
      BY <1>2
    <3>7. IsPrefix(l, u) /\ Told(c) <= Len(l)
      BY <1>1, <3>1, <3>4, <3>6, Zenon DEF Kept, Sent
    <3>8. IsPrefix(l, v)
      BY <3>5, <3>7, PrefixAfter
    <3>9. Told(c)' = Told(c) /\ log'[c] = l /\ Sent(c)' = v
      BY <2>1, <3>1, <3>2, <3>4, <3>6 DEF Told, Sent
    <3> QED
      BY <3>7, <3>8, <3>9, Zenon DEF Kept
  <2> QED
    BY <2>2, <2>3
<1>7. CASE EpollWait \/ HandleEvent \/ CloseSocket \/ RecvHead \/ RecvBody \/ RecvEnds
  BY <1>3, <1>7 DEF EpollWait, HandleEvent, CloseSocket, RecvHead, RecvBody, RecvEnds,
                    client, history
<1>8. CASE RecvDone \/ RecvTimeout
  BY <1>3, <1>8 DEF RecvDone, RecvTimeout, StartWrite, client
<1>9. CASE WriteToMem
  <2>1. /\ \E x : log' = [log EXCEPT ![iSocket] = x] /\ pc = "write" /\ pc' = "write"
        /\ UNCHANGED <<unsent, replies, conn, iSocket>>
    BY <1>9 DEF WriteToMem, client, socket
  <2>2. c # iSocket
    BY <1>2, <2>1 DEF Lost
  <2> QED
    BY <1>2, <1>3, <2>1, <2>2
<1>10. CASE Reply
  <2>1. /\ UNCHANGED <<unsent, log, conn, iSocket>> /\ pc = "write"
        /\ \/ pc' = "save" /\ \E x : replies' = [replies EXCEPT ![iSocket] = x]
           \/ replies' = replies
    BY <1>10 DEF Reply, socket
  <2>2. c # iSocket \/ replies' = replies
    BY <1>2, <2>1 DEF Lost
  <2> QED
    BY <1>2, <1>3, <2>1, <2>2
<1>11. CASE SaveCurTime \/ GpsInit \/ Kill
  BY <1>3, <1>11 DEF SaveCurTime, GpsInit, Kill, client, history
<1> QED
  BY <1>4, <1>5, <1>6, <1>7, <1>8, <1>9, <1>10, <1>11 DEF Next, ServerStep

-----------------------------------------------------------------------------
LEMMA ServerStarts ==
  ASSUME Init
  PROVE  ServerInv
<1> USE DEF Init
<1>0. BufferSize \in Nat \ {0} /\ MaxCrashes \in Nat /\ <<>> \in Seq(AllTokens)
      /\ <<>> \in Seq(Records \cup {Garbage}) /\ <<>> \in Seq(0 .. BufferSize)
      /\ <<>> \in Seq(Clients)
  BY ServerAssumption
<1>1. Packets \in [Clients -> Seq(Seq(Records))]
  BY ServerAssumption
<1>2. ASSUME NEW c \in Clients
      PROVE  /\ SentBy(c) = 0 /\ Len(Packets[c]) \in Nat
             /\ unsent[c] = SubSeq(Packets[c], 0 + 1, Len(Packets[c]))
  <2>1. Packets[c] \in Seq(Seq(Records)) /\ unsent[c] = Packets[c]
    BY <1>1
  <2> QED
    BY <2>1, SubSeqFull DEF SentBy
<1>3. TypeOK /\ Typed
  <2>1. Flows
    <3>1. \A c \in Clients : \E n \in 0 .. Len(Packets[c]) :
            unsent[c] = SubSeq(Packets[c], n + 1, Len(Packets[c]))
      <4> TAKE c \in Clients
      <4>1. 0 \in 0 .. Len(Packets[c])
        BY <1>2
      <4> QED
        BY <1>2, <4>1
    <3> QED
      BY <1>0, <1>1, <3>1 DEF Flows
  <2>2. Buffers
    <3>1. pc \in Steps
      BY DEF Steps
    <3>2. m_psPacket \in [Slots -> Records \cup {Garbage}]
      BY DEF EmptyBuffer
    <3>3. iNum \in 0 .. iTotal
      OBVIOUS
    <3>4. iTotal \in 0 .. BufferSize
      BY <1>0
    <3>5. iSocket \in Clients /\ sPerMaxTime \in Nat /\ g_sMaxTime \in Nat /\ CurTime \in Nat
      OBVIOUS
    <3> HIDE DEF Init
    <3> QED
      BY <3>1, <3>2, <3>3, <3>4, <3>5, Zenon DEF Buffers
  <2>3. Ends
    <3>1. fin \in [Clients -> BOOLEAN] /\ reset \subseteq Clients /\ \A c \in reset : fin[c]
      OBVIOUS
    <3>2. conn \in [Clients -> {"out", "new", "open", "closed"}]
      OBVIOUS
    <3>3. paused \subseteq Clients /\ failed \in BOOLEAN
      OBVIOUS
    <3>4. crashes \in 0 .. MaxCrashes
      BY <1>0
    <3> HIDE DEF Init
    <3> QED
      BY <3>1, <3>2, <3>3, <3>4, Zenon DEF Ends
  <2>4. OpenQueued
    BY DEF OpenQueued, ToSet
  <2> QED
    BY <1>0, <2>1, <2>2, <2>3, <2>4, TypeIs
<1>4. QueueInv
  BY DEF QueueInv, NoRepeats, Handling
<1>5. ClockInv /\ PauseInv /\ HeadInv
  BY DEF ClockInv, PauseInv, HeadInv
<1>6. ASSUME NEW c \in Clients PROVE ClientInv(c)
  <2>1. ~Lost(c) /\ ~Busy(c) /\ ~Written(c) /\ c \notin paused /\ Awake(c) /\ Empty(c)
    BY DEF Lost, Busy, Written, Awake, Empty
  <2>2. Answered(c) = 0 /\ Taken(c) = 0 /\ fin[c] = FALSE
    BY <2>1 DEF Answered, Taken
  <2>3. Stream(c) = <<>>
    <3>1. <<>> \o <<>> = <<>>
      OBVIOUS
    <3> QED
      BY <3>1 DEF Stream
  <2>4. Placed(c)
    <3>1. PICK l \in Nat : l = Len(Joined(TokensOf(c))[0])
      <4>1. 0 \in 0 .. Len(Packets[c])
        BY <1>2
      <4> QED
        BY <4>1, Offsets
    <3>2. Len(<<>>) = 0 /\ l + 0 = l /\ l + 0 + 0 = l
      OBVIOUS
    <3>3. Follows(Joined(TokensOf(c))[0], l + 0, <<>>, FALSE)
      BY <3>1, <3>2 DEF Follows
    <3>4. Follows(Joined(TokensOf(c))[0], Len(Joined(TokensOf(c))[0]) + 0, <<>>, FALSE)
      BY <3>1, <3>3, Zenon
    <3>5. 0 <= 0
      OBVIOUS
    <3>6. PlacedAt(c, 0, 0, 0, <<>>, FALSE)
      BY <3>4, <3>5 DEF PlacedAt
    <3> QED
      BY <1>2, <2>2, <2>3, <3>6, Zenon DEF Placed
  <2>5. Served(c)
    <3>1. Joined(Packets[c])[0] = <<>>
      BY PacketsAre, JoinedIs
    <3>2. replies[c] = <<>> /\ log[c] = <<>>
      OBVIOUS
    <3>3. <<>> = [k \in 1 .. 0 |-> Len(Packets[c][k])]
      OBVIOUS
    <3>4. SentBy(c) <= Answered(c) + 1
      BY <1>2, <2>2
    <3> QED
      BY <2>1, <2>2, <3>1, <3>2, <3>3, <3>4, Zenon DEF Served
  <2> QED
    BY <2>1, <2>4, <2>5 DEF ClientInv, Body, Back, Followed
<1> QED
  BY <1>3, <1>4, <1>5, <1>6 DEF ServerInv

LEMMA ServerKeeps ==
  ASSUME ServerInv, [Next]_vars
  PROVE  ServerInv'
<1>1. Flows' /\ Buffers' /\ Ends' /\ Queues'
  BY FlowsStep, BuffersStep, EndsStep, QueuesStep
<1>2. OpenQueued'
  BY <1>1, QueuesPrimed DEF Queues
<1>3. TypeOK' /\ Typed' /\ QueueInv'
  BY <1>1, <1>2, TypePrimed DEF Queues
<1>4. ASSUME NEW c \in Clients PROVE ClientInv(c)'
  <2>1. Empty(c)' /\ Body(c)' /\ Back(c)'
    BY EmptyStep, BodyStep, BackStep
  <2>2. c \notin paused' => Awake(c)'
    BY AwakeStep
  <2>3. c \notin paused' /\ Lost(c)' => Kept(c)'
    BY KeptStep
  <2> QED
    BY <2>1, <2>2, <2>3 DEF ClientInv
<1> QED
  BY <1>3, <1>4, ClockStep, PauseStep, HeadStep DEF ServerInv

LEMMA ServerAlways == Spec => []ServerInv
BY ServerStarts, ServerKeeps, PTL DEF Spec

-----------------------------------------------------------------------------
(* Every variable keeps its type: what is unsent of a client is an end of  *)
(* its packets, the buffer is not written past its end, and no event is    *)
(* kept for a connection that is closed.                                   *)
THEOREM TypeCorrect == Spec => []TypeOK
<1>1. ServerInv => TypeOK
  BY DEF ServerInv
<1> QED
  BY <1>1, ServerAlways, PTL

(* The file of the largest hour never runs ahead of the hour in memory,    *)
(* and between packets it is that hour, unless a reply failed.             *)
THEOREM CurTimeFollows == Spec => []CurTimeKept
<1>1. ServerInv => CurTimeKept
  BY DEF ServerInv, ClockInv, CurTimeKept
<1> QED
  BY <1>1, ServerAlways, PTL

(* The loop never waits for events while anything is unread of a client    *)
(* that sends one packet at a time and has no event.                       *)
THEOREM NobodyStranded == Spec => []NothingStranded
<1>1. ASSUME ServerInv PROVE NothingStranded
  <2>1. SUFFICES ASSUME pc = "loop", batch = <<>>, NEW c \in Clients \ (Pipelining \cup paused),
                        conn[c] = "open" /\ (sock[c] # <<>> \/ fin[c])
                 PROVE  Contains(ready, c) \/ c \in reset
    BY DEF NothingStranded
  <2>2. Awake(c)
    BY <1>1 DEF ServerInv, ClientInv
  <2>3. ~Contains(batch, c)
    BY <2>1 DEF Contains
  <2>4. ~Handled(c)
    BY <2>1 DEF Handled, Handling
  <2> QED
    BY <2>1, <2>2, <2>3, <2>4 DEF Awake
<1> QED
  BY <1>1, ServerAlways, PTL

(* Whatever the segments and whatever other clients do, who share the      *)
(* buffer and the loop: the records written for a client that did not      *)
(* pause within a packet are those it sent, in order and once, and its     *)
(* replies count no more than what is written.                             *)
THEOREM SessionsFaithful == Spec => []SessionFaithful
<1>1. ASSUME ServerInv PROVE SessionFaithful
  <2>1. SUFFICES ASSUME NEW c \in Clients \ paused
                 PROVE  /\ Kept(c)
                        /\ pc = "loop" /\ conn[c] = "open" => Told(c) = Len(log[c])
    BY DEF SessionFaithful, Kept
  <2>2. ClientInv(c)
    BY <1>1 DEF ServerInv
  <2>3. CASE Lost(c)
    <3>1. ~(pc = "loop" /\ conn[c] = "open")
      BY <2>3 DEF Lost
    <3> QED
      BY <2>2, <2>3, <3>1 DEF ClientInv
  <2>4. CASE ~Lost(c)
    <3>1. Followed(c)
      BY <2>2, <2>4 DEF ClientInv, Body, Live
    <3>2. pc = "loop" => ~Written(c)
      BY DEF Written
    <3> QED
      BY <1>1, <3>1, <3>2, FollowedKept
  <2> QED
    BY <2>3, <2>4
<1> QED
  BY <1>1, ServerAlways, PTL
=============================================================================
