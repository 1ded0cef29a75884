---------------------------- MODULE BridgeProofs ----------------------------
(***************************************************************************)
(* Whatever the size of a packet, however the stream is cut and however    *)
(* many messages there are, the page is given whole packets in order and   *)
(* hears first how the connection went, the server is given packets, and   *)
(* each direction is an ordered pipe that loses nothing but its end.       *)
(***************************************************************************)
EXTENDS BridgeProps, SequenceTheorems, FiniteSetTheorems, TLAPS

-----------------------------------------------------------------------------
\* Arithmetic of the loop over the buffer

LEMMA Products ==
  ASSUME NEW a \in Nat, NEW b \in Nat
  PROVE  a * b \in Nat
PROOF
<1>1. a * b \in Int
  OBVIOUS
<1>2. a * b >= 0
  BY SMTT(30)
<1> QED
  BY <1>1, <1>2

\* The loop leaves less than a packet.
LEMMA RoundsFacts ==
  ASSUME NEW buffer, Len(buffer) \in Nat
  PROVE  /\ Rounds(buffer) \in Nat
         /\ Rounds(buffer) * PacketSize \in Nat
         /\ Rounds(buffer) * PacketSize <= Len(buffer)
PROOF
<1>1. PacketSize \in Nat /\ PacketSize > 0
  BY BridgeAssumption
<1> DEFINE n == Len(buffer)
<1>2. n \in Nat
  OBVIOUS
<1> HIDE DEF n
<1>3. n \div PacketSize \in Nat /\ n = PacketSize * (n \div PacketSize) + (n % PacketSize)
      /\ n % PacketSize >= 0 /\ n % PacketSize \in Int
  BY <1>1, <1>2, SMTT(30)
<1>4. PacketSize * (n \div PacketSize) = (n \div PacketSize) * PacketSize
  BY <1>1, <1>3
<1>5. (n \div PacketSize) * PacketSize \in Nat
  BY <1>1, <1>3, Products
<1> QED
  BY <1>3, <1>4, <1>5 DEF Rounds, n

\* The k-th of c packets ends where the packets after it begin.
LEMMA PacketAfter ==
  ASSUME NEW c \in Nat, NEW k \in Nat \ {0}, NEW s,
         s = [i \in 1..PacketSize |-> c * PacketSize + (k - 1) * PacketSize + i]
  PROVE  s = Packet(c + k)
PROOF
<1>1. PacketSize \in Nat
  BY BridgeAssumption
<1>2. ((c + k) - 1) * PacketSize = c * PacketSize + (k - 1) * PacketSize
  BY <1>1, SMTT(30)
<1> QED
  BY <1>2 DEF Packet

-----------------------------------------------------------------------------
\* Frames that the page took, or will take, stay in order

LEMMA MorePackets ==
  ASSUME NEW frames, NEW c \in Nat, NEW d \in Nat, c <= d, InOrder(frames, c)
  PROVE  InOrder(frames, d)
PROOF
  BY DEF InOrder

LEMMA OtherFrames ==
  ASSUME NEW frames \in Seq(Frames), NEW c \in Nat, InOrder(frames, c),
         NEW more \in Seq(Frames), \A i \in DOMAIN more : more[i].type # "packet"
  PROVE  InOrder(frames \o more, c)
PROOF
<1> DEFINE all == frames \o more
           n   == Len(frames)
<1>1. /\ n \in Nat /\ Len(more) \in Nat /\ DOMAIN all = 1..(n + Len(more))
      /\ DOMAIN frames = 1..n /\ DOMAIN more = 1..Len(more)
      /\ \A i \in 1..n : all[i] = frames[i]
      /\ \A i \in 1..Len(more) : all[n + i] = more[i]
  OBVIOUS
<1>2. \A i \in DOMAIN all : i > n => i - n \in DOMAIN more /\ all[i] = more[i - n]
  <2> TAKE i \in DOMAIN all
  <2> HAVE i > n
  <2>1. i - n \in 1..Len(more) /\ n + (i - n) = i
    BY <1>1
  <2> QED
    BY <1>1, <2>1
<1> HIDE DEF all, n
<1>3. SUFFICES ASSUME NEW i \in DOMAIN all, all[i].type = "packet"
      PROVE  \E k \in 1..c :
               /\ all[i].body = Packet(k)
               /\ \A j \in 1..(i - 1) : all[j].type = "packet" =>
                    \E l \in 1..(k - 1) : all[j].body = Packet(l)
  BY DEF InOrder, all
<1>4. i \in 1..n /\ all[i] = frames[i]
  BY <1>1, <1>2, <1>3
<1>5. \A j \in 1..(i - 1) : all[j] = frames[j]
  BY <1>1, <1>4
<1>6. PICK k \in 1..c :
        /\ frames[i].body = Packet(k)
        /\ \A j \in 1..(i - 1) : frames[j].type = "packet" =>
             \E l \in 1..(k - 1) : frames[j].body = Packet(l)
  BY <1>1, <1>3, <1>4 DEF InOrder
<1> QED
  BY <1>4, <1>5, <1>6

\* What the loop over the buffer adds continues the packets cut before.
LEMMA NextPackets ==
  ASSUME NEW frames \in Seq(Frames), NEW c \in Nat, InOrder(frames, c),
         NEW r \in Nat, NEW more, DOMAIN more = 1..r, more \in Seq(Frames),
         \A k \in 1..r : more[k] = Frame("packet", Packet(c + k))
  PROVE  InOrder(frames \o more, c + r)
PROOF
<1> DEFINE all == frames \o more
           n   == Len(frames)
<1>1. /\ n \in Nat /\ Len(more) = r /\ DOMAIN all = 1..(n + r) /\ DOMAIN frames = 1..n
      /\ \A i \in 1..n : all[i] = frames[i]
      /\ \A k \in 1..r : all[n + k] = more[k]
  OBVIOUS
<1>2. \A k \in 1..r : all[n + k].body = Packet(c + k)
  BY <1>1 DEF Frame
<1> HIDE DEF all, n
<1>3. ASSUME NEW i \in 1..n, all[i].type = "packet"
      PROVE  \E k \in 1..c :
               /\ all[i].body = Packet(k)
               /\ \A j \in 1..(i - 1) : all[j].type = "packet" =>
                    \E l \in 1..(k - 1) : all[j].body = Packet(l)
  <2>1. PICK k \in 1..c :
          /\ frames[i].body = Packet(k)
          /\ \A j \in 1..(i - 1) : frames[j].type = "packet" =>
               \E l \in 1..(k - 1) : frames[j].body = Packet(l)
    BY <1>1, <1>3 DEF InOrder
  <2>2. \A j \in 1..(i - 1) : all[j] = frames[j]
    BY <1>1
  <2> QED
    BY <1>1, <2>1, <2>2
<1>4. ASSUME NEW i \in 1..(n + r), i > n, NEW k, k = c + (i - n)
      PROVE  /\ k \in 1..(c + r) /\ all[i].body = Packet(k)
             /\ \A j \in 1..(i - 1) : all[j].type = "packet" =>
                  \E l \in 1..(k - 1) : all[j].body = Packet(l)
  <2>1. i - n \in 1..r /\ i = n + (i - n)
    BY <1>1, <1>4
  <2>2. all[i].body = Packet(k) /\ k \in 1..(c + r)
    BY <1>2, <1>4, <2>1
  <2>3. ASSUME NEW j \in 1..(i - 1), all[j].type = "packet", j <= n
        PROVE  \E l \in 1..(k - 1) : all[j].body = Packet(l)
    <3>1. j \in 1..n
      BY <1>1, <2>3
    <3>2. PICK l \in 1..c : all[j].body = Packet(l)
      BY <1>3, <2>3, <3>1
    <3> QED
      BY <1>1, <1>4, <2>1, <3>2
  <2>4. ASSUME NEW j \in 1..(i - 1), j > n
        PROVE  \E l \in 1..(k - 1) : all[j].body = Packet(l)
    <3>1. j - n \in 1..r /\ j = n + (j - n) /\ c + (j - n) \in 1..(k - 1)
      BY <1>1, <1>4, <2>1, <2>4
    <3> QED
      BY <1>2, <3>1
  <2> QED
    <3>1. \A j \in 1..(i - 1) : j \in Int /\ (j <= n \/ j > n)
      BY <1>1
    <3> QED
      BY <2>2, <2>3, <2>4, <3>1
<1>5. \A i \in DOMAIN all : i \in 1..n \/ (i \in 1..(n + r) /\ i > n)
  BY <1>1
<1>6. \A k \in 1..c : k \in 1..(c + r)
  OBVIOUS
<1>7. ASSUME NEW i \in DOMAIN all, all[i].type = "packet"
      PROVE  \E k \in 1..(c + r) :
               /\ all[i].body = Packet(k)
               /\ \A j \in 1..(i - 1) : all[j].type = "packet" =>
                    \E l \in 1..(k - 1) : all[j].body = Packet(l)
  <2>1. CASE i \in 1..n
    BY <1>3, <1>6, <1>7, <2>1
  <2>2. CASE i \in 1..(n + r) /\ i > n
    <3> DEFINE k == c + (i - n)
    <3>1. k \in 1..(c + r) /\ all[i].body = Packet(k)
      BY <1>4, <2>2
    <3>2. \A j \in 1..(i - 1) : all[j].type = "packet" =>
               \E l \in 1..(k - 1) : all[j].body = Packet(l)
      BY <1>4, <2>2
    <3> HIDE DEF k
    <3> QED
      BY <3>1, <3>2
  <2> QED
    BY <1>5, <2>1, <2>2
<1>8. InOrder(all, c + r)
  BY <1>7 DEF InOrder
<1> QED
  BY <1>8 DEF all

\* A frame that is lost leaves the others in order.
LEMMA LostFrame ==
  ASSUME NEW taken \in Seq(Frames), NEW under \in Seq(Frames), under # <<>>,
         NEW c \in Nat, InOrder(taken \o under, c)
  PROVE  InOrder(taken \o Tail(under), c)
PROOF
<1> DEFINE old == taken \o under
           new == taken \o Tail(under)
           n   == Len(taken)
<1>1. /\ n \in Nat /\ Len(under) \in Nat \ {0}
      /\ DOMAIN old = 1..(n + Len(under)) /\ DOMAIN new = 1..(n + Len(under) - 1)
      /\ \A i \in 1..n : old[i] = taken[i] /\ new[i] = taken[i]
      /\ \A i \in 1..(Len(under) - 1) : new[n + i] = Tail(under)[i] /\ Tail(under)[i] = under[i + 1]
      /\ \A i \in 1..Len(under) : old[n + i] = under[i]
  OBVIOUS
<1> DEFINE m == Len(under)
           was == [i \in 1..(n + m - 1) |-> IF i <= n THEN i ELSE i + 1]
<1>2. \A i \in 1..(n + m - 1) : was[i] \in 1..(n + m) /\ new[i] = old[was[i]]
  <2> SUFFICES ASSUME NEW i \in 1..(n + m - 1)
               PROVE  was[i] \in 1..(n + m) /\ new[i] = old[was[i]]
    OBVIOUS
  <2>1. CASE i <= n
    BY <1>1, <2>1
  <2>2. CASE i > n
    <3>1. i - n \in 1..(m - 1) /\ (i - n) + 1 \in 1..m /\ was[i] = i + 1
      BY <1>1, <2>2
    <3>2. new[n + (i - n)] = under[(i - n) + 1] /\ old[n + ((i - n) + 1)] = under[(i - n) + 1]
      BY <1>1, <3>1
    <3>3. n + (i - n) = i /\ n + ((i - n) + 1) = i + 1 /\ i + 1 \in 1..(n + m)
      BY <1>1, <2>2
    <3> QED
      BY <3>1, <3>2, <3>3
  <2> QED
    BY <1>1, <2>1, <2>2
<1>3. \A i \in 1..(n + m - 1), j \in 1..(n + m - 1) : j \in 1..(i - 1) => was[j] \in 1..(was[i] - 1)
  BY <1>1
<1> HIDE DEF old, new, n, m, was
<1>4. DOMAIN new = 1..(n + m - 1) /\ DOMAIN old = 1..(n + m) /\ n \in Nat /\ m \in Nat
  BY <1>1 DEF m
<1>5. ASSUME NEW i \in DOMAIN new, new[i].type = "packet"
      PROVE  \E k \in 1..c :
               /\ new[i].body = Packet(k)
               /\ \A j \in 1..(i - 1) : new[j].type = "packet" =>
                    \E l \in 1..(k - 1) : new[j].body = Packet(l)
  <2>1. was[i] \in DOMAIN old /\ new[i] = old[was[i]]
    BY <1>2, <1>4
  <2>2. PICK k \in 1..c :
          /\ old[was[i]].body = Packet(k)
          /\ \A j \in 1..(was[i] - 1) : old[j].type = "packet" =>
               \E l \in 1..(k - 1) : old[j].body = Packet(l)
    BY <1>5, <2>1 DEF InOrder, old
  <2>3. ASSUME NEW j \in 1..(i - 1), new[j].type = "packet"
        PROVE  \E l \in 1..(k - 1) : new[j].body = Packet(l)
    <3>1. j \in 1..(n + m - 1)
      BY <1>4
    <3>2. was[j] \in 1..(was[i] - 1) /\ new[j] = old[was[j]]
      BY <1>2, <1>3, <1>4, <3>1
    <3> QED
      BY <2>2, <2>3, <3>2
  <2> QED
    BY <2>1, <2>2, <2>3
<1>6. InOrder(new, c)
  BY <1>5 DEF InOrder
<1> QED
  BY <1>6 DEF new

-----------------------------------------------------------------------------
\* The inductive invariant

\* Types of what it speaks about.
Relay ==
  /\ written \in 0..MaxUnits /\ tcpBuffer \in Seq(Units) /\ stream \in Seq(Units)
  /\ down \in Seq(Frames) /\ heard \in Seq(Frames)

(***************************************************************************)
(* c packets were cut off so far: the buffer continues after them and the  *)
(* stream after the buffer, up to what the server has written while it     *)
(* can still write; the page's frames are among the c, in order.           *)
(***************************************************************************)
Continues(c) ==
  /\ c \in Nat
  /\ \A i \in 1..Len(tcpBuffer) : tcpBuffer[i] = c * PacketSize + i
  /\ \A i \in 1..Len(stream) :
       stream[i] = c * PacketSize + Len(tcpBuffer) + i
  /\ c * PacketSize + Len(tcpBuffer) + Len(stream) <= written
  /\ peer # "closed" /\ tcp # "destroyed" =>
       c * PacketSize + Len(tcpBuffer) + Len(stream) = written
  /\ InOrder(heard \o down, c)

\* A connection is attempted once, and until it is made nothing is written.
Opening ==
  /\ handler = "first" /\ ws # "closed" => tcp = "new"
  /\ tcp \in {"new", "connecting"} => peer = "none"

RelayInv == Relay /\ Opening /\ \E c \in Nat : Continues(c)

LEMMA RelayInit == Init => RelayInv /\ Continues(0)
PROOF
<1> SUFFICES ASSUME Init PROVE RelayInv /\ Continues(0)
  OBVIOUS
<1>1. Relay /\ Opening
  BY BridgeAssumption DEF Init, Relay, Opening
<1>2. PacketSize \in Nat /\ 0 * PacketSize = 0
  BY BridgeAssumption
<1>3. InOrder(heard \o down, 0)
  BY DEF Init, InOrder
<1>4. Continues(0)
  BY <1>2, <1>3 DEF Init, Continues
<1> QED
  BY <1>1, <1>4 DEF RelayInv

\* Frames that are no packets may be sent at any time.
LEMMA SendKeeps ==
  ASSUME Relay, NEW c \in Nat, InOrder(heard \o down, c),
         NEW more \in Seq(Frames), \A i \in DOMAIN more : more[i].type # "packet"
  PROVE  sendWs(more) \in Seq(Frames) /\ InOrder(heard \o sendWs(more), c)
PROOF
<1>1. CASE ws = "open"
  <2>1. heard \o (down \o more) = (heard \o down) \o more
    BY DEF Relay
  <2>2. heard \o down \in Seq(Frames)
    BY DEF Relay
  <2>3. InOrder((heard \o down) \o more, c)
    BY <2>2, OtherFrames
  <2>4. sendWs(more) = down \o more /\ down \o more \in Seq(Frames)
    BY <1>1 DEF sendWs, Relay
  <2> QED
    BY <2>1, <2>3, <2>4
<1>2. CASE ws # "open"
  BY <1>2 DEF sendWs, Relay
<1> QED
  BY <1>1, <1>2

LEMMA CloseKeeps ==
  ASSUME Relay, NEW c \in Nat, InOrder(heard \o down, c), heard' = heard,
         NEW more \in Seq(Frames), \A i \in DOMAIN more : more[i].type # "packet",
         SendAndClose(more)
  PROVE  down' \in Seq(Frames) /\ InOrder(heard' \o down', c)
PROOF
<1> DEFINE all == Append(more, Frame("close", <<>>))
<1>1. Frame("close", <<>>) \in Frames /\ Frame("close", <<>>).type # "packet"
  BY DEF Frame, Frames, FrameTypes
<1> DEFINE last == Frame("close", <<>>)
<1> HIDE DEF last
<1>2. Append(more, last) \in Seq(Frames)
      /\ \A i \in DOMAIN Append(more, last) : Append(more, last)[i].type # "packet"
  BY <1>1 DEF last
<1>3. sendWs(Append(more, last)) \in Seq(Frames)
      /\ InOrder(heard \o sendWs(Append(more, last)), c)
  BY <1>2, SendKeeps
<1> QED
  BY <1>3 DEF SendAndClose, last

\* What the page takes, or the network loses, leaves the rest in order.
LEMMA TakeKeeps ==
  ASSUME Relay, NEW c \in Nat, InOrder(heard \o down, c), down # <<>>
  PROVE  /\ Tail(down) \in Seq(Frames) /\ Append(heard, Head(down)) \in Seq(Frames)
         /\ InOrder(heard \o Tail(down), c)
         /\ InOrder(Append(heard, Head(down)) \o Tail(down), c)
PROOF
<1>1. Append(heard, Head(down)) \o Tail(down) = heard \o down
  BY DEF Relay
<1>2. heard \in Seq(Frames) /\ down \in Seq(Frames)
  BY DEF Relay
<1>3. Tail(down) \in Seq(Frames) /\ Append(heard, Head(down)) \in Seq(Frames)
  BY <1>2
<1>4. InOrder(heard \o Tail(down), c)
  BY <1>2, LostFrame
<1> QED
  BY <1>1, <1>3, <1>4

LEMMA LoseKeeps ==
  ASSUME Relay, NEW c \in Nat, InOrder(heard \o down, c)
  PROVE  InOrder(heard \o <<>>, c)
PROOF
<1>1. heard \o <<>> = heard /\ Len(heard) \in Nat /\ DOMAIN heard = 1..Len(heard)
      /\ DOMAIN (heard \o down) = 1..(Len(heard) + Len(down)) /\ Len(down) \in Nat
      /\ \A i \in 1..Len(heard) : (heard \o down)[i] = heard[i]
  BY DEF Relay
<1> DEFINE all == heard \o down
<1> HIDE DEF all
<1>2. SUFFICES ASSUME NEW i \in DOMAIN heard, heard[i].type = "packet"
      PROVE  \E k \in 1..c :
               /\ heard[i].body = Packet(k)
               /\ \A j \in 1..(i - 1) : heard[j].type = "packet" =>
                    \E l \in 1..(k - 1) : heard[j].body = Packet(l)
  BY <1>1 DEF InOrder
<1>3. i \in DOMAIN all /\ all[i] = heard[i] /\ \A j \in 1..(i - 1) : all[j] = heard[j]
  BY <1>1, <1>2 DEF all
<1>4. PICK k \in 1..c :
        /\ all[i].body = Packet(k)
        /\ \A j \in 1..(i - 1) : all[j].type = "packet" =>
             \E l \in 1..(k - 1) : all[j].body = Packet(l)
  BY <1>2, <1>3 DEF InOrder, all
<1> QED
  BY <1>3, <1>4

-----------------------------------------------------------------------------
\* The data callback

\* A product of a smaller number is smaller.
LEMMA ProductsGrow ==
  ASSUME NEW a \in Nat, NEW b \in Nat, a <= b
  PROVE  /\ a * PacketSize \in Nat /\ b * PacketSize \in Nat
         /\ a * PacketSize <= b * PacketSize
PROOF
<1>1. PacketSize \in Nat
  BY BridgeAssumption
<1>2. b - a \in Nat /\ (b - a) * PacketSize \in Nat
  BY <1>1, Products
<1>3. b * PacketSize = (b - a) * PacketSize + a * PacketSize
  BY <1>1, SMTT(30)
<1> QED
  BY <1>1, <1>2, <1>3, Products

\* Every round cuts a whole packet, the one after those before.
LEMMA SliceIsPacket ==
  ASSUME NEW buffer \in Seq(Units), NEW c \in Nat,
         \A i \in 1..Len(buffer) : buffer[i] = c * PacketSize + i,
         NEW k \in 1..Rounds(buffer)
  PROVE  Slice(buffer, k) = Packet(c + k) /\ Slice(buffer, k) \in Seq(Units)
PROOF
<1> DEFINE from == (k - 1) * PacketSize
<1>1. PacketSize \in Nat \ {0} /\ Len(buffer) \in Nat
  BY BridgeAssumption
<1>2. Rounds(buffer) \in Nat /\ Rounds(buffer) * PacketSize <= Len(buffer)
  BY <1>1, RoundsFacts
<1>3. k \in Nat \ {0} /\ k - 1 \in Nat
  BY <1>2
<1>4. from \in Nat /\ k * PacketSize \in Nat /\ k * PacketSize <= Len(buffer)
  <2>1. from \in Nat /\ k * PacketSize \in Nat
    BY <1>1, <1>3, Products
  <2>2. k * PacketSize <= Rounds(buffer) * PacketSize
    BY <1>2, <1>3, ProductsGrow
  <2> QED
    BY <1>1, <1>2, <2>1, <2>2
<1>5. k * PacketSize = from + PacketSize
  BY <1>1, <1>3, SMTT(30)
<1> DEFINE s == SubSeq(buffer, from + 1, from + PacketSize)
<1> HIDE DEF from, s
<1>6. s = [i \in 1..PacketSize |-> buffer[from + i]]
  <2>1. \A i \in (from + 1)..(from + PacketSize) : buffer[i] \in Units
    BY <1>1, <1>4, <1>5
  <2>2. /\ s \in Seq(Units) /\ Len(s) = PacketSize
        /\ \A i \in 1..PacketSize : s[i] = buffer[(from + 1) + i - 1]
    BY <1>1, <1>4, <2>1, SubSeqProperties DEF s
  <2>3. \A i \in 1..PacketSize : (from + 1) + i - 1 = from + i
    BY <1>1, <1>4
  <2>4. s = [i \in 1..Len(s) |-> s[i]]
    BY <2>2
  <2>5. \A i \in 1..PacketSize : s[i] = buffer[from + i]
    BY <2>2, <2>3
  <2>6. [i \in 1..PacketSize |-> s[i]] = [i \in 1..PacketSize |-> buffer[from + i]]
    BY <2>5
  <2> QED
    BY <2>2, <2>4, <2>6
<1>7. \A i \in 1..PacketSize : buffer[from + i] = c * PacketSize + from + i
  BY <1>1, <1>4, <1>5
<1>8. s \in Seq(Units)
  BY <1>1, <1>4, <1>5 DEF s
<1>9. s = [i \in 1..PacketSize |-> c * PacketSize + from + i]
  BY <1>6, <1>7
<1>10. s = Packet(c + k)
  BY <1>3, <1>9, PacketAfter DEF from
<1> QED
  BY <1>5, <1>8, <1>10 DEF Slice, from, s

\* What is left when k units are taken away.
LEMMA Leftover ==
  ASSUME NEW s \in Seq(Units), NEW k \in Nat, k <= Len(s)
  PROVE  /\ SubSeq(s, k + 1, Len(s)) \in Seq(Units)
         /\ Len(SubSeq(s, k + 1, Len(s))) = Len(s) - k
         /\ \A i \in 1..(Len(s) - k) :
              SubSeq(s, k + 1, Len(s))[i] = s[k + i] /\ k + i \in 1..Len(s)
PROOF
<1>1. Len(s) \in Nat /\ \A i \in (k + 1)..Len(s) : s[i] \in Units
  OBVIOUS
<1> DEFINE t == SubSeq(s, k + 1, Len(s))
<1>2. /\ t \in Seq(Units)
      /\ Len(t) = IF k + 1 <= Len(s) THEN Len(s) - (k + 1) + 1 ELSE 0
      /\ \A i \in 1..(Len(s) - (k + 1) + 1) : t[i] = s[(k + 1) + i - 1]
  BY <1>1, SubSeqProperties
<1> HIDE DEF t
<1>3. \A i \in 1..(Len(s) - k) : /\ (k + 1) + i - 1 = k + i /\ k + i \in 1..Len(s)
                                 /\ i \in 1..(Len(s) - (k + 1) + 1)
  BY <1>1
<1>4. Len(t) = Len(s) - k
  BY <1>1, <1>2
<1> QED
  BY <1>2, <1>3, <1>4 DEF t

LEMMA DataContinues ==
  ASSUME Relay, NEW c \in Nat, Continues(c), TcpData
  PROVE  /\ Relay'
         /\ \E more \in Seq(Frames) :
              /\ down' = sendWs(more) /\ c + Len(more) \in Nat /\ Continues(c + Len(more))'
              /\ \A k \in DOMAIN more : more[k] = Frame("packet", Packet(c + k))
PROOF
<1>1. PICK n \in 1..Len(stream) :
        LET buffer == tcpBuffer \o SubSeq(stream, 1, n)
        IN  /\ stream' = SubSeq(stream, n + 1, Len(stream))
            /\ tcpBuffer' = Rest(buffer)
            /\ down' = sendWs([k \in 1..Rounds(buffer) |->
                                 Frame("packet", Slice(buffer, k))])
  BY DEF TcpData
<1> DEFINE buffer == tcpBuffer \o SubSeq(stream, 1, n)
           r      == Rounds(buffer)
           more   == [k \in 1..r |-> Frame("packet", Slice(buffer, k))]
           cut    == r * PacketSize
           done   == c * PacketSize
<1>2. /\ stream' = SubSeq(stream, n + 1, Len(stream)) /\ tcpBuffer' = Rest(buffer)
      /\ down' = sendWs(more)
  BY <1>1
<1>3. /\ written' = written /\ heard' = heard /\ peer' = peer /\ tcp' = tcp
  BY DEF TcpData, server
<1>4. /\ tcpBuffer \in Seq(Units) /\ stream \in Seq(Units)
      /\ Len(tcpBuffer) \in Nat /\ Len(stream) \in Nat /\ n \in Nat /\ n <= Len(stream)
  BY DEF Relay
<1>5. /\ buffer \in Seq(Units) /\ Len(buffer) = Len(tcpBuffer) + n
      /\ \A i \in 1..Len(buffer) : buffer[i] = done + i
  <2>1. /\ SubSeq(stream, 1, n) \in Seq(Units) /\ Len(SubSeq(stream, 1, n)) = n
        /\ \A i \in 1..n : SubSeq(stream, 1, n)[i] = stream[i]
    BY <1>4
  <2>2. /\ buffer \in Seq(Units) /\ Len(buffer) = Len(tcpBuffer) + n
        /\ \A i \in 1..Len(buffer) : buffer[i] =
             IF i <= Len(tcpBuffer) THEN tcpBuffer[i]
             ELSE SubSeq(stream, 1, n)[i - Len(tcpBuffer)]
    BY <1>4, <2>1
  <2>3. PacketSize \in Nat /\ done \in Nat
    BY BridgeAssumption, Products
  <2> HIDE DEF buffer, done
  <2>4. ASSUME NEW i \in 1..Len(buffer) PROVE buffer[i] = done + i
    <3>1. CASE i <= Len(tcpBuffer)
      BY <1>4, <2>2, <3>1 DEF Continues, done
    <3>2. CASE i > Len(tcpBuffer)
      <4>1. i - Len(tcpBuffer) \in 1..n /\ i - Len(tcpBuffer) \in 1..Len(stream)
        BY <1>4, <2>2, <3>2
      <4>2. buffer[i] = stream[i - Len(tcpBuffer)]
        BY <1>4, <2>1, <2>2, <3>2, <4>1
      <4>3. stream[i - Len(tcpBuffer)] = done + Len(tcpBuffer) + (i - Len(tcpBuffer))
        BY <4>1 DEF Continues, done
      <4> QED
        BY <1>4, <2>2, <2>3, <4>2, <4>3
    <3> QED
      BY <1>4, <2>2, <3>1, <3>2
  <2> QED
    BY <2>2, <2>4
<1> HIDE DEF buffer
<1>6. /\ PacketSize \in Nat /\ done \in Nat /\ r \in Nat /\ cut \in Nat
      /\ cut <= Len(buffer) /\ Len(buffer) \in Nat
  BY <1>4, <1>5, BridgeAssumption, Products, RoundsFacts
<1>7. (c + r) * PacketSize = done + cut
  BY <1>6, SMTT(30)
<1>8. PICK d \in Nat : d = c + r
  BY <1>6
<1>9. /\ more \in Seq(Frames) /\ DOMAIN more = 1..r
      /\ \A k \in 1..r : more[k] = Frame("packet", Packet(c + k))
  <2>1. \A k \in 1..r : /\ Slice(buffer, k) = Packet(c + k)
                        /\ Frame("packet", Slice(buffer, k)) \in Frames
    BY <1>5, SliceIsPacket DEF Frame, Frames, FrameTypes
  <2> QED
    BY <1>6, <2>1
<1> HIDE DEF more, r
<1>10. /\ tcpBuffer' \in Seq(Units) /\ Len(tcpBuffer') = Len(buffer) - cut
      /\ \A i \in 1..(Len(buffer) - cut) : tcpBuffer'[i] = done + cut + i
  <2> HIDE DEF cut, done
  <2>1. tcpBuffer' = SubSeq(buffer, cut + 1, Len(buffer))
    BY <1>2 DEF Rest, cut, r
  <2>2. /\ tcpBuffer' \in Seq(Units) /\ Len(tcpBuffer') = Len(buffer) - cut
        /\ \A i \in 1..(Len(buffer) - cut) :
             tcpBuffer'[i] = buffer[cut + i] /\ cut + i \in 1..Len(buffer)
    BY <1>5, <1>6, <2>1, Leftover
  <2>3. \A i \in 1..(Len(buffer) - cut) : buffer[cut + i] = done + (cut + i)
    BY <1>5, <2>2
  <2> QED
    BY <1>6, <2>2, <2>3
<1>11. /\ stream' \in Seq(Units) /\ Len(stream') = Len(stream) - n
       /\ \A i \in 1..(Len(stream) - n) : stream'[i] = done + Len(buffer) + i
  <2> HIDE DEF done
  <2>1. /\ stream' \in Seq(Units) /\ Len(stream') = Len(stream) - n
        /\ \A i \in 1..(Len(stream) - n) :
             stream'[i] = stream[n + i] /\ n + i \in 1..Len(stream)
    BY <1>2, <1>4, Leftover
  <2>2. \A i \in 1..(Len(stream) - n) : stream[n + i] = done + Len(tcpBuffer) + (n + i)
    BY <2>1 DEF Continues, done
  <2> QED
    BY <1>4, <1>5, <1>6, <2>1, <2>2
<1>12. down' \in Seq(Frames) /\ InOrder(heard' \o down', d)
  <2>1. InOrder(heard \o down, c) /\ InOrder(heard \o down, d)
    BY <1>6, <1>8, MorePackets DEF Continues
  <2>2. heard \o down \in Seq(Frames) /\ heard \in Seq(Frames) /\ down \in Seq(Frames)
    BY DEF Relay
  <2>3. InOrder((heard \o down) \o more, d)
    BY <1>6, <1>9, <1>8, <2>1, <2>2, NextPackets
  <2>4. (heard \o down) \o more = heard \o (down \o more) /\ down \o more \in Seq(Frames)
    BY <1>9, <2>2
  <2>5. down' = down \/ down' = down \o more
    BY <1>2 DEF sendWs
  <2> QED
    BY <1>3, <2>1, <2>2, <2>3, <2>4, <2>5
<1>13. Relay'
  BY <1>3, <1>10, <1>11, <1>12 DEF Relay
<1>14. /\ d * PacketSize + Len(tcpBuffer') + Len(stream')
            = done + Len(tcpBuffer) + Len(stream)
       /\ \A i \in 1..Len(stream') :
            stream'[i] = d * PacketSize + Len(tcpBuffer') + i
  <2>1. d * PacketSize = done + cut
    BY <1>7, <1>8
  <2> DEFINE lb == Len(tcpBuffer')
             ls == Len(stream')
  <2>2. /\ lb = Len(buffer) - cut /\ ls = Len(stream) - n
        /\ \A i \in 1..ls : stream'[i] = done + Len(buffer) + i
    BY <1>10, <1>11
  <2> HIDE DEF cut, done, lb, ls
  <2>3. lb = Len(buffer) - cut /\ ls = Len(stream) - n
    BY <2>2
  <2>4. /\ done \in Nat /\ cut \in Nat /\ Len(buffer) \in Nat
        /\ Len(stream) \in Nat /\ n \in Nat /\ Len(tcpBuffer) \in Nat
        /\ Len(buffer) = Len(tcpBuffer) + n
    BY <1>4, <1>5, <1>6
  <2>5. /\ done + cut + (Len(buffer) - cut) = done + Len(buffer)
        /\ done + Len(buffer) + (Len(stream) - n) = done + Len(tcpBuffer) + Len(stream)
    BY <2>4
  <2>6. d * PacketSize + lb = done + Len(buffer)
    BY <2>1, <2>3, <2>5
  <2>7. d * PacketSize + lb + ls = done + Len(tcpBuffer) + Len(stream)
    BY <2>3, <2>5, <2>6
  <2> QED
    BY <2>2, <2>6, <2>7 DEF lb, ls
<1>15. \A i \in 1..Len(tcpBuffer') : tcpBuffer'[i] = d * PacketSize + i
  BY <1>7, <1>8, <1>10
<1>16. /\ d * PacketSize + Len(tcpBuffer') + Len(stream') <= written'
       /\ peer' # "closed" /\ tcp' # "destroyed" =>
            d * PacketSize + Len(tcpBuffer') + Len(stream') = written'
  BY <1>3, <1>14 DEF Continues
<1>17. Continues(d)'
  BY <1>6, <1>12, <1>14, <1>15, <1>16 DEF Continues
<1>18. Len(more) = r /\ d = c + Len(more)
  BY <1>6, <1>8, <1>9
<1>19. \A k \in DOMAIN more : more[k] = Frame("packet", Packet(c + k))
  BY <1>9
<1> QED
  BY <1>2, <1>8, <1>9, <1>13, <1>17, <1>18, <1>19

-----------------------------------------------------------------------------
\* The other steps

\* A step that leaves the stream, the buffer and what is written alone.
LEMMA StreamSame ==
  ASSUME Relay, NEW c \in Nat, Continues(c),
         UNCHANGED <<written, tcpBuffer, stream>>,
         peer' # "closed" /\ tcp' # "destroyed" => peer # "closed" /\ tcp # "destroyed",
         down' \in Seq(Frames), heard' \in Seq(Frames), InOrder(heard' \o down', c)
  PROVE  Relay' /\ Continues(c)'
PROOF
  BY DEF Relay, Continues

\* A step that loses the stream.
LEMMA StreamLost ==
  ASSUME Relay, NEW c \in Nat, Continues(c),
         UNCHANGED <<written, tcpBuffer>>, stream' = <<>>, tcp' = "destroyed",
         down' \in Seq(Frames), heard' \in Seq(Frames), InOrder(heard' \o down', c)
  PROVE  Relay' /\ Continues(c)'
PROOF
<1>1. Relay'
  BY DEF Relay
<1>2. /\ c * PacketSize + Len(tcpBuffer) + Len(stream) <= written
      /\ c * PacketSize \in Nat /\ Len(tcpBuffer) \in Nat /\ Len(stream) \in Nat
      /\ written \in Nat /\ PacketSize \in Nat
  BY BridgeAssumption, Products DEF Relay, Continues
<1> DEFINE p == c * PacketSize
<1> HIDE DEF p
<1>3. p + Len(tcpBuffer) + 0 <= written
  BY <1>2 DEF p
<1>4. Len(stream') = 0 /\ Len(tcpBuffer') = Len(tcpBuffer) /\ written' = written
  OBVIOUS
<1> QED
  BY <1>1, <1>3, <1>4 DEF Continues, p

\* Only a piece of the stream that arrives adds packets to those cut.
LEMMA RelayStep ==
  ASSUME Relay, Opening, NEW c \in Nat, Continues(c), [Next]_vars
  PROVE  RelayInv' /\ (TcpData \/ Continues(c)')
PROOF
<1>1. Continues(c)
  OBVIOUS
<1>2. Relay /\ Opening /\ InOrder(heard \o down, c)
  BY <1>1 DEF Continues
<1>3. heard \in Seq(Frames) /\ down \in Seq(Frames)
  BY <1>2 DEF Relay
<1> DEFINE error == <<Frame("error", <<>>)>>
<1>4. error \in Seq(Frames) /\ \A i \in DOMAIN error : error[i].type # "packet"
  BY DEF Frame, Frames, FrameTypes
<1>5. <<>> \in Seq(Frames) /\ \A i \in DOMAIN <<>> : <<>>[i].type # "packet"
  OBVIOUS
<1> HIDE DEF error
<1>6. CASE FirstMessage
  <2>1. Opening'
    BY <1>2, <1>6 DEF FirstMessage, Opening, SendAndClose, server
  <2>2. down' \in Seq(Frames) /\ InOrder(heard' \o down', c)
    <3>1. CASE down' = down
      BY <1>2, <1>3, <1>6, <3>1 DEF FirstMessage
    <3>2. CASE SendAndClose(error)
      BY <1>2, <1>4, <1>6, <3>2, CloseKeeps DEF FirstMessage
    <3> QED
      BY <1>6, <3>1, <3>2 DEF FirstMessage, error
  <2>3. tcp' # "destroyed" => tcp # "destroyed"
    BY <1>2, <1>6 DEF FirstMessage, Opening
  <2> QED
    BY <1>1, <1>2, <1>3, <1>6, <2>1, <2>2, <2>3, StreamSame DEF RelayInv, FirstMessage, server
<1>7. CASE NextMessage
  <2>1. CASE TcpBreaks
    <3>1. SendAndClose(error)
      BY <2>1 DEF TcpBreaks, error
    <3>2. down' \in Seq(Frames) /\ InOrder(heard' \o down', c)
      BY <1>2, <1>4, <1>7, <3>1, CloseKeeps DEF NextMessage
    <3>3. Opening'
      BY <1>2, <1>7, <2>1 DEF NextMessage, Opening, TcpBreaks
    <3> QED
      BY <1>1, <1>2, <1>3, <1>7, <2>1, <3>2, <3>3, StreamLost DEF RelayInv, NextMessage, TcpBreaks
  <2>2. CASE UNCHANGED <<tcp, stream, ws, down>>
    <3>1. Opening'
      BY <1>2, <1>7, <2>2 DEF NextMessage, Opening
    <3> QED
      BY <1>1, <1>2, <1>3, <1>7, <2>2, <3>1, StreamSame DEF RelayInv, NextMessage
  <2> QED
    BY <1>7, <2>1, <2>2 DEF NextMessage
<1>8. CASE CloseFrame
  <2>1. down' \in Seq(Frames) /\ InOrder(heard' \o down', c)
    BY <1>2, <1>5, <1>8, CloseKeeps DEF CloseFrame
  <2>2. Opening'
    BY <1>2, <1>8 DEF CloseFrame, Opening, SendAndClose, server
  <2> QED
    BY <1>1, <1>2, <1>3, <1>8, <2>1, <2>2, StreamSame DEF RelayInv, CloseFrame, server
<1>9. CASE WsClosed
  <2>1. Opening'
    BY <1>2, <1>9 DEF WsClosed, Opening, server
  <2> QED
    BY <1>1, <1>2, <1>3, <1>9, <2>1, StreamLost DEF RelayInv, WsClosed, server
<1>10. CASE TcpConnected
  <2> DEFINE ok == <<Frame("tcp_ok", <<>>)>>
  <2>1. ok \in Seq(Frames) /\ \A i \in DOMAIN ok : ok[i].type # "packet"
    BY DEF Frame, Frames, FrameTypes
  <2> HIDE DEF ok
  <2>2. sendWs(ok) \in Seq(Frames) /\ InOrder(heard \o sendWs(ok), c)
    BY <1>2, <2>1, SendKeeps
  <2>3. down' \in Seq(Frames) /\ InOrder(heard' \o down', c)
    BY <1>10, <2>2 DEF TcpConnected, ok
  <2>4. Opening'
    BY <1>2, <1>10 DEF TcpConnected, Opening
  <2>5. peer # "closed" /\ tcp # "destroyed"
    BY <1>2, <1>10 DEF TcpConnected, Opening
  <2> QED
    BY <1>1, <1>2, <1>3, <1>10, <2>3, <2>4, <2>5, StreamSame DEF RelayInv, TcpConnected
<1>11. CASE TcpError
  <2>1. SendAndClose(error)
    BY <1>11 DEF TcpError, TcpBreaks, error
  <2>2. down' \in Seq(Frames) /\ InOrder(heard' \o down', c)
    BY <1>2, <1>4, <1>11, <2>1, CloseKeeps DEF TcpError
  <2>3. Opening'
    BY <1>2, <1>11, <2>1 DEF TcpError, TcpBreaks, Opening, SendAndClose
  <2> QED
    BY <1>1, <1>2, <1>3, <1>11, <2>2, <2>3, StreamLost DEF RelayInv, TcpError, TcpBreaks
<1>12. CASE TcpData
  <2>1. Opening'
    BY <1>2, <1>12 DEF TcpData, Opening, server
  <2> QED
    BY <1>1, <1>2, <1>12, <2>1, DataContinues DEF RelayInv
<1>13. CASE TcpEnd
  <2>1. Opening'
    BY <1>2, <1>13 DEF TcpEnd, Opening, server, webSocket
  <2> QED
    BY <1>1, <1>2, <1>3, <1>13, <2>1, StreamSame DEF RelayInv, TcpEnd, server, webSocket
<1>14. CASE TcpClose
  <2>1. down' \in Seq(Frames) /\ InOrder(heard' \o down', c)
    BY <1>2, <1>5, <1>14, CloseKeeps DEF TcpClose
  <2>2. Opening'
    BY <1>2, <1>14 DEF TcpClose, Opening, SendAndClose, server
  <2> QED
    BY <1>1, <1>2, <1>3, <1>14, <2>1, <2>2, StreamSame DEF RelayInv, TcpClose, server
<1>15. CASE PageSends
  <2>1. Opening'
    BY <1>2, <1>15 DEF PageSends, Opening, server
  <2> QED
    BY <1>1, <1>2, <1>3, <1>15, <2>1, StreamSame DEF RelayInv, PageSends, server
<1>16. CASE PageReads
  <2>1. /\ down' = Tail(down)
        /\ heard' = heard \/ heard' = Append(heard, Head(down))
    BY <1>16 DEF PageReads
  <2>2. /\ down' \in Seq(Frames) /\ heard' \in Seq(Frames)
        /\ InOrder(heard' \o down', c)
    BY <1>2, <1>3, <1>16, <2>1, TakeKeeps DEF PageReads
  <2>3. Opening'
    BY <1>2, <1>16 DEF PageReads, Opening, server
  <2> QED
    BY <1>1, <1>2, <1>16, <2>2, <2>3, StreamSame DEF RelayInv, PageReads, server
<1>17. CASE PageCloses
  <2>1. Opening'
    BY <1>2, <1>17 DEF PageCloses, Opening, server
  <2> QED
    BY <1>1, <1>2, <1>3, <1>17, <2>1, StreamSame DEF RelayInv, PageCloses, server
<1>18. CASE PageVanishes
  <2>1. down' \in Seq(Frames) /\ InOrder(heard' \o down', c)
    BY <1>2, <1>18, LoseKeeps DEF PageVanishes
  <2>2. Opening'
    BY <1>2, <1>18 DEF PageVanishes, Opening, server
  <2> QED
    BY <1>1, <1>2, <1>3, <1>18, <2>1, <2>2, StreamSame DEF RelayInv, PageVanishes, server
<1>19. CASE ServerWrites
  <2>1. Opening'
    BY <1>2, <1>19 DEF ServerWrites, Opening, webSocket
  <2>2. /\ UNCHANGED <<tcpBuffer, heard, down, peer, tcp>> /\ written' = written + 1
        /\ peer = "up" /\ written < MaxUnits
        /\ stream' = IF tcp = "destroyed" THEN stream ELSE Append(stream, written + 1)
    BY <1>19 DEF ServerWrites, webSocket
  <2>3. /\ stream \in Seq(Units) /\ tcpBuffer \in Seq(Units) /\ Len(stream) \in Nat
        /\ Len(tcpBuffer) \in Nat /\ written \in 0..MaxUnits /\ MaxUnits \in Nat
    BY <1>2, BridgeAssumption DEF Relay
  <2>4. written + 1 \in Units /\ written' \in 0..MaxUnits
    BY <2>2, <2>3 DEF Units
  <2>5. Relay'
    BY <1>2, <2>2, <2>3, <2>4 DEF Relay
  <2> DEFINE p == c * PacketSize
  <2>6. p \in Nat
    BY BridgeAssumption, Products
  <2>7. /\ p + Len(tcpBuffer) + Len(stream) <= written
        /\ tcp # "destroyed" => p + Len(tcpBuffer) + Len(stream) = written
        /\ \A i \in 1..Len(stream) : stream[i] = p + Len(tcpBuffer) + i
    BY <1>1, <2>2 DEF Continues
  <2> HIDE DEF p
  <2>8. /\ p + Len(tcpBuffer') + Len(stream') <= written'
        /\ tcp # "destroyed" => p + Len(tcpBuffer') + Len(stream') = written'
        /\ \A i \in 1..Len(stream') : stream'[i] = p + Len(tcpBuffer') + i
    <3>1. CASE tcp = "destroyed"
      BY <2>2, <2>3, <2>6, <2>7, <3>1
    <3>2. CASE tcp # "destroyed"
      <4>1. stream' = Append(stream, written + 1) /\ Len(stream') = Len(stream) + 1
        BY <2>2, <2>3, <2>4, <3>2
      <4> DEFINE lb == Len(tcpBuffer)
                 ls == Len(stream)
      <4>4. /\ p + lb + ls = written /\ p \in Nat /\ lb \in Nat /\ ls \in Nat
            /\ tcpBuffer' = tcpBuffer /\ written' = written + 1
        BY <2>2, <2>3, <2>6, <2>7, <3>2
      <4> HIDE DEF lb, ls
      <4>5. p + lb + (ls + 1) = written + 1
        BY <4>4
      <4>2. p + Len(tcpBuffer') + Len(stream') = written'
        BY <4>1, <4>4, <4>5 DEF lb, ls
      <4>3. ASSUME NEW i \in 1..Len(stream') PROVE stream'[i] = p + Len(tcpBuffer') + i
        <5>1. CASE i = Len(stream) + 1
          <6>1. stream'[i] = written + 1
            BY <2>3, <2>4, <4>1, <5>1
          <6> QED
            BY <4>4, <4>5, <5>1, <6>1 DEF lb, ls
        <5>2. CASE i \in 1..Len(stream)
          BY <2>2, <2>3, <2>4, <2>7, <4>1, <5>2
        <5> QED
          BY <2>3, <4>1, <5>1, <5>2
      <4> QED
        BY <2>2, <2>3, <4>2, <4>3
    <3> QED
      BY <3>1, <3>2
  <2>9. Continues(c)'
    BY <1>1, <2>2, <2>8 DEF Continues, p
  <2> QED
    BY <2>1, <2>5, <2>9 DEF RelayInv
<1>20. CASE ServerReads
  <2>1. Opening'
    BY <1>2, <1>20 DEF ServerReads, Opening, webSocket
  <2> QED
    BY <1>1, <1>2, <1>3, <1>20, <2>1, StreamSame DEF RelayInv, ServerReads, webSocket
<1>21. CASE ServerCloses
  <2>1. Opening'
    BY <1>2, <1>21 DEF ServerCloses, Opening, webSocket
  <2> QED
    BY <1>1, <1>2, <1>3, <1>21, <2>1, StreamSame DEF RelayInv, ServerCloses, webSocket
<1>22. CASE UNCHANGED vars
  <2>1. Opening'
    BY <1>2, <1>22 DEF vars, Opening, webSocket, server
  <2> QED
    BY <1>1, <1>2, <1>3, <1>22, <2>1, StreamSame DEF RelayInv, vars, webSocket, server
<1> QED
  BY <1>6, <1>7, <1>8, <1>9, <1>10, <1>11, <1>12, <1>13, <1>14, <1>15, <1>16,
     <1>17, <1>18, <1>19, <1>20, <1>21, <1>22
     DEF Next, Callbacks, Page, Server, Done

LEMMA RelayNext ==
  ASSUME RelayInv, [Next]_vars
  PROVE  RelayInv'
PROOF
  BY RelayStep DEF RelayInv

-----------------------------------------------------------------------------
(***************************************************************************)
(* For every size of a packet and every way to cut the stream into pieces, *)
(* the page is given the server's packets whole, once and in order         *)
(* (tcp.on("data"), bridge.js:93-100).                                     *)
(***************************************************************************)
THEOREM PacketsAreWhole == Spec => []WholePackets
PROOF
<1>1. ASSUME RelayInv PROVE WholePackets
  <2>1. PICK c \in Nat : Continues(c)
    BY <1>1 DEF RelayInv
  <2>2. /\ PacketSize \in Nat /\ PacketSize >= 1 /\ written \in Nat
        /\ Len(tcpBuffer) \in Nat /\ Len(stream) \in Nat
    BY <1>1, BridgeAssumption DEF RelayInv, Relay
  <2> DEFINE p == c * PacketSize
  <2>3. p + Len(tcpBuffer) + Len(stream) <= written /\ p \in Nat
    BY <2>1, <2>2, Products DEF Continues
  <2>4. p = c + c * (PacketSize - 1) /\ c * (PacketSize - 1) \in Nat
    <3>1. c * (PacketSize - 1) \in Nat
      BY <2>2, Products
    <3> QED
      BY <2>2, <3>1, SMTT(30)
  <2> DEFINE q == c * (PacketSize - 1)
  <2> HIDE DEF p, q
  <2>5. p <= written
    BY <2>2, <2>3
  <2>6. c <= p
    BY <2>4 DEF q
  <2> QED
    BY <2>1, <2>2, <2>5, <2>6 DEF WholePackets, Continues, p
<1>2. RelayInv /\ [Next]_vars => RelayInv'
  BY RelayNext
<1> QED
  BY <1>1, <1>2, RelayInit, PTL DEF Spec

-----------------------------------------------------------------------------
\* Types

Requests == {m \in Messages : m.type = "packet"}

\* The types of what Relay leaves out.
Kinds ==
  /\ ws \in {"open", "closing", "closed"}
  /\ handler \in {"first", "relay", "none"}
  /\ tcp \in {"new", "connecting", "up", "ended", "destroyed"}
  /\ tcpConnected \in BOOLEAN /\ told \in BOOLEAN
  /\ page \in {"open", "closing", "closed"}
  /\ peer \in {"none", "up", "closed"}
  /\ up \in Seq(Messages) /\ asked \in Seq(Messages)
  /\ toServer \in Seq(Requests) /\ served \in Seq(Requests)

(***************************************************************************)
(* What would open a connection is the page's first message and is met by  *)
(* the first handler; a page that has sent its close frame is not open.    *)
(***************************************************************************)
Upward ==
  \A i \in DOMAIN up :
    /\ up[i].type \in {"connect", "incomplete"} => i = 1 /\ handler = "first"
    /\ up[i].type = "close" => page # "open"

LEMMA TakenFirst ==
  ASSUME NEW S, NEW s \in Seq(S), s # <<>>
  PROVE  /\ Tail(s) \in Seq(S) /\ Head(s) \in S /\ Head(s) = s[1] /\ 1 \in DOMAIN s
         /\ \A i \in DOMAIN Tail(s) : i + 1 \in DOMAIN s /\ Tail(s)[i] = s[i + 1] /\ i >= 1
PROOF
  OBVIOUS

LEMMA AddedLast ==
  ASSUME NEW S, NEW s \in Seq(S), NEW x \in S
  PROVE  /\ Append(s, x) \in Seq(S)
         /\ \A i \in DOMAIN Append(s, x) :
              (i \in DOMAIN s /\ Append(s, x)[i] = s[i])
                \/ (i > 0 /\ Append(s, x)[i] = x /\ i = Len(s) + 1)
PROOF
  OBVIOUS

LEMMA MessageTypes ==
  /\ \A n \in Nat, t \in BOOLEAN :
       Message("packet", n, t) \in Messages /\ Message("packet", n, t).type = "packet"
  /\ Message("close", 0, FALSE) \in Messages /\ Message("close", 0, FALSE).type = "close"
  /\ Message("connect", 0, FALSE) \in Messages
  /\ Message("incomplete", 0, FALSE) \in Messages
PROOF
  BY DEF Message, Messages

LEMMA KindsInit == Init => Kinds /\ Upward
PROOF
<1> SUFFICES ASSUME Init PROVE Kinds /\ Upward
  OBVIOUS
<1>1. PICK m \in Messages : up = <<m>> /\ m.type # "close"
  BY MessageTypes DEF Init, Message
<1>2. up \in Seq(Messages) /\ \A i \in DOMAIN up : i = 1 /\ up[i] = m
  BY <1>1
<1>3. Upward
  BY <1>1, <1>2 DEF Init, Upward
<1>4. asked \in Seq(Messages) /\ toServer \in Seq(Requests) /\ served \in Seq(Requests)
  <2>1. asked = <<>> /\ toServer = <<>> /\ served = <<>>
    BY DEF Init
  <2> QED
    BY <2>1
<1>5. /\ ws = "open" /\ handler = "first" /\ tcp = "new" /\ tcpConnected = FALSE
      /\ told = FALSE /\ page = "open" /\ peer = "none"
  BY DEF Init
<1> QED
  BY <1>2, <1>3, <1>4, <1>5 DEF Kinds

\* A message is taken by one of its handlers.
LEMMA UpTaken ==
  ASSUME Kinds, Upward, up # <<>>, up' = Tail(up), page' = page,
         handler' = handler \/ handler = "first"
  PROVE  up' \in Seq(Messages) /\ Upward'
PROOF
<1>1. /\ Tail(up) \in Seq(Messages)
      /\ \A i \in DOMAIN Tail(up) : i + 1 \in DOMAIN up /\ Tail(up)[i] = up[i + 1] /\ i >= 1
  BY TakenFirst DEF Kinds
<1>2. \A i \in DOMAIN Tail(up) : i + 1 # 1
  BY <1>1
<1> QED
  BY <1>1, <1>2 DEF Upward

LEMMA UpGrows ==
  ASSUME Kinds, Upward, NEW m \in Messages, up' = Append(up, m), handler' = handler,
         m.type = "packet" \/ (m.type = "close" /\ page' # "open"),
         page' = page \/ page' # "open"
  PROVE  up' \in Seq(Messages) /\ Upward'
PROOF
<1>1. /\ Append(up, m) \in Seq(Messages)
      /\ \A i \in DOMAIN Append(up, m) :
           (i \in DOMAIN up /\ Append(up, m)[i] = up[i])
             \/ (i > 0 /\ Append(up, m)[i] = m /\ i = Len(up) + 1)
  BY AddedLast DEF Kinds
<1> QED
  BY <1>1 DEF Upward

LEMMA UpLost ==
  ASSUME Kinds, Upward, up' = up \/ up' = <<>>, handler' = handler,
         page' = page \/ page' # "open"
  PROVE  up' \in Seq(Messages) /\ Upward'
PROOF
<1>1. CASE up' = up
  BY <1>1 DEF Kinds, Upward
<1>2. CASE up' = <<>>
  <2>1. DOMAIN <<>> = {}
    OBVIOUS
  <2> QED
    BY <1>2, <2>1 DEF Upward
<1> QED
  BY <1>1, <1>2

LEMMA KindsNext ==
  ASSUME Kinds, Upward, [Next]_vars
  PROVE  Kinds' /\ Upward'
PROOF
<1>1. CASE FirstMessage
  <2>1. up' \in Seq(Messages) /\ Upward'
    BY <1>1, UpTaken DEF FirstMessage
  <2> QED
    BY <1>1, <2>1 DEF FirstMessage, SendAndClose, Kinds, server
<1>2. CASE NextMessage
  <2>1. up' \in Seq(Messages) /\ Upward'
    BY <1>2, UpTaken DEF NextMessage
  <2>2. toServer' \in Seq(Requests)
    <3>1. Head(up) \in Messages /\ Head(up) = up[1] /\ 1 \in DOMAIN up
      BY <1>2, TakenFirst DEF Kinds, NextMessage
    <3>2. Head(up).type = "packet"
      BY <1>2, <3>1 DEF Upward, Messages, NextMessage
    <3>3. Head(up) \in Requests
      BY <3>1, <3>2 DEF Requests
    <3>4. toServer' = toServer \/ toServer' = Append(toServer, Head(up))
      BY <1>2 DEF NextMessage
    <3>5. toServer \in Seq(Requests)
      BY DEF Kinds
    <3> QED
      BY <3>3, <3>4, <3>5
  <2> QED
    BY <1>2, <2>1, <2>2 DEF NextMessage, TcpBreaks, SendAndClose, Kinds
<1>3. CASE CloseFrame
  <2>1. up' \in Seq(Messages) /\ Upward'
    BY <1>3, UpTaken DEF CloseFrame
  <2> QED
    BY <1>3, <2>1 DEF CloseFrame, SendAndClose, Kinds, server
<1>4. CASE WsClosed
  <2>1. up' \in Seq(Messages) /\ Upward'
    BY <1>4, UpLost DEF WsClosed
  <2> QED
    BY <1>4, <2>1 DEF WsClosed, Kinds, server
<1>5. CASE TcpConnected \/ TcpError
  <2>1. up' \in Seq(Messages) /\ Upward'
    BY <1>5, UpLost DEF TcpConnected, TcpError
  <2> QED
    BY <1>5, <2>1 DEF TcpConnected, TcpError, TcpBreaks, SendAndClose, Kinds
<1>6. CASE TcpData \/ TcpEnd \/ TcpClose
  <2>1. up' \in Seq(Messages) /\ Upward'
    BY <1>6, UpLost DEF TcpData, TcpEnd, TcpClose, webSocket
  <2> QED
    BY <1>6, <2>1 DEF TcpData, TcpEnd, TcpClose, SendAndClose, Kinds, webSocket, server
<1>7. CASE PageSends
  <2> DEFINE m == Message("packet", Len(asked) + 1, told)
  <2>1. m \in Messages /\ m.type = "packet"
    <3>1. Len(asked) + 1 \in Nat /\ told \in BOOLEAN
      BY DEF Kinds
    <3> QED
      BY <3>1, MessageTypes
  <2>2. up' = Append(up, m) /\ asked' = Append(asked, m)
    BY <1>7 DEF PageSends
  <2> HIDE DEF m
  <2>3. up' \in Seq(Messages) /\ Upward'
    BY <1>7, <2>1, <2>2, UpGrows DEF PageSends
  <2>4. asked' \in Seq(Messages)
    BY <2>1, <2>2 DEF Kinds
  <2> QED
    BY <1>7, <2>3, <2>4 DEF PageSends, Kinds, server
<1>8. CASE PageReads \/ PageCloses
  <2> DEFINE m == Message("close", 0, FALSE)
  <2>1. m \in Messages /\ m.type = "close"
    BY MessageTypes
  <2>2. \/ up' = up
        \/ up' = Append(up, m) /\ page' # "open"
    BY <1>8 DEF PageReads, PageCloses
  <2>3. handler' = handler /\ (page' = page \/ page' # "open")
    BY <1>8 DEF PageReads, PageCloses
  <2> HIDE DEF m
  <2>4. up' \in Seq(Messages) /\ Upward'
    BY <2>1, <2>2, <2>3, UpGrows, UpLost
  <2> QED
    BY <1>8, <2>4 DEF PageReads, PageCloses, Kinds, server
<1>9. CASE PageVanishes
  <2>1. up' \in Seq(Messages) /\ Upward'
    BY <1>9, UpLost DEF PageVanishes
  <2> QED
    BY <1>9, <2>1 DEF PageVanishes, Kinds, server
<1>10. CASE ServerWrites \/ ServerCloses
  <2>1. up' \in Seq(Messages) /\ Upward'
    BY <1>10, UpLost DEF ServerWrites, ServerCloses, webSocket
  <2> QED
    BY <1>10, <2>1 DEF ServerWrites, ServerCloses, Kinds, webSocket
<1>11. CASE ServerReads
  <2>1. up' \in Seq(Messages) /\ Upward'
    BY <1>11, UpLost DEF ServerReads, webSocket
  <2>2. Tail(toServer) \in Seq(Requests) /\ Head(toServer) \in Requests
    BY <1>11, TakenFirst DEF ServerReads, Kinds
  <2>3. served' \in Seq(Requests) /\ toServer' \in Seq(Requests)
    BY <1>11, <2>2 DEF ServerReads, Kinds
  <2> QED
    BY <1>11, <2>1, <2>3 DEF ServerReads, Kinds, webSocket
<1>12. CASE UNCHANGED vars
  <2>1. up' \in Seq(Messages) /\ Upward'
    BY <1>12, UpLost DEF vars, webSocket
  <2> QED
    BY <1>12, <2>1 DEF vars, Kinds, webSocket, server
<1> QED
  BY <1>1, <1>2, <1>3, <1>4, <1>5, <1>6, <1>7, <1>8, <1>9, <1>10, <1>11, <1>12
     DEF Next, Callbacks, Page, Server, Done

(***************************************************************************)
(* Every variable of the bridge keeps its type, and the server is given    *)
(* nothing but chat packets: the page's first message and its close frame  *)
(* never reach it.                                                         *)
(***************************************************************************)
THEOREM BridgeTypes == Spec => []TypeOK
PROOF
<1>1. Init => RelayInv /\ Kinds /\ Upward
  BY RelayInit, KindsInit
<1>2. RelayInv /\ Kinds /\ Upward /\ [Next]_vars => RelayInv' /\ Kinds' /\ Upward'
  BY RelayNext, KindsNext
<1>3. RelayInv /\ Kinds => TypeOK
  BY DEF RelayInv, Relay, Kinds, Requests, TypeOK
<1> QED
  BY <1>1, <1>2, <1>3, PTL DEF Spec

-----------------------------------------------------------------------------
\* What the page hears

\* What it has heard and, while it is open, will hear.
Said == heard \o down

Proper(s) ==
  \A i \in DOMAIN s :
    /\ s[i].type = "tcp_ok" => i = 1
    /\ i = 1 => s[i].type \in {"tcp_ok", "error"}
    /\ s[i].type = "error" => \A j \in DOMAIN s : j > i => s[j].type = "close"

Final == {"error", "close"}

\* Nothing that ends the conversation.
Quiet(s) == \A i \in DOMAIN s : s[i].type \notin Final

(***************************************************************************)
(* While both ends of the WebSocket are open nothing final was said,       *)
(* nothing at all before the connection was made, and something after.     *)
(***************************************************************************)
Talk ==
  /\ Proper(heard)
  /\ page = "open" => Proper(Said)
  /\ page = "open" /\ ws = "open" =>
       /\ Quiet(Said)
       /\ tcp \in {"new", "connecting"} => Said = <<>>
       /\ tcp \in {"up", "ended"} => Said # <<>>

LEMMA TalkInit == Init => Talk
PROOF
<1> SUFFICES ASSUME Init PROVE Talk
  OBVIOUS
<1>1. heard = <<>> /\ down = <<>> /\ tcp = "new"
  BY DEF Init
<1>2. Said = <<>> /\ DOMAIN <<>> = {}
  BY <1>1 DEF Said
<1> QED
  BY <1>1, <1>2 DEF Talk, Proper, Quiet

LEMMA JoinedFrames ==
  ASSUME NEW s \in Seq(Frames), NEW t \in Seq(Frames)
  PROVE  /\ s \o t \in Seq(Frames) /\ Len(s) \in Nat /\ DOMAIN s = 1..Len(s)
         /\ \A i \in DOMAIN s : i \in DOMAIN (s \o t) /\ (s \o t)[i] = s[i]
         /\ \A i \in DOMAIN (s \o t) :
              \/ i \in DOMAIN s /\ (s \o t)[i] = s[i]
              \/ /\ i \in Nat /\ i > Len(s) /\ i - Len(s) \in DOMAIN t
                 /\ (s \o t)[i] = t[i - Len(s)]
PROOF
  OBVIOUS

LEMMA ProperPart ==
  ASSUME NEW s \in Seq(Frames), NEW t \in Seq(Frames), Proper(s \o t)
  PROVE  Proper(s)
PROOF
<1> DEFINE st == s \o t
<1>1. \A i \in DOMAIN s : i \in DOMAIN st /\ st[i] = s[i]
  BY JoinedFrames
<1> HIDE DEF st
<1>2. Proper(st)
  BY DEF st
<1> QED
  BY <1>1, <1>2 DEF Proper

\* What may be said to a page that is open.
Fits(s, t) ==
  \A i \in DOMAIN t :
    /\ t[i].type = "tcp_ok" => i = 1 /\ s = <<>>
    /\ i = 1 /\ s = <<>> => t[i].type \in {"tcp_ok", "error"}
    /\ t[i].type = "error" => \A j \in DOMAIN t : j > i => t[j].type = "close"

LEMMA ProperMore ==
  ASSUME NEW s \in Seq(Frames), NEW t \in Seq(Frames), Proper(s), Quiet(s), Fits(s, t)
  PROVE  Proper(s \o t)
PROOF
<1> DEFINE st == s \o t
           n  == Len(s)
<1>1. /\ n \in Nat /\ DOMAIN s = 1..n
      /\ \A i \in DOMAIN s : i \in DOMAIN st /\ st[i] = s[i]
      /\ \A i \in DOMAIN st :
           \/ i \in DOMAIN s /\ st[i] = s[i]
           \/ i \in Nat /\ i > n /\ i - n \in DOMAIN t /\ st[i] = t[i - n]
  BY JoinedFrames
<1>2. s = <<>> <=> n = 0
  OBVIOUS
<1> HIDE DEF st, n
<1>3. ASSUME NEW i \in DOMAIN st
      PROVE  /\ st[i].type = "tcp_ok" => i = 1
             /\ i = 1 => st[i].type \in {"tcp_ok", "error"}
             /\ st[i].type = "error" => \A j \in DOMAIN st : j > i => st[j].type = "close"
  <2>1. CASE i \in DOMAIN s /\ st[i] = s[i]
    BY <2>1 DEF Proper, Quiet, Final
  <2>2. CASE i \in Nat /\ i > n /\ i - n \in DOMAIN t /\ st[i] = t[i - n]
    <3>1. st[i].type = "tcp_ok" => i = 1
      BY <1>1, <1>2, <2>2 DEF Fits
    <3>2. i = 1 => st[i].type \in {"tcp_ok", "error"}
      BY <1>1, <1>2, <2>2 DEF Fits
    <3>3. ASSUME st[i].type = "error", NEW j \in DOMAIN st, j > i
          PROVE  st[j].type = "close"
      <4>1. j \in Nat /\ j > n /\ j - n \in DOMAIN t /\ st[j] = t[j - n]
        BY <1>1, <2>2, <3>3
      <4>2. j - n > i - n
        BY <1>1, <2>2, <3>3, <4>1
      <4> QED
        BY <2>2, <3>3, <4>1, <4>2 DEF Fits
    <3> QED
      BY <3>1, <3>2, <3>3
  <2> QED
    BY <1>1, <2>1, <2>2
<1> QED
  BY <1>3 DEF Proper, st

\* Frames that are sent to a page that is open.
LEMMA TalkGrows ==
  ASSUME Relay, Talk, NEW t \in Seq(Frames), down' = sendWs(t), heard' = heard, page' = page,
         page = "open" /\ ws = "open" => Fits(Said, t)
  PROVE  /\ Proper(heard') /\ (page' = "open" => Proper(Said'))
         /\ page = "open" /\ ws = "open" => Said' = Said \o t
         /\ Said \in Seq(Frames)
PROOF
<1>1. heard \in Seq(Frames) /\ down \in Seq(Frames) /\ Said \in Seq(Frames)
  BY DEF Relay, Said
<1>2. CASE page = "open" /\ ws = "open"
  <2>1. Said' = Said \o t
    BY <1>1, <1>2 DEF sendWs, Said
  <2>2. Proper(Said \o t)
    BY <1>1, <1>2, ProperMore DEF Talk
  <2> QED
    BY <1>1, <2>1, <2>2 DEF Talk
<1>3. CASE page = "open" /\ ws # "open"
  BY <1>1, <1>3 DEF sendWs, Said, Talk
<1>4. CASE page # "open"
  BY <1>1, <1>4 DEF Talk
<1> QED
  BY <1>2, <1>3, <1>4

\* The last words: nothing follows, for the WebSocket is closing.
LEMMA TalkEnds ==
  ASSUME Relay, Talk, NEW t \in Seq(Frames), SendAndClose(t), heard' = heard, page' = page,
         page = "open" /\ ws = "open" => Fits(Said, Append(t, Frame("close", <<>>)))
  PROVE  Talk'
PROOF
<1>1. Frame("close", <<>>) \in Frames
  BY DEF Frame, Frames, FrameTypes
<1> DEFINE all == Append(t, Frame("close", <<>>))
<1>2. all \in Seq(Frames)
  BY <1>1
<1>3. down' = sendWs(all) /\ ws' # "open"
  BY DEF SendAndClose
<1> HIDE DEF all
<1>4. Proper(heard') /\ (page' = "open" => Proper(Said'))
  BY <1>2, <1>3, TalkGrows DEF all
<1> QED
  BY <1>3, <1>4 DEF Talk

LEMMA ErrorFits ==
  ASSUME NEW s
  PROVE  Fits(s, Append(<<Frame("error", <<>>)>>, Frame("close", <<>>)))
PROOF
<1> DEFINE e == Frame("error", <<>>)
           c == Frame("close", <<>>)
<1>1. e.type = "error" /\ c.type = "close"
  BY DEF Frame
<1> HIDE DEF e, c
<1> DEFINE one == <<e>>
<1>2. one \in Seq({e, c}) /\ Len(one) = 1 /\ \A i \in DOMAIN one : i = 1 /\ one[i] = e
  OBVIOUS
<1> HIDE DEF one
<1>3. \A i \in DOMAIN Append(one, c) :
        \/ i = 1 /\ Append(one, c)[i] = e
        \/ i = 2 /\ Append(one, c)[i] = c
  BY <1>2, AddedLast
<1> DEFINE all == Append(one, c)
<1> HIDE DEF all
<1>4. \A i \in DOMAIN all : (i = 1 /\ all[i] = e) \/ (i = 2 /\ all[i] = c)
  BY <1>3 DEF all
<1>5. Fits(s, all)
  BY <1>1, <1>4 DEF Fits
<1> QED
  BY <1>5 DEF all, one, e, c

LEMMA CloseFits ==
  ASSUME NEW s, s # <<>>
  PROVE  Fits(s, Append(<<>>, Frame("close", <<>>)))
PROOF
<1> DEFINE c == Frame("close", <<>>)
<1>1. c.type = "close"
  BY DEF Frame
<1> HIDE DEF c
<1>2. Append(<<>>, c) = <<c>>
  OBVIOUS
<1>3. Fits(s, <<c>>)
  BY <1>1 DEF Fits
<1> QED
  BY <1>2, <1>3 DEF c

\* A step that says nothing.
LEMMA TalkSame ==
  ASSUME Talk, UNCHANGED <<heard, down, page>>, ws' = ws \/ ws' # "open",
         \/ tcp' = tcp \/ tcp' = "destroyed"
         \/ tcp = "new" /\ tcp' = "connecting"
         \/ tcp = "up" /\ tcp' = "ended"
  PROVE  Talk'
PROOF
<1>1. Said' = Said
  BY DEF Said
<1>2. Proper(heard)' /\ (page' = "open" => Proper(Said)')
  BY <1>1 DEF Talk
<1>3. ASSUME page' = "open", ws' = "open"
      PROVE  /\ Quiet(Said')
             /\ tcp' \in {"new", "connecting"} => Said' = <<>>
             /\ tcp' \in {"up", "ended"} => Said' # <<>>
  BY <1>1, <1>3 DEF Talk
<1> QED
  BY <1>2, <1>3 DEF Talk

\* A page that is no longer open hears nothing new.
LEMMA TalkOver ==
  ASSUME Relay, Talk, heard' = heard, page' # "open"
  PROVE  Talk'
PROOF
  BY DEF Talk

LEMMA TalkRead ==
  ASSUME Relay, Talk, PageReads
  PROVE  Talk'
PROOF
<1>1. heard \in Seq(Frames) /\ down \in Seq(Frames) /\ down # <<>> /\ down' = Tail(down)
  BY DEF Relay, PageReads
<1>2. CASE page # "open"
  BY <1>2, TalkOver DEF PageReads
<1>3. CASE page = "open"
  <2>1. heard' = Append(heard, Head(down)) /\ ws' = ws /\ tcp' = tcp
    BY <1>3 DEF PageReads
  <2>2. /\ heard' \in Seq(Frames) /\ down' \in Seq(Frames)
        /\ heard' \o down' = heard \o down
    BY <1>1, <2>1
  <2>3. Said' = Said /\ Proper(Said)
    BY <1>3, <2>2 DEF Said, Talk
  <2>4. Proper(heard')
    <3>1. Proper(heard' \o down')
      BY <2>2, <2>3 DEF Said
    <3> QED
      BY <2>2, <3>1, ProperPart
  <2>5. page' = "open" => Proper(Said')
    BY <2>3
  <2>6. ASSUME page' = "open", ws' = "open"
        PROVE  /\ Quiet(Said')
               /\ tcp' \in {"new", "connecting"} => Said' = <<>>
               /\ tcp' \in {"up", "ended"} => Said' # <<>>
    BY <1>3, <2>1, <2>3, <2>6 DEF Talk
  <2> QED
    BY <2>4, <2>5, <2>6 DEF Talk
<1> QED
  BY <1>2, <1>3

LEMMA TalkConnected ==
  ASSUME Relay, Talk, TcpConnected
  PROVE  Talk'
PROOF
<1> DEFINE f == Frame("tcp_ok", <<>>)
           t == <<f>>
<1>1. f \in Frames /\ f.type = "tcp_ok"
  BY DEF Frame, Frames, FrameTypes
<1>2. down' = sendWs(t) /\ UNCHANGED <<heard, page, ws>> /\ tcp = "connecting" /\ tcp' = "up"
  BY DEF TcpConnected
<1> HIDE DEF f
<1>3. t \in Seq(Frames)
  BY <1>1
<1>4. page = "open" /\ ws = "open" => Said = <<>> /\ Fits(Said, t)
  BY <1>1, <1>2 DEF Talk, Fits
<1> HIDE DEF t
<1>5. /\ Proper(heard') /\ (page' = "open" => Proper(Said'))
      /\ page = "open" /\ ws = "open" => Said' = Said \o t
  BY <1>2, <1>3, <1>4, TalkGrows
<1>6. ASSUME page = "open", ws = "open" PROVE Said' = t
  BY <1>3, <1>4, <1>5, <1>6
<1>7. ASSUME page = "open", ws = "open" PROVE Quiet(Said') /\ Said' # <<>>
  BY <1>1, <1>6, <1>7 DEF Quiet, Final, t
<1> QED
  BY <1>2, <1>5, <1>7 DEF Talk

LEMMA TalkData ==
  ASSUME RelayInv, Talk, TcpData
  PROVE  Talk'
PROOF
<1>1. PICK t \in Seq(Frames) :
        down' = sendWs(t) /\ \A k \in DOMAIN t : t[k].type = "packet"
  <2>1. PICK c \in Nat : Relay /\ Continues(c)
    BY DEF RelayInv
  <2>2. PICK t \in Seq(Frames) :
          down' = sendWs(t) /\ \A k \in DOMAIN t : t[k] = Frame("packet", Packet(c + k))
    BY <2>1, DataContinues
  <2>3. \A k \in DOMAIN t : t[k].type = "packet"
    BY <2>2 DEF Frame
  <2> QED
    BY <2>2, <2>3
<1>2. Relay /\ UNCHANGED <<heard, page, ws, tcp>> /\ tcp = "up"
  BY DEF TcpData, RelayInv
<1>3. page = "open" /\ ws = "open" => Fits(Said, t) /\ Quiet(Said) /\ Said # <<>>
  BY <1>1, <1>2 DEF Talk, Fits
<1>4. /\ Proper(heard') /\ (page' = "open" => Proper(Said'))
      /\ page = "open" /\ ws = "open" => Said' = Said \o t
      /\ Said \in Seq(Frames)
  BY <1>1, <1>2, <1>3, TalkGrows
<1>5. ASSUME page = "open", ws = "open" PROVE Quiet(Said') /\ Said' # <<>>
  <2>1. Said' = Said \o t /\ Quiet(Said) /\ Said # <<>>
    BY <1>3, <1>4, <1>5
  <2> DEFINE s == Said
  <2>2. /\ \A i \in DOMAIN s : i \in DOMAIN (s \o t) /\ (s \o t)[i] = s[i]
        /\ \A i \in DOMAIN (s \o t) :
             \/ i \in DOMAIN s /\ (s \o t)[i] = s[i]
             \/ i - Len(s) \in DOMAIN t /\ (s \o t)[i] = t[i - Len(s)]
    BY <1>1, <1>4, JoinedFrames
  <2>3. s # <<>> => s \o t # <<>>
    BY <1>1, <1>4
  <2> HIDE DEF s
  <2>4. \A i \in DOMAIN (s \o t) : (s \o t)[i].type \notin Final
    BY <1>1, <2>1, <2>2 DEF Quiet, Final, s
  <2> QED
    BY <2>1, <2>3, <2>4 DEF Quiet, s
<1> QED
  BY <1>2, <1>4, <1>5 DEF Talk

LEMMA TalkNext ==
  ASSUME RelayInv, Kinds, Upward, Talk, [Next]_vars
  PROVE  Talk'
PROOF
<1> DEFINE error == <<Frame("error", <<>>)>>
<1>1. Relay /\ Opening
  BY DEF RelayInv
<1>2. error \in Seq(Frames) /\ <<>> \in Seq(Frames)
  BY DEF Frame, Frames, FrameTypes
<1>3. ASSUME SendAndClose(error), UNCHANGED <<heard, page>> PROVE Talk'
  BY <1>1, <1>2, <1>3, ErrorFits, TalkEnds
<1> HIDE DEF error
<1>4. CASE FirstMessage
  <2>1. CASE SendAndClose(error)
    BY <1>3, <1>4, <2>1 DEF FirstMessage
  <2>2. CASE tcp' = "connecting" /\ UNCHANGED <<ws, down>>
    <3>1. UNCHANGED <<heard, down, page, ws>> /\ tcp = "new"
      BY <1>1, <1>4, <2>2 DEF FirstMessage, Opening
    <3> QED
      BY <2>2, <3>1, TalkSame
  <2> QED
    BY <1>4, <2>1, <2>2 DEF FirstMessage, error
<1>5. CASE NextMessage
  <2>1. CASE TcpBreaks
    BY <1>3, <1>5, <2>1 DEF NextMessage, TcpBreaks, error
  <2>2. CASE UNCHANGED <<tcp, ws, down>>
    BY <1>5, <2>2, TalkSame DEF NextMessage
  <2> QED
    BY <1>5, <2>1, <2>2 DEF NextMessage
<1>6. CASE CloseFrame
  <2>1. page # "open"
    BY <1>6, TakenFirst DEF CloseFrame, Upward, Kinds
  <2> QED
    BY <1>1, <1>6, <2>1, TalkOver DEF CloseFrame
<1>7. CASE WsClosed
  BY <1>7, TalkSame DEF WsClosed
<1>8. CASE TcpConnected
  BY <1>1, <1>8, TalkConnected
<1>9. CASE TcpError
  BY <1>3, <1>9 DEF TcpError, TcpBreaks, error
<1>10. CASE TcpData
  BY <1>10, TalkData
<1>11. CASE TcpEnd
  BY <1>11, TalkSame DEF TcpEnd, webSocket
<1>12. CASE TcpClose
  <2>1. page = "open" /\ ws = "open" => Said # <<>>
    BY <1>12 DEF TcpClose, Talk
  <2>2. page = "open" /\ ws = "open" => Fits(Said, Append(<<>>, Frame("close", <<>>)))
    BY <2>1, CloseFits
  <2> QED
    BY <1>1, <1>2, <1>12, <2>2, TalkEnds DEF TcpClose
<1>13. CASE PageReads
  BY <1>1, <1>13, TalkRead
<1>14. CASE PageCloses \/ PageVanishes
  BY <1>1, <1>14, TalkOver DEF PageCloses, PageVanishes
<1>15. CASE PageSends \/ Server
  BY <1>15, TalkSame
     DEF PageSends, Server, ServerWrites, ServerReads, ServerCloses, webSocket
<1>16. CASE UNCHANGED vars
  BY <1>16, TalkSame DEF vars, webSocket
<1> QED
  BY <1>4, <1>5, <1>6, <1>7, <1>8, <1>9, <1>10, <1>11, <1>12, <1>13, <1>14, <1>15, <1>16
     DEF Next, Callbacks, Page, Done

(***************************************************************************)
(* A page hears first that the connection is up or why it is not, tcp_ok   *)
(* once, and after an error nothing but the end: whatever the order of the *)
(* callbacks of its two sockets (sendWs and ws.close, bridge.js:43-117).   *)
(***************************************************************************)
THEOREM ConversationsAreOrderly == Spec => []ConversationInOrder
PROOF
<1>1. Init => RelayInv /\ Kinds /\ Upward /\ Talk
  BY RelayInit, KindsInit, TalkInit
<1>2. RelayInv /\ Kinds /\ Upward /\ Talk /\ [Next]_vars
        => RelayInv' /\ Kinds' /\ Upward' /\ Talk'
  BY RelayNext, KindsNext, TalkNext
<1>3. Talk => ConversationInOrder
  BY DEF Talk, Proper, ConversationInOrder
<1> QED
  BY <1>1, <1>2, <1>3, PTL DEF Spec

-----------------------------------------------------------------------------
\* Selections

\* The elements at the positions from a to b.
LEMMA PickedInterval ==
  ASSUME NEW s, NEW a \in Int, NEW b \in Int
  PROVE  /\ DOMAIN Picked(s, a..b) = 1..(b - a + 1)
         /\ \A k \in 1..(b - a + 1) : Picked(s, a..b)[k] = s[a + k - 1]
PROOF
<1> DEFINE ps == a..b
           n  == IF a > b THEN 0 ELSE b - a + 1
<1>1. Cardinality(ps) = n /\ 1..n = 1..(b - a + 1)
  <2>1. Cardinality(ps) = n
    BY FS_Interval
  <2>2. 1..n = 1..(b - a + 1)
    OBVIOUS
  <2> QED
    BY <2>1, <2>2
<1>2. \A i \in ps : Cardinality({j \in ps : j <= i}) = i - a + 1
  <2> TAKE i \in ps
  <2>1. {j \in ps : j <= i} = a..i
    OBVIOUS
  <2>2. Cardinality(a..i) = i - a + 1
    BY FS_Interval
  <2> QED
    BY <2>1, <2>2
<1> DEFINE rank(i) == Cardinality({j \in ps : j <= i})
<1>3. ASSUME NEW k \in 1..n
      PROVE  (CHOOSE i \in ps : rank(i) = k) = a + k - 1
  <2>1. a + k - 1 \in ps /\ (a + k - 1) - a + 1 = k
    BY <1>3
  <2>2. rank(a + k - 1) = k
    BY <1>2, <2>1
  <2>3. \A i \in ps : rank(i) = k => i = a + k - 1
    <3> TAKE i \in ps
    <3>1. rank(i) = i - a + 1
      BY <1>2
    <3> HIDE DEF rank
    <3> QED
      BY <1>3, <3>1
  <2> HIDE DEF rank, ps
  <2> QED
    BY <2>1, <2>2, <2>3
<1>4. Picked(s, ps) = [k \in 1..n |-> s[CHOOSE i \in ps : rank(i) = k]]
  BY <1>1 DEF Picked
<1> HIDE DEF rank, ps, n
<1>5. \A k \in 1..n : s[CHOOSE i \in ps : rank(i) = k] = s[a + k - 1]
  BY <1>3
<1>6. Picked(s, ps) = [k \in 1..n |-> s[a + k - 1]]
  BY <1>4, <1>5
<1> QED
  BY <1>1, <1>6 DEF ps

\* The first packets of the server in a row, from the second frame on.
Lined(s, m) ==
  /\ \A i \in DOMAIN s : s[i].type = "packet" <=> i \in 2..(m + 1)
  /\ \A k \in 1..m : k + 1 \in DOMAIN s /\ s[k + 1].body = Packet(k)

LEMMA BodiesLined ==
  ASSUME NEW s, NEW m \in Nat, Lined(s, m)
  PROVE  Bodies(s) = [k \in 1..m |-> Packet(k)]
PROOF
<1> DEFINE ps == {i \in DOMAIN s : s[i].type = "packet"}
<1>1. ps = 2..(m + 1)
  <2>1. ASSUME NEW i \in 2..(m + 1) PROVE i \in DOMAIN s
    <3>1. i - 1 \in 1..m /\ (i - 1) + 1 = i
      BY <2>1
    <3> QED
      BY <3>1 DEF Lined
  <2> QED
    BY <2>1 DEF Lined
<1>2. DOMAIN Picked(s, ps) = 1..m /\ \A k \in 1..m : Picked(s, ps)[k] = s[k + 1]
  <2>1. (m + 1) - 2 + 1 = m /\ \A k \in 1..m : 2 + k - 1 = k + 1
    OBVIOUS
  <2>2. 2 \in Int /\ m + 1 \in Int
    OBVIOUS
  <2>3. /\ DOMAIN Picked(s, 2..(m + 1)) = 1..((m + 1) - 2 + 1)
        /\ \A k \in 1..((m + 1) - 2 + 1) : Picked(s, 2..(m + 1))[k] = s[2 + k - 1]
    BY <2>2, PickedInterval
  <2> QED
    BY <1>1, <2>1, <2>3
<1> HIDE DEF ps
<1>3. Bodies(s) = [k \in 1..m |-> s[k + 1].body]
  BY <1>2 DEF Bodies, ps
<1>4. \A k \in 1..m : s[k + 1].body = Packet(k)
  BY DEF Lined
<1> QED
  BY <1>3, <1>4

\* l messages that are told from the p-th on, and numbered from o + 1.
ToldFrom(s, l, p, o) ==
  /\ l \in Nat /\ p \in Nat \ {0} /\ o \in Nat /\ DOMAIN s = 1..l
  /\ \A i \in 1..l : s[i].n = o + i /\ (s[i].told <=> i >= p)

LEMMA NumbersFrom ==
  ASSUME NEW s, NEW l, NEW p, NEW o, ToldFrom(s, l, p, o)
  PROVE  Numbers(s) = [k \in 1..(l - p + 1) |-> o + p + k - 1]
PROOF
<1> DEFINE ps == {i \in DOMAIN s : s[i].told}
<1> l \in Nat /\ p \in Nat \ {0} /\ o \in Nat /\ DOMAIN s = 1..l
  BY DEF ToldFrom
<1>t. \A i \in 1..l : s[i].n = o + i /\ (s[i].told <=> i >= p)
  BY DEF ToldFrom
<1>1. ps = p..l
  BY <1>t
<1>2. /\ DOMAIN Picked(s, ps) = 1..(l - p + 1)
      /\ \A k \in 1..(l - p + 1) : Picked(s, ps)[k] = s[p + k - 1]
  <2>1. p \in Int /\ l \in Int
    OBVIOUS
  <2> HIDE DEF ps
  <2> QED
    BY <1>1, <2>1, PickedInterval
<1> HIDE DEF ps
<1>3. Numbers(s) = [k \in 1..(l - p + 1) |-> s[p + k - 1].n]
  BY <1>2 DEF Numbers, ps
<1>4. \A k \in 1..(l - p + 1) : s[p + k - 1].n = o + p + k - 1
  <2> TAKE k \in 1..(l - p + 1)
  <2>1. p + k - 1 \in 1..l /\ o + (p + k - 1) = o + p + k - 1
    OBVIOUS
  <2> QED
    BY <1>t, <2>1
<1> QED
  BY <1>3, <1>4

(***************************************************************************)
(* What the page has heard, or will hear while it is open, is the first    *)
(* packets without a gap; all that were cut off, as long as the WebSocket  *)
(* takes them.                                                             *)
(***************************************************************************)
InLine(c) ==
  /\ \E m \in 0..c : Lined(heard, m)
  /\ page = "open" => \E m \in 0..c : Lined(Said, m)
  /\ page = "open" /\ ws = "open" =>
       IF Said = <<>> THEN c = 0 ELSE Lined(Said, c) /\ Len(Said) = c + 1

LEMMA LinedNothing ==
  ASSUME NEW s, s = <<>>
  PROVE  Lined(s, 0)
PROOF
<1>1. DOMAIN s = {}
  OBVIOUS
<1>2. 1..0 = {}
  OBVIOUS
<1> QED
  BY <1>1, <1>2 DEF Lined

\* Frames that are no packets leave the packets in line.
LEMMA LinedOthers ==
  ASSUME NEW s \in Seq(Frames), NEW t \in Seq(Frames), NEW m \in Nat, Lined(s, m),
         \A i \in DOMAIN t : t[i].type # "packet"
  PROVE  Lined(s \o t, m)
PROOF
<1> DEFINE st == s \o t
           n  == Len(s)
<1>1. /\ n \in Nat /\ DOMAIN s = 1..n
      /\ \A i \in DOMAIN s : i \in DOMAIN st /\ st[i] = s[i]
      /\ \A i \in DOMAIN st :
           \/ i \in DOMAIN s /\ st[i] = s[i]
           \/ i \in Nat /\ i > n /\ i - n \in DOMAIN t /\ st[i] = t[i - n]
  BY JoinedFrames
<1> HIDE DEF st, n
<1>2. \A i \in 2..(m + 1) : i \in DOMAIN s
  <2> TAKE i \in 2..(m + 1)
  <2>1. i - 1 \in 1..m /\ (i - 1) + 1 = i
    OBVIOUS
  <2> QED
    BY <2>1 DEF Lined
<1>3. \A i \in DOMAIN st : st[i].type = "packet" <=> i \in 2..(m + 1)
  <2> TAKE i \in DOMAIN st
  <2>1. CASE i \in DOMAIN s /\ st[i] = s[i]
    BY <2>1 DEF Lined
  <2>2. CASE i > n /\ i - n \in DOMAIN t /\ st[i] = t[i - n]
    <3>1. i \notin DOMAIN s
      BY <1>1, <2>2
    <3> QED
      BY <1>2, <2>2, <3>1
  <2> QED
    BY <1>1, <2>1, <2>2
<1>4. \A k \in 1..m : k + 1 \in DOMAIN st /\ st[k + 1].body = Packet(k)
  BY <1>1 DEF Lined
<1> QED
  BY <1>3, <1>4 DEF Lined, st

LEMMA Joined ==
  ASSUME NEW S, NEW s \in Seq(S), NEW t \in Seq(S)
  PROVE  /\ Len(s) \in Nat /\ Len(t) \in Nat
         /\ DOMAIN s = 1..Len(s) /\ DOMAIN t = 1..Len(t)
         /\ Len(s \o t) = Len(s) + Len(t)
         /\ \A i \in 1..Len(s) : (s \o t)[i] = s[i]
         /\ \A i \in 1..Len(t) : (s \o t)[Len(s) + i] = t[i]
PROOF
  OBVIOUS

\* The packets that come next.
LEMMA LinedNext ==
  ASSUME NEW s \in Seq(Frames), NEW t \in Seq(Frames), NEW c \in Nat, Lined(s, c),
         Len(s) = c + 1,
         \A k \in DOMAIN t : t[k] = Frame("packet", Packet(c + k))
  PROVE  Lined(s \o t, c + Len(t)) /\ Len(s \o t) = c + Len(t) + 1
PROOF
<1> DEFINE st == s \o t
           n  == Len(s)
           r  == Len(t)
<1>1. /\ r \in Nat /\ DOMAIN t = 1..r /\ DOMAIN s = 1..n /\ n \in Nat
      /\ DOMAIN st = 1..(n + r) /\ Len(st) = n + r
      /\ \A i \in 1..n : st[i] = s[i]
      /\ \A i \in 1..r : st[n + i] = t[i]
  <2>1. n \in Nat /\ r \in Nat
    BY Joined
  <2>2. DOMAIN s = 1..n /\ DOMAIN t = 1..r
    BY Joined
  <2>3. Len(st) = n + r /\ DOMAIN st = 1..(n + r)
    <3>1. Len(s \o t) = Len(s) + Len(t)
      BY Joined, Zenon
    <3>2. st \in Seq(Frames)
      BY JoinedFrames
    <3> HIDE DEF st
    <3>3. DOMAIN st = 1..Len(st)
      BY <3>2
    <3> QED
      BY <3>1, <3>3 DEF st
  <2>4. \A i \in 1..n : st[i] = s[i]
    BY Joined
  <2>5. \A i \in 1..r : st[n + i] = t[i]
    BY Joined
  <2> QED
    BY <2>1, <2>2, <2>3, <2>4, <2>5, Zenon
<1>2. \A k \in 1..r : t[k].type = "packet" /\ t[k].body = Packet(c + k)
  BY <1>1 DEF Frame
<1>c. n = c + 1
  OBVIOUS
<1> HIDE DEF st, r, n
<1>3. ASSUME NEW i \in 1..(n + r), i > n
      PROVE  i - n \in 1..r /\ n + (i - n) = i /\ c + (i - n) = i - 1
  <2>1. n \in Nat /\ r \in Nat /\ i \in Int
    BY <1>1
  <2>2. i - n \in 1..r /\ n + (i - n) = i
    BY <1>3, <2>1
  <2>3. c + (i - n) = i - 1
    BY <1>c, <2>1
  <2> QED
    BY <2>2, <2>3
<1>4. \A i \in DOMAIN st : st[i].type = "packet" <=> i \in 2..(c + r + 1)
  <2> TAKE i \in DOMAIN st
  <2>0. i \in 1..(n + r)
    BY <1>1
  <2>1. CASE i <= n
    <3>1. i \in 1..n /\ (i \in 2..(c + 1) <=> i \in 2..(c + r + 1))
      BY <1>1, <1>c, <2>0, <2>1
    <3>2. s[i].type = "packet" <=> i \in 2..(c + 1)
      BY <1>1, <3>1 DEF Lined
    <3> QED
      BY <1>1, <3>1, <3>2
  <2>2. CASE i > n
    <3>1. i \in 2..(c + r + 1)
      BY <1>1, <1>c, <2>0, <2>2
    <3>2. i - n \in 1..r /\ n + (i - n) = i
      BY <1>3, <2>0, <2>2
    <3>3. st[i].type = "packet"
      BY <1>1, <1>2, <3>2
    <3> QED
      BY <3>1, <3>3
  <2> QED
    BY <1>1, <2>0, <2>1, <2>2
<1>5. \A k \in 1..(c + r) : k + 1 \in DOMAIN st /\ st[k + 1].body = Packet(k)
  <2> TAKE k \in 1..(c + r)
  <2>1. k + 1 \in DOMAIN st /\ k + 1 \in 1..(n + r)
    BY <1>1, <1>c
  <2>2. CASE k <= c
    <3>1. k \in 1..c /\ k + 1 \in 1..n
      BY <1>1, <1>c, <2>2
    <3> QED
      BY <1>1, <2>1, <3>1 DEF Lined
  <2>3. CASE k > c
    <3>1. k + 1 > n /\ (k + 1) - 1 = k
      BY <1>1, <1>c, <2>3
    <3>2. /\ (k + 1) - n \in 1..r /\ n + ((k + 1) - n) = k + 1
          /\ c + ((k + 1) - n) = k
      BY <1>3, <2>1, <3>1
    <3> QED
      BY <1>1, <1>2, <2>1, <3>2
  <2> QED
    BY <1>1, <2>2, <2>3
<1>6. n + r = c + r + 1
  BY <1>1, <1>c
<1> QED
  BY <1>1, <1>4, <1>5, <1>6 DEF Lined, st, r

LEMMA LinedPart ==
  ASSUME NEW s \in Seq(Frames), NEW t \in Seq(Frames), NEW c \in Nat, NEW m \in 0..c,
         Lined(s \o t, m)
  PROVE  \E l \in 0..c : Lined(s, l)
PROOF
<1> DEFINE st == s \o t
           n  == Len(s)
<1>1. /\ n \in Nat /\ DOMAIN s = 1..n
      /\ \A i \in DOMAIN s : i \in DOMAIN st /\ st[i] = s[i]
  BY JoinedFrames
<1> HIDE DEF st, n
<1>2. Lined(st, m)
  BY DEF st
<1>3. CASE m + 1 <= n
  <2>1. Lined(s, m)
    <3>1. \A i \in DOMAIN s : s[i].type = "packet" <=> i \in 2..(m + 1)
      BY <1>1, <1>2 DEF Lined
    <3>2. \A k \in 1..m : k + 1 \in DOMAIN s
      BY <1>1, <1>3
    <3> QED
      BY <1>1, <1>2, <3>1, <3>2 DEF Lined
  <2> QED
    BY <2>1
<1>4. CASE n = 0
  <2>1. s = <<>>
    BY <1>4 DEF n
  <2> QED
    BY <2>1, LinedNothing
<1>5. CASE n > 0 /\ m + 1 > n
  <2>1. n - 1 \in 0..c /\ (n - 1) + 1 = n
    BY <1>1, <1>5
  <2>2. \A i \in DOMAIN s : s[i].type = "packet" <=> i \in 2..n
    <3> TAKE i \in DOMAIN s
    <3>1. i \in 2..n <=> i \in 2..(m + 1)
      BY <1>1, <1>5
    <3> QED
      BY <1>1, <1>2, <3>1 DEF Lined
  <2>3. \A k \in 1..(n - 1) : k + 1 \in DOMAIN s /\ s[k + 1].body = Packet(k)
    <3> TAKE k \in 1..(n - 1)
    <3>1. k \in 1..m /\ k + 1 \in DOMAIN s
      BY <1>1, <1>5
    <3> QED
      BY <1>1, <1>2, <3>1 DEF Lined
  <2>4. Lined(s, n - 1)
    BY <2>1, <2>2, <2>3 DEF Lined
  <2> QED
    BY <2>1, <2>4
<1> QED
  BY <1>1, <1>3, <1>4, <1>5

LEMMA SaidGrows ==
  ASSUME Relay, NEW t \in Seq(Frames), down' = sendWs(t), heard' = heard
  PROVE  /\ Said \in Seq(Frames)
         /\ ws = "open" => Said' = Said \o t
         /\ ws # "open" => Said' = Said
PROOF
<1>1. heard \in Seq(Frames) /\ down \in Seq(Frames) /\ Said \in Seq(Frames)
  BY DEF Relay, Said
<1> QED
  BY <1>1 DEF sendWs, Said

LEMMA SaidRead ==
  ASSUME Relay, PageReads, page = "open"
  PROVE  /\ heard' = Append(heard, Head(down)) /\ Head(down) \in Frames
         /\ heard \in Seq(Frames) /\ heard' \in Seq(Frames) /\ down' \in Seq(Frames)
         /\ Said' = Said
PROOF
<1>1. heard \in Seq(Frames) /\ down \in Seq(Frames) /\ down # <<>> /\ down' = Tail(down)
  BY DEF Relay, PageReads
<1>2. heard' = Append(heard, Head(down))
  BY DEF PageReads
<1>3. Head(down) \in Frames
  BY <1>1, TakenFirst
<1>4. /\ heard' \in Seq(Frames) /\ down' \in Seq(Frames)
      /\ heard' \o down' = heard \o down
  BY <1>1, <1>2
<1> QED
  BY <1>1, <1>2, <1>3, <1>4 DEF Said

\* Frames that are no packets.
LEMMA LineGrows ==
  ASSUME Relay, NEW c \in Nat, InLine(c), NEW t \in Seq(Frames), down' = sendWs(t),
         \A i \in DOMAIN t : t[i].type # "packet", heard' = heard, page' = page
  PROVE  /\ \E m \in 0..c : Lined(heard', m)
         /\ page' = "open" => \E m \in 0..c : Lined(Said', m)
         /\ ws = "open" => Said' = Said \o t
PROOF
<1>1. Said \in Seq(Frames)
  BY SaidGrows
<1>2. ws = "open" => Said' = Said \o t
  BY SaidGrows
<1>3. ws # "open" => Said' = Said
  BY SaidGrows
<1>4. ASSUME page' = "open" PROVE \E m \in 0..c : Lined(Said', m)
  <2>1. PICK m \in 0..c : Lined(Said, m)
    BY <1>4 DEF InLine
  <2>2. Lined(Said \o t, m)
    <3>1. m \in Nat
      OBVIOUS
    <3> QED
      BY <1>1, <2>1, <3>1, LinedOthers
  <2> QED
    BY <1>2, <1>3, <2>1, <2>2
<1> QED
  BY <1>2, <1>4 DEF InLine

LEMMA LineEnds ==
  ASSUME Relay, NEW c \in Nat, InLine(c), NEW t \in Seq(Frames), SendAndClose(t),
         \A i \in DOMAIN t : t[i].type # "packet", heard' = heard, page' = page
  PROVE  InLine(c)'
PROOF
<1> DEFINE close == Frame("close", <<>>)
           all   == Append(t, close)
<1>1. close \in Frames /\ close.type # "packet"
  BY DEF Frame, Frames, FrameTypes
<1>2. down' = sendWs(all) /\ ws' # "open"
  BY DEF SendAndClose
<1> HIDE DEF close
<1>3. all \in Seq(Frames) /\ \A i \in DOMAIN all : all[i].type # "packet"
  BY <1>1
<1> HIDE DEF all
<1>4. /\ \E m \in 0..c : Lined(heard', m)
      /\ page' = "open" => \E m \in 0..c : Lined(Said', m)
  BY <1>2, <1>3, LineGrows
<1> QED
  BY <1>2, <1>4 DEF InLine

\* A page that is told nothing.
LEMMA LineSame ==
  ASSUME NEW c, InLine(c), UNCHANGED <<heard, down>>, ws' = ws \/ ws' # "open",
         page' = page \/ page' # "open"
  PROVE  InLine(c)'
PROOF
<1>1. Said' = Said
  BY DEF Said
<1> QED
  BY <1>1 DEF InLine

LEMMA LineOver ==
  ASSUME NEW c, InLine(c), heard' = heard, page' # "open"
  PROVE  InLine(c)'
PROOF
  BY DEF InLine

LEMMA LineRead ==
  ASSUME Relay, NEW c \in Nat, InLine(c), PageReads
  PROVE  InLine(c)'
PROOF
<1>2. CASE page # "open"
  BY <1>2, LineOver DEF PageReads
<1>3. CASE page = "open"
  <2>1. ws' = ws
    BY <1>3 DEF PageReads
  <2>2. heard' \in Seq(Frames) /\ down' \in Seq(Frames)
    BY <1>3, SaidRead
  <2>3. Said' = Said
    BY <1>3, SaidRead
  <2>4. PICK m \in 0..c : Lined(Said, m)
    BY <1>3 DEF InLine
  <2>5. Lined(heard' \o down', m)
    BY <2>3, <2>4 DEF Said
  <2>6. \E l \in 0..c : Lined(heard', l)
    BY <2>2, <2>5, LinedPart
  <2> QED
    BY <1>3, <2>1, <2>3, <2>6 DEF InLine
<1> QED
  BY <1>2, <1>3

LEMMA LineConnected ==
  ASSUME Relay, Talk, NEW c \in Nat, InLine(c), TcpConnected
  PROVE  InLine(c)'
PROOF
<1> DEFINE f == Frame("tcp_ok", <<>>)
           t == <<f>>
<1>1. f \in Frames /\ f.type # "packet"
  BY DEF Frame, Frames, FrameTypes
<1>2. down' = sendWs(t) /\ UNCHANGED <<heard, page, ws>> /\ tcp = "connecting"
  BY DEF TcpConnected
<1> HIDE DEF f
<1>3. t \in Seq(Frames) /\ Len(t) = 1 /\ \A i \in DOMAIN t : t[i].type # "packet"
  BY <1>1
<1> HIDE DEF t
<1>4. /\ \E m \in 0..c : Lined(heard', m)
      /\ page' = "open" => \E m \in 0..c : Lined(Said', m)
      /\ ws = "open" => Said' = Said \o t
  BY <1>2, <1>3, LineGrows
<1>5. ASSUME page = "open", ws = "open"
      PROVE  Said' # <<>> /\ Lined(Said', c) /\ Len(Said') = c + 1
  <2>1. Said = <<>>
    BY <1>2, <1>5 DEF Talk
  <2>2. c = 0
    BY <1>5, <2>1 DEF InLine
  <2>3. Said' = t
    BY <1>3, <1>4, <1>5, <2>1
  <2>4. \E m \in 0..c : Lined(Said', m)
    BY <1>2, <1>4, <1>5
  <2>5. Lined(Said', 0)
    BY <2>2, <2>4
  <2> QED
    BY <1>3, <2>2, <2>3, <2>5
<1> QED
  BY <1>2, <1>4, <1>5 DEF InLine

LEMMA LineData ==
  ASSUME Relay, Talk, NEW c \in Nat, InLine(c), TcpData, NEW t \in Seq(Frames),
         down' = sendWs(t), \A k \in DOMAIN t : t[k] = Frame("packet", Packet(c + k))
  PROVE  InLine(c + Len(t))'
PROOF
<1> DEFINE d == c + Len(t)
<1>1. d \in Nat /\ 0..c \subseteq 0..d /\ d \in 0..d
  OBVIOUS
<1>2. UNCHANGED <<heard, page, ws>> /\ tcp = "up"
  BY DEF TcpData
<1>3. /\ Said \in Seq(Frames)
      /\ ws = "open" => Said' = Said \o t
      /\ ws # "open" => Said' = Said
  BY <1>2, SaidGrows
<1>4. \E m \in 0..d : Lined(heard', m)
  BY <1>1, <1>2 DEF InLine
<1>5. CASE page = "open" /\ ws = "open"
  <2>1. Said' = Said \o t
    BY <1>3, <1>5
  <2>2. Said # <<>>
    BY <1>2, <1>5 DEF Talk
  <2>3. Lined(Said, c) /\ Len(Said) = c + 1
    BY <1>5, <2>2 DEF InLine
  <2>4. Lined(Said \o t, c + Len(t)) /\ Len(Said \o t) = c + Len(t) + 1
    BY <1>3, <2>3, LinedNext
  <2>5. Lined(Said', d) /\ Len(Said') = d + 1
    BY <2>1, <2>4
  <2> HIDE DEF d
  <2>6. Said' # <<>>
    BY <1>1, <2>5
  <2> QED
    BY <1>1, <1>2, <1>4, <2>5, <2>6 DEF InLine, d
<1>6. CASE page = "open" /\ ws # "open"
  <2>1. Said' = Said
    BY <1>3, <1>6
  <2>2. \E m \in 0..d : Lined(Said', m)
    BY <1>1, <1>6, <2>1 DEF InLine
  <2> QED
    BY <1>2, <1>4, <1>6, <2>2 DEF InLine
<1>7. CASE page # "open"
  BY <1>2, <1>4, <1>7 DEF InLine
<1> QED
  BY <1>5, <1>6, <1>7

Carried == \E c \in Nat : Continues(c) /\ InLine(c)

LEMMA CarriedNext ==
  ASSUME RelayInv, Kinds, Upward, Talk, Carried, [Next]_vars
  PROVE  Carried'
PROOF
<1>1. PICK c \in Nat : Continues(c) /\ InLine(c)
  BY DEF Carried
<1>2. Relay /\ Opening
  BY DEF RelayInv
<1>3. CASE TcpData
  <2>1. PICK t \in Seq(Frames) :
          /\ down' = sendWs(t) /\ c + Len(t) \in Nat /\ Continues(c + Len(t))'
          /\ \A k \in DOMAIN t : t[k] = Frame("packet", Packet(c + k))
    BY <1>1, <1>2, <1>3, DataContinues
  <2>2. InLine(c + Len(t))'
    BY <1>1, <1>2, <1>3, <2>1, LineData
  <2> QED
    BY <2>1, <2>2 DEF Carried
<1>4. CASE ~TcpData
  <2>1. Continues(c)'
    BY <1>1, <1>2, <1>4, RelayStep
  <2> SUFFICES InLine(c)'
    BY <2>1 DEF Carried
  <2> DEFINE error == <<Frame("error", <<>>)>>
  <2>2. /\ error \in Seq(Frames) /\ \A i \in DOMAIN error : error[i].type # "packet"
        /\ <<>> \in Seq(Frames) /\ \A i \in DOMAIN <<>> : <<>>[i].type # "packet"
    BY DEF Frame, Frames, FrameTypes
  <2> HIDE DEF error
  <2>3. ASSUME SendAndClose(error), UNCHANGED <<heard, page>> PROVE InLine(c)'
    BY <1>1, <1>2, <2>2, <2>3, LineEnds
  <2>4. ASSUME SendAndClose(<<>>), UNCHANGED <<heard, page>> PROVE InLine(c)'
    BY <1>1, <1>2, <2>2, <2>4, LineEnds
  <2>5. ASSUME UNCHANGED <<heard, down>>, ws' = ws \/ ws' # "open",
               page' = page \/ page' # "open"
        PROVE  InLine(c)'
    BY <1>1, <2>5, LineSame
  <2>6. CASE FirstMessage \/ NextMessage \/ TcpError
    <3>1. UNCHANGED <<heard, page>> /\ (SendAndClose(error) \/ UNCHANGED <<ws, down>>)
      BY <2>6 DEF FirstMessage, NextMessage, TcpError, TcpBreaks, error
    <3> QED
      BY <2>3, <2>5, <3>1
  <2>7. CASE CloseFrame \/ TcpClose
    BY <2>4, <2>7 DEF CloseFrame, TcpClose
  <2>8. CASE WsClosed \/ TcpEnd \/ PageSends \/ PageCloses
    BY <2>5, <2>8 DEF WsClosed, TcpEnd, PageSends, PageCloses, webSocket
  <2>9. CASE TcpConnected
    BY <1>1, <1>2, <2>9, LineConnected
  <2>10. CASE PageReads
    BY <1>1, <1>2, <2>10, LineRead
  <2>11. CASE PageVanishes
    BY <1>1, <2>11, LineOver DEF PageVanishes
  <2>12. CASE Server \/ UNCHANGED vars
    BY <2>5, <2>12 DEF Server, ServerWrites, ServerReads, ServerCloses, vars, webSocket
  <2> QED
    BY <1>4, <2>6, <2>7, <2>8, <2>9, <2>10, <2>11, <2>12
       DEF Next, Callbacks, Page, Done
<1> QED
  BY <1>3, <1>4

\* One unit more is a packet more at most.
LEMMA Quotients ==
  ASSUME NEW n \in Nat
  PROVE  /\ n \div PacketSize \in Nat /\ n \div PacketSize <= n
         /\ (n + 1) \div PacketSize \in {n \div PacketSize, (n \div PacketSize) + 1}
         /\ \A c \in Nat : c * PacketSize <= n => c <= n \div PacketSize
PROOF
<1>1. PacketSize \in Nat /\ PacketSize > 0
  BY BridgeAssumption
<1>2. ASSUME NEW k \in Nat
      PROVE  /\ k \div PacketSize \in Nat
             /\ k = (k \div PacketSize) * PacketSize + (k % PacketSize)
             /\ k % PacketSize \in Nat /\ k % PacketSize < PacketSize
  <2>1. k \div PacketSize \in Nat /\ k = PacketSize * (k \div PacketSize) + (k % PacketSize)
        /\ k % PacketSize \in Nat /\ k % PacketSize < PacketSize
    BY <1>1, SMTT(30)
  <2>2. PacketSize * (k \div PacketSize) = (k \div PacketSize) * PacketSize
    BY <1>1, <2>1
  <2> QED
    BY <2>1, <2>2
<1> DEFINE q == n \div PacketSize
           z == (n + 1) \div PacketSize
<1>3. /\ q \in Nat /\ z \in Nat
      /\ \E r \in Nat : r < PacketSize /\ n = q * PacketSize + r
      /\ \E r \in Nat : r < PacketSize /\ n + 1 = z * PacketSize + r
  <2>1. n + 1 \in Nat
    OBVIOUS
  <2> QED
    BY <1>2, <2>1
<1> HIDE DEF q, z
<1>4. PICK r \in Nat : r < PacketSize /\ n = q * PacketSize + r
  BY <1>3
<1>5. PICK u \in Nat : u < PacketSize /\ n + 1 = z * PacketSize + u
  BY <1>3
<1>6. q * PacketSize \in Nat /\ z * PacketSize \in Nat
  BY <1>1, <1>3, Products
<1>7. \A c \in Nat : c * PacketSize <= n => c <= q
  <2> SUFFICES ASSUME NEW c \in Nat, c > q PROVE c * PacketSize > n
    <3>1. \A c \in Nat : c * PacketSize \in Nat
      BY <1>1, Products
    <3> QED
      BY <1>3, <3>1
  <2>1. (q + 1) * PacketSize <= c * PacketSize /\ c * PacketSize \in Nat
    BY <1>3, ProductsGrow
  <2>2. (q + 1) * PacketSize = q * PacketSize + PacketSize
    BY <1>1, <1>3, SMTT(30)
  <2> QED
    BY <1>1, <1>4, <1>6, <2>1, <2>2
<1>8. q <= z
  <2> SUFFICES ASSUME z < q PROVE FALSE
    BY <1>3
  <2>1. (z + 1) * PacketSize <= q * PacketSize
    BY <1>3, ProductsGrow
  <2>2. (z + 1) * PacketSize = z * PacketSize + PacketSize
    BY <1>1, <1>3, SMTT(30)
  <2> QED
    BY <1>1, <1>4, <1>5, <1>6, <2>1, <2>2
<1>9. z <= q + 1
  <2> SUFFICES ASSUME z > q + 1 PROVE FALSE
    BY <1>3
  <2>1. (q + 2) * PacketSize <= z * PacketSize
    BY <1>3, ProductsGrow
  <2>2. (q + 2) * PacketSize = q * PacketSize + PacketSize + PacketSize
    BY <1>1, <1>3, SMTT(30)
  <2> QED
    BY <1>1, <1>4, <1>5, <1>6, <2>1, <2>2
<1>10. q <= n
  <2>1. 0 * PacketSize = 0 /\ q * PacketSize = q + q * (PacketSize - 1)
    BY <1>1, <1>3, SMTT(30)
  <2>2. q * (PacketSize - 1) \in Nat
    <3>1. PacketSize - 1 \in Nat
      BY <1>1
    <3> QED
      BY <1>3, <3>1, Products
  <2> QED
    BY <1>3, <1>4, <1>6, <2>1, <2>2
<1> QED
  BY <1>3, <1>7, <1>8, <1>9, <1>10 DEF q, z

\* The page reads a frame: the next packet, or none.
LEMMA LinedRead ==
  ASSUME NEW s \in Seq(Frames), NEW f \in Frames, NEW m \in Nat, Lined(s, m),
         NEW l \in Nat, Lined(Append(s, f), l)
  PROVE  \/ Bodies(Append(s, f)) = Bodies(s)
         \/ /\ l = m + 1 /\ f.type = "packet"
            /\ Bodies(Append(s, f)) = [k \in 1..(m + 1) |-> Packet(k)]
PROOF
<1> DEFINE sf == Append(s, f)
           n  == Len(s)
<1>1. /\ n \in Nat /\ DOMAIN s = 1..n /\ DOMAIN sf = 1..(n + 1)
      /\ sf[n + 1] = f /\ \A i \in 1..n : sf[i] = s[i]
  OBVIOUS
<1> HIDE DEF sf, n
<1>2. Lined(sf, l)
  BY DEF sf
<1>3. CASE f.type = "packet"
  <2>1. n + 1 \in 2..(l + 1)
    BY <1>1, <1>2, <1>3 DEF Lined
  <2>2. l + 1 \in 1..(n + 1)
    <3>1. l \in 1..l
      BY <1>1, <2>1
    <3> QED
      BY <1>1, <1>2, <3>1 DEF Lined
  <2>3. l = n
    BY <1>1, <2>1, <2>2
  <2>4. m <= n - 1
    <3>1. CASE m = 0
      BY <1>1, <2>1, <3>1
    <3>2. CASE m > 0
      <4>1. m \in 1..m
        BY <3>2
      <4>2. m + 1 \in 1..n
        BY <1>1, <4>1 DEF Lined
      <4> QED
        BY <1>1, <4>2
    <3> QED
      BY <3>1, <3>2
  <2>5. m >= n - 1
    <3>1. CASE n = 1
      BY <3>1
    <3>2. CASE n > 1
      <4>1. n \in 1..n /\ n \in 2..(l + 1) /\ n \in 1..(n + 1)
        BY <1>1, <2>3, <3>2
      <4>2. s[n].type = "packet"
        BY <1>1, <1>2, <4>1 DEF Lined
      <4>3. n \in 2..(m + 1)
        BY <1>1, <4>1, <4>2 DEF Lined
      <4> QED
        BY <1>1, <4>3
    <3> QED
      BY <1>1, <2>1, <3>1, <3>2
  <2>6. l = m + 1
    BY <1>1, <2>3, <2>4, <2>5
  <2>7. Bodies(sf) = [k \in 1..l |-> Packet(k)]
    BY <1>2, BodiesLined
  <2> QED
    BY <1>3, <2>6, <2>7 DEF sf
<1>4. CASE f.type # "packet"
  <2> DEFINE t == <<f>>
  <2>1. t \in Seq(Frames) /\ \A i \in DOMAIN t : t[i].type # "packet"
    BY <1>4
  <2>2. Append(s, f) = s \o t
    OBVIOUS
  <2> HIDE DEF t
  <2>3. Lined(sf, m)
    BY <2>1, <2>2, LinedOthers DEF sf
  <2>4. Bodies(sf) = [k \in 1..m |-> Packet(k)] /\ Bodies(s) = [k \in 1..m |-> Packet(k)]
    BY <2>3, BodiesLined
  <2> QED
    BY <2>4 DEF sf
<1> QED
  BY <1>3, <1>4

-----------------------------------------------------------------------------
\* The pipe to the page

\* What went into it, and what came out.
Cut     == [k \in 1..(written \div PacketSize) |-> Packet(k)]
PipeUp  == ws = "open" /\ page = "open" /\ tcp = "up"

\* A step that neither puts nor gets a packet may make or break the connection.
LEMMA PageIdles ==
  ASSUME written' = written, Bodies(heard)' = Bodies(heard)
  PROVE  [ToPage!Next]_(ToPage!vars)
PROOF
<1>1. Cut' = Cut
  BY DEF Cut
<1>2. CASE PipeUp' = PipeUp
  BY <1>1, <1>2 DEF ToPage!vars, Cut, PipeUp
<1>3. CASE PipeUp' # PipeUp
  <2>1. PipeUp' = ~PipeUp
    <3>1. PipeUp \in BOOLEAN /\ PipeUp' \in BOOLEAN
      BY DEF PipeUp
    <3> QED
      BY <1>3, <3>1
  <2> QED
    BY <1>1, <2>1 DEF ToPage!Next, ToPage!ConnectOrBreak, Cut, PipeUp
<1> QED
  BY <1>2, <1>3

LEMMA PagePut ==
  ASSUME Relay, Relay', ServerWrites
  PROVE  [ToPage!Next]_(ToPage!vars)
PROOF
<1> DEFINE q == written \div PacketSize
<1>1. /\ written \in Nat /\ written' = written + 1 /\ written' \in 0..MaxUnits
      /\ MaxUnits \in Nat
  BY BridgeAssumption DEF ServerWrites, Relay
<1>2. UNCHANGED <<heard, ws, page, tcp>>
  BY DEF ServerWrites, webSocket
<1>3. Bodies(heard)' = Bodies(heard)
  BY <1>2
<1>4. /\ q \in Nat /\ written' \div PacketSize \in {q, q + 1}
      /\ written' \div PacketSize <= written'
  <2>1. written + 1 \in Nat
    BY <1>1
  <2> QED
    BY <1>1, <2>1, Quotients
<1>5. CASE written' \div PacketSize = q
  <2>1. Cut' = Cut
    BY <1>5 DEF Cut
  <2> QED
    BY <1>2, <1>3, <2>1 DEF ToPage!vars, Cut
<1>6. CASE written' \div PacketSize = q + 1
  <2> HIDE DEF q
  <2>1. q + 1 \in 1..MaxUnits
    BY <1>1, <1>4, <1>6
  <2>2. [k \in 1..(q + 1) |-> Packet(k)] = Append([k \in 1..q |-> Packet(k)], Packet(q + 1))
    BY <1>4
  <2>3. Cut' = Append(Cut, Packet(q + 1))
    BY <1>6, <2>2 DEF Cut, q
  <2>4. Packet(q + 1) \in {Packet(k) : k \in 1..MaxUnits}
    BY <2>1
  <2> QED
    BY <1>2, <1>3, <2>3, <2>4 DEF ToPage!Next, ToPage!Put, Cut
<1> QED
  BY <1>4, <1>5, <1>6

LEMMA PageGet ==
  ASSUME Relay, NEW c \in Nat, Continues(c), InLine(c), InLine(c)', PageReads
  PROVE  [ToPage!Next]_(ToPage!vars)
PROOF
<1>1. written' = written
  BY DEF PageReads, server
<1>2. CASE heard' = heard
  BY <1>1, <1>2, PageIdles
<1>3. CASE heard' # heard
  <2>1. page = "open" /\ heard' = Append(heard, Head(down))
    BY <1>3 DEF PageReads
  <2>2. heard \in Seq(Frames) /\ Head(down) \in Frames
    BY <2>1, SaidRead
  <2>3. PICK m \in 0..c : Lined(heard, m)
    BY DEF InLine
  <2>4. PICK l \in 0..c : Lined(heard', l)
    BY DEF InLine
  <2>5. m \in Nat /\ l \in Nat
    OBVIOUS
  <2>6. \/ Bodies(heard') = Bodies(heard)
        \/ /\ l = m + 1 /\ Head(down).type = "packet"
           /\ Bodies(heard') = [k \in 1..(m + 1) |-> Packet(k)]
    BY <2>1, <2>2, <2>3, <2>4, <2>5, LinedRead
  <2>7. CASE Bodies(heard') = Bodies(heard)
    BY <1>1, <2>7, PageIdles
  <2>8. CASE /\ l = m + 1 /\ Head(down).type = "packet"
             /\ Bodies(heard') = [k \in 1..(m + 1) |-> Packet(k)]
    <3> DEFINE q == written \div PacketSize
    <3>1. q \in Nat /\ c <= q
      <4>1. /\ c * PacketSize + Len(tcpBuffer) + Len(stream) <= written
            /\ c * PacketSize \in Nat /\ Len(tcpBuffer) \in Nat /\ Len(stream) \in Nat
            /\ written \in Nat
        BY BridgeAssumption, Products DEF Relay, Continues
      <4> DEFINE p == c * PacketSize
      <4> HIDE DEF p
      <4>2. p <= written
        BY <4>1 DEF p
      <4> QED
        BY <4>1, <4>2, Quotients DEF p
    <3> HIDE DEF q
    <3>2. m + 1 \in 1..q /\ m < q
      BY <2>5, <2>8, <3>1
    <3>3. Bodies(heard) = [k \in 1..m |-> Packet(k)]
      BY <2>3, <2>5, BodiesLined
    <3>4. Len(Bodies(heard)) = m
      BY <2>5, <3>3
    <3>5. Cut = [k \in 1..q |-> Packet(k)]
      BY DEF Cut, q
    <3>6. Len(Cut) = q /\ Cut[m + 1] = Packet(m + 1)
      BY <3>1, <3>2, <3>5
    <3>7. Bodies(heard') = Append(Bodies(heard), Cut[m + 1])
      <4>1. [k \in 1..(m + 1) |-> Packet(k)]
              = Append([k \in 1..m |-> Packet(k)], Packet(m + 1))
        BY <2>5
      <4> QED
        BY <2>8, <3>3, <3>6, <4>1
    <3>8. Cut' = Cut
      BY <1>1 DEF Cut
    <3>9. UNCHANGED <<ws, page, tcp>>
      BY <2>8 DEF PageReads
    <3> QED
      BY <3>2, <3>4, <3>6, <3>7, <3>8, <3>9 DEF ToPage!Next, ToPage!Get, Cut
  <2> QED
    BY <2>6, <2>7, <2>8
<1> QED
  BY <1>2, <1>3

LEMMA PageStep ==
  ASSUME RelayInv, RelayInv', Kinds, Upward, Talk, Carried, [Next]_vars
  PROVE  [ToPage!Next]_(ToPage!vars)
PROOF
<1>1. Relay /\ Relay'
  BY DEF RelayInv
<1>2. CASE ServerWrites
  BY <1>1, <1>2, PagePut
<1>3. CASE PageReads
  <2>1. PICK c \in Nat : Continues(c) /\ InLine(c)
    BY DEF Carried
  <2>2. InLine(c)'
    BY <1>1, <1>3, <2>1, LineRead
  <2> QED
    BY <1>1, <1>3, <2>1, <2>2, PageGet
<1>4. CASE ~ServerWrites /\ ~PageReads
  <2>1. written' = written /\ heard' = heard
    BY <1>4 DEF Next, Callbacks, Page, Server, Done, FirstMessage, NextMessage, CloseFrame,
      WsClosed, TcpConnected, TcpError, TcpData, TcpEnd, TcpClose, PageSends, PageCloses,
      PageVanishes, ServerReads, ServerCloses, vars, webSocket, server
  <2> QED
    BY <2>1, PageIdles
<1> QED
  BY <1>2, <1>3, <1>4

(***************************************************************************)
(* Every step of the bridge puts a packet into the pipe to the page, gets  *)
(* the next one out of it, makes or breaks the connection, or does none of *)
(* it: no packet is lost in the middle, however the server's stream is cut *)
(* (tcp.on("data"), sendWs, bridge.js:44-100).                             *)
(***************************************************************************)
THEOREM PageHasAPipe == Spec => ToPage!Safe
PROOF
<1>1. Init => RelayInv /\ Kinds /\ Upward /\ Talk /\ Carried /\ ToPage!Init
  <2> SUFFICES ASSUME Init PROVE Carried /\ ToPage!Init
    BY RelayInit, KindsInit, TalkInit
  <2>1. /\ heard = <<>> /\ down = <<>> /\ written = 0 /\ tcp = "new"
        /\ tcpBuffer = <<>> /\ stream = <<>>
    BY DEF Init
  <2>2. Said = <<>>
    BY <2>1 DEF Said
  <2>3. InLine(0)
    BY <2>1, <2>2, LinedNothing DEF InLine
  <2>4. Continues(0)
    BY RelayInit
  <2>5. Bodies(heard) = <<>>
    <3>1. Lined(heard, 0)
      BY <2>1, LinedNothing
    <3>2. Bodies(heard) = [k \in 1..0 |-> Packet(k)]
      BY <3>1, BodiesLined
    <3> QED
      BY <3>2
  <2>6. written \div PacketSize = 0
    BY <2>1, Quotients
  <2>7. Cut = <<>>
    BY <2>6 DEF Cut
  <2> QED
    BY <2>1, <2>3, <2>4, <2>5, <2>7 DEF Carried, ToPage!Init, Cut
<1>2. RelayInv /\ Kinds /\ Upward /\ Talk /\ Carried /\ [Next]_vars
        => /\ RelayInv' /\ Kinds' /\ Upward' /\ Talk' /\ Carried'
           /\ [ToPage!Next]_(ToPage!vars)
  BY RelayNext, KindsNext, TalkNext, CarriedNext, PageStep
<1> QED
  BY <1>1, <1>2, PTL DEF Spec, ToPage!Safe

-----------------------------------------------------------------------------
\* The pipe to the server

\* All that was written to the server, and may be read by it.
Given == served \o toServer

\* The page numbers its messages, and has read tcp_ok since the f-th.
Numbered(f) ==
  \A i \in DOMAIN asked :
    asked[i].type = "packet" /\ asked[i].n = i /\ (asked[i].told <=> i >= f)

\* q messages have been met by a handler, and the page's others wait in order; a
\* request to connect comes before them, a close frame after.
Waits(q) ==
  /\ q \in Int /\ q <= Len(asked)
  /\ IF handler = "first" THEN q = -1 ELSE q >= 0
  /\ \A i \in DOMAIN up :
       /\ up[i].type = "packet" => q + i \in DOMAIN asked /\ up[i] = asked[q + i]
       /\ up[i].type = "close" => i = Len(up)
  /\ page = "open" => Len(asked) = q + Len(up)

(***************************************************************************)
(* What was written to the server are the messages after the first a,      *)
(* without a gap; those a were dropped, before the page had read tcp_ok.   *)
(***************************************************************************)
Passed(a, f) ==
  /\ a \in Nat /\ f \in Nat /\ a < f /\ f <= Len(asked) + 1
  /\ Numbered(f) /\ (~told => f = Len(asked) + 1)
  /\ \A i \in DOMAIN Given : a + i \in DOMAIN asked /\ Given[i] = asked[a + i]
  /\ ws # "closed" => \E q : Waits(q) /\ (tcp = "up" => q = a + Len(Given))

\* Before the connection is made nothing was written and the page has no tcp_ok.
Early ==
  /\ tcp \in {"connecting", "up"} => handler = "relay"
  /\ tcp = "up" => tcpConnected
  /\ tcp \in {"new", "connecting"} =>
       /\ Given = <<>> /\ ~told
       /\ page = "open" => \A i \in DOMAIN Said : Said[i].type # "tcp_ok"

Onwards == Early /\ \E a, f : Passed(a, f)

LEMMA OnwardsInit == Init => Onwards
PROOF
<1> SUFFICES ASSUME Init PROVE Onwards
  OBVIOUS
<1>1. /\ ws = "open" /\ handler = "first" /\ tcp = "new" /\ told = FALSE /\ page = "open"
      /\ down = <<>> /\ asked = <<>> /\ heard = <<>> /\ toServer = <<>> /\ served = <<>>
  BY DEF Init
<1>2. PICK m : up = <<m>> /\ m.type \notin {"packet", "close"}
  BY DEF Init, Message
<1>3. /\ Given = <<>> /\ Said = <<>> /\ DOMAIN <<>> = {}
      /\ DOMAIN asked = {} /\ Len(asked) = 0 /\ Len(up) = 1 /\ \A i \in DOMAIN up : up[i] = m
  BY <1>1, <1>2 DEF Given, Said
<1>4. Waits(-1)
  BY <1>1, <1>2, <1>3 DEF Waits
<1>5. Passed(0, 1)
  BY <1>1, <1>3, <1>4 DEF Passed, Numbered
<1> QED
  BY <1>1, <1>3, <1>5 DEF Onwards, Early

\* What the bridge says besides tcp_ok.
LEMMA OtherWords ==
  ASSUME Relay, NEW t \in Seq(Frames), \A i \in DOMAIN t : t[i].type # "tcp_ok",
         \A i \in DOMAIN Said : Said[i].type # "tcp_ok",
         down' = sendWs(t), heard' = heard
  PROVE  \A i \in DOMAIN Said' : Said'[i].type # "tcp_ok"
PROOF
<1>1. Said \in Seq(Frames) /\ (Said' = Said \o t \/ Said' = Said)
  BY SaidGrows
<1> DEFINE r == Said
<1>2. \A i \in DOMAIN (r \o t) :
        (i \in DOMAIN r /\ (r \o t)[i] = r[i])
          \/ (i - Len(r) \in DOMAIN t /\ (r \o t)[i] = t[i - Len(r)])
  BY <1>1, JoinedFrames
<1> HIDE DEF r
<1>3. \A i \in DOMAIN (r \o t) : (r \o t)[i].type # "tcp_ok"
  BY <1>2 DEF r
<1> QED
  BY <1>1, <1>3 DEF r

LEMMA EndWords ==
  ASSUME Relay, SendAndClose(<<>>) \/ SendAndClose(<<Frame("error", <<>>)>>),
         \A i \in DOMAIN Said : Said[i].type # "tcp_ok", heard' = heard
  PROVE  \A i \in DOMAIN Said' : Said'[i].type # "tcp_ok"
PROOF
<1> DEFINE e == Frame("error", <<>>)
           c == Frame("close", <<>>)
<1>1. /\ e \in Frames /\ c \in Frames /\ e.type # "tcp_ok" /\ c.type # "tcp_ok"
  BY DEF Frame, Frames, FrameTypes
<1>2. down' = sendWs(Append(<<>>, c)) \/ down' = sendWs(Append(<<e>>, c))
  BY DEF SendAndClose
<1> HIDE DEF e, c
<1>3. /\ Append(<<>>, c) \in Seq(Frames)
      /\ \A i \in DOMAIN Append(<<>>, c) : Append(<<>>, c)[i].type # "tcp_ok"
  BY <1>1
<1>4. /\ Append(<<e>>, c) \in Seq(Frames)
      /\ \A i \in DOMAIN Append(<<e>>, c) : Append(<<e>>, c)[i].type # "tcp_ok"
  BY <1>1
<1> QED
  BY <1>2, <1>3, <1>4, OtherWords

LEMMA EarlyNext ==
  ASSUME RelayInv, Kinds, Upward, Early, [Next]_vars
  PROVE  Early'
PROOF
<1>1. Relay /\ Opening
  BY DEF RelayInv
<1>2. ASSUME UNCHANGED <<heard, down>> PROVE Said' = Said
  BY <1>2 DEF Said
<1>3. ASSUME UNCHANGED <<served, toServer>> PROVE Given' = Given
  BY <1>3 DEF Given
<1>4. CASE FirstMessage
  <2>1. tcp = "new" /\ Given' = Given /\ UNCHANGED <<heard, page, told>>
    BY <1>1, <1>3, <1>4 DEF FirstMessage, Opening, server
  <2>2. Said' = Said \/ SendAndClose(<<Frame("error", <<>>)>>)
    BY <1>2, <1>4, <2>1 DEF FirstMessage
  <2>3. page' = "open" => \A i \in DOMAIN Said' : Said'[i].type # "tcp_ok"
    BY <1>1, <2>1, <2>2, EndWords DEF Early
  <2>4. tcp' = "new" \/ (tcp' = "connecting" /\ handler' = "relay")
    BY <1>4, <2>1 DEF FirstMessage
  <2> QED
    BY <2>1, <2>3, <2>4 DEF Early
<1>5. CASE NextMessage
  <2>1. CASE tcp' = "destroyed"
    BY <2>1 DEF Early
  <2>2. CASE tcp' # "destroyed"
    <3>1. /\ UNCHANGED <<tcp, down, heard, told, page, handler, tcpConnected, served>>
          /\ tcp # "up" => toServer' = toServer
      BY <1>5, <2>2 DEF NextMessage, TcpBreaks
    <3>2. tcp # "up" => Given' = Given
      BY <3>1 DEF Given
    <3> QED
      BY <1>2, <3>1, <3>2 DEF Early
  <2> QED
    BY <2>1, <2>2
<1>6. CASE CloseFrame
  <2>1. /\ UNCHANGED <<tcp, heard, told, page, handler, tcpConnected>> /\ Given' = Given
        /\ SendAndClose(<<>>)
    BY <1>3, <1>6 DEF CloseFrame, server
  <2>2. ASSUME page = "open", tcp \in {"new", "connecting"}
        PROVE  \A i \in DOMAIN Said' : Said'[i].type # "tcp_ok"
    BY <1>1, <2>1, <2>2, EndWords DEF Early
  <2> QED
    BY <2>1, <2>2 DEF Early
<1>7. CASE WsClosed \/ TcpError \/ TcpClose
  BY <1>7 DEF WsClosed, TcpError, TcpBreaks, TcpClose, Early
<1>8. CASE TcpConnected
  BY <1>8 DEF TcpConnected, Early
<1>9. CASE TcpData \/ TcpEnd
  BY <1>9 DEF TcpData, TcpEnd, Early, webSocket
<1>10. CASE PageSends \/ PageCloses
  <2>1. UNCHANGED <<heard, down, served, toServer, tcp, told, handler, tcpConnected>>
    BY <1>10 DEF PageSends, PageCloses, server
  <2>2. page' = "open" => page = "open"
    BY <1>10 DEF PageSends, PageCloses
  <2> QED
    BY <1>2, <1>3, <2>1, <2>2 DEF Early
<1>11. CASE PageReads
  <2>1. /\ UNCHANGED <<served, toServer, tcp, handler, tcpConnected>>
        /\ page' = "open" => page = "open"
        /\ page # "open" /\ ~told => ~told'
    BY <1>11 DEF PageReads, server
  <2>2. ASSUME page = "open", tcp \in {"new", "connecting"} PROVE ~told'
    <3>1. down # <<>> /\ heard \in Seq(Frames) /\ down \in Seq(Frames)
      BY <1>1, <1>11 DEF PageReads, Relay
    <3>2. Len(heard) + 1 \in DOMAIN Said /\ Said[Len(heard) + 1] = Head(down)
      BY <3>1 DEF Said
    <3>3. Head(down).type # "tcp_ok" /\ ~told
      BY <2>2, <3>2 DEF Early
    <3> QED
      BY <1>11, <3>3 DEF PageReads
  <2>3. page = "open" => Said' = Said
    BY <1>1, <1>11, SaidRead
  <2> QED
    BY <1>3, <2>1, <2>2, <2>3 DEF Early
<1>12. CASE PageVanishes
  BY <1>3, <1>12 DEF PageVanishes, Early, server
<1>13. CASE ServerWrites \/ ServerCloses
  BY <1>2, <1>3, <1>13 DEF ServerWrites, ServerCloses, Early, webSocket
<1>14. CASE ServerReads
  <2>1. Given' = Given
    BY <1>14 DEF ServerReads, Given, Kinds
  <2> QED
    BY <1>2, <1>14, <2>1 DEF ServerReads, Early, webSocket
<1>15. CASE UNCHANGED vars
  BY <1>2, <1>3, <1>15 DEF vars, Early, webSocket, server
<1> QED
  BY <1>4, <1>5, <1>6, <1>7, <1>8, <1>9, <1>10, <1>11, <1>12, <1>13, <1>14, <1>15
     DEF Next, Callbacks, Page, Server, Done

LEMMA Appended ==
  ASSUME NEW S, NEW s \in Seq(S), NEW x \in S
  PROVE  /\ Append(s, x) \in Seq(S) /\ Len(s) \in Nat /\ DOMAIN s = 1..Len(s)
         /\ Len(Append(s, x)) = Len(s) + 1 /\ DOMAIN Append(s, x) = 1..(Len(s) + 1)
         /\ \A i \in 1..Len(s) : Append(s, x)[i] = s[i]
         /\ Append(s, x)[Len(s) + 1] = x
PROOF
  OBVIOUS

\* A message is met by one of its handlers.
LEMMA WaitsTaken ==
  ASSUME Kinds, Upward, NEW q, Waits(q), up # <<>>, Head(up).type # "close",
         up' = Tail(up), UNCHANGED <<asked, page>>, handler' # "first"
  PROVE  /\ Waits(q + 1)'
         /\ handler # "first" => q + 1 \in DOMAIN asked /\ Head(up) = asked[q + 1]
PROOF
<1>1. /\ up \in Seq(Messages) /\ Len(up) \in Nat /\ DOMAIN up = 1..Len(up)
      /\ asked \in Seq(Messages) /\ Len(asked) \in Nat /\ DOMAIN asked = 1..Len(asked)
  BY DEF Kinds
<1>2. /\ Head(up) = up[1] /\ 1 \in DOMAIN up /\ Head(up) \in Messages
      /\ \A i \in DOMAIN Tail(up) : i + 1 \in DOMAIN up /\ Tail(up)[i] = up[i + 1] /\ i >= 1
  BY <1>1, TakenFirst
<1>3. Len(up') = Len(up) - 1
  BY <1>1
<1>4. handler # "first" => q + 1 \in DOMAIN asked /\ Head(up) = asked[q + 1]
  <2> SUFFICES ASSUME handler # "first"
               PROVE  q + 1 \in DOMAIN asked /\ Head(up) = asked[q + 1]
    OBVIOUS
  <2>1. Head(up).type = "packet"
    BY <1>2 DEF Upward, Messages
  <2> QED
    BY <1>2, <2>1 DEF Waits
<1>5. q \in Int /\ q + 1 <= Len(asked) /\ q + 1 >= 0
  <2>1. q \in Int /\ (handler = "first" => q = -1) /\ (handler # "first" => q >= 0)
    BY DEF Waits
  <2>2. handler # "first" => q + 1 \in 1..Len(asked)
    BY <1>1, <1>4
  <2>3. handler # "first" => q + 1 <= Len(asked) /\ q + 1 >= 0
    BY <1>1, <2>1, <2>2
  <2>4. handler = "first" => q + 1 = 0
    BY <2>1
  <2> DEFINE n == Len(asked)
  <2>5. n \in Nat
    BY <1>1
  <2> HIDE DEF n
  <2>6. handler = "first" => q + 1 <= n /\ q + 1 >= 0
    BY <2>4, <2>5
  <2> QED
    BY <2>1, <2>3, <2>6 DEF n
<1>6. ASSUME NEW i \in DOMAIN up'
      PROVE  /\ up'[i].type = "packet" => (q + 1) + i \in DOMAIN asked
                                           /\ up'[i] = asked[(q + 1) + i]
             /\ up'[i].type = "close" => i = Len(up')
  <2>1. i + 1 \in DOMAIN up /\ up'[i] = up[i + 1] /\ i \in Int
    BY <1>1, <1>2
  <2>2. q + (i + 1) = (q + 1) + i
    BY <1>5, <2>1
  <2>3. up[i + 1].type = "packet" => q + (i + 1) \in DOMAIN asked
                                      /\ up[i + 1] = asked[q + (i + 1)]
    BY <2>1 DEF Waits
  <2>4. up[i + 1].type = "close" => i + 1 = Len(up)
    BY <2>1 DEF Waits
  <2>5. i + 1 = Len(up) => i = Len(up')
    BY <1>1, <1>3, <2>1
  <2> QED
    BY <2>1, <2>2, <2>3, <2>4, <2>5
<1>7. page = "open" => Len(asked) = (q + 1) + Len(up')
  <2>1. page = "open" => Len(asked) = q + Len(up)
    BY DEF Waits
  <2>2. q + Len(up) = (q + 1) + (Len(up) - 1)
    BY <1>1, <1>5
  <2> QED
    BY <1>3, <2>1, <2>2
<1>8. Waits(q + 1)'
  BY <1>5, <1>6, <1>7 DEF Waits
<1> QED
  BY <1>4, <1>8

\* The close frame is the last message.
LEMMA WaitsClosed ==
  ASSUME Kinds, Upward, NEW q, Waits(q), up # <<>>, Head(up).type = "close",
         up' = Tail(up), UNCHANGED <<asked, page, handler>>
  PROVE  Waits(q)'
PROOF
<1>1. /\ up \in Seq(Messages) /\ Len(up) \in Nat /\ Head(up) = up[1] /\ 1 \in DOMAIN up
  BY TakenFirst DEF Kinds
<1>2. Len(up) = 1 /\ page # "open"
  BY <1>1 DEF Waits, Upward
<1>3. up' = <<>>
  BY <1>1, <1>2
<1>4. DOMAIN up' = {}
  BY <1>3
<1> QED
  BY <1>2, <1>4 DEF Waits

\* The page says one thing more, a packet or that it is closing.
LEMMA WaitsMore ==
  ASSUME Kinds, Upward, NEW q, Waits(q), page = "open", NEW m \in Messages,
         up' = Append(up, m), handler' = handler,
         \/ m.type = "packet" /\ page' = page /\ asked' = Append(asked, m)
         \/ m.type = "close" /\ page' # "open" /\ asked' = asked
  PROVE  Waits(q)'
PROOF
<1>1. /\ up \in Seq(Messages) /\ Len(up) \in Nat /\ DOMAIN up = 1..Len(up)
      /\ asked \in Seq(Messages) /\ Len(asked) \in Nat /\ DOMAIN asked = 1..Len(asked)
  BY DEF Kinds
<1>2. /\ Len(up') = Len(up) + 1 /\ DOMAIN up' = 1..(Len(up) + 1)
      /\ \A i \in 1..Len(up) : up'[i] = up[i]
      /\ up'[Len(up) + 1] = m
  BY <1>1
<1>3. q \in Int /\ q <= Len(asked) /\ Len(asked) = q + Len(up)
  BY DEF Waits
<1> DEFINE more == Append(asked, m)
<1>m. /\ Len(more) = Len(asked) + 1 /\ DOMAIN more = 1..(Len(asked) + 1)
      /\ \A i \in 1..Len(asked) : more[i] = asked[i]
      /\ more[Len(asked) + 1] = m
  BY <1>1, Appended
<1> HIDE DEF more
<1>4. \A i \in DOMAIN up : up[i].type # "close"
  BY DEF Upward
<1>5. \A i \in DOMAIN asked : i \in DOMAIN asked' /\ asked'[i] = asked[i]
  <2>1. CASE asked' = asked
    BY <2>1
  <2>2. CASE asked' = more
    <3>1. \A i \in 1..Len(asked) : i \in 1..(Len(asked) + 1)
      BY <1>1
    <3> QED
      BY <1>1, <1>m, <2>2, <3>1
  <2> QED
    BY <2>1, <2>2 DEF more
<1>6. m.type = "packet" => /\ q + (Len(up) + 1) \in DOMAIN asked'
                           /\ asked'[q + (Len(up) + 1)] = m
                           /\ Len(asked') = q + Len(up')
  <2> SUFFICES ASSUME asked' = more
               PROVE  /\ q + (Len(up) + 1) \in DOMAIN asked'
                      /\ asked'[q + (Len(up) + 1)] = m
                      /\ Len(asked') = q + Len(up')
    BY DEF more
  <2>1. /\ Len(asked') = Len(asked) + 1 /\ DOMAIN asked' = 1..(Len(asked) + 1)
        /\ asked'[Len(asked) + 1] = m
    BY <1>m
  <2>2. q + (Len(up) + 1) = Len(asked) + 1 /\ Len(asked) + 1 \in 1..(Len(asked) + 1)
    BY <1>1, <1>3
  <2> QED
    BY <1>1, <1>2, <1>3, <2>1, <2>2
<1>7. Len(asked') \in Nat /\ q <= Len(asked')
  BY <1>1, <1>3
<1>8. ASSUME NEW i \in DOMAIN up'
      PROVE  /\ up'[i].type = "packet" => q + i \in DOMAIN asked' /\ up'[i] = asked'[q + i]
             /\ up'[i].type = "close" => i = Len(up')
  <2>1. CASE i \in 1..Len(up)
    BY <1>1, <1>2, <1>4, <1>5, <2>1 DEF Waits
  <2>2. CASE i = Len(up) + 1
    BY <1>2, <1>6, <2>2
  <2> QED
    BY <1>1, <1>2, <2>1, <2>2
<1>9. page' = "open" => Len(asked') = q + Len(up')
  BY <1>6
<1> QED
  BY <1>3, <1>7, <1>8, <1>9 DEF Waits

\* Nothing is said, and nothing met by a handler.
LEMMA WaitsSame ==
  ASSUME NEW q, Waits(q), UNCHANGED <<up, asked, handler>>,
         page' = page \/ page' # "open"
  PROVE  Waits(q)'
PROOF
  BY DEF Waits

LEMMA PassedOn ==
  ASSUME NEW a, NEW f, Passed(a, f), asked' = asked, told => told',
         \A i \in DOMAIN Given' : a + i \in DOMAIN asked /\ Given'[i] = asked[a + i],
         ws' # "closed" => \E q : Waits(q)' /\ (tcp' = "up" => q = a + Len(Given'))
  PROVE  Passed(a, f)'
PROOF
  BY DEF Passed, Numbered

\* Nothing is written to the server.
LEMMA PassedKept ==
  ASSUME NEW a, NEW f, Passed(a, f), asked' = asked, told => told', Given' = Given,
         ws' # "closed" => ws # "closed" /\ \A q : Waits(q) => Waits(q)',
         tcp' = "up" => tcp = "up"
  PROVE  Passed(a, f)'
PROOF
<1>1. \A i \in DOMAIN Given' : a + i \in DOMAIN asked /\ Given'[i] = asked[a + i]
  BY DEF Passed
<1>2. ASSUME ws' # "closed"
      PROVE  \E q : Waits(q)' /\ (tcp' = "up" => q = a + Len(Given'))
  <2>1. PICK q : Waits(q) /\ (tcp = "up" => q = a + Len(Given))
    BY <1>2 DEF Passed
  <2> QED
    BY <1>2, <2>1
<1> QED
  BY <1>1, <1>2, PassedOn

\* A message is written to the server as long as the connection is up.
LEMMA PassedNext ==
  ASSUME Kinds, Upward, Early, NEW a, NEW f, Passed(a, f), NextMessage
  PROVE  Passed(a, f)'
PROOF
<1>1. /\ handler # "first" /\ ws # "closed" /\ up # <<>> /\ Head(up).type # "close"
      /\ up' = Tail(up) /\ UNCHANGED <<handler, page, told, asked, served>>
  BY DEF NextMessage
<1>2. PICK q : Waits(q) /\ (tcp = "up" => q = a + Len(Given))
  BY <1>1 DEF Passed
<1>3. Waits(q + 1)' /\ q + 1 \in DOMAIN asked /\ Head(up) = asked[q + 1]
  BY <1>1, <1>2, WaitsTaken
<1>4. \/ toServer' = toServer /\ tcp' # "up"
      \/ toServer' = Append(toServer, Head(up)) /\ tcp = "up"
  BY DEF NextMessage, TcpBreaks, Early
<1>5. CASE toServer' = toServer /\ tcp' # "up"
  <2>1. Given' = Given
    BY <1>1, <1>5 DEF Given
  <2>2. \A i \in DOMAIN Given' : a + i \in DOMAIN asked /\ Given'[i] = asked[a + i]
    BY <2>1 DEF Passed
  <2> QED
    BY <1>1, <1>3, <1>5, <2>2, PassedOn
<1>6. CASE toServer' = Append(toServer, Head(up)) /\ tcp = "up"
  <2>1. /\ served \in Seq(Messages) /\ toServer \in Seq(Messages) /\ Head(up) \in Messages
    <3>1. Requests \subseteq Messages
      BY DEF Requests
    <3>2. Head(up) \in Messages
      BY <1>1, TakenFirst DEF Kinds
    <3> QED
      BY <3>1, <3>2 DEF Kinds
  <2>2. Given \in Seq(Messages) /\ Given' = Append(Given, Head(up))
    BY <1>1, <1>6, <2>1 DEF Given
  <2>3. /\ Len(Given) \in Nat /\ DOMAIN Given = 1..Len(Given)
        /\ Len(Given') = Len(Given) + 1 /\ DOMAIN Given' = 1..(Len(Given) + 1)
        /\ \A i \in 1..Len(Given) : Given'[i] = Given[i]
        /\ Given'[Len(Given) + 1] = Head(up)
    BY <2>1, <2>2, Appended
  <2>4. a \in Nat /\ q = a + Len(Given)
    BY <1>2, <1>6 DEF Passed
  <2>5. q + 1 = a + (Len(Given) + 1) /\ q + 1 = a + Len(Given')
    BY <2>3, <2>4
  <2>6. ASSUME NEW i \in DOMAIN Given'
        PROVE  a + i \in DOMAIN asked /\ Given'[i] = asked[a + i]
    <3>1. CASE i \in 1..Len(Given)
      BY <2>3, <3>1 DEF Passed
    <3>2. CASE i = Len(Given) + 1
      BY <1>3, <2>3, <2>5, <3>2
    <3> QED
      BY <2>3, <3>1, <3>2
  <2> QED
    BY <1>1, <1>3, <2>5, <2>6, PassedOn
<1> QED
  BY <1>4, <1>5, <1>6

\* What the page says from now on is written to the server.
LEMMA PassedConnected ==
  ASSUME Kinds, Early, NEW a, NEW f, Passed(a, f), TcpConnected
  PROVE  \E b : Passed(b, f)'
PROOF
<1>1. /\ tcp = "connecting" /\ handler = "relay" /\ Given = <<>> /\ ~told
      /\ UNCHANGED <<ws, handler, page, told, up, asked, toServer, served>>
  BY DEF TcpConnected, Early
<1>2. Given' = <<>> /\ DOMAIN Given' = {} /\ Len(Given') = 0
  <2>1. Given' = <<>>
    BY <1>1 DEF Given
  <2>2. DOMAIN <<>> = {} /\ Len(<<>>) = 0
    OBVIOUS
  <2> QED
    BY <2>1, <2>2
<1>3. \A q : Waits(q) => Waits(q)'
  BY <1>1, WaitsSame
<1>4. CASE ws = "closed"
  <2>1. \A i \in DOMAIN Given' : a + i \in DOMAIN asked /\ Given'[i] = asked[a + i]
    BY <1>2
  <2> QED
    BY <1>1, <1>4, <2>1, PassedOn
<1>5. CASE ws # "closed"
  <2>1. PICK q : Waits(q)
    BY <1>5 DEF Passed
  <2>2. q \in Nat /\ q <= Len(asked) /\ f = Len(asked) + 1 /\ Len(asked) \in Nat
    <3>1. Len(asked) \in Nat
      BY DEF Kinds
    <3> QED
      BY <1>1, <2>1, <3>1 DEF Waits, Passed
  <2>3. q < f /\ q = q + Len(Given')
    BY <1>2, <2>2
  <2>4. Waits(q)'
    BY <1>3, <2>1
  <2>5. Passed(q, f)'
    BY <1>1, <1>2, <2>2, <2>3, <2>4 DEF Passed, Numbered
  <2> QED
    BY <2>5
<1> QED
  BY <1>4, <1>5

\* A message says whether the page had read tcp_ok when it sent it.
LEMMA PassedSent ==
  ASSUME Kinds, Upward, NEW a, NEW f, Passed(a, f), PageSends
  PROVE  /\ Len(asked) \in Nat
         /\ asked' = Append(asked, Message("packet", Len(asked) + 1, told))
         /\ told => Passed(a, f)'
         /\ ~told => Passed(a, f + 1)'
PROOF
<1> DEFINE n == Len(asked)
           m == Message("packet", n + 1, told)
<1>g. PICK g : g = IF told THEN f ELSE f + 1
  OBVIOUS
<1>1. n \in Nat /\ asked \in Seq(Messages) /\ told \in BOOLEAN /\ DOMAIN asked = 1..n
  BY DEF Kinds
<1>2. /\ page = "open" /\ asked' = Append(asked, m) /\ up' = Append(up, m)
      /\ UNCHANGED <<handler, tcp, ws, page, told, toServer, served>>
  BY DEF PageSends, server
<1>3. m \in Messages /\ m.type = "packet" /\ m.n = n + 1 /\ m.told = told
  BY <1>1 DEF Message, Messages
<1> HIDE DEF m
<1>4. /\ Len(asked') = n + 1 /\ DOMAIN asked' = 1..(n + 1)
      /\ \A i \in 1..n : asked'[i] = asked[i]
      /\ asked'[n + 1] = m
  BY <1>1, <1>2, <1>3, Appended
<1>5. Given' = Given
  BY <1>2 DEF Given
<1>6. \A q : Waits(q) => Waits(q)'
  BY <1>2, <1>3, WaitsMore
<1> HIDE DEF n
<1>7. /\ a \in Nat /\ f \in Nat /\ a < f /\ f <= n + 1 /\ (~told => f = n + 1)
      /\ \A i \in 1..n : asked[i].type = "packet" /\ asked[i].n = i
                           /\ (asked[i].told <=> i >= f)
  BY <1>1 DEF Passed, Numbered, n
<1>8. g \in Nat /\ a < g /\ g <= (n + 1) + 1 /\ (~told => g = (n + 1) + 1)
  BY <1>1, <1>7, <1>g
<1>9. Numbered(g)'
  <2>1. ASSUME NEW i \in 1..(n + 1)
        PROVE  asked'[i].type = "packet" /\ asked'[i].n = i /\ (asked'[i].told <=> i >= g)
    <3>1. CASE i \in 1..n
      <4>1. i >= f <=> i >= g
        BY <1>1, <1>7, <1>g, <3>1
      <4> QED
        BY <1>4, <1>7, <3>1, <4>1
    <3>2. CASE i = n + 1
      <4>1. told <=> n + 1 >= g
        BY <1>1, <1>7, <1>g
      <4> QED
        BY <1>3, <1>4, <3>2, <4>1
    <3> QED
      BY <1>1, <3>1, <3>2
  <2> QED
    BY <1>4, <2>1 DEF Numbered
<1>10. ASSUME NEW i \in DOMAIN Given'
       PROVE  a + i \in DOMAIN asked' /\ Given'[i] = asked'[a + i]
  <2>1. a + i \in 1..n /\ Given[i] = asked[a + i]
    BY <1>1, <1>5, <1>10 DEF Passed
  <2>2. a + i \in 1..(n + 1)
    BY <1>1, <2>1
  <2> QED
    BY <1>4, <1>5, <2>1, <2>2
<1>11. ws' # "closed" => \E q : Waits(q)' /\ (tcp' = "up" => q = a + Len(Given'))
  BY <1>2, <1>5, <1>6 DEF Passed
<1>12. Passed(a, g)'
  BY <1>2, <1>4, <1>7, <1>8, <1>9, <1>10, <1>11 DEF Passed
<1>13. (told => g = f) /\ (~told => g = f + 1)
  BY <1>g
<1> QED
  BY <1>1, <1>2, <1>12, <1>13 DEF n, m

\* The server reads what was written to it.
LEMMA PassedRead ==
  ASSUME Kinds, NEW a, NEW f, Passed(a, f), ServerReads
  PROVE  Passed(a, f)'
PROOF
<1>1. UNCHANGED <<asked, up, handler, tcp, ws, told, page>>
  BY DEF ServerReads, webSocket
<1>2. Given' = Given
  BY DEF ServerReads, Given, Kinds
<1>3. \A q : Waits(q) => Waits(q)'
  BY <1>1, WaitsSame
<1> QED
  BY <1>1, <1>2, <1>3, PassedKept

LEMMA OnwardsNext ==
  ASSUME RelayInv, Kinds, Upward, Onwards, [Next]_vars
  PROVE  Onwards'
PROOF
<1>1. Early /\ Early'
  BY EarlyNext DEF Onwards
<1>2. PICK a, f : Passed(a, f)
  BY DEF Onwards
<1>3. SUFFICES \E b, g : Passed(b, g)'
  BY <1>1 DEF Onwards
<1>4. ASSUME UNCHANGED <<served, toServer>> PROVE Given' = Given
  BY <1>4 DEF Given
<1>5. CASE FirstMessage
  <2>1. /\ up # <<>> /\ Head(up).type # "close" /\ up' = Tail(up) /\ handler' # "first"
        /\ UNCHANGED <<asked, page, told, served, toServer>> /\ ws # "closed"
    BY <1>5 DEF FirstMessage, server
  <2>2. PICK q : Waits(q)
    BY <1>2, <2>1 DEF Passed
  <2>3. Waits(q + 1)'
    BY <2>1, <2>2, WaitsTaken
  <2>4. tcp' # "up"
    BY <1>5 DEF FirstMessage, RelayInv, Opening
  <2>5. \A i \in DOMAIN Given' : a + i \in DOMAIN asked /\ Given'[i] = asked[a + i]
    BY <1>2, <1>4, <2>1 DEF Passed
  <2>6. Passed(a, f)'
    BY <1>2, <2>1, <2>3, <2>4, <2>5, PassedOn
  <2> QED
    BY <2>6
<1>6. CASE NextMessage
  BY <1>1, <1>2, <1>6, PassedNext
<1>7. CASE CloseFrame
  <2>1. /\ up # <<>> /\ Head(up).type = "close" /\ up' = Tail(up)
        /\ UNCHANGED <<asked, page, told, handler, tcp, served, toServer>> /\ ws # "closed"
    BY <1>7 DEF CloseFrame, server
  <2>2. \A q : Waits(q) => Waits(q)'
    BY <2>1, WaitsClosed
  <2>3. Passed(a, f)'
    BY <1>2, <1>4, <2>1, <2>2, PassedKept
  <2> QED
    BY <2>3
<1>8. CASE WsClosed
  <2>1. ws' = "closed" /\ tcp' # "up" /\ UNCHANGED <<asked, told, served, toServer>>
    BY <1>8 DEF WsClosed, server
  <2>2. Passed(a, f)'
    BY <1>2, <1>4, <2>1, PassedKept
  <2> QED
    BY <2>2
<1>9. CASE TcpConnected
  BY <1>1, <1>2, <1>9, PassedConnected
<1>10. CASE PageSends
  BY <1>2, <1>10, PassedSent
<1>11. CASE PageReads
  <2>1. /\ UNCHANGED <<asked, handler, tcp, ws, served, toServer>> /\ (told => told')
        /\ \/ UNCHANGED <<page, up>>
           \/ page' # "open" /\ up' = up
           \/ page = "open" /\ page' # "open" /\ up' = Append(up, Message("close", 0, FALSE))
    BY <1>11 DEF PageReads, server
  <2>2. \A q : Waits(q) => Waits(q)'
    BY <2>1, WaitsMore, WaitsSame, MessageTypes
  <2>3. Passed(a, f)'
    BY <1>2, <1>4, <2>1, <2>2, PassedKept
  <2> QED
    BY <2>3
<1>12. CASE PageCloses
  <2>1. /\ UNCHANGED <<asked, handler, tcp, ws, told, served, toServer>>
        /\ page = "open" /\ page' # "open" /\ up' = Append(up, Message("close", 0, FALSE))
    BY <1>12 DEF PageCloses, server
  <2>2. \A q : Waits(q) => Waits(q)'
    BY <2>1, WaitsMore, MessageTypes
  <2>3. Passed(a, f)'
    BY <1>2, <1>4, <2>1, <2>2, PassedKept
  <2> QED
    BY <2>3
<1>13. CASE ServerReads
  BY <1>2, <1>13, PassedRead
<1>14. CASE TcpError \/ TcpData \/ TcpEnd \/ TcpClose \/ PageVanishes \/ ServerWrites
              \/ ServerCloses \/ UNCHANGED vars
  <2>1. /\ UNCHANGED <<asked, up, handler, told, served, toServer>>
        /\ page' = page \/ page' # "open"
        /\ ws' # "closed" => ws # "closed"
        /\ tcp' = "up" => tcp = "up"
    BY <1>14 DEF TcpError, TcpBreaks, SendAndClose, TcpData, TcpEnd, TcpClose, PageVanishes,
      ServerWrites, ServerCloses, vars, webSocket, server
  <2>2. \A q : Waits(q) => Waits(q)'
    BY <2>1, WaitsSame
  <2>3. Passed(a, f)'
    BY <1>2, <1>4, <2>1, <2>2, PassedKept
  <2> QED
    BY <2>3
<1> QED
  BY <1>5, <1>6, <1>7, <1>8, <1>9, <1>10, <1>11, <1>12, <1>13, <1>14
     DEF Next, Callbacks, Page, Server, Done

\* What the page sent, and what of it the server has read.
LEMMA PassedTold ==
  ASSUME Kinds, NEW a, NEW f, Passed(a, f)
  PROVE  /\ Numbers(asked)  = [k \in 1..(Len(asked) - f + 1) |-> f + k - 1]
         /\ Numbers(served) = [k \in 1..(a + Len(served) - f + 1) |-> f + k - 1]
         /\ ToldFrom(asked, Len(asked), f, 0)
         /\ ToldFrom(served, Len(served), f - a, a)
         /\ a + Len(served) <= Len(asked)
PROOF
<1> DEFINE n == Len(asked)
           l == Len(served)
<1>1. /\ n \in Nat /\ DOMAIN asked = 1..n /\ l \in Nat /\ DOMAIN served = 1..l
      /\ served \in Seq(Requests) /\ toServer \in Seq(Requests)
  BY DEF Kinds
<1>2. /\ a \in Nat /\ f \in Nat /\ a < f /\ f <= n + 1
      /\ \A i \in 1..n : asked[i].n = i /\ (asked[i].told <=> i >= f)
  BY <1>1 DEF Passed, Numbered
<1>3. \A i \in 1..l : i \in DOMAIN Given /\ Given[i] = served[i]
  BY <1>1 DEF Given
<1>4. \A i \in 1..l : a + i \in 1..n /\ served[i] = asked[a + i]
  BY <1>1, <1>3 DEF Passed
<1> HIDE DEF n, l
<1>5. ToldFrom(asked, n, f, 0)
  <2>1. \A i \in 1..n : asked[i].n = 0 + i /\ (asked[i].told <=> i >= f)
    BY <1>1, <1>2
  <2>2. f \in Nat \ {0}
    BY <1>2
  <2> QED
    BY <1>1, <2>1, <2>2 DEF ToldFrom
<1>6. ToldFrom(served, l, f - a, a)
  <2>1. \A i \in 1..l : served[i].n = a + i /\ (served[i].told <=> i >= f - a)
    <3> TAKE i \in 1..l
    <3>1. served[i].n = a + i /\ (served[i].told <=> a + i >= f)
      BY <1>2, <1>4
    <3>2. a + i >= f <=> i >= f - a
      BY <1>1, <1>2
    <3> QED
      BY <3>1, <3>2
  <2>2. f - a \in Nat \ {0}
    BY <1>2
  <2> QED
    BY <1>1, <1>2, <2>1, <2>2 DEF ToldFrom
<1>7. a + l <= n
  <2>1. CASE l = 0
    <3>1. n >= a
      BY <1>1, <1>2
    <3> QED
      BY <1>1, <1>2, <2>1, <3>1
  <2>2. CASE l # 0
    <3>1. l \in 1..l
      BY <1>1, <2>2
    <3> QED
      BY <1>1, <1>2, <1>4, <3>1
  <2> QED
    BY <2>1, <2>2
<1>8. Numbers(asked) = [k \in 1..(n - f + 1) |-> f + k - 1]
  <2>1. Numbers(asked) = [k \in 1..(n - f + 1) |-> 0 + f + k - 1]
    BY <1>5, NumbersFrom
  <2>2. 0 + f = f
    BY <1>2
  <2> QED
    BY <2>1, <2>2
<1>9. Numbers(served) = [k \in 1..(a + l - f + 1) |-> f + k - 1]
  <2>1. Numbers(served) = [k \in 1..(l - (f - a) + 1) |-> a + (f - a) + k - 1]
    BY <1>6, NumbersFrom
  <2>2. a + (f - a) = f /\ l - (f - a) + 1 = a + l - f + 1
    BY <1>1, <1>2
  <2> QED
    BY <2>1, <2>2
<1> QED
  BY <1>5, <1>6, <1>7, <1>8, <1>9 DEF n, l

\* The next message, told or not.
LEMMA ToldMore ==
  ASSUME NEW s \in Seq(Messages), NEW p, NEW o, ToldFrom(s, Len(s), p, o),
         NEW m \in Messages, m.n = o + (Len(s) + 1), m.told <=> Len(s) + 1 >= p
  PROVE  ToldFrom(Append(s, m), Len(s) + 1, p, o)
PROOF
<1> DEFINE l == Len(s)
           t == Append(s, m)
<1>1. /\ l \in Nat /\ DOMAIN t = 1..(l + 1) /\ \A i \in 1..l : t[i] = s[i]
      /\ t[l + 1] = m
  BY Appended
<1> HIDE DEF l, t
<1>2. /\ p \in Nat \ {0} /\ o \in Nat
      /\ \A i \in 1..l : s[i].n = o + i /\ (s[i].told <=> i >= p)
  BY DEF ToldFrom, l
<1>3. m.n = o + (l + 1) /\ (m.told <=> l + 1 >= p)
  BY DEF l
<1>4. ASSUME NEW i \in 1..(l + 1) PROVE t[i].n = o + i /\ (t[i].told <=> i >= p)
  <2>1. CASE i \in 1..l
    BY <1>1, <1>2, <2>1
  <2>2. CASE i = l + 1
    BY <1>1, <1>3, <2>2
  <2> QED
    BY <1>1, <2>1, <2>2
<1>5. l + 1 \in Nat
  BY <1>1
<1>6. ToldFrom(t, l + 1, p, o)
  BY <1>1, <1>2, <1>4, <1>5 DEF ToldFrom
<1> QED
  BY <1>6 DEF t, l

ServerPipeUp == ws = "open" /\ page = "open" /\ tcp = "up" /\ peer = "up"

LEMMA ServerIdles ==
  ASSUME Numbers(asked)' = Numbers(asked), Numbers(served)' = Numbers(served)
  PROVE  [ToServer!Next]_(ToServer!vars)
PROOF
<1>1. CASE ServerPipeUp' = ServerPipeUp
  BY <1>1 DEF ToServer!vars, ServerPipeUp
<1>2. CASE ServerPipeUp' # ServerPipeUp
  <2>1. ServerPipeUp' = ~ServerPipeUp
    <3>1. ServerPipeUp \in BOOLEAN /\ ServerPipeUp' \in BOOLEAN
      BY DEF ServerPipeUp
    <3> QED
      BY <1>2, <3>1
  <2> QED
    BY <2>1 DEF ToServer!Next, ToServer!ConnectOrBreak, ServerPipeUp
<1> QED
  BY <1>1, <1>2

\* One element more.
LEMMA OneMore ==
  ASSUME NEW x \in Nat, NEW f \in Nat
  PROVE  /\ Len([k \in 1..x |-> f + k - 1]) = x
         /\ [k \in 1..(x + 1) |-> f + k - 1] = Append([k \in 1..x |-> f + k - 1], f + x)
PROOF
<1>1. f + (x + 1) - 1 = f + x
  OBVIOUS
<1> QED
  BY <1>1

\* A message that the page may rely on is put in, an earlier one is not.
LEMMA ServerPut ==
  ASSUME Kinds, NEW a, NEW f, Passed(a, f), PageSends
  PROVE  [ToServer!Next]_(ToServer!vars)
PROOF
<1> DEFINE n == Len(asked)
           m == Message("packet", n + 1, told)
<1>1. /\ n \in Nat /\ asked \in Seq(Messages) /\ told \in BOOLEAN
      /\ n < MaxMessages /\ MaxMessages \in Nat /\ asked' = Append(asked, m)
  BY BridgeAssumption DEF Kinds, PageSends
<1>2. m \in Messages /\ m.n = 0 + (n + 1) /\ m.told = told
  BY <1>1 DEF Message, Messages
<1>3. UNCHANGED <<ws, page, tcp, peer, served>>
  BY DEF PageSends, server
<1>4. Numbers(served)' = Numbers(served)
  BY <1>3
<1>5. /\ f \in Nat /\ f <= n + 1 /\ (~told => f = n + 1)
      /\ ToldFrom(asked, n, f, 0)
      /\ Numbers(asked) = [k \in 1..(n - f + 1) |-> f + k - 1]
  BY PassedTold DEF Passed
<1>6. CASE told
  <2>1. m.told <=> n + 1 >= f
    BY <1>1, <1>2, <1>5, <1>6
  <2> HIDE DEF m
  <2>2. ToldFrom(asked', n + 1, f, 0)
    BY <1>1, <1>2, <1>5, <2>1, ToldMore
  <2> HIDE DEF n
  <2>3. Numbers(asked') = [k \in 1..((n + 1) - f + 1) |-> 0 + f + k - 1]
    BY <2>2, NumbersFrom
  <2>4. /\ n - f + 1 \in Nat /\ (n + 1) - f + 1 = (n - f + 1) + 1 /\ 0 + f = f
        /\ f + (n - f + 1) = n + 1 /\ n + 1 \in 1..MaxMessages
    BY <1>1, <1>5
  <2>5. Numbers(asked') = Append(Numbers(asked), n + 1)
    BY <1>5, <2>3, <2>4, OneMore
  <2> QED
    BY <1>3, <1>4, <2>4, <2>5 DEF ToServer!Next, ToServer!Put
<1>7. CASE ~told
  <2>1. ~m.told /\ f = n + 1
    BY <1>2, <1>5, <1>7
  <2> HIDE DEF m
  <2>2. ToldFrom(asked, n, f + 1, 0) /\ (m.told <=> n + 1 >= f + 1)
    BY <1>1, <1>5, <2>1 DEF ToldFrom
  <2>3. ToldFrom(asked', n + 1, f + 1, 0)
    BY <1>1, <1>2, <2>2, ToldMore
  <2> HIDE DEF n
  <2>4. Numbers(asked') = [k \in 1..((n + 1) - (f + 1) + 1) |-> 0 + (f + 1) + k - 1]
    BY <2>3, NumbersFrom
  <2>5. n - f + 1 = 0 /\ (n + 1) - (f + 1) + 1 = 0 /\ 1..0 = {}
    BY <1>1, <2>1
  <2>6. Numbers(asked) = <<>> /\ Numbers(asked)' = <<>>
    BY <1>5, <2>4, <2>5
  <2> QED
    BY <1>4, <2>6, ServerIdles
<1> QED
  BY <1>1, <1>6, <1>7

\* The server gets the next message, unless it is one the page sent too early.
LEMMA ServerGet ==
  ASSUME Kinds, NEW a, NEW f, Passed(a, f), ServerReads
  PROVE  [ToServer!Next]_(ToServer!vars)
PROOF
<1> DEFINE n == Len(asked)
           l == Len(served)
           m == Head(toServer)
<1>1. /\ n \in Nat /\ l \in Nat /\ served \in Seq(Requests) /\ toServer \in Seq(Requests)
      /\ toServer # <<>> /\ served' = Append(served, m) /\ toServer' = Tail(toServer)
  BY DEF Kinds, ServerReads
<1>2. UNCHANGED <<asked, ws, page, tcp, peer>>
  BY DEF ServerReads, webSocket
<1>3. Numbers(asked)' = Numbers(asked)
  BY <1>2
<1>4. m \in Messages /\ served \in Seq(Messages)
  <2>1. m \in Requests /\ Requests \subseteq Messages
    BY <1>1, TakenFirst DEF Requests
  <2> QED
    BY <1>1, <2>1
<1>5. l + 1 \in DOMAIN Given /\ Given[l + 1] = m
  BY <1>1 DEF Given
<1> HIDE DEF m
<1>6. /\ a \in Nat /\ f \in Nat /\ a < f
      /\ a + (l + 1) \in 1..n /\ m = asked[a + (l + 1)]
  BY <1>1, <1>5 DEF Passed, Kinds
<1>7. /\ ToldFrom(asked, n, f, 0) /\ ToldFrom(served, l, f - a, a)
      /\ Numbers(asked) = [k \in 1..(n - f + 1) |-> f + k - 1]
      /\ Numbers(served) = [k \in 1..(a + l - f + 1) |-> f + k - 1]
  BY PassedTold
<1>8. m.n = a + (l + 1) /\ (m.told <=> l + 1 >= f - a)
  <2>1. m.n = 0 + (a + (l + 1)) /\ (m.told <=> a + (l + 1) >= f)
    BY <1>6, <1>7 DEF ToldFrom
  <2>2. a + (l + 1) >= f <=> l + 1 >= f - a
    BY <1>1, <1>6
  <2> QED
    BY <1>1, <1>6, <2>1, <2>2
<1>9. ToldFrom(served', l + 1, f - a, a)
  BY <1>1, <1>4, <1>7, <1>8, ToldMore
<1> HIDE DEF l, n
<1>10. Numbers(served') = [k \in 1..((l + 1) - (f - a) + 1) |-> a + (f - a) + k - 1]
  BY <1>9, NumbersFrom
<1> DEFINE y == a + l - f + 1
<1>11. /\ (l + 1) - (f - a) + 1 = y + 1 /\ a + (f - a) = f
       /\ y \in Int /\ f + y = a + l + 1 /\ y + 1 <= n - f + 1
  BY <1>1, <1>6
<1>12. /\ Numbers(served') = [k \in 1..(y + 1) |-> f + k - 1]
       /\ Numbers(served) = [k \in 1..y |-> f + k - 1]
  BY <1>7, <1>10, <1>11
<1> HIDE DEF y
<1>13. CASE y < 0
  <2>1. 1..y = {} /\ 1..(y + 1) = {}
    BY <1>11, <1>13
  <2>2. Numbers(served)' = Numbers(served)
    BY <1>12, <2>1
  <2> QED
    BY <1>3, <2>2, ServerIdles
<1>14. CASE y >= 0
  <2>1. y \in Nat /\ n - f + 1 \in Nat /\ y + 1 \in 1..(n - f + 1)
    BY <1>1, <1>6, <1>11, <1>14
  <2>2. /\ Len(Numbers(served)) = y
        /\ Numbers(served') = Append(Numbers(served), f + y)
    BY <1>6, <1>12, <2>1, OneMore
  <2>3. Len(Numbers(asked)) = n - f + 1
    BY <1>6, <1>7, <2>1, OneMore
  <2>4. Numbers(asked)[y + 1] = f + y
    BY <1>6, <1>7, <2>1
  <2>5. y < n - f + 1
    BY <2>1
  <2> QED
    BY <1>2, <1>3, <2>2, <2>3, <2>4, <2>5 DEF ToServer!Next, ToServer!Get
<1> QED
  BY <1>11, <1>13, <1>14

LEMMA ServerStep ==
  ASSUME Kinds, Onwards, [Next]_vars
  PROVE  [ToServer!Next]_(ToServer!vars)
PROOF
<1>1. PICK a, f : Passed(a, f)
  BY DEF Onwards
<1>2. CASE PageSends
  BY <1>1, <1>2, ServerPut
<1>3. CASE ServerReads
  BY <1>1, <1>3, ServerGet
<1>4. CASE ~PageSends /\ ~ServerReads
  <2>1. asked' = asked /\ served' = served
    BY <1>4 DEF Next, Callbacks, Page, Server, Done, FirstMessage, NextMessage, CloseFrame,
      WsClosed, TcpConnected, TcpError, TcpData, TcpEnd, TcpClose, PageReads, PageCloses,
      PageVanishes, ServerWrites, ServerCloses, vars, webSocket, server
  <2> QED
    BY <2>1, ServerIdles
<1> QED
  BY <1>2, <1>3, <1>4

(***************************************************************************)
(* Every step of the bridge puts a message that the page sent after tcp_ok *)
(* into the pipe to the server, gets the next one out of it, makes or      *)
(* breaks the connection, or does none of it: none of them is lost in the  *)
(* middle or passed on twice (ws.on("message"), bridge.js:103-112).        *)
(***************************************************************************)
THEOREM ServerHasAPipe == Spec => ToServer!Safe
PROOF
<1>1. Init => RelayInv /\ Kinds /\ Upward /\ Onwards /\ ToServer!Init
  <2> SUFFICES ASSUME Init PROVE ToServer!Init
    BY RelayInit, KindsInit, OnwardsInit
  <2>1. /\ asked = <<>> /\ served = <<>> /\ tcp = "new" /\ DOMAIN <<>> = 1..0 /\ 1..0 = {}
    BY DEF Init
  <2>2. ToldFrom(<<>>, 0, 1, 0)
    BY <2>1 DEF ToldFrom
  <2>3. Numbers(<<>>) = [k \in 1..(0 - 1 + 1) |-> 0 + 1 + k - 1]
    BY <2>2, NumbersFrom
  <2>4. Numbers(<<>>) = <<>>
    <3>1. 0 - 1 + 1 = 0
      OBVIOUS
    <3> QED
      BY <2>1, <2>3, <3>1
  <2> QED
    BY <2>1, <2>4 DEF ToServer!Init
<1>2. RelayInv /\ Kinds /\ Upward /\ Onwards /\ [Next]_vars
        => RelayInv' /\ Kinds' /\ Upward' /\ Onwards' /\ [ToServer!Next]_(ToServer!vars)
  BY RelayNext, KindsNext, OnwardsNext, ServerStep
<1> QED
  BY <1>1, <1>2, PTL DEF Spec, ToServer!Safe
=============================================================================
