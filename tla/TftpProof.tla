------------------------------ MODULE TftpProof ------------------------------
(***************************************************************************)
(* Proof that a TFTP transfer that ends in success has loaded the whole    *)
(* file, for any file, block sizes, ports and numbers of lost, duplicated, *)
(* delayed and reordered packets, as long as the block number does not     *)
(* wrap around.                                                            *)
(***************************************************************************)
EXTENDS Tftp, TLAPS

\* No file takes so many blocks that their number wraps around, and memory has
\* room for the file.
NoWrap ==
  /\ LastBlock(TFTP_BLOCK_SIZE) < TFTP_SEQUENCE_SIZE
  /\ LastBlock(TftpBlkSizeOption) < TFTP_SEQUENCE_SIZE
  /\ File <= Memory

Get == protocol = "TFTPGET"

\* The block size of every transfer with this server.
Size == IF server = "OPTIONS" THEN TftpBlkSizeOption ELSE TFTP_BLOCK_SIZE

\* Cells of the file before block n, and that the first k cells are in memory.
Before(n) == (n - 1) * Size
Stored(k) == \A i \in 1..File : i <= k => memory[i] = i

\* The other end sends block n from port p to our present port only when all blocks
\* before it are stored and p is the port we answer to, except that a server
\* without options sends block 1 unasked.
Ahead(p, n) ==
  \/ Get /\ server = "PLAIN" /\ n = 1
  \/ p = TftpRemotePort /\ TftpState # "SEND_RRQ" /\ Stored(Before(n))

\* A transfer of the other end, on its port p.
Transfer == [to : OurPorts \cup {WELL_KNOWN_PORT}, n : Nat, size : Nat]
TransferOK(p, t) ==
  /\ t \in Transfer /\ t.size = Size /\ t.n <= LastBlock(Size)
  /\ t.to = WELL_KNOWN_PORT => t.n = 0 /\ ~Get
  /\ t.to # WELL_KNOWN_PORT /\ t.n = 0 => Get /\ server = "OPTIONS"
  /\ t.to = TftpOurPort /\ t.n > 0 => Ahead(p, t.n)

\* A packet to us.
ToUsOK(m) ==
  /\ m.op = "WRQ" => ~Get /\ m.dest = WELL_KNOWN_PORT
  /\ m.op = "OACK" => Get /\ server = "OPTIONS" /\ m.blksize = Size
  /\ m.op = "DATA" => /\ m.block \in 1..LastBlock(Size) /\ m.dest \in OurPorts
                      /\ m.first = Before(m.block) + 1
                      /\ m.len = Min({Size, File - Before(m.block)})
                      /\ m.dest = TftpOurPort => Ahead(m.src, m.block)

\* A packet to the other end: an acknowledgement of ours is for what is stored.
ToPeerOK(m) ==
  /\ m.op = "RRQ" => Get /\ m.src \in OurPorts
  /\ m.op = "ACK" => m.src \in OurPorts /\ m.block \in Nat
  /\ m.op = "ACK" /\ m.src = TftpOurPort =>
       m.dest = TftpRemotePort /\ TftpState # "SEND_RRQ" /\ Stored(Before(m.block + 1))

\* Which state goes with which protocol and port.
StateOK ==
  /\ protocol \in {"TFTPGET", "TFTPSRV", "AUTO"}
  /\ server \in IF Get THEN {"NO_FILE", "PLAIN", "OPTIONS"} ELSE {"PLAIN"}
  /\ net_state = "CONTINUE" =>
       IF Get THEN TftpOurPort \in OurPorts /\ TftpState \in {"SEND_RRQ", "OACK", "DATA"}
       ELSE \/ TftpOurPort = WELL_KNOWN_PORT /\ TftpState = "RECV_WRQ"
            \/ TftpOurPort \in OurPorts /\ TftpState \in {"RECV_WRQ", "DATA"}

\* Our own variables: everything up to the block acknowledged last is stored.
OursOK ==
  /\ memory \in [1..Memory -> Int] /\ NetBootFileXferSize \in 0..File
  /\ net_state = "CONTINUE" =>
       /\ TftpBlock \in Nat /\ Stored(Before(TftpBlock + 1))
       /\ TftpState # "SEND_RRQ" \/ server # "OPTIONS" => TftpBlkSize = Size
       /\ TftpState \in {"SEND_RRQ", "RECV_WRQ"} => TftpBlock = 0
       /\ TftpState = "DATA" => /\ TftpLastBlock \in Nat
                                /\ Stored(Before(TftpLastBlock + 1))
                                /\ TftpBlockWrapOffset = 0

\* The inductive invariant.
IInv ==
  /\ StateOK /\ OursOK /\ LoadedIsFile
  /\ \A m \in toUs : ToUsOK(m)
  /\ \A m \in toPeer : ToPeerOK(m)
  /\ peer \in [PeerPorts -> SUBSET Transfer]
  /\ \A p \in PeerPorts : \A t \in peer[p] : TransferOK(p, t)

(***************************************************************************)
(* Arithmetic of blocks.                                                   *)
(***************************************************************************)
\* What Packet() and TftpData() compute with Min and Max.
LEMMA MinMax ==
  ASSUME NEW a \in Int, NEW b \in Int
  PROVE  /\ Min({a, b}) = IF a <= b THEN a ELSE b
         /\ Max({a, b}) = IF a >= b THEN a ELSE b
<1>1. \E x \in {a, b} : \A y \in {a, b} : x <= y
  OBVIOUS
<1>2. \E x \in {a, b} : \A y \in {a, b} : x >= y
  OBVIOUS
<1>3. Min({a, b}) \in {a, b} /\ \A y \in {a, b} : Min({a, b}) <= y
  BY Zenon, <1>1 DEF Min
<1>4. Max({a, b}) \in {a, b} /\ \A y \in {a, b} : Max({a, b}) >= y
  BY Zenon, <1>2 DEF Max
<1> QED
  BY <1>3, <1>4

\* A transfer has at least one block, and the blocks before its last are full.
LEMMA LastBlockBound ==
  ASSUME NEW s \in Nat \ {0}, NEW n \in Nat, n <= LastBlock(s), n > 0
  PROVE  /\ LastBlock(s) \in Nat \ {0}
         /\ (n - 1) * s \in 0..File
<1> DEFINE q == File \div s
<1>1. File \in Nat
  BY Zenon, TftpAssumption
<1>2. q \in Nat /\ s * q <= File
  BY <1>1
<1>3. LastBlock(s) = q + 1
  BY Zenon DEF LastBlock
<1>4. n - 1 <= q /\ n - 1 \in Nat
  BY <1>2, <1>3
<1> HIDE DEF q
<1>5. \A k \in Nat : k <= q => k * s <= s * q /\ k * s \in Nat
  BY <1>2
<1> QED
  BY <1>1, <1>2, <1>3, <1>4, <1>5

\* The size of blocks and where a block begins.
LEMMA Blocks ==
         /\ Size \in Nat \ {0} /\ LastBlock(Size) \in Nat \ {0}
         /\ File \in Nat /\ Before(1) = 0
         /\ \A n \in 1..LastBlock(Size) : Before(n) \in 0..File
         /\ \A n \in Nat : Before(n + 1) = Before(n) + Size
         /\ \A n \in Nat : Before(n) \in Int
<1>1. Size \in Nat \ {0} /\ File \in Nat
  BY Zenon, TftpAssumption DEF Size
<1>2. LastBlock(Size) \in Nat \ {0}
  BY <1>1 DEF LastBlock
<1>3. \A n \in 1..LastBlock(Size) : Before(n) \in 0..File
  BY <1>1, <1>2, LastBlockBound DEF Before
<1>4. Before(1) = 0
  BY <1>1 DEF Before
<1>5. \A n \in Nat : Before(n + 1) = Before(n) + Size /\ Before(n) \in Int
  BY <1>1 DEF Before
<1> QED
  BY Zenon, <1>1, <1>2, <1>3, <1>4, <1>5

\* A packet with a block of the file.
LEMMA DataPacket ==
  ASSUME NEW m, ToUsOK(m), m.op = "DATA"
  PROVE  /\ m.block \in Nat \ {0} /\ m.block <= LastBlock(Size)
         /\ Before(m.block) \in 0..File /\ Before(m.block + 1) = Before(m.block) + Size
         /\ m.first = Before(m.block) + 1
         /\ m.len = IF Size <= File - Before(m.block) THEN Size ELSE File - Before(m.block)
<1>1. LastBlock(Size) \in Nat /\ Size \in Nat /\ File \in Nat
  BY Zenon, Blocks
<1>2. /\ m.block \in 1..LastBlock(Size)
      /\ m.first = Before(m.block) + 1
      /\ m.len = Min({Size, File - Before(m.block)})
  BY Zenon DEF ToUsOK
<1>3. Before(m.block) \in 0..File
  BY Zenon, <1>2, Blocks
<1>4. m.block \in Nat \ {0} /\ m.block <= LastBlock(Size)
  BY <1>1, <1>2
<1>5. Before(m.block + 1) = Before(m.block) + Size
  BY Zenon, <1>4, Blocks
<1>6. File - Before(m.block) \in Int /\ Size \in Int
  BY <1>1, <1>3
<1>7. Min({Size, File - Before(m.block)}) =
        IF Size <= File - Before(m.block) THEN Size ELSE File - Before(m.block)
  BY Zenon, <1>6, MinMax
<1> QED
  BY Zenon, <1>2, <1>3, <1>4, <1>5, <1>7

(***************************************************************************)
(* What a step leaves alone.                                               *)
(***************************************************************************)
\* Neither the size of blocks nor the file changes during a transfer.
LEMMA SameEnds ==
  ASSUME UNCHANGED ends
  PROVE  /\ Size' = Size /\ (Get' <=> Get) /\ server' = server
         /\ \A n : Before(n)' = Before(n)
BY Zenon DEF ends, Size, Get, Before

\* A step that leaves us alone: it is enough that what it adds is right.
LEMMA PeerSide ==
  ASSUME IInv, UNCHANGED <<ends, us>>,
         \A m \in toUs' : m \in toUs \/ ToUsOK(m),
         toPeer' \subseteq toPeer,
         peer' \in [PeerPorts -> SUBSET Transfer],
         \A p \in PeerPorts : \A t \in peer'[p] : t \in peer[p] \/ TransferOK(p, t)
  PROVE  IInv'
<1>1. /\ Size' = Size /\ (Get' <=> Get) /\ server' = server /\ protocol' = protocol
      /\ \A n : Before(n)' = Before(n)
  BY Zenon, SameEnds DEF ends
<1>2. /\ net_state' = net_state /\ TftpState' = TftpState
      /\ TftpOurPort' = TftpOurPort /\ TftpRemotePort' = TftpRemotePort
      /\ TftpBlock' = TftpBlock /\ TftpLastBlock' = TftpLastBlock
      /\ TftpBlockWrapOffset' = TftpBlockWrapOffset /\ TftpBlkSize' = TftpBlkSize
      /\ memory' = memory /\ NetBootFileXferSize' = NetBootFileXferSize
  BY Zenon DEF us, port, blocks, loaded
<1>3. \A k : Stored(k)' <=> Stored(k)
  BY Zenon, <1>2 DEF Stored
<1>4. \A p, n : Ahead(p, n)' <=> Ahead(p, n)
  BY Zenon, <1>1, <1>2, <1>3 DEF Ahead
<1>5. StateOK' /\ OursOK' /\ LoadedIsFile'
  BY Zenon, <1>1, <1>2, <1>3 DEF IInv, StateOK, OursOK, LoadedIsFile
<1>6. \A m : ToUsOK(m) => ToUsOK(m)'
  BY Zenon, <1>1, <1>2, <1>4 DEF ToUsOK
<1>7. \A m : ToPeerOK(m) => ToPeerOK(m)'
  BY Zenon, <1>1, <1>2, <1>3 DEF ToPeerOK
<1>8. \A p, t : TransferOK(p, t) => TransferOK(p, t)'
  BY Zenon, <1>1, <1>2, <1>4 DEF TransferOK
<1> QED
  BY Zenon, <1>5, <1>6, <1>7, <1>8 DEF IInv

\* A step of ours that stays on its port, answers to the same port of the other end
\* and loses nothing from memory.
LEMMA OurSide ==
  ASSUME IInv, UNCHANGED <<ends, peer, TftpOurPort>>,
         \A m \in toUs' : m \in toUs \/ ToUsOK(m),
         StateOK', OursOK', LoadedIsFile',
         \A i \in 1..File : memory[i] = i => memory'[i] = i,
         TftpState # "SEND_RRQ" => TftpRemotePort' = TftpRemotePort,
         TftpState' = "SEND_RRQ" => TftpState = "SEND_RRQ",
         \A m \in toPeer' : m \in toPeer \/ ToPeerOK(m)'
  PROVE  IInv'
<1>1. /\ Size' = Size /\ (Get' <=> Get) /\ server' = server
      /\ \A n : Before(n)' = Before(n)
  BY Zenon, SameEnds
<1>2. \A p : \A n \in Nat : Ahead(p, n) => Ahead(p, n)'
  BY Zenon, <1>1, Blocks DEF Ahead, Stored
<1>3. ASSUME NEW m, ToUsOK(m)  PROVE ToUsOK(m)'
  <2>1. ASSUME m.op = "DATA", m.dest = TftpOurPort'  PROVE Ahead(m.src, m.block)'
    <3>1. m.block \in Nat
      BY Zenon, <1>3, <2>1, DataPacket
    <3>2. Ahead(m.src, m.block)
      BY Zenon, <1>3, <2>1 DEF ToUsOK
    <3> QED
      BY Zenon, <1>2, <3>1, <3>2
  <2> QED
    BY Zenon, <1>1, <1>3, <2>1 DEF ToUsOK
<1>4. ASSUME NEW m, ToPeerOK(m)  PROVE ToPeerOK(m)'
  <2>1. ASSUME m.op = "ACK", m.src = TftpOurPort
        PROVE  /\ m.dest = TftpRemotePort' /\ TftpState' # "SEND_RRQ"
               /\ Stored(Before(m.block + 1))'
    <3>1. Stored(Before(m.block + 1))
      BY Zenon, <1>4, <2>1 DEF ToPeerOK
    <3>2. Stored(Before(m.block + 1))'
      BY Zenon, <3>1, <1>1 DEF Stored
    <3> QED
      BY Zenon, <1>4, <2>1, <3>2 DEF ToPeerOK
  <2> QED
    BY Zenon, <1>1, <1>4, <2>1 DEF ToPeerOK
<1>5. \A p, t : TransferOK(p, t) => TransferOK(p, t)'
  BY Zenon, <1>1, <1>2 DEF TransferOK, Transfer
<1> QED
  BY Zenon, <1>3, <1>4, <1>5 DEF IInv

\* A step of ours that takes a port nothing under way knows.
LEMMA NewPort ==
  ASSUME IInv, UNCHANGED <<ends, peer>>, toUs' \subseteq toUs,
         TftpOurPort' \in Drawn \/ TftpOurPort' = WELL_KNOWN_PORT,
         StateOK', OursOK', LoadedIsFile',
         \A m \in toPeer' : m \in toPeer \/ ToPeerOK(m)'
  PROVE  IInv'
<1>1. /\ Size' = Size /\ (Get' <=> Get) /\ server' = server
      /\ \A n : Before(n)' = Before(n)
  BY Zenon, SameEnds
<1>2. ASSUME NEW m \in toUs  PROVE ToUsOK(m)'
  <2>1. ToUsOK(m) /\ (m.op = "DATA" => m.dest # TftpOurPort')
    BY Zenon, TftpAssumption DEF IInv, ToUsOK, Drawn
  <2> QED
    BY Zenon, <1>1, <2>1 DEF ToUsOK
<1>3. ASSUME NEW m \in toPeer  PROVE ToPeerOK(m)'
  <2>1. ToPeerOK(m) /\ (m.op = "ACK" => m.src # TftpOurPort')
    BY Zenon, TftpAssumption DEF IInv, ToPeerOK, Drawn
  <2> QED
    BY Zenon, <1>1, <2>1 DEF ToPeerOK
<1>4. ASSUME NEW p \in PeerPorts, NEW t \in peer[p]  PROVE TransferOK(p, t)'
  <2>1. TransferOK(p, t) /\ (t.n > 0 => t.to # TftpOurPort')
    BY DEF IInv, TransferOK, Drawn
  <2> QED
    BY Zenon, <1>1, <2>1 DEF TransferOK
<1> QED
  BY Zenon, <1>2, <1>3, <1>4 DEF IInv

(***************************************************************************)
(* The steps of the other end and of the network.                          *)
(***************************************************************************)
\* What a transfer of the other end sends is right, and says its block's number.
LEMMA PacketOK ==
  ASSUME NoWrap, NEW p, NEW t, TransferOK(p, t)
  PROVE  ToUsOK(Packet(p, t))
<1>1. /\ t.n \in Nat /\ t.size = Size /\ t.n <= LastBlock(Size)
      /\ t.to \in OurPorts \cup {WELL_KNOWN_PORT}
  BY Zenon DEF TransferOK, Transfer
<1>2. CASE t.n = 0
  BY Zenon, <1>1, <1>2 DEF TransferOK, Packet, ToUsOK, Get
<1>3. CASE t.n # 0
  <2>1. LastBlock(Size) \in Nat /\ LastBlock(Size) < TFTP_SEQUENCE_SIZE
    BY Zenon, Blocks DEF NoWrap, Size
  <2>2. t.n % TFTP_SEQUENCE_SIZE = t.n /\ t.n \in 1..LastBlock(Size)
    BY <1>1, <1>3, <2>1, TftpAssumption
  <2>3. t.to \in OurPorts /\ (t.to = TftpOurPort => Ahead(p, t.n))
    BY <1>1, <1>3 DEF TransferOK
  <2>4. Packet(p, t) = [op |-> "DATA", src |-> p, dest |-> t.to, block |-> t.n,
                        first |-> Before(t.n) + 1, len |-> Min({Size, File - Before(t.n)})]
    BY Zenon, <1>1, <1>3, <2>2 DEF Packet, Before
  <2>5. ASSUME NEW x, x = Packet(p, t)  PROVE ToUsOK(x)
    <3>1. /\ x.op = "DATA" /\ x.src = p /\ x.dest = t.to /\ x.block = t.n
          /\ x.first = Before(t.n) + 1 /\ x.len = Min({Size, File - Before(t.n)})
      BY <2>4, <2>5
    <3> QED
      BY Zenon, <2>2, <2>3, <3>1 DEF ToUsOK
  <2> QED
    BY Zenon, <2>5
<1> QED
  BY Zenon, <1>2, <1>3

\* PeerRequest() opens transfers only for a get.
LEMMA RequestStep ==
  ASSUME IInv, NoWrap, NEW m \in toPeer, toPeer' \subseteq toPeer, UNCHANGED <<ends, us>>,
         PeerRequest(m)
  PROVE  IInv'
<1>1. m.op = "RRQ" /\ Get /\ m.src \in OurPorts
  BY Zenon DEF IInv, ToPeerOK, PeerRequest
<1>2. peer \in [PeerPorts -> SUBSET Transfer]
  BY Zenon DEF IInv
<1>3. CASE UNCHANGED peer /\ \A x \in toUs' : x \in toUs \/ x.op = "ERROR"
  BY Zenon, <1>2, <1>3, PeerSide DEF ToUsOK
<1>4. ASSUME NEW p \in PeerPorts, NEW t, peer' = [peer EXCEPT ![p] = {t}],
             toUs' = toUs \cup {Packet(p, t)}, server # "NO_FILE",
             t = IF server = "OPTIONS"
                 THEN [to |-> m.src, n |-> 0, size |-> TftpBlkSizeOption]
                 ELSE [to |-> m.src, n |-> 1, size |-> TFTP_BLOCK_SIZE]
      PROVE  IInv'
  <2>1. server \in {"PLAIN", "OPTIONS"}
    BY Zenon, <1>1, <1>4 DEF IInv, StateOK
  <2>2. LastBlock(Size) \in Nat \ {0}
    BY Zenon, Blocks
  <2>3. t \in Transfer /\ t.size = Size /\ t.n <= LastBlock(Size) /\ t.to \in OurPorts
    BY <1>1, <1>4, <2>1, <2>2, TftpAssumption DEF Transfer, Size
  <2>4. TransferOK(p, t)
    BY <1>1, <1>4, <2>1, <2>3, TftpAssumption DEF TransferOK, Ahead
  <2>5. ToUsOK(Packet(p, t))
    BY Zenon, <2>4, PacketOK
  <2>6. peer' \in [PeerPorts -> SUBSET Transfer]
    BY Zenon, <1>2, <1>4, <2>3
  <2>7. \A q \in PeerPorts : \A x \in peer'[q] : x \in peer[q] \/ TransferOK(q, x)
    BY Zenon, <1>2, <1>4, <2>4
  <2> QED
    BY Zenon, <1>4, <2>5, <2>6, <2>7, PeerSide
<1> QED
  BY <1>3, <1>4 DEF PeerRequest, Error

\* An acknowledgement the other end goes on for is one for a block that is stored.
LEMMA AckStep ==
  ASSUME IInv, NoWrap, NEW m \in toPeer, toPeer' \subseteq toPeer, UNCHANGED <<ends, us>>,
         m.op = "ACK", m.dest \in PeerPorts, PeerAck(m)
  PROVE  IInv'
<1> DEFINE p == m.dest
<1>1. peer \in [PeerPorts -> SUBSET Transfer]
  BY Zenon DEF IInv
<1>2. PICK t \in peer[p] :
        LET next == [t EXCEPT !.n = @ + 1, !.to = m.src]
        IN \/ UNCHANGED <<peer, toUs>>
           \/ peer' = [peer EXCEPT ![p] = {}] /\ UNCHANGED toUs
           \/ /\ m.block = t.n % TFTP_SEQUENCE_SIZE /\ t.n # LastBlock(t.size)
              /\ peer' = [peer EXCEPT ![p] = {next}]
              /\ toUs' = toUs \cup {Packet(p, next)}
  BY Zenon DEF PeerAck
<1> DEFINE next == [t EXCEPT !.n = @ + 1, !.to = m.src]
<1>3. CASE UNCHANGED <<peer, toUs>>
  BY Zenon, <1>1, <1>3, PeerSide
<1>4. CASE peer' = [peer EXCEPT ![p] = {}] /\ UNCHANGED toUs
  <2>1. peer' \in [PeerPorts -> SUBSET Transfer]
    BY Zenon, <1>1, <1>4
  <2>2. \A q \in PeerPorts : \A x \in peer'[q] : x \in peer[q] \/ TransferOK(q, x)
    BY Zenon, <1>1, <1>4
  <2> QED
    BY Zenon, <1>4, <2>1, <2>2, PeerSide
<1>5. CASE /\ m.block = t.n % TFTP_SEQUENCE_SIZE /\ t.n # LastBlock(t.size)
           /\ peer' = [peer EXCEPT ![p] = {next}]
           /\ toUs' = toUs \cup {Packet(p, next)}
  <2>1. TransferOK(p, t) /\ ToPeerOK(m)
    BY Zenon DEF IInv
  <2>2. t \in Transfer /\ t.size = Size /\ t.n <= LastBlock(Size) /\ t.n \in Nat
    BY Zenon, <2>1 DEF TransferOK, Transfer
  <2>3. LastBlock(Size) \in Nat /\ LastBlock(Size) < TFTP_SEQUENCE_SIZE
    BY Zenon, Blocks DEF NoWrap, Size
  <2>4. m.block = t.n /\ t.n + 1 <= LastBlock(Size)
    BY <1>5, <2>2, <2>3, TftpAssumption
  <2>5. /\ m.src \in OurPorts
        /\ m.src = TftpOurPort => p = TftpRemotePort /\ TftpState # "SEND_RRQ"
                                  /\ Stored(Before(t.n + 1))
    BY Zenon, <2>1, <2>4 DEF ToPeerOK
  <2>6. next.to = m.src /\ next.n = t.n + 1 /\ next.size = t.size
    BY Zenon, <2>2 DEF Transfer
  <2>7. next \in Transfer
    <3>1. [t EXCEPT !.n = t.n + 1] \in Transfer
      BY <2>2 DEF Transfer
    <3>2. \A u \in Transfer : [u EXCEPT !.to = m.src] \in Transfer
      BY Zenon, <2>5 DEF Transfer
    <3>3. next = [[t EXCEPT !.n = t.n + 1] EXCEPT !.to = m.src]
      BY Zenon
    <3> QED
      BY Zenon, <3>1, <3>2, <3>3
  <2> HIDE DEF next
  <2>8. TransferOK(p, next)
    BY <2>2, <2>4, <2>5, <2>6, <2>7, TftpAssumption DEF TransferOK, Ahead
  <2>9. ToUsOK(Packet(p, next))
    BY Zenon, <2>8, PacketOK
  <2>10. peer' \in [PeerPorts -> SUBSET Transfer]
    BY Zenon, <1>1, <1>5, <2>7
  <2>11. \A q \in PeerPorts : \A x \in peer'[q] : x \in peer[q] \/ TransferOK(q, x)
    BY Zenon, <1>1, <1>5, <2>8
  <2> QED
    BY Zenon, <1>5, <2>9, <2>10, <2>11, PeerSide
<1> QED
  BY Zenon, <1>2, <1>3, <1>4, <1>5

\* Whatever the other end receives.
LEMMA PeerReceiveStep ==
  ASSUME IInv, NoWrap, PeerReceive
  PROVE  IInv'
<1>1. PICK m \in toPeer :
        /\ toPeer' \subseteq toPeer
        /\ PeerRequest(m) \/ (m.op = "ACK" /\ m.dest \in PeerPorts /\ PeerAck(m)) \/ PeerUnknown(m)
        /\ UNCHANGED <<ends, us>>
  BY Zenon DEF PeerReceive, Take
<1>2. CASE PeerUnknown(m)
  <2>1. UNCHANGED peer /\ \A x \in toUs' : x \in toUs \/ x.op = "ERROR"
    BY <1>2 DEF PeerUnknown, Error
  <2>2. peer' \in [PeerPorts -> SUBSET Transfer]
    BY Zenon, <2>1 DEF IInv
  <2> QED
    BY Zenon, <1>1, <2>1, <2>2, PeerSide DEF ToUsOK
<1> QED
  BY Zenon, <1>1, <1>2, RequestStep, AckStep

\* A file offered to tftpsrv.
LEMMA PeerSendsStep ==
  ASSUME IInv, NoWrap, PeerSends
  PROVE  IInv'
<1> DEFINE t == [to |-> WELL_KNOWN_PORT, n |-> 0, size |-> TFTP_BLOCK_SIZE]
<1>1. PICK p \in PeerPorts : /\ peer' = [q \in PeerPorts |-> IF q = p THEN {t} ELSE {}]
                             /\ toUs' = {Packet(p, t)}
                             /\ ~Get /\ UNCHANGED <<ends, us, toPeer>>
  BY Zenon DEF PeerSends, Get
<1>2. t \in Transfer /\ t.size = Size /\ LastBlock(Size) \in Nat
  BY Zenon, <1>1, Blocks, TftpAssumption DEF Transfer, Size, IInv, StateOK
<1>3. \A q : TransferOK(q, t)
  BY <1>1, <1>2 DEF TransferOK
<1>4. ToUsOK(Packet(p, t))
  BY Zenon, <1>3, PacketOK
<1> HIDE DEF t
<1>5. peer' \in [PeerPorts -> SUBSET Transfer]
  BY Zenon, <1>1, <1>2
<1>6. \A q \in PeerPorts : \A x \in peer'[q] : TransferOK(q, x)
  BY Zenon, <1>1, <1>3
<1> QED
  BY Zenon, <1>1, <1>4, <1>5, <1>6, PeerSide

\* What the transfers of a port send again.
LEMMA AgainOK ==
  ASSUME IInv, NoWrap, NEW p \in PeerPorts
  PROVE  \A m \in Again(p) : ToUsOK(m)
BY Zenon, PacketOK DEF Again, IInv

\* A packet is lost.
LEMMA LoseStep ==
  ASSUME IInv, Lose
  PROVE  IInv'
<1>1. /\ toUs' \subseteq toUs /\ toPeer' \subseteq toPeer
      /\ UNCHANGED <<ends, us>> /\ UNCHANGED peer
  BY Zenon DEF Lose
<1>2. peer' \in [PeerPorts -> SUBSET Transfer]
  BY Zenon, <1>1 DEF IInv
<1> QED
  BY Zenon, <1>1, <1>2, PeerSide

(***************************************************************************)
(* Our own steps.                                                          *)
(***************************************************************************)
\* TftpStart() and TftpStartServer(): nothing has been stored and nothing under
\* way is taken for an answer.
LEMMA RestartStep ==
  ASSUME IInv, Restart
  PROVE  IInv'
<1>1. /\ UNCHANGED ends /\ UNCHANGED peer /\ toUs' = toUs /\ memory' = memory
      /\ net_state' = "CONTINUE" /\ TftpBlock' = 0 /\ TftpBlkSize' = TFTP_BLOCK_SIZE
      /\ NetBootFileXferSize' = 0
      /\ Get => /\ TftpState' = "SEND_RRQ" /\ TftpOurPort' \in Drawn
                /\ toPeer' = toPeer \cup {[op |-> "RRQ", src |-> TftpOurPort', dest |-> TftpRemotePort']}
      /\ ~Get => TftpState' = "RECV_WRQ" /\ TftpOurPort' = WELL_KNOWN_PORT /\ toPeer' = toPeer
  BY Zenon DEF Restart, Started, TftpSend, Sent, Get
<1>2. /\ Size' = Size /\ (Get' <=> Get) /\ server' = server /\ protocol' = protocol
      /\ \A n : Before(n)' = Before(n)
  BY Zenon, <1>1, SameEnds DEF ends
<1>3. TftpOurPort' \in Drawn \/ TftpOurPort' = WELL_KNOWN_PORT
  BY Zenon, <1>1
<1>4. Get => TftpOurPort' \in OurPorts
  BY Zenon, <1>1 DEF Drawn
<1>5. StateOK'
  BY Zenon, <1>1, <1>2, <1>4 DEF IInv, StateOK
<1>6. OursOK'
  <2>1. Before(0 + 1)' = 0 /\ File \in Nat
    BY <1>2, Blocks
  <2>2. Stored(Before(TftpBlock + 1))'
    BY <1>1, <2>1 DEF Stored
  <2>3. TftpState' # "SEND_RRQ" \/ server # "OPTIONS" => TftpBlkSize' = Size'
    BY Zenon, <1>1, <1>2 DEF IInv, StateOK, Size
  <2>4. memory' \in [1..Memory -> Int] /\ NetBootFileXferSize' \in 0..File
    BY <1>1, <2>1 DEF IInv, OursOK
  <2> QED
    BY Zenon, <1>1, <1>2, <2>2, <2>3, <2>4 DEF OursOK
<1>7. LoadedIsFile'
  BY Zenon, <1>1 DEF LoadedIsFile
<1>8. \A m \in toPeer' : m \in toPeer \/ ToPeerOK(m)'
  BY <1>1, <1>2, <1>4 DEF ToPeerOK
<1> QED
  BY Zenon, <1>1, <1>3, <1>5, <1>6, <1>7, <1>8, NewPort

\* TftpTimeout(): what is sent again is the request or the acknowledgement of a
\* block that is stored.
LEMMA TimeoutStep ==
  ASSUME IInv, TftpTimeout, UNCHANGED <<ends, peer>>,
         \A m \in toUs' : m \in toUs \/ ToUsOK(m)
  PROVE  IInv'
<1>1. /\ net_state = "CONTINUE" /\ net_state' \in {"CONTINUE", "WAIT", "FAIL"}
      /\ TftpState' = TftpState /\ UNCHANGED <<port, blocks, loaded>>
      /\ \/ toPeer' = toPeer
         \/ /\ TftpState # "RECV_WRQ"
            /\ toPeer' = toPeer \cup {Sent(TftpState, TftpBlock, TftpOurPort, TftpRemotePort)}
  BY Zenon DEF TftpTimeout, TftpSend, NetStartAgain, port, blocks
<1>2. /\ Size' = Size /\ (Get' <=> Get) /\ server' = server /\ protocol' = protocol
      /\ \A n : Before(n)' = Before(n)
  BY Zenon, SameEnds DEF ends
<1>3. /\ TftpOurPort' = TftpOurPort /\ TftpRemotePort' = TftpRemotePort
      /\ TftpBlock' = TftpBlock /\ TftpLastBlock' = TftpLastBlock
      /\ TftpBlockWrapOffset' = TftpBlockWrapOffset /\ TftpBlkSize' = TftpBlkSize
      /\ memory' = memory /\ NetBootFileXferSize' = NetBootFileXferSize
  BY Zenon, <1>1 DEF port, blocks, loaded
<1>4. \A k : Stored(k)' <=> Stored(k)
  BY Zenon, <1>3 DEF Stored
<1>5. StateOK' /\ OursOK' /\ LoadedIsFile'
  BY Zenon, <1>1, <1>2, <1>3, <1>4 DEF IInv, StateOK, OursOK, LoadedIsFile
<1>6. ASSUME TftpState # "RECV_WRQ"
      PROVE  ToPeerOK(Sent(TftpState, TftpBlock, TftpOurPort, TftpRemotePort))'
  <2>1. TftpOurPort \in OurPorts /\ (TftpState = "SEND_RRQ" => Get)
    BY Zenon, <1>1, <1>6 DEF IInv, StateOK
  <2>2. TftpBlock \in Nat /\ Stored(Before(TftpBlock + 1))'
    BY Zenon, <1>1, <1>5, <1>3, <1>4, <1>2 DEF IInv, OursOK, Stored
  <2>3. CASE TftpState = "SEND_RRQ"
    BY Zenon, <1>1, <1>2, <1>3, <2>1, <2>3 DEF Sent, ToPeerOK
  <2>4. CASE TftpState # "SEND_RRQ"
    BY Zenon, <1>1, <1>2, <1>3, <2>1, <2>2, <2>4 DEF Sent, ToPeerOK
  <2> QED
    BY Zenon, <2>3, <2>4
<1>7. \A m \in toPeer' : m \in toPeer \/ ToPeerOK(m)'
  BY Zenon, <1>1, <1>3, <1>6
<1> QED
  BY Zenon, <1>1, <1>3, <1>5, <1>7, OurSide

\* TftpSend() of an acknowledgement: right when its block is stored.
LEMMA AckSent ==
  ASSUME TftpSend, TftpState' # "SEND_RRQ", TftpOurPort' \in OurPorts,
         TftpBlock' \in Nat, Stored(Before(TftpBlock + 1))'
  PROVE  \A x \in toPeer' : x \in toPeer \/ ToPeerOK(x)'
<1> DEFINE a == [op |-> "ACK", src |-> TftpOurPort', dest |-> TftpRemotePort', block |-> TftpBlock']
<1>1. toPeer' = toPeer \cup {a}
  BY Zenon DEF TftpSend, Sent
<1>2. a.op = "ACK" /\ a.src = TftpOurPort' /\ a.dest = TftpRemotePort' /\ a.block = TftpBlock'
  BY Zenon
<1> HIDE DEF a
<1>3. ASSUME NEW x, x = a  PROVE ToPeerOK(x)'
  <2>1. x.op = "ACK" /\ x.src = TftpOurPort' /\ x.dest = TftpRemotePort' /\ x.block = TftpBlock'
    BY Zenon, <1>2, <1>3
  <2>2. Stored(Before(x.block + 1))'
    BY Zenon, <2>1 DEF Stored, Before
  <2> QED
    BY Zenon, <2>1, <2>2 DEF ToPeerOK
<1> QED
  BY Zenon, <1>1, <1>3

\* A write request: the transfer it begins has a port nothing under way knows.
LEMMA WrqStep ==
  ASSUME IInv, NEW m \in toUs, toUs' \subseteq toUs, UNCHANGED <<ends, peer>>,
         Accepts(m), TftpWrq(m)
  PROVE  IInv'
<1>1. /\ net_state = "CONTINUE" /\ net_state' = "CONTINUE" /\ m.dest = TftpOurPort
      /\ TftpState' = TftpState /\ TftpBlock' = TftpBlock /\ TftpBlkSize' = TftpBlkSize
      /\ memory' = memory /\ NetBootFileXferSize' = NetBootFileXferSize
      /\ TftpOurPort' \in Drawn
  BY Zenon DEF Accepts, TftpWrq, loaded
<1>2. /\ Size' = Size /\ (Get' <=> Get) /\ server' = server /\ protocol' = protocol
      /\ \A n : Before(n)' = Before(n)
  BY Zenon, SameEnds DEF ends
<1>3. ~Get /\ TftpOurPort = WELL_KNOWN_PORT
  BY Zenon, <1>1 DEF IInv, ToUsOK, TftpWrq
<1>4. TftpState = "RECV_WRQ"
  BY Zenon, <1>1, <1>3, TftpAssumption DEF IInv, StateOK
<1>5. TftpOurPort' \in OurPorts
  BY Zenon, <1>1 DEF Drawn
<1>6. \A k : Stored(k)' <=> Stored(k)
  BY Zenon, <1>1 DEF Stored
<1>7. StateOK' /\ OursOK' /\ LoadedIsFile'
  BY Zenon, <1>1, <1>2, <1>3, <1>4, <1>5, <1>6 DEF IInv, StateOK, OursOK, LoadedIsFile
<1>8. TftpBlock' \in Nat /\ Stored(Before(TftpBlock + 1))'
  BY Zenon, <1>1, <1>7 DEF OursOK
<1>9. \A x \in toPeer' : x \in toPeer \/ ToPeerOK(x)'
  BY Zenon, <1>1, <1>4, <1>5, <1>8, AckSent DEF TftpWrq
<1> QED
  BY Zenon, <1>1, <1>7, <1>9, NewPort

\* The server's answer to the options: its port is answered to from now on.
LEMMA OackStep ==
  ASSUME IInv, NEW m \in toUs, toUs' \subseteq toUs, UNCHANGED <<ends, peer>>,
         Accepts(m), TftpOack(m)
  PROVE  IInv'
<1>1. /\ net_state = "CONTINUE" /\ net_state' = "CONTINUE" /\ m.dest = TftpOurPort
      /\ TftpState' = "OACK" /\ TftpRemotePort' = m.src /\ TftpBlkSize' = m.blksize
      /\ TftpBlock' = TftpBlock /\ TftpOurPort' = TftpOurPort
      /\ memory' = memory /\ NetBootFileXferSize' = NetBootFileXferSize
      /\ TftpState \in {"SEND_RRQ", "RECV_WRQ"} \/ m.src = TftpRemotePort
  BY Zenon DEF Accepts, TftpOack, loaded
<1>2. /\ Size' = Size /\ (Get' <=> Get) /\ server' = server /\ protocol' = protocol
      /\ \A n : Before(n)' = Before(n)
  BY Zenon, SameEnds DEF ends
<1>3. Get /\ server = "OPTIONS" /\ m.blksize = Size
  BY Zenon DEF IInv, ToUsOK, TftpOack
<1>4. TftpOurPort \in OurPorts /\ (TftpState # "SEND_RRQ" => TftpRemotePort' = TftpRemotePort)
  BY Zenon, <1>1, <1>3 DEF IInv, StateOK
<1>5. \A k : Stored(k)' <=> Stored(k)
  BY Zenon, <1>1 DEF Stored
<1>6. StateOK' /\ LoadedIsFile'
  BY Zenon, <1>1, <1>2, <1>3, <1>4 DEF IInv, StateOK, LoadedIsFile
<1>7. OursOK'
  BY Zenon, <1>1, <1>2, <1>3, <1>5 DEF IInv, OursOK
<1>8. TftpBlock' \in Nat /\ Stored(Before(TftpBlock + 1))'
  BY Zenon, <1>1, <1>7 DEF OursOK
<1>9. \A x \in toPeer' : x \in toPeer \/ ToPeerOK(x)'
  BY Zenon, <1>1, <1>4, <1>8, AckSent DEF TftpOack
<1> QED
  BY Zenon, <1>1, <1>4, <1>6, <1>7, <1>9, OurSide

\* An error of the other end ends the attempt.
LEMMA ErrorStep ==
  ASSUME IInv, NEW m \in toUs, toUs' \subseteq toUs, UNCHANGED <<ends, peer>>, TftpError(m)
  PROVE  IInv'
<1>1. /\ net_state' \in {"WAIT", "FAIL"} /\ toPeer' = toPeer
      /\ TftpState' = TftpState /\ TftpOurPort' = TftpOurPort
      /\ TftpRemotePort' = TftpRemotePort
      /\ memory' = memory /\ NetBootFileXferSize' = NetBootFileXferSize
  BY Zenon DEF TftpError, NetStartAgain, port, loaded
<1>2. (Get' <=> Get) /\ server' = server /\ protocol' = protocol
  BY Zenon, SameEnds DEF ends
<1>3. StateOK' /\ OursOK' /\ LoadedIsFile'
  BY Zenon, <1>1, <1>2 DEF IInv, StateOK, OursOK, LoadedIsFile
<1> QED
  BY Zenon, <1>1, <1>3, OurSide

\* store_block() at the place of the block's number: everything up to and with the
\* block is then stored, and all of the file when the block is a short one.
LEMMA StoreStep ==
  ASSUME NoWrap, OursOK, NEW m, ToUsOK(m), m.op = "DATA",
         Stored(Before(m.block)), Store(Before(m.block), m)
  PROVE  /\ memory' \in [1..Memory -> Int] /\ NetBootFileXferSize' \in 0..File
         /\ \A i \in 1..File : memory[i] = i => memory'[i] = i
         /\ \A i \in 1..File : i <= Before(m.block + 1) => memory'[i] = i
         /\ m.len < Size => /\ NetBootFileXferSize' = File
                            /\ \A i \in 1..File : memory'[i] = i
<1> DEFINE b == Before(m.block)
<1>1. /\ b \in 0..File /\ m.first = b + 1 /\ Before(m.block + 1) = b + Size
      /\ m.len = IF Size <= File - b THEN Size ELSE File - b
  BY Zenon, DataPacket
<1>2. Size \in Nat \ {0} /\ File \in Nat /\ Memory \in Nat /\ File <= Memory
  BY Zenon, Blocks, TftpAssumption DEF NoWrap
<1>3. /\ memory \in [1..Memory -> Int] /\ NetBootFileXferSize \in 0..File
      /\ \A i \in 1..File : i <= b => memory[i] = i
  BY Zenon DEF OursOK, Stored
<1>4. /\ memory' = [i \in 1..Memory |-> IF i - b \in 1..m.len THEN m.first + i - b - 1
                                        ELSE memory[i]]
      /\ NetBootFileXferSize' = Max({NetBootFileXferSize, b + m.len})
  BY Zenon DEF Store
<1> HIDE DEF b
<1>5. m.len \in Nat /\ m.len <= Size /\ b + m.len <= File /\ b + m.len \in Nat
  BY <1>1, <1>2
<1>6. m.len < Size => b + m.len = File
  BY <1>1, <1>2
<1>7. \A i \in 1..Memory : memory'[i] = IF i - b \in 1..m.len THEN i ELSE memory[i]
  BY <1>1, <1>2, <1>4, <1>5
<1>8. memory' \in [1..Memory -> Int]
  BY <1>1, <1>2, <1>3, <1>4, <1>5
<1>9. \A i \in 1..File : memory[i] = i => memory'[i] = i
  BY <1>2, <1>7
<1>10. \A i \in 1..File : i <= b + m.len => memory'[i] = i
  BY <1>1, <1>2, <1>3, <1>5, <1>7
<1>11. \A i \in 1..File : i <= b + Size => memory'[i] = i
  BY <1>1, <1>2, <1>5, <1>6, <1>10
<1>12. NetBootFileXferSize' =
         IF NetBootFileXferSize >= b + m.len THEN NetBootFileXferSize ELSE b + m.len
  <2>1. NetBootFileXferSize \in Int /\ b + m.len \in Int
    BY <1>3, <1>5
  <2> QED
    BY Zenon, <1>4, <2>1, MinMax
<1>13. /\ NetBootFileXferSize' \in 0..File
       /\ m.len < Size => NetBootFileXferSize' = File
  BY <1>2, <1>3, <1>5, <1>6, <1>12
<1>14. m.len < Size => \A i \in 1..File : memory'[i] = i
  BY <1>2, <1>6, <1>10
<1> QED
  BY Zenon, <1>1, <1>8, <1>9, <1>11, <1>13, <1>14

\* A block: one that is stored goes where its number says, and one that is ignored
\* is acknowledged again only by what is stored.
LEMMA DataStep ==
  ASSUME IInv, NoWrap, NEW m \in toUs, toUs' \subseteq toUs, UNCHANGED <<ends, peer>>,
         Accepts(m), TftpData(m)
  PROVE  IInv'
<1> DEFINE first == TftpState \in {"SEND_RRQ", "OACK", "RECV_WRQ"}
<1>1. /\ net_state = "CONTINUE" /\ m.dest = TftpOurPort /\ m.op = "DATA"
      /\ TftpState \in {"SEND_RRQ", "RECV_WRQ"} \/ m.src = TftpRemotePort
      /\ TftpState' = "DATA" /\ TftpBlock' = m.block
      /\ TftpRemotePort' = IF first THEN m.src ELSE TftpRemotePort
      /\ TftpOurPort' = TftpOurPort /\ TftpBlkSize' = TftpBlkSize
  BY Zenon DEF Accepts, TftpData
<1>2. /\ Size' = Size /\ (Get' <=> Get) /\ server' = server /\ protocol' = protocol
      /\ \A n : Before(n)' = Before(n)
  BY Zenon, SameEnds DEF ends
<1>3. ToUsOK(m) /\ StateOK /\ OursOK
  BY Zenon DEF IInv
<1>4. TftpOurPort \in OurPorts /\ Ahead(m.src, m.block)
  BY Zenon, <1>1, <1>3 DEF ToUsOK
<1>5. m.block \in Nat \ {0} /\ File \in Nat /\ Before(1) = 0
  BY Zenon, <1>1, <1>3, DataPacket, Blocks
<1>6. first \/ TftpState = "DATA"
  BY Zenon, <1>1, <1>3 DEF StateOK
<1>7. TftpState # "SEND_RRQ" => TftpRemotePort' = TftpRemotePort
  <2>1. CASE TftpState = "RECV_WRQ"
    <3>1. ~Get
      BY Zenon, <1>1, <1>3, <2>1 DEF StateOK
    <3> QED
      BY Zenon, <1>1, <1>4, <3>1 DEF Ahead
  <2> QED
    BY Zenon, <1>1, <2>1
<1>8. TftpBlkSize = Size
  BY Zenon, <1>1, <1>3, <1>4 DEF OursOK, Ahead
<1>9. Stored(Before(m.block))
  BY <1>4, <1>5 DEF Ahead, Stored
<1>10. TftpBlockWrapOffset' = 0
  <2>1. CASE first
    BY Zenon, <2>1 DEF TftpData
  <2>2. CASE ~first
    BY Zenon, <1>1, <1>3, <1>5, <1>6, <2>2 DEF TftpData, Wrapped, OursOK
  <2> QED
    BY Zenon, <2>1, <2>2
<1>11. StateOK'
  BY Zenon, <1>1, <1>2, <1>3, <1>4 DEF StateOK
<1>12. CASE first /\ m.block # 1
  <2>1. net_state' = "WAIT" /\ UNCHANGED <<loaded, toPeer>>
    BY Zenon, <1>12 DEF TftpData, NetStartAgain
  <2>2. memory' = memory /\ NetBootFileXferSize' = NetBootFileXferSize /\ toPeer' = toPeer
    BY Zenon, <2>1 DEF loaded
  <2>3. OursOK' /\ LoadedIsFile'
    BY Zenon, <1>3, <2>1, <2>2 DEF OursOK, LoadedIsFile
  <2> QED
    BY Zenon, <1>1, <1>7, <1>11, <2>2, <2>3, OurSide
<1>13. CASE ~first /\ m.block = TftpLastBlock
  <2>1. /\ net_state' = net_state /\ TftpLastBlock' = TftpLastBlock
        /\ UNCHANGED <<loaded, toPeer>>
    BY Zenon, <1>13 DEF TftpData
  <2>2. memory' = memory /\ NetBootFileXferSize' = NetBootFileXferSize /\ toPeer' = toPeer
    BY Zenon, <2>1 DEF loaded
  <2>3. TftpLastBlock \in Nat /\ Stored(Before(TftpLastBlock + 1))
    BY Zenon, <1>1, <1>3, <1>6, <1>13 DEF OursOK
  <2>4. Stored(Before(TftpLastBlock + 1))' /\ Stored(Before(TftpBlock + 1))'
    BY Zenon, <1>1, <1>2, <1>13, <2>1, <2>2, <2>3 DEF Stored
  <2>5. OursOK' /\ LoadedIsFile'
    BY Zenon, <1>1, <1>2, <1>3, <1>5, <1>8, <1>10, <1>13, <2>1, <2>2, <2>3, <2>4
       DEF OursOK, LoadedIsFile
  <2> QED
    BY Zenon, <1>1, <1>7, <1>11, <2>2, <2>5, OurSide
<1>14. CASE (first => m.block = 1) /\ (~first => m.block # TftpLastBlock)
  <2>1. /\ TftpLastBlock' = m.block
        /\ Store((m.block - 1) * TftpBlkSize + TftpBlockWrapOffset', m)
        /\ TftpSend
        /\ net_state' = IF m.len < TftpBlkSize THEN "SUCCESS" ELSE net_state
    BY Zenon, <1>14 DEF TftpData
  <2>2. Store(Before(m.block), m)
    <3>1. (m.block - 1) * TftpBlkSize + TftpBlockWrapOffset' = Before(m.block)
      BY <1>5, <1>8, <1>10, Blocks DEF Before
    <3> QED
      BY Zenon, <2>1, <3>1
  <2>3. /\ memory' \in [1..Memory -> Int] /\ NetBootFileXferSize' \in 0..File
        /\ \A i \in 1..File : memory[i] = i => memory'[i] = i
        /\ \A i \in 1..File : i <= Before(m.block + 1) => memory'[i] = i
        /\ m.len < Size => /\ NetBootFileXferSize' = File
                           /\ \A i \in 1..File : memory'[i] = i
    BY Zenon, <1>1, <1>3, <1>9, <2>2, StoreStep
  <2>4. Stored(Before(TftpBlock + 1))' /\ Stored(Before(TftpLastBlock + 1))'
    BY Zenon, <1>1, <1>2, <2>1, <2>3 DEF Stored
  <2>5. OursOK'
    BY Zenon, <1>1, <1>2, <1>5, <1>8, <1>10, <2>1, <2>3, <2>4 DEF OursOK
  <2>6. LoadedIsFile'
    BY Zenon, <1>1, <1>8, <2>1, <2>3 DEF LoadedIsFile
  <2>7. \A x \in toPeer' : x \in toPeer \/ ToPeerOK(x)'
    BY Zenon, <1>1, <1>4, <1>5, <2>1, <2>4, AckSent
  <2> QED
    BY Zenon, <1>1, <1>7, <1>11, <2>3, <2>5, <2>6, <2>7, OurSide
<1> QED
  BY Zenon, <1>12, <1>13, <1>14

\* TftpHandler(), with what it ignores.
LEMMA ReceiveStep ==
  ASSUME IInv, NoWrap, Receive
  PROVE  IInv'
<1>1. PICK m \in toUs : /\ toUs' \subseteq toUs /\ UNCHANGED <<ends, peer>>
                        /\ Ignore(m) \/ TftpHandler(m)
  BY Zenon DEF Receive, Take
<1>2. CASE Ignore(m)
  <2>1. /\ UNCHANGED <<ends, us>> /\ toPeer' = toPeer /\ peer' = peer
    BY Zenon, <1>1, <1>2 DEF Ignore
  <2>2. peer' \in [PeerPorts -> SUBSET Transfer]
    BY Zenon, <2>1 DEF IInv
  <2> QED
    BY Zenon, <1>1, <2>1, <2>2, PeerSide
<1> QED
  BY Zenon, <1>1, <1>2, WrqStep, OackStep, DataStep, ErrorStep DEF TftpHandler

\* A timer that expires, with or without a packet under way.
LEMMA TimerStep ==
  ASSUME IInv, NoWrap, Silence \/ Early
  PROVE  IInv'
<1>1. UNCHANGED <<ends, peer>>
  BY Zenon DEF Silence, Early
<1>2. CASE Silence
  BY Zenon, <1>1, <1>2, AgainOK, TimeoutStep DEF Silence
<1>3. CASE TftpTimeout /\ UNCHANGED toUs
  BY Zenon, <1>1, <1>3, TimeoutStep
<1>4. ASSUME NEW p \in PeerPorts, toUs' = toUs \cup Again(p), UNCHANGED <<us, toPeer>>
      PROVE  IInv'
  <2>1. UNCHANGED <<ends, us>> /\ peer' = peer /\ toPeer' = toPeer
    BY Zenon, <1>1, <1>4
  <2>2. peer' \in [PeerPorts -> SUBSET Transfer]
    BY Zenon, <2>1 DEF IInv
  <2>3. \A m \in toUs' : m \in toUs \/ ToUsOK(m)
    BY Zenon, <1>4, AgainOK
  <2> QED
    BY Zenon, <2>1, <2>2, <2>3, PeerSide
<1> QED
  BY Zenon, <1>2, <1>3, <1>4 DEF Early

(***************************************************************************)
(* The theorem.                                                            *)
(***************************************************************************)
\* Before anything is sent.
LEMMA InitOK == Init => IInv
<1> SUFFICES ASSUME Init PROVE IInv
  BY Zenon
<1>1. /\ net_state = "WAIT" /\ toUs = {} /\ toPeer = {}
      /\ peer = [p \in PeerPorts |-> {}]
      /\ memory = [i \in 1..Memory |-> 0] /\ NetBootFileXferSize = 0
  BY Zenon DEF Init
<1>2. StateOK /\ LoadedIsFile
  BY Zenon, <1>1, TftpAssumption DEF Init, StateOK, Get, LoadedIsFile
<1>3. OursOK
  BY <1>1, TftpAssumption DEF OursOK
<1>4. /\ peer \in [PeerPorts -> SUBSET Transfer]
      /\ \A p \in PeerPorts : \A t \in peer[p] : TransferOK(p, t)
  BY Zenon, <1>1
<1> QED
  BY Zenon, <1>1, <1>2, <1>3, <1>4 DEF IInv

\* The invariant says what the transfer promises.
LEMMA InvOK == IInv => LoadedIsFile /\ AckedIsStored
<1> SUFFICES ASSUME IInv, net_state = "CONTINUE", NEW p \in PeerPorts, NEW t \in peer[p],
                    t.to = TftpOurPort, NEW i \in 1..(t.n - 1) * t.size
             PROVE  memory[i] = i
  BY Zenon DEF IInv, AckedIsStored
<1>1. TransferOK(p, t)
  BY Zenon DEF IInv
<1>2. /\ t.n \in Nat /\ t.size = Size /\ t.n <= LastBlock(Size)
      /\ t.n > 0 => Ahead(p, t.n)
  BY Zenon, <1>1 DEF TransferOK, Transfer
<1>3. i \in 1..Before(t.n)
  BY Zenon, <1>2 DEF Before
<1>4. Size \in Nat \ {0} /\ File \in Nat /\ LastBlock(Size) \in Nat
  BY Zenon, Blocks
<1>5. t.n # 0
  BY <1>2, <1>4
<1>6. Before(t.n) \in 0..File /\ (t.n = 1 => Before(t.n) = 0)
  <2>1. t.n \in 1..LastBlock(Size)
    BY <1>2, <1>4, <1>5
  <2>2. Before(t.n) \in 0..File
    BY Zenon, <2>1, Blocks
  <2>3. t.n = 1 => Before(t.n) = 0
    BY Zenon, Blocks
  <2> QED
    BY Zenon, <2>2, <2>3
<1>7. t.n # 1 /\ Ahead(p, t.n)
  BY <1>2, <1>3, <1>5, <1>6
<1>8. Stored(Before(t.n))
  BY Zenon, <1>7 DEF Ahead
<1> QED
  BY <1>3, <1>4, <1>6, <1>8 DEF Stored

\* A transfer that ends in "done" has loaded the whole file and its right length, and
\* the other end never gets ahead of what store_block() stored, for every file whose
\* number of blocks is less than TFTP_SEQUENCE_SIZE, every pair of block sizes and
\* any number of packets lost, duplicated, delayed or reordered and of timeouts.
THEOREM LoadsWholeFile ==
  ASSUME NoWrap
  PROVE  Spec => [](LoadedIsFile /\ AckedIsStored)
<1>1. Init => IInv
  BY Zenon, InitOK
<1>2. IInv /\ [Next]_vars => IInv'
  <2> SUFFICES ASSUME IInv, [Next]_vars PROVE IInv'
    BY Zenon
  <2>1. CASE UNCHANGED vars
    <3>1. /\ UNCHANGED <<ends, us>> /\ toUs' = toUs /\ toPeer' = toPeer /\ peer' = peer
      BY Zenon, <2>1 DEF vars
    <3>2. peer' \in [PeerPorts -> SUBSET Transfer]
      BY Zenon, <3>1 DEF IInv
    <3> QED
      BY Zenon, <3>1, <3>2, PeerSide
  <2> QED
    BY Zenon, <2>1, RestartStep, ReceiveStep, TimerStep, LoseStep, PeerReceiveStep, PeerSendsStep
       DEF Next
<1>3. IInv => LoadedIsFile /\ AckedIsStored
  BY Zenon, InvOK
<1> QED
  BY <1>1, <1>2, <1>3, PTL DEF Spec
\* The same of what is acknowledged alone.
THEOREM AcksFollowStores ==
  ASSUME NoWrap
  PROVE  Spec => []AckedIsStored
BY LoadsWholeFile, PTL

(***************************************************************************)
(* Types, with or without a wrap-around of the block number.               *)
(***************************************************************************)
AnyPort == OurPorts \cup {WELL_KNOWN_PORT, NoPort}
Sizes == {TFTP_BLOCK_SIZE, TftpBlkSizeOption}
AnyTransfer == [to : AnyPort, n : Nat, size : Sizes]

\* A packet of the other end: a block holds cells of the file, under a number of the
\* wire.
FromPeer(m) ==
  /\ m.op \in {"WRQ", "OACK", "DATA"} => m.src \in PeerPorts
  /\ m.op = "OACK" => m.blksize \in Sizes
  /\ m.op = "DATA" => /\ m.block \in 0..TFTP_SEQUENCE_SIZE - 1
                      /\ m.first \in Nat /\ m.len \in Int /\ m.first + m.len - 1 <= File

FromUs(m) == m.op \in {"RRQ", "ACK"} => m.src \in AnyPort

\* Our own variables: the handler is taken away once the timeouts are used up.
OursTyped ==
  /\ net_state \in {"CONTINUE", "WAIT", "SUCCESS", "FAIL"}
  /\ TftpState \in {"SEND_RRQ", "OACK", "DATA", "RECV_WRQ"}
  /\ TftpOurPort \in AnyPort
  /\ TftpRemotePort \in PeerPorts \cup {WELL_KNOWN_PORT, NoPort}
  /\ {TftpBlock, TftpLastBlock} \subseteq 0..TFTP_SEQUENCE_SIZE - 1
  /\ TftpBlkSize \in Sizes
  /\ TftpBlockWrapOffset \in Nat
  /\ TftpTimeoutCount \in 0..TIMEOUT_COUNT + 1
  /\ TftpTimeoutCountMax \in 0..TIMEOUT_COUNT
  /\ net_state = "CONTINUE" => TftpTimeoutCount <= TftpTimeoutCountMax
  /\ memory \in [1..Memory -> 0..File]

PeerTyped ==
  /\ peer \in [PeerPorts -> SUBSET AnyTransfer]
  /\ \A p \in PeerPorts : \A t, u \in peer[p] : t = u

\* The inductive invariant for the types.
TypeInv ==
  /\ OursTyped /\ PeerTyped
  /\ \A m \in toUs : FromPeer(m)
  /\ \A m \in toPeer : FromUs(m)

\* What a transfer of the other end sends.
LEMMA PacketTyped ==
  ASSUME NEW p \in PeerPorts, NEW t \in AnyTransfer
  PROVE  FromPeer(Packet(p, t))
<1>1. t.n \in Nat /\ t.size \in Sizes /\ t.size \in Nat
  BY Zenon, TftpAssumption DEF AnyTransfer, Sizes
<1>2. CASE t.n = 0
  BY Zenon, <1>1, <1>2 DEF Packet, FromPeer
<1>3. CASE t.n # 0
  <2> DEFINE before == (t.n - 1) * t.size
  <2>1. t.n - 1 \in Nat
    BY <1>1, <1>3
  <2>2. \A a, b \in Nat : a * b \in Nat
    OBVIOUS
  <2>3. before \in Nat /\ File \in Nat
    BY Zenon, <1>1, <2>1, <2>2, TftpAssumption
  <2>4. PICK x : x = Packet(p, t)
    BY Zenon
  <2>5. /\ x.op = "DATA" /\ x.src = p /\ x.block = t.n % TFTP_SEQUENCE_SIZE
        /\ x.first = before + 1 /\ x.len = Min({t.size, File - before})
    BY Zenon, <1>3, <2>4 DEF Packet
  <2>6. t.n % TFTP_SEQUENCE_SIZE \in 0..TFTP_SEQUENCE_SIZE - 1
    BY <1>1, TftpAssumption
  <2> HIDE DEF before
  <2>7. Min({t.size, File - before}) \in Int /\ Min({t.size, File - before}) <= File - before
    BY <1>1, <2>3, MinMax
  <2>8. FromPeer(x)
    BY <2>3, <2>5, <2>6, <2>7 DEF FromPeer
  <2> QED
    BY Zenon, <2>4, <2>8
<1> QED
  BY Zenon, <1>2, <1>3

\* A step that leaves us alone.
LEMMA PeerSideTyped ==
  ASSUME TypeInv, UNCHANGED us,
         \A m \in toUs' : m \in toUs \/ FromPeer(m),
         toPeer' \subseteq toPeer, PeerTyped'
  PROVE  TypeInv'
<1>1. OursTyped'
  BY Zenon DEF TypeInv, OursTyped, us, port, blocks, loaded, timer
<1> QED
  BY Zenon, <1>1 DEF TypeInv, FromPeer, FromUs

\* A step of ours.
LEMMA OurSideTyped ==
  ASSUME TypeInv, UNCHANGED peer, OursTyped',
         \A m \in toUs' : m \in toUs \/ FromPeer(m),
         toPeer' = toPeer \/ TftpSend
  PROVE  TypeInv'
<1>1. PeerTyped'
  BY Zenon DEF TypeInv, PeerTyped
<1>2. FromUs(Sent(TftpState', TftpBlock', TftpOurPort', TftpRemotePort'))
  BY Zenon DEF OursTyped, FromUs, Sent
<1>3. \A m \in toPeer' : FromUs(m)
  BY Zenon, <1>2 DEF TypeInv, TftpSend
<1> QED
  BY Zenon, <1>1, <1>3 DEF TypeInv, FromPeer, FromUs

\* A transfer is opened.
LEMMA RequestTyped ==
  ASSUME TypeInv, NEW m \in toPeer, toPeer' \subseteq toPeer, UNCHANGED us, PeerRequest(m)
  PROVE  TypeInv'
<1>1. m.op = "RRQ" /\ m.src \in AnyPort
  BY Zenon DEF TypeInv, FromUs, PeerRequest
<1>2. PeerTyped
  BY Zenon DEF TypeInv
<1>3. CASE UNCHANGED peer /\ \A x \in toUs' : x \in toUs \/ x.op = "ERROR"
  BY Zenon, <1>2, <1>3, PeerSideTyped DEF PeerTyped, FromPeer
<1>4. ASSUME NEW p \in PeerPorts, NEW t, peer' = [peer EXCEPT ![p] = {t}],
             toUs' = toUs \cup {Packet(p, t)},
             t = IF server = "OPTIONS"
                 THEN [to |-> m.src, n |-> 0, size |-> TftpBlkSizeOption]
                 ELSE [to |-> m.src, n |-> 1, size |-> TFTP_BLOCK_SIZE]
      PROVE  TypeInv'
  <2>1. t \in AnyTransfer
    BY Zenon, <1>1, <1>4 DEF AnyTransfer, Sizes
  <2>2. FromPeer(Packet(p, t))
    BY Zenon, <2>1, PacketTyped
  <2>3. PeerTyped'
    BY <1>2, <1>4, <2>1 DEF PeerTyped
  <2> QED
    BY Zenon, <1>4, <2>2, <2>3, PeerSideTyped
<1> QED
  BY <1>3, <1>4 DEF PeerRequest, Error

\* A transfer goes on, or ends.
LEMMA AckTyped ==
  ASSUME TypeInv, NEW m \in toPeer, toPeer' \subseteq toPeer, UNCHANGED us,
         m.op = "ACK", m.dest \in PeerPorts, PeerAck(m)
  PROVE  TypeInv'
<1> DEFINE p == m.dest
<1>1. PeerTyped /\ m.src \in AnyPort
  BY Zenon DEF TypeInv, FromUs
<1>2. PICK t \in peer[p] :
        LET next == [t EXCEPT !.n = @ + 1, !.to = m.src]
        IN \/ UNCHANGED <<peer, toUs>>
           \/ peer' = [peer EXCEPT ![p] = {}] /\ UNCHANGED toUs
           \/ /\ peer' = [peer EXCEPT ![p] = {next}]
              /\ toUs' = toUs \cup {Packet(p, next)}
  BY Zenon DEF PeerAck
<1> DEFINE next == [t EXCEPT !.n = @ + 1, !.to = m.src]
<1>3. CASE UNCHANGED <<peer, toUs>>
  BY Zenon, <1>1, <1>3, PeerSideTyped DEF PeerTyped
<1>4. CASE peer' = [peer EXCEPT ![p] = {}] /\ UNCHANGED toUs
  <2>1. PeerTyped'
    BY Zenon, <1>1, <1>4 DEF PeerTyped
  <2> QED
    BY Zenon, <1>4, <2>1, PeerSideTyped
<1>5. CASE /\ peer' = [peer EXCEPT ![p] = {next}]
           /\ toUs' = toUs \cup {Packet(p, next)}
  <2>1. t \in AnyTransfer
    BY Zenon, <1>1 DEF PeerTyped
  <2>2. next \in AnyTransfer
    <3>1. [t EXCEPT !.n = t.n + 1] \in AnyTransfer
      BY <2>1 DEF AnyTransfer
    <3>2. \A u \in AnyTransfer : [u EXCEPT !.to = m.src] \in AnyTransfer
      BY Zenon, <1>1 DEF AnyTransfer
    <3>3. next = [[t EXCEPT !.n = t.n + 1] EXCEPT !.to = m.src]
      BY Zenon
    <3> QED
      BY Zenon, <3>1, <3>2, <3>3
  <2> HIDE DEF next
  <2>3. FromPeer(Packet(p, next))
    BY Zenon, <2>2, PacketTyped
  <2>4. PeerTyped'
    BY <1>1, <1>5, <2>2 DEF PeerTyped
  <2> QED
    BY Zenon, <1>5, <2>3, <2>4, PeerSideTyped
<1> QED
  BY Zenon, <1>2, <1>3, <1>4, <1>5

\* Whatever the other end receives or offers.
LEMMA PeerStepTyped ==
  ASSUME TypeInv, PeerReceive \/ PeerSends
  PROVE  TypeInv'
<1>1. CASE PeerReceive
  <2>1. PICK m \in toPeer :
          /\ toPeer' \subseteq toPeer
          /\ PeerRequest(m) \/ (m.op = "ACK" /\ m.dest \in PeerPorts /\ PeerAck(m)) \/ PeerUnknown(m)
          /\ UNCHANGED us
    BY Zenon, <1>1 DEF PeerReceive, Take
  <2>2. CASE PeerUnknown(m)
    <3>1. UNCHANGED peer /\ \A x \in toUs' : x \in toUs \/ x.op = "ERROR"
      BY <2>2 DEF PeerUnknown, Error
    <3>2. PeerTyped'
      BY Zenon, <3>1 DEF TypeInv, PeerTyped
    <3> QED
      BY Zenon, <2>1, <3>1, <3>2, PeerSideTyped DEF FromPeer
  <2> QED
    BY Zenon, <2>1, <2>2, RequestTyped, AckTyped
<1>2. CASE PeerSends
  <2> DEFINE t == [to |-> WELL_KNOWN_PORT, n |-> 0, size |-> TFTP_BLOCK_SIZE]
  <2>1. PICK p \in PeerPorts : /\ peer' = [q \in PeerPorts |-> IF q = p THEN {t} ELSE {}]
                               /\ toUs' = {Packet(p, t)} /\ UNCHANGED <<us, toPeer>>
    BY Zenon, <1>2 DEF PeerSends
  <2>2. t \in AnyTransfer
    BY Zenon DEF AnyTransfer, AnyPort, Sizes
  <2> HIDE DEF t
  <2>3. PeerTyped' /\ FromPeer(Packet(p, t))
    BY Zenon, <2>1, <2>2, PacketTyped DEF PeerTyped
  <2> QED
    BY Zenon, <2>1, <2>3, PeerSideTyped
<1> QED
  BY Zenon, <1>1, <1>2

\* store_block() writes cells of the file, wherever it writes them.
LEMMA StoreTyped ==
  ASSUME OursTyped, NEW m, m.op = "DATA", FromPeer(m), NEW offset \in Int, Store(offset, m)
  PROVE  memory' \in [1..Memory -> 0..File]
<1>1. Memory \in Nat /\ File \in Nat /\ memory \in [1..Memory -> 0..File]
  BY Zenon, TftpAssumption DEF OursTyped
<1>2. m.first \in Nat /\ m.len \in Int /\ m.first + m.len - 1 <= File
  BY Zenon DEF FromPeer
<1>3. ASSUME NEW i \in 1..Memory
      PROVE  (IF i - offset \in 1..m.len THEN m.first + i - offset - 1 ELSE memory[i]) \in 0..File
  <2>1. memory[i] \in 0..File
    BY Zenon, <1>1
  <2>2. ASSUME NEW f \in Nat, NEW n \in Int, f + n - 1 <= File, i - offset \in 1..n
        PROVE  f + i - offset - 1 \in 0..File
    BY <1>1, <2>2
  <2>3. i - offset \in 1..m.len => m.first + i - offset - 1 \in 0..File
    BY Zenon, <1>2, <2>2
  <2> QED
    BY Zenon, <2>1, <2>3
<1> QED
  BY Zenon, <1>3 DEF Store

\* A block of data.
LEMMA DataTyped ==
  ASSUME TypeInv, NEW m \in toUs, net_state = "CONTINUE", TftpData(m)
  PROVE  OursTyped' /\ (toPeer' = toPeer \/ TftpSend)
<1>1. OursTyped /\ FromPeer(m) /\ m.op = "DATA"
  BY Zenon DEF TypeInv, TftpData
<1>2. /\ m.block \in 0..TFTP_SEQUENCE_SIZE - 1 /\ m.src \in PeerPorts
      /\ TFTP_SEQUENCE_SIZE \in Nat \ {0} /\ TftpBlkSize \in Nat /\ TIMEOUT_COUNT \in Nat
  BY Zenon, <1>1, TftpAssumption DEF FromPeer, OursTyped, Sizes
<1>3. \A a, b \in Nat : a * b \in Nat
  OBVIOUS
<1>4. \A a, b \in Int : a * b \in Int
  OBVIOUS
<1>5. Wrapped(m.block) \in Nat
  BY <1>1, <1>2, <1>3 DEF Wrapped, OursTyped
<1>6. TftpBlockWrapOffset' \in Nat
  BY Zenon, <1>5 DEF TftpData
<1>7. (m.block - 1) * TftpBlkSize \in Int
  BY <1>2, <1>4
<1>8. \/ /\ net_state' \in {"WAIT", net_state} /\ TftpLastBlock' \in {0, TftpLastBlock}
         /\ UNCHANGED <<TftpTimeoutCountMax, loaded, toPeer>>
      \/ /\ TftpLastBlock' = m.block /\ TftpTimeoutCountMax' = TIMEOUT_COUNT
         /\ Store((m.block - 1) * TftpBlkSize + TftpBlockWrapOffset', m)
         /\ TftpSend /\ net_state' \in {"SUCCESS", net_state}
  BY Zenon DEF TftpData, NetStartAgain
<1>9. memory' \in [1..Memory -> 0..File]
  <2>1. CASE UNCHANGED loaded
    BY Zenon, <1>1, <2>1 DEF loaded, OursTyped
  <2>2. PICK offset \in Int : offset = (m.block - 1) * TftpBlkSize + TftpBlockWrapOffset'
    BY <1>6, <1>7
  <2>3. CASE Store(offset, m)
    BY Zenon, <1>1, <2>3, StoreTyped
  <2> QED
    BY Zenon, <1>8, <2>1, <2>2, <2>3
<1>10. /\ TftpState' = "DATA" /\ TftpRemotePort' \in {m.src, TftpRemotePort}
       /\ TftpBlock' = m.block /\ TftpTimeoutCount' \in {0, TftpTimeoutCount}
       /\ TftpOurPort' = TftpOurPort /\ TftpBlkSize' = TftpBlkSize
  BY Zenon DEF TftpData
<1>11. /\ net_state' \in {"CONTINUE", "WAIT", "SUCCESS", "FAIL"}
       /\ TftpLastBlock' \in 0..TFTP_SEQUENCE_SIZE - 1
       /\ TftpTimeoutCountMax' \in {TIMEOUT_COUNT, TftpTimeoutCountMax}
  BY <1>1, <1>2, <1>8 DEF OursTyped
<1>12. /\ TftpTimeoutCount' \in 0..TIMEOUT_COUNT + 1
       /\ TftpTimeoutCountMax' \in 0..TIMEOUT_COUNT
       /\ net_state' = "CONTINUE" => TftpTimeoutCount' <= TftpTimeoutCountMax'
  BY <1>1, <1>2, <1>10, <1>11 DEF OursTyped
<1>13. OursTyped'
  BY Zenon, <1>1, <1>2, <1>6, <1>9, <1>10, <1>11, <1>12 DEF OursTyped
<1> QED
  BY Zenon, <1>8, <1>13

\* Whatever we receive.
LEMMA ReceiveTyped ==
  ASSUME TypeInv, Receive
  PROVE  TypeInv'
<1>1. PICK m \in toUs : /\ toUs' \subseteq toUs /\ UNCHANGED peer
                        /\ Ignore(m) \/ TftpHandler(m)
  BY Zenon DEF Receive, Take
<1>2. OursTyped /\ FromPeer(m)
  BY Zenon DEF TypeInv
<1>3. CASE Ignore(m)
  BY Zenon, <1>1, <1>3, PeerSideTyped DEF Ignore, TypeInv, PeerTyped
<1>4. CASE TftpWrq(m)
  <2>1. OursTyped' /\ TftpSend
    BY <1>2, <1>4, TftpAssumption
       DEF TftpWrq, OursTyped, FromPeer, Drawn, AnyPort, loaded, timer
  <2> QED
    BY Zenon, <1>1, <2>1, OurSideTyped
<1>5. CASE TftpOack(m)
  <2>1. OursTyped' /\ TftpSend
    BY Zenon, <1>2, <1>5 DEF TftpOack, OursTyped, FromPeer, loaded, timer
  <2> QED
    BY Zenon, <1>1, <2>1, OurSideTyped
<1>6. CASE TftpError(m)
  <2>1. OursTyped' /\ toPeer' = toPeer
    BY Zenon, <1>2, <1>6 DEF TftpError, NetStartAgain, OursTyped, port, blocks, loaded, timer
  <2> QED
    BY Zenon, <1>1, <2>1, OurSideTyped
<1>7. CASE TftpData(m) /\ net_state = "CONTINUE"
  BY Zenon, <1>1, <1>7, DataTyped, OurSideTyped
<1> QED
  BY Zenon, <1>1, <1>3, <1>4, <1>5, <1>6, <1>7 DEF TftpHandler, Accepts

\* A timer that expires, a packet lost, and the transfer started again.
LEMMA RestTyped ==
  ASSUME TypeInv, Silence \/ Early \/ Lose \/ Restart
  PROVE  TypeInv'
<1>1. OursTyped /\ PeerTyped
  BY Zenon DEF TypeInv
<1>2. \A p \in PeerPorts : \A m \in Again(p) : FromPeer(m)
  BY Zenon, <1>1, PacketTyped DEF Again, PeerTyped
<1>3. ASSUME TftpTimeout  PROVE OursTyped' /\ (toPeer' = toPeer \/ TftpSend)
  BY <1>1, <1>3, TftpAssumption
     DEF TftpTimeout, NetStartAgain, OursTyped, port, blocks, loaded
<1>4. CASE Silence
  BY Zenon, <1>2, <1>3, <1>4, OurSideTyped DEF Silence
<1>5. CASE Early
  <2>1. CASE TftpTimeout /\ UNCHANGED toUs
    BY Zenon, <1>3, <1>5, <2>1, OurSideTyped DEF Early
  <2>2. ASSUME NEW p \in PeerPorts, toUs' = toUs \cup Again(p), UNCHANGED <<us, toPeer>>
        PROVE  TypeInv'
    BY Zenon, <1>1, <1>2, <1>5, <2>2, PeerSideTyped DEF Early, PeerTyped
  <2> QED
    BY Zenon, <1>5, <2>1, <2>2 DEF Early
<1>6. CASE Lose
  BY Zenon, <1>1, <1>6, PeerSideTyped DEF Lose, PeerTyped
<1>7. CASE Restart
  <2>1. OursTyped'
    BY <1>1, <1>7, TftpAssumption DEF Restart, Started, OursTyped, Drawn, AnyPort, Sizes
  <2>2. toPeer' = toPeer \/ TftpSend
    BY Zenon, <1>7 DEF Restart, Started
  <2>3. UNCHANGED <<peer, toUs>>
    BY Zenon, <1>7 DEF Restart
  <2> QED
    BY Zenon, <2>1, <2>2, <2>3, OurSideTyped
<1> QED
  BY Zenon, <1>4, <1>5, <1>6, <1>7

\* The state of the transfer, its block numbers, the count of its timeouts and what
\* it stored keep their ranges, for every file, wrap-arounds included, and the other
\* end has one transfer per port.
THEOREM TransferTyping == Spec => []TypeOK
<1>1. Init => TypeInv
  BY TftpAssumption DEF Init, TypeInv, OursTyped, PeerTyped, AnyPort, Sizes
<1>2. TypeInv /\ [Next]_vars => TypeInv'
  <2> SUFFICES ASSUME TypeInv, [Next]_vars PROVE TypeInv'
    BY Zenon
  <2>1. CASE UNCHANGED vars
    <3>1. UNCHANGED us /\ toUs' = toUs /\ toPeer' = toPeer /\ peer' = peer
      BY Zenon, <2>1 DEF vars
    <3> QED
      BY Zenon, <3>1, PeerSideTyped DEF TypeInv, PeerTyped
  <2> QED
    BY Zenon, <2>1, RestTyped, ReceiveTyped, PeerStepTyped DEF Next
<1>3. TypeInv => TypeOK
  BY Zenon DEF TypeInv, OursTyped, PeerTyped, TypeOK, AnyPort, Sizes
<1> QED
  BY <1>1, <1>2, <1>3, PTL DEF Spec
=============================================================================
