-------------------------------- MODULE Tftp --------------------------------
(* The file transfer of net/tftp.c as NetLoop() (net/net.c) drives it: a read   *)
(* from a server (tftpboot) and the reception of a file somebody sends          *)
(* (tftpsrv, which autoboot tries first where it is built), over a network      *)
(* that loses, duplicates, delays and reorders packets.                         *)
(*                                                                              *)
(* A file is File cells long, the smallest unit a block size may have.  Memory  *)
(* and packets hold numbers of cells of the file, 0 where nothing was stored.   *)
(* The other end is external: what RFC 1350 and 2347 ask of it and no more.     *)
EXTENDS Integers, FiniteSetsExt

CONSTANTS
  TFTP_SEQUENCE_SIZE,   \* block numbers on the wire are modulo this (65536)
  TFTP_BLOCK_SIZE,      \* the default block size, in cells
  TftpBlkSizeOption,    \* the block size asked for in the request
  TIMEOUT_COUNT,        \* timeouts before the transfer starts again
  File,                 \* cells of the file
  Memory,               \* cells of memory that are looked at
  Protocols,            \* of TFTPGET, TFTPSRV and AUTO (tftpsrv from autoboot)
  OurPorts, PeerPorts,  \* port numbers either end may draw
  WELL_KNOWN_PORT, NoPort,
  MaxFaults             \* packets lost or duplicated and early timeouts, in all

ASSUME TftpAssumption ==
  /\ {TFTP_SEQUENCE_SIZE, TFTP_BLOCK_SIZE, TftpBlkSizeOption} \subseteq Nat \ {0}
  /\ {TIMEOUT_COUNT, File, Memory, MaxFaults} \subseteq Nat
  /\ WELL_KNOWN_PORT \notin OurPorts \cup PeerPorts
  /\ Protocols \subseteq {"TFTPGET", "TFTPSRV", "AUTO"}

VARIABLES
  protocol,             \* what NetLoop() was called with
  server,               \* NO_FILE, PLAIN (knows no options) or OPTIONS
  net_state,            \* CONTINUE, WAIT (startAgainTimeout set), SUCCESS, FAIL
  TftpState,            \* SEND_RRQ, OACK, DATA, RECV_WRQ
  TftpOurPort, TftpRemotePort,
  TftpBlock, TftpLastBlock,
  TftpBlockWrapOffset,  \* in cells
  TftpBlkSize,
  TftpTimeoutCount, TftpTimeoutCountMax,
  memory,               \* what load_addr points to
  NetBootFileXferSize,
  toUs, toPeer,         \* packets under way
  peer,                 \* the transfers of the other end, by its port
  faults

ends == <<protocol, server>>
port == <<TftpOurPort, TftpRemotePort>>
blocks == <<TftpBlock, TftpLastBlock, TftpBlockWrapOffset, TftpBlkSize>>
loaded == <<memory, NetBootFileXferSize>>
timer == <<TftpTimeoutCount, TftpTimeoutCountMax>>
us == <<net_state, TftpState, port, blocks, loaded, timer>>
vars == <<ends, us, toUs, toPeer, peer, faults>>

-----------------------------------------------------------------------------
(* The other end: n is the block it has sent last and waits to be acknowledged, *)
(* 0 while it waits for the answer to an OACK or a WRQ.                          *)

LastBlock(size) == File \div size + 1

\* The packet a transfer sends, and sends again on a timeout.
Packet(p, t) ==
  IF t.n = 0
  THEN [op |-> IF protocol = "TFTPGET" THEN "OACK" ELSE "WRQ",
        src |-> p, dest |-> t.to, blksize |-> t.size]
  ELSE [op |-> "DATA", src |-> p, dest |-> t.to, block |-> t.n % TFTP_SEQUENCE_SIZE,
        first |-> (t.n - 1) * t.size + 1, len |-> Min({t.size, File - (t.n - 1) * t.size})]

Error(p, to, code) == [op |-> "ERROR", src |-> p, dest |-> to, code |-> code]

\* A packet is taken from the network, which may keep a copy.
Take(net, m, rest) == \/ rest = net \ {m} /\ UNCHANGED faults
                      \/ rest = net /\ faults < MaxFaults /\ faults' = faults + 1

\* A request opens a transfer on a port of its own, one that has no transfer with
\* the same port of ours, and is dropped when there is none.
PeerRequest(m) ==
  LET free == {p \in PeerPorts : \A t \in peer[p] : t.to # m.src}
  IN /\ m.op = "RRQ"
     /\ CASE server = "NO_FILE" ->
               /\ toUs' = toUs \cup {Error(WELL_KNOWN_PORT, m.src, "NOT_FOUND")}
               /\ UNCHANGED peer
          [] server # "NO_FILE" /\ free # {} ->
               \E p \in free :
                 LET t == IF server = "OPTIONS"
                          THEN [to |-> m.src, n |-> 0, size |-> TftpBlkSizeOption]
                          ELSE [to |-> m.src, n |-> 1, size |-> TFTP_BLOCK_SIZE]
                 IN /\ peer' = [peer EXCEPT ![p] = {t}]
                    /\ toUs' = toUs \cup {Packet(p, t)}
          [] OTHER -> UNCHANGED <<peer, toUs>>

\* The acknowledgement of the block sent last asks for the next and that of the
\* last block ends the transfer; any other is ignored.
PeerAck(m) ==
  \E t \in peer[m.dest] :
    LET next == [t EXCEPT !.n = @ + 1, !.to = m.src]
        right == m.block = t.n % TFTP_SEQUENCE_SIZE /\ t.to \in {m.src, WELL_KNOWN_PORT}
    IN CASE ~right -> UNCHANGED <<peer, toUs>>
         [] right /\ t.n = LastBlock(t.size) ->
              peer' = [peer EXCEPT ![m.dest] = {}] /\ UNCHANGED toUs
         [] OTHER -> /\ peer' = [peer EXCEPT ![m.dest] = {next}]
                     /\ toUs' = toUs \cup {Packet(m.dest, next)}

\* One for no transfer is answered with an error.
PeerUnknown(m) ==
  /\ m.op = "ACK" /\ (m.dest \in PeerPorts => peer[m.dest] = {})
  /\ toUs' = toUs \cup {Error(m.dest, m.src, "UNKNOWN_TRANSFER_ID")}
  /\ UNCHANGED peer

PeerReceive ==
  \E m \in toPeer :
    /\ Take(toPeer, m, toPeer')
    /\ \/ PeerRequest(m)
       \/ m.op = "ACK" /\ m.dest \in PeerPorts /\ PeerAck(m)
       \/ PeerUnknown(m)
    /\ UNCHANGED <<ends, us>>

\* Somebody sends a file to tftpsrv, and anew once nobody answers any more.
PeerSends ==
  /\ protocol # "TFTPGET" /\ net_state \in {"CONTINUE", "WAIT"}
  /\ toUs = {} /\ toPeer = {}
  /\ \A p \in PeerPorts : \A t \in peer[p] : t.to \notin {WELL_KNOWN_PORT, TftpOurPort}
  /\ \E p \in PeerPorts :
       LET t == [to |-> WELL_KNOWN_PORT, n |-> 0, size |-> TFTP_BLOCK_SIZE]
       IN /\ peer' = [q \in PeerPorts |-> IF q = p THEN {t} ELSE {}]
          /\ toUs' = {Packet(p, t)}
  /\ UNCHANGED <<ends, us, toPeer, faults>>

Again(p) == {Packet(p, t) : t \in peer[p]}

-----------------------------------------------------------------------------
(* Our end.                                                                      *)

\* TftpSend(): the request in SEND_RRQ, else an acknowledgement of TftpBlock,
\* whatever that is by now.
Sent(state, block, our, remote) ==
  IF state = "SEND_RRQ" THEN [op |-> "RRQ", src |-> our, dest |-> remote]
  ELSE [op |-> "ACK", src |-> our, dest |-> remote, block |-> block]

TftpSend == toPeer' = toPeer \cup {Sent(TftpState', TftpBlock', TftpOurPort', TftpRemotePort')}

\* A pseudo-random port: of the 3072, not one that an earlier attempt used and that
\* the network or the other end still knows.
Drawn == {q \in OurPorts : /\ \A m \in toUs : m.dest # q
                           /\ \A m \in toPeer : m.src # q
                           /\ \A p \in PeerPorts : \A t \in peer[p] : t.to # q}

\* NetStartAgain() with netretry unset: the handler is taken away and the
\* transfer starts again, after ten seconds when every device had its turn.
NetStartAgain == net_state' = "WAIT"

\* TftpStart() and TftpStartServer(), called by NetLoop(), which clears the size
\* received.  Neither resets what new_transfer() resets.
Started ==
  /\ net_state' = "CONTINUE"
  /\ TftpBlock' = 0 /\ TftpBlkSize' = TFTP_BLOCK_SIZE /\ NetBootFileXferSize' = 0
  /\ TftpTimeoutCount' = 0
  /\ IF protocol = "TFTPGET"
     THEN /\ TftpState' = "SEND_RRQ" /\ TftpTimeoutCountMax' = TIMEOUT_COUNT
          /\ TftpRemotePort' = WELL_KNOWN_PORT
          /\ TftpOurPort' \in Drawn
          /\ TftpSend
     ELSE /\ TftpState' = "RECV_WRQ"
          /\ TftpTimeoutCountMax' = IF protocol = "AUTO" THEN 0 ELSE TIMEOUT_COUNT
          /\ TftpOurPort' = WELL_KNOWN_PORT
          /\ UNCHANGED <<TftpRemotePort, toPeer>>

\* startAgainTimeout() and the restart of NetLoop().
Restart ==
  /\ net_state = "WAIT"
  /\ Started
  /\ UNCHANGED <<ends, TftpLastBlock, TftpBlockWrapOffset, memory, toUs, peer, faults>>

\* Mutant: without the test of the port a packet is for.
AcceptsAnyDest(m) ==
  /\ net_state = "CONTINUE"
  /\ TftpState \in {"SEND_RRQ", "RECV_WRQ"} \/ m.src = TftpRemotePort

\* The early returns of TftpHandler().
Accepts(m) ==
  /\ net_state = "CONTINUE"
  /\ m.dest = TftpOurPort
  /\ TftpState \in {"SEND_RRQ", "RECV_WRQ"} \/ m.src = TftpRemotePort

Ignore(m) == ~Accepts(m) /\ UNCHANGED <<us, toPeer>>

\* A write request: its sender becomes the remote end, and is acknowledged from a
\* port of its own.  The timer is not set anew.
TftpWrq(m) ==
  /\ m.op = "WRQ"
  /\ TftpRemotePort' = m.src
  /\ TftpOurPort' \in Drawn
  /\ TftpLastBlock' = 0 /\ TftpBlockWrapOffset' = 0
  /\ UNCHANGED <<net_state, TftpState, TftpBlock, TftpBlkSize, loaded, timer>>
  /\ TftpSend

\* Mutant: the block size the server agreed to is not taken over.
TftpOackNoSize(m) ==
  /\ m.op = "OACK"
  /\ TftpState' = "OACK"
  /\ TftpRemotePort' = m.src
  /\ UNCHANGED <<net_state, TftpOurPort, blocks, loaded, timer>>
  /\ TftpSend

\* Mutant: TftpBlock++ as for a put, which acknowledges block 1 before it came.
TftpOackNext(m) ==
  /\ m.op = "OACK"
  /\ TftpState' = "OACK"
  /\ TftpRemotePort' = m.src
  /\ TftpBlkSize' = m.blksize
  /\ TftpBlock' = (TftpBlock + 1) % TFTP_SEQUENCE_SIZE
  /\ UNCHANGED <<net_state, TftpOurPort, TftpLastBlock, TftpBlockWrapOffset, loaded, timer>>
  /\ TftpSend

TftpOack(m) ==
  /\ m.op = "OACK"
  /\ TftpState' = "OACK"
  /\ TftpRemotePort' = m.src
  /\ TftpBlkSize' = m.blksize
  /\ UNCHANGED <<net_state, TftpOurPort, TftpBlock, TftpLastBlock, TftpBlockWrapOffset, loaded, timer>>
  /\ TftpSend

TftpError(m) ==
  /\ m.op = "ERROR"
  /\ IF m.code = "NOT_FOUND" THEN net_state' = "FAIL" ELSE NetStartAgain
  /\ UNCHANGED <<TftpState, port, blocks, loaded, timer, toPeer>>

\* update_block_number(): a block 0 is taken for a wrap-around of the counter.
Wrapped(block) ==
  IF block = 0 THEN TftpBlockWrapOffset + TftpBlkSize * TFTP_SEQUENCE_SIZE
  ELSE TftpBlockWrapOffset

\* store_block().
Store(offset, m) ==
  /\ memory' = [i \in 1..Memory |-> IF i - offset \in 1..m.len THEN m.first + i - offset - 1
                                    ELSE memory[i]]
  /\ NetBootFileXferSize' = Max({NetBootFileXferSize, offset + m.len})

\* A block: the first must be number 1, the one stored last is ignored, and any
\* other is stored where its number says and acknowledged.
TftpData(m) ==
  LET first == TftpState \in {"SEND_RRQ", "OACK", "RECV_WRQ"}
      last == IF first THEN 0 ELSE TftpLastBlock
      wrap == IF first THEN 0 ELSE Wrapped(m.block)
  IN /\ m.op = "DATA"
     /\ TftpState' = "DATA"
     /\ TftpRemotePort' = IF first THEN m.src ELSE TftpRemotePort
     /\ TftpBlock' = m.block
     /\ TftpBlockWrapOffset' = wrap
     /\ TftpTimeoutCount' = IF m.block = 0 THEN 0 ELSE TftpTimeoutCount
     /\ UNCHANGED <<TftpOurPort, TftpBlkSize>>
     /\ CASE first /\ m.block # 1 ->
               /\ NetStartAgain /\ TftpLastBlock' = 0
               /\ UNCHANGED <<TftpTimeoutCountMax, loaded, toPeer>>
          [] ~first /\ m.block = last ->
               UNCHANGED <<net_state, TftpLastBlock, TftpTimeoutCountMax, loaded, toPeer>>
          [] OTHER ->
               /\ TftpLastBlock' = m.block
               /\ TftpTimeoutCountMax' = TIMEOUT_COUNT
               /\ Store((m.block - 1) * TftpBlkSize + wrap, m)
               /\ TftpSend
               /\ net_state' = IF m.len < TftpBlkSize THEN "SUCCESS" ELSE net_state

TftpHandler(m) ==
  /\ Accepts(m)
  /\ TftpWrq(m) \/ TftpOack(m) \/ TftpData(m) \/ TftpError(m)

Receive ==
  \E m \in toUs :
    /\ Take(toUs, m, toUs')
    /\ Ignore(m) \/ TftpHandler(m)
    /\ UNCHANGED <<ends, peer>>

\* Mutant: the transfer is never given up.
TftpTimeoutForever ==
  /\ net_state = "CONTINUE"
  /\ TftpTimeoutCount' = TftpTimeoutCount + 1
  /\ UNCHANGED <<net_state, TftpState, port, blocks, loaded, TftpTimeoutCountMax>>
  /\ IF TftpState = "RECV_WRQ" THEN UNCHANGED toPeer ELSE TftpSend

TftpTimeout ==
  /\ net_state = "CONTINUE"
  /\ TftpTimeoutCount' = TftpTimeoutCount + 1
  /\ UNCHANGED <<TftpState, port, blocks, loaded, TftpTimeoutCountMax>>
  /\ IF TftpTimeoutCount' > TftpTimeoutCountMax
     THEN /\ IF protocol = "AUTO" THEN net_state' = "FAIL" ELSE NetStartAgain
          /\ UNCHANGED toPeer
     ELSE /\ UNCHANGED net_state
          /\ IF TftpState = "RECV_WRQ" THEN UNCHANGED toPeer ELSE TftpSend

-----------------------------------------------------------------------------
(* Time.  The request asks the other end for our own timeout, so when nothing    *)
(* is under way both ends time out; either may do so early, as a fault.          *)

Silence ==
  /\ toUs = {} /\ toPeer = {}
  /\ TftpTimeout
  /\ toUs' = UNION {Again(p) : p \in PeerPorts}
  /\ UNCHANGED <<ends, peer, faults>>

Early ==
  /\ faults < MaxFaults /\ faults' = faults + 1
  /\ \/ TftpTimeout /\ UNCHANGED toUs
     \/ \E p \in PeerPorts : /\ peer[p] # {}
                             /\ toUs' = toUs \cup Again(p) /\ UNCHANGED <<us, toPeer>>
  /\ UNCHANGED <<ends, peer>>

Lose ==
  /\ faults < MaxFaults /\ faults' = faults + 1
  /\ \/ \E m \in toUs : toUs' = toUs \ {m} /\ UNCHANGED toPeer
     \/ \E m \in toPeer : toPeer' = toPeer \ {m} /\ UNCHANGED toUs
  /\ UNCHANGED <<ends, us, peer>>

\* NetLoop() has been called and has not sent anything yet: what its first round
\* does is what Restart does.
Init ==
  /\ protocol \in Protocols
  /\ server \in IF protocol = "TFTPGET" THEN {"NO_FILE", "PLAIN", "OPTIONS"} ELSE {"PLAIN"}
  /\ net_state = "WAIT" /\ TftpState = "SEND_RRQ"
  /\ TftpOurPort = NoPort /\ TftpRemotePort = NoPort
  /\ TftpBlock = 0 /\ TftpLastBlock = 0 /\ TftpBlockWrapOffset = 0
  /\ TftpBlkSize = TFTP_BLOCK_SIZE
  /\ TftpTimeoutCount = 0 /\ TftpTimeoutCountMax = TIMEOUT_COUNT
  /\ memory = [i \in 1..Memory |-> 0] /\ NetBootFileXferSize = 0
  /\ toUs = {} /\ toPeer = {}
  /\ peer = [p \in PeerPorts |-> {}]
  /\ faults = 0

Next == \/ Restart \/ Receive \/ Silence \/ Early \/ Lose
        \/ PeerReceive \/ PeerSends

\* Packets that are not lost arrive, timers expire, and NetLoop() goes round.
Fairness == /\ WF_vars(Restart) /\ WF_vars(Receive) /\ WF_vars(PeerReceive)
            /\ WF_vars(Silence) /\ SF_vars(PeerSends)

Spec == Init /\ [][Next]_vars /\ Fairness

-----------------------------------------------------------------------------
TypeOK ==
  /\ net_state \in {"CONTINUE", "WAIT", "SUCCESS", "FAIL"}
  /\ TftpState \in {"SEND_RRQ", "OACK", "DATA", "RECV_WRQ"}
  /\ TftpOurPort \in OurPorts \cup {WELL_KNOWN_PORT, NoPort}
  /\ TftpRemotePort \in PeerPorts \cup {WELL_KNOWN_PORT, NoPort}
  /\ {TftpBlock, TftpLastBlock} \subseteq 0..TFTP_SEQUENCE_SIZE - 1
  /\ TftpBlkSize \in {TFTP_BLOCK_SIZE, TftpBlkSizeOption}
  /\ TftpTimeoutCount \in 0..TIMEOUT_COUNT + 1
  /\ memory \in [1..Memory -> 0..File]
  /\ \A p \in PeerPorts : \A t, u \in peer[p] : t = u

\* A transfer that ends in "done" has the whole file at load_addr, nothing after it,
\* and its length in NetBootFileXferSize, whatever the network did.
LoadedIsFile ==
  net_state = "SUCCESS" => /\ NetBootFileXferSize = File
                           /\ \A i \in 1..File : memory[i] = i

\* The other end goes on to a block only after all before it are in memory: an
\* acknowledgement that is sent again, late or for a block ignored never runs
\* ahead of store_block().
AckedIsStored ==
  net_state = "CONTINUE" /\ TftpState = "DATA" =>
    \A p \in PeerPorts : \A t \in peer[p] :
      t.to = TftpOurPort /\ p = TftpRemotePort =>
        \A i \in 1..(t.n - 1) * t.size : memory[i] = i

\* "Same block again; ignore it": a block that is not stored leaves the place of
\* the blocks after it alone.
IgnoredLeavesOffset ==
  [][TftpState = "DATA" /\ TftpState' = "DATA" /\ TftpLastBlock' = TftpLastBlock
       => TftpBlockWrapOffset' = TftpBlockWrapOffset]_vars

\* Once the network stops failing a transfer ends: with the file when there is one,
\* except that autoboot may give up.
Finishes ==
  <>(net_state \in IF protocol = "AUTO" THEN {"SUCCESS", "FAIL"}
                   ELSE IF server = "NO_FILE" THEN {"FAIL"} ELSE {"SUCCESS"})
=============================================================================
