------------------------------ MODULE Transfer ------------------------------
(***************************************************************************)
(* A file sent from the warehouse server (cluster/whserver) to the client  *)
(* (cluster/odbc).  A forked child per connection takes the client's key,  *)
(* says READY, takes the request and sends the size of the file, its       *)
(* segments and, after a short one, the end of the session.                *)
(*                                                                         *)
(* Both sides take what one recv returns for one packet.  The connection   *)
(* carries bytes: recv may return several packets at once, or a part of    *)
(* what was sent.  Bytes are counted in the unit Low has; a file is the    *)
(* sequence of its positions.                                              *)
(***************************************************************************)
EXTENDS Integers, Sequences

CONSTANTS
  Low,       \* LCS_RSA_3DES_BUF_LOW, the size of a full packet and of a recv
  Hdr,       \* the bytes of a packet before its data
  Block,     \* LCS_RSA_3DES_BLOCK_CIPHER
  Sizes,     \* the sizes a file may have
  MaxSize,   \* a bound of them
  UInt       \* one more than the largest unsigned int

Powers == {2 ^ e : e \in 0 .. Low}

\* A full packet is as large as a recv, and a packet a number of blocks: Low and
\* Block are powers of two.
ASSUME TransferAssumption ==
  /\ Low \in Nat /\ Hdr \in Nat /\ Block \in Nat \ {0} /\ MaxSize \in Nat
  /\ Hdr < Low /\ Block + Hdr <= Low /\ UInt \in Nat \ {0}
  /\ Sizes \subseteq 0 .. MaxSize
  /\ Low \in Powers
  /\ \A k \in Powers : k \in Nat /\ (k >= Block => k % Block = 0)

VARIABLES
  exists, size,    \* the file the client asks for
  spc,             \* the child of the server
  left,            \* the bytes of the file it has not read
  waiter,          \* the thread of the parent that waits for the child
  up,              \* what the client has sent and the child not received
  sent,            \* the packets of the child
  stream,          \* the bytes not received: <<number of the packet, offset>>
  closed,          \* the child's end of the connection is closed
  cpc, total, checksum, file,    \* the client
  announced, alone,  \* ghosts: it received a size; every recv was one packet
  cut              \* ghost: a recv returned less than it could have

server == <<spc, left, waiter>>
client == <<cpc, total, checksum, file, announced, alone>>
transferVars == <<exists, size, server, up, sent, stream, closed, client, cut>>

TransferInit ==
  /\ exists \in BOOLEAN /\ size \in Sizes
  /\ spc = "accept" /\ left = 0 /\ waiter = "none"
  /\ up = "key" /\ sent = <<>> /\ stream = <<>> /\ closed = FALSE
  /\ cpc = "ready" /\ total = 0 /\ checksum = 0 /\ file = <<>>
  /\ announced = FALSE /\ alone = TRUE /\ cut = FALSE

Whole == IF exists THEN [b \in 1 .. size |-> b] ELSE <<>>
Bad == 0

-----------------------------------------------------------------------------
(* Packets.                                                                *)

\* The smallest power of two that holds n bytes and the header.
Padded(n) ==
  CHOOSE k \in Powers :
    /\ k >= n + Hdr /\ k >= Block
    /\ \A j \in Powers : j >= n + Hdr /\ j >= Block => k <= j

Packet(mode, n, at) == [mode |-> mode, n |-> n, at |-> at, size |-> Padded(n)]

Send(p) ==
  /\ sent' = Append(sent, p)
  /\ stream' = stream \o [b \in 1 .. p.size |-> <<Len(sent) + 1, b - 1>>]

\* A message of lcs_3des_send is one packet: READY, FINISHED and the digits of
\* a size are short.
Short == Block

-----------------------------------------------------------------------------
(* The server.                                                             *)

\* accept and fork in lcs_init_socket, and lcs_whs_parent_wait.  When fork
\* fails the server itself ends.
Accept ==
  /\ spc = "accept"
  /\ \/ spc' = "key" /\ waiter' \in {"polls", "none"} /\ UNCHANGED closed
     \/ spc' = "ended" /\ waiter' = "none" /\ closed' = TRUE
  /\ UNCHANGED <<exists, size, left, up, sent, stream, client, cut>>

\* lcs_whs_3des: the key is decrypted when recv returned all of it and the
\* private key can be read, then lcs_whs_send_ready.
lcs_whs_3des ==
  /\ spc = "key" /\ up = "key"
  /\ up' = "none"
  /\ \/ spc' = "request" /\ Send(Packet("over", Short, 0)) /\ cut' = cut
     \/ spc' = "sleep" /\ UNCHANGED <<sent, stream>> /\ cut' \in {cut, TRUE}
  /\ UNCHANGED <<exists, size, left, waiter, closed, client>>

\* The client is gone without a key: recv returns 0, and what is decrypted is none.
KeyNothing ==
  /\ spc = "key" /\ up = "none" /\ cpc = "gone"
  /\ spc' = "sleep"
  /\ UNCHANGED <<exists, size, left, waiter, up, sent, stream, closed, client, cut>>

\* lcs_whs_recv_request and lcs_whs_get_path.  A request that was cut names a
\* file that does not exist, is no request (lcs_whs_sendoff), or is no message,
\* and then the child waits for another.  When the client is gone before its
\* request the child waits too: lcs_3des_recv tries again when recv returns 0.
lcs_whs_recv_request ==
  /\ spc = "request" /\ up = "request"
  /\ up' = "none"
  /\ \/ spc' = (IF exists THEN "checksum" ELSE "sleep") /\ cut' = cut
     \/ spc' \in {"sleep", "off", "request"} /\ cut' = TRUE
  /\ UNCHANGED <<exists, size, left, waiter, sent, stream, closed, client>>

Checksum ==
  /\ spc = "checksum"
  /\ Send(Packet("checksum", Short, size))
  /\ left' = size /\ spc' = "file"
  /\ UNCHANGED <<exists, size, waiter, up, closed, client, cut>>

\* One round of lcs_whs_send_file: fread, send, and after a short segment the
\* end.  After a last segment that is full there is none.
Segment == IF left < Low - Hdr THEN left ELSE Low - Hdr

lcs_whs_send_file ==
  /\ spc = "file"
  /\ IF left = 0
       THEN spc' = "sleep" /\ UNCHANGED <<sent, stream, left>>
       ELSE /\ Send(Packet("data", Segment, size - left))
            /\ left' = left - Segment
            /\ spc' = IF Segment < Low - Hdr THEN "off" ELSE "file"
  /\ UNCHANGED <<exists, size, waiter, up, closed, client, cut>>

SendOff ==
  /\ spc = "off"
  /\ Send(Packet("off", Short, 0)) /\ spc' = "sleep"
  /\ UNCHANGED <<exists, size, left, waiter, up, closed, client, cut>>

\* sleep, close and the end of the child.
Close ==
  /\ spc = "sleep"
  /\ spc' = "ended" /\ closed' = TRUE
  /\ UNCHANGED <<exists, size, left, waiter, up, sent, stream, client, cut>>

\* The child is killed, or sends on a connection the client has left.
ChildDies ==
  /\ spc \notin {"accept", "ended"}
  /\ spc' = "ended" /\ closed' = TRUE
  /\ UNCHANGED <<exists, size, left, waiter, up, sent, stream, client, cut>>

Mutant_lcs_whs_thread_wait ==
  /\ waiter = "polls"
  /\ waiter' = "none"
  /\ UNCHANGED <<exists, size, spc, left, up, sent, stream, closed, client, cut>>

\* waitpid every second until the child is gone.
lcs_whs_thread_wait ==
  /\ waiter = "polls" /\ spc = "ended"
  /\ waiter' = "reaped"
  /\ UNCHANGED <<exists, size, spc, left, up, sent, stream, closed, client, cut>>

-----------------------------------------------------------------------------
(* The client.                                                             *)

\* What one recv may return.
Available == IF Len(stream) < Low THEN Len(stream) ELSE Low
Received(m) == stream' = SubSeq(stream, m + 1, Len(stream)) /\ cut' = (cut \/ m < Available)

AtHead == stream[1][2] = 0
First == sent[stream[1][1]]

\* lcs_odbc_recv_ready, lcs_odbc_send_request and the fopen of
\* lcs_odbc_recv_file.  lcs_3des_recv tries again on a closed connection and
\* after what is no packet.  Of a packet that was cut the last bytes are garbage,
\* which READY may survive; what is no packet has any mode.
lcs_odbc_recv_ready ==
  /\ cpc = "ready" /\ stream # <<>>
  /\ \E m \in 1 .. Available :
       /\ Received(m)
       /\ \/ AtHead /\ m \in Block .. First.size /\ cpc' \in {"data", "check"} /\ up' = "request"
          \/ AtHead /\ m \in Block .. First.size - 1 /\ cpc' = "failure" /\ up' = up
          \/ (~AtHead \/ m < Block) /\ cpc' \in {"ready", "failure"} /\ up' = up
  /\ UNCHANGED <<exists, size, server, sent, closed, total, checksum, file, announced, alone>>

Counted == (total + First.n) % UInt

\* The data of the first packet of m bytes: the blocks that are not complete
\* decrypt to garbage.
Data(m) ==
  [b \in 1 .. First.n |-> IF b + Hdr <= m - (m % Block) THEN First.at + b ELSE Bad]

\* One round of lcs_odbc_recv_file: only the first packet of what recv returned
\* is looked at, and what begins inside of a packet, or is less than a block,
\* has any mode.  That it also has a length, or a size, that makes the counts
\* agree is left out.
lcs_odbc_recv_file ==
  /\ cpc = "data" /\ stream # <<>>
  /\ \E m \in 1 .. Available :
       LET readable == AtHead /\ m >= Block
       IN
       /\ Received(m)
       /\ alone' = (alone /\ AtHead /\ m = First.size)
       /\ \/ /\ readable /\ First.mode = "data"
             /\ total' = Counted /\ file' = file \o Data(m)
             /\ UNCHANGED <<cpc, checksum, announced>>
          \/ /\ readable /\ First.mode = "checksum"
             /\ checksum' \in IF m >= First.size THEN {First.at} ELSE 0 .. MaxSize
             /\ announced' = TRUE /\ UNCHANGED <<cpc, total, file>>
          \/ /\ readable /\ First.mode = "off"
             /\ cpc' = "check" /\ UNCHANGED <<total, checksum, file, announced>>
          \/ /\ ~readable /\ cpc' \in {"data", "check"}
             /\ UNCHANGED <<total, checksum, file, announced>>
  /\ UNCHANGED <<exists, size, server, up, sent, closed>>

\* recv returns 0 when the child has closed the connection.
Mutant_RecvNothing ==
  /\ cpc = "data" /\ stream = <<>> /\ closed
  /\ UNCHANGED <<exists, size, server, up, sent, stream, closed, client, cut>>

RecvNothing ==
  /\ cpc = "data" /\ stream = <<>> /\ closed
  /\ cpc' = "check"
  /\ UNCHANGED <<exists, size, server, up, sent, stream, closed, total, checksum, file,
                 announced, alone, cut>>

Mutant_Check ==
  /\ cpc = "check"
  /\ cpc' = IF checksum < total THEN "failure" ELSE "success"
  /\ UNCHANGED <<exists, size, server, up, sent, stream, closed, total, checksum, file,
                 announced, alone, cut>>

\* The test at the end: checksum != total.
Check ==
  /\ cpc = "check"
  /\ cpc' = IF checksum = total THEN "success" ELSE "failure"
  /\ UNCHANGED <<exists, size, server, up, sent, stream, closed, total, checksum, file,
                 announced, alone, cut>>

\* The client is killed or leaves, before it has sent its key or later; what it
\* had sent may be lost.
ClientDies ==
  /\ cpc \in {"ready", "data", "check"}
  /\ cpc' = "gone" /\ up' \in {up, "none"}
  /\ UNCHANGED <<exists, size, server, sent, stream, closed, total, checksum, file,
                 announced, alone, cut>>

-----------------------------------------------------------------------------
ServerStep ==
  \/ Accept \/ lcs_whs_3des \/ KeyNothing \/ lcs_whs_recv_request \/ Checksum
  \/ lcs_whs_send_file \/ SendOff \/ Close
ClientStep == lcs_odbc_recv_ready \/ lcs_odbc_recv_file \/ RecvNothing \/ Check

TransferNext == ServerStep \/ ChildDies \/ lcs_whs_thread_wait \/ ClientStep \/ ClientDies

TransferSpec == TransferInit /\ [][TransferNext]_transferVars

\* The processes and the waiting thread are scheduled.
TransferFairSpec ==
  /\ TransferSpec /\ WF_transferVars(ServerStep) /\ WF_transferVars(ClientStep)
  /\ WF_transferVars(lcs_whs_thread_wait)

-----------------------------------------------------------------------------
(* Properties.                                                             *)

\* When packets are not cut, a transfer that is reported as a success has all
\* bytes of the file in their order: what is lost because recv returned two
\* packets is always noticed, whatever fails.  A server that ends before it has
\* sent a size leaves an empty file that is taken for a success too.  And a
\* transfer in which nothing was lost is not refused, up to the largest size the
\* counter of the client holds.
Verdict ==
  /\ cpc = "success" /\ ~cut => file = Whole \/ (file = <<>> /\ ~announced)
  /\ cpc = "failure" /\ announced /\ size < UInt => file # Whole \/ ~alone

\* The server is gone without READY, and the client receives nothing for ever.
Starved == cpc = "ready" /\ closed /\ stream = <<>>

\* The client is gone without a request, and the child receives nothing for ever.
Abandoned == cpc = "gone" /\ spc = "request" /\ up = "none"

\* A client ends, with or without an end of session and whatever the server does,
\* unless packets were cut or the server was gone before its READY: that is the
\* only place where the end of the connection does not end the client.
ClientEnds == <>(cpc \in {"success", "failure", "gone"} \/ cut \/ Starved)

\* Every child comes to its end and is waited for, whatever fails on its side and
\* wherever the client leaves it, but for one place: a child whose client is gone
\* between READY and the request, or whose request was cut, waits for ever.
Reaped == waiter = "polls" ~> waiter = "reaped" \/ cut \/ Abandoned
=============================================================================
