---------------------------- MODULE I10PduIovec ----------------------------
(***************************************************************************)
(* i10_target_map_pdu_iovec: how the data of one H2C data PDU, or of the   *)
(* in-capsule data, is mapped onto the command's scatter list before       *)
(* try_recv_data reads it from the socket.                                 *)
(*                                                                         *)
(* The scatter list is what sgl_alloc(transfer_len) returns in             *)
(* i10_target_map_data: full pages, the last one holding the remainder.    *)
(* Each step receives one PDU of the transfer: the host sends the data at  *)
(* offset rbytes_done (the one handle_h2c_data_pdu accepts) and of a       *)
(* length its splitting rule chooses.  placed[p][o] is the transfer byte   *)
(* the receive wrote at offset o of page p; the reference is that byte b   *)
(* belongs at page b \div PageSize, offset b % PageSize.                   *)
(***************************************************************************)
EXTENDS Integers, Sequences

CONSTANTS
  PageSize,      \* PAGE_SIZE, in bytes of the model
  MaxTransfer,   \* the largest transfer_len the host asks for (bound)
  InlineData,    \* the port's inline_data_size
  MaxData,       \* icresp->maxdata, the largest H2C PDU the host may send
  AlignedHost    \* TRUE: the host ends every PDU but the last on a page
                 \* boundary; FALSE: it sends min(maxdata, remaining)

ASSUME /\ {PageSize, MaxTransfer, InlineData, MaxData} \subseteq Nat \ {0}
       /\ AlignedHost \in BOOLEAN

VARIABLES
  transferLen,   \* cmd->req.transfer_len
  rbytesDone,    \* cmd->rbytes_done
  placed,        \* what the receives wrote into the pages
  fault          \* "none", or how a mapping went outside its arrays

vars == << transferLen, rbytesDone, placed, fault >>

NoByte == -1
MinOf(a, b) == IF a < b THEN a ELSE b
DivRoundUp(n, d) == (n + d - 1) \div d    \* DIV_ROUND_UP
Pages == 0 .. DivRoundUp(MaxTransfer, PageSize) - 1

\* sgl_alloc(len): ceil(len / PAGE_SIZE) entries, all full pages but the
\* last, which holds the remainder; sg->offset is 0.
SglLens(len) ==
  [i \in 1 .. DivRoundUp(len, PageSize) |->
     IF i * PageSize <= len THEN PageSize ELSE len - (i - 1) * PageSize]

\* The while (length) loop of i10_target_map_pdu_iovec: entry i (0-based)
\* of the scatter list, the sg_offset computed before the loop, the length
\* still to map and the kvecs filled so far.  sg_next past the last entry
\* gives NULL, and cmd->iov has room for sg_cnt kvecs.
RECURSIVE Walk(_, _, _, _, _)
Walk(sgl, i, sgOffset, length, iovs) ==
  IF length = 0 THEN [iovs |-> iovs, fault |-> "none"]
  ELSE IF i >= Len(sgl) THEN [iovs |-> iovs, fault |-> "sg_past_end"]
  ELSE IF Len(iovs) >= Len(sgl) THEN [iovs |-> iovs, fault |-> "iov_past_end"]
  ELSE LET iovLen == IF sgl[i + 1] < sgOffset
                     THEN length   \* the u32 subtraction wraps above any length
                     ELSE MinOf(length, sgl[i + 1] - sgOffset)
       IN  Walk(sgl, i + 1, sgOffset, length - iovLen,
                Append(iovs, [pg |-> i, off |-> sgOffset, len |-> iovLen]))

\* Mutant: nr_mapped rounded down, dropping the kvec of a partial page.
MapPduIovecFloor(len, offset, pduLen) ==
  LET sgl == SglLens(len)
      w   == Walk(sgl, DivRoundUp(offset, PageSize), offset % PageSize,
                  pduLen, << >>)
  IN  [nrMapped |-> pduLen \div PageSize, iovs |-> w.iovs, fault |-> w.fault]

\* i10_target_map_pdu_iovec: nr_mapped and sg_idx are rounded up from
\* pdu_len and rbytes_done, sg_offset is rbytes_done % PAGE_SIZE, and the
\* message iterator covers the first nr_mapped kvecs for pdu_len bytes.
MapPduIovec(len, offset, pduLen) ==
  LET sgl == SglLens(len)
      w   == Walk(sgl, DivRoundUp(offset, PageSize), offset % PageSize,
                  pduLen, << >>)
  IN  [nrMapped |-> DivRoundUp(pduLen, PageSize), iovs |-> w.iovs,
       fault |-> w.fault]

\* The page locations the message iterator fills, in order: the bytes of
\* the first nr_mapped kvecs.
RECURSIVE IterLocs(_, _)
IterLocs(iovs, n) ==
  IF n = 0 \/ iovs = << >> THEN << >>
  ELSE [j \in 1 .. Head(iovs).len |-> << Head(iovs).pg, Head(iovs).off + j - 1 >>]
       \o IterLocs(Tail(iovs), n - 1)

\* try_recv_data: sock_recvmsg fills the iterator until msg_data_left is
\* 0; rbytes_done grows by what was received.  An iterator whose kvecs
\* hold fewer than pdu_len bytes runs past its nr_mapped segments.
ReceivePdu(pduLen) ==
  LET m    == MapPduIovec(transferLen, rbytesDone, pduLen)
      locs == IterLocs(m.iovs, m.nrMapped)
  IN  /\ fault = "none"
      /\ IF m.fault # "none" \/ Len(locs) < pduLen
           THEN /\ fault' = IF m.fault # "none" THEN m.fault ELSE "iter_short"
                /\ UNCHANGED << placed, rbytesDone >>
           ELSE /\ placed' = [p \in Pages |-> [o \in 0 .. PageSize - 1 |->
                                IF \E k \in 1 .. pduLen : locs[k] = << p, o >>
                                THEN rbytesDone - 1 +
                                     (CHOOSE k \in 1 .. pduLen : locs[k] = << p, o >>)
                                ELSE placed[p][o]]]
                /\ rbytesDone' = rbytesDone + pduLen
                /\ UNCHANGED fault
      /\ UNCHANGED transferLen

\* done_recv_pdu: a write whose data fits inline_data_size carries it in
\* the capsule (pdu_len = transfer_len at rbytes_done 0).
RecvInlineData ==
  /\ rbytesDone = 0 /\ transferLen <= InlineData
  /\ ReceivePdu(transferLen)

\* Host lengths of the next H2C PDU for the rest of the transfer.
H2CLengths(rest) ==
  IF AlignedHost
  THEN {l \in 1 .. MinOf(MaxData, rest) : l = rest \/ l % PageSize = 0}
  ELSE {MinOf(MaxData, rest)}

\* i10_target_handle_h2c_data_pdu for a PDU with data_offset = rbytes_done
\* (the check that accepts it): pdu_len = data_length, then map_pdu_iovec,
\* then try_recv_data.
RecvH2CData ==
  /\ transferLen > InlineData
  /\ rbytesDone < transferLen
  /\ \E l \in H2CLengths(transferLen - rbytesDone) : ReceivePdu(l)

Init ==
  /\ transferLen \in 1 .. MaxTransfer
  /\ rbytesDone = 0
  /\ placed = [p \in Pages |-> [o \in 0 .. PageSize - 1 |-> NoByte]]
  /\ fault = "none"

\* The transfer is complete, or a mapping fault stopped it.
Done == (rbytesDone = transferLen \/ fault # "none") /\ UNCHANGED vars

Next == RecvInlineData \/ RecvH2CData \/ Done

Spec == Init /\ [][Next]_vars

-----------------------------------------------------------------------------
\* Every byte received so far sits at its own offset of its own page:
\* map_pdu_iovec must start at the page and offset of rbytes_done, map
\* enough kvecs for pdu_len, and stay inside the scatter list and the
\* kvec array, for every PDU of the transfer, not only the first.
PduDataInPlace ==
  /\ fault = "none"
  /\ \A b \in 0 .. rbytesDone - 1 :
       placed[b \div PageSize][b % PageSize] = b
=============================================================================
