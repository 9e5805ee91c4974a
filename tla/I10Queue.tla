------------------------------- MODULE I10Queue -------------------------------
(***************************************************************************)
(* One connection (struct i10_target_queue) of the i10 NVMe-over-TCP       *)
(* target in src/PINoF/target/PINoF.c: the receive state machine, the      *)
(* per-command send state machine, the two caravans C1 and C2 and the      *)
(* io_work scheduler, all run by the queue's single work item, together    *)
(* with their environment: the initiator (host), the NVMe executor that    *)
(* completes commands from another context, and the socket send buffer.    *)
(*                                                                         *)
(* Data is abstracted to pages: transfer lengths, byte counters and the    *)
(* caravan lengths count pages and PDU headers in small units.  The byte   *)
(* stream from the host is a sequence of chunks (a PDU header, its         *)
(* payload, its data digest), each read whole or not at all.  What the     *)
(* target writes is recorded per command in `emitted`, in wire order.      *)
(***************************************************************************)
EXTENDS Integers, Sequences, SequencesExt, FiniteSets

CONSTANTS
  NrSlots,          \* queue->nr_cmds = 2 * sq->size (i10_target_install_queue)
  QDepth,           \* sq->size: commands the host keeps outstanding
  MaxCmds,          \* capsules the host sends on this connection (bound)
  TransferPages,    \* transfer lengths, in pages, the host asks for
  InlinePages,      \* the port's inline_data_size, in pages
  MaxH2CPages,      \* the largest H2C data PDU the host sends, in pages
  AdminQueue,       \* nvme_sq.qid = 0: every emission goes straight to the socket
  DataDigest,       \* the data digest the host requests in its icreq
  InitFailCmds,     \* the capsules (host command shapes) nvmet_req_init may reject
  ExecFails,        \* the executor may complete a command with an error status
  RecvBudget,       \* I10_TARGET_RECV_BUDGET
  SendBudget,       \* I10_TARGET_SEND_BUDGET, also the caravan batch limits
  IoWorkBudget,     \* I10_TARGET_IO_WORK_BUDGET
  HdrLen, PageLen,  \* length of a PDU header and of a data page, in units
  Caravan1Capacity, \* I10_CARAVAN_CAPACITY, in the same units
  Caravan2Capacity, \* I10_CARAVAN2_CAPACITY
  MaxFills,         \* times the socket send buffer may fill up (bound)
  MayDisconnect     \* the connection may close (state_change) while live

Connect  == 0                \* queue->connect: the slot outside queue->cmds
Slots    == 1 .. NrSlots     \* queue->cmds[]; a slot's index is its ttag
AllSlots == {Connect} \cup Slots
NoSlot   == -1               \* a NULL command pointer
Ids      == 1 .. MaxCmds     \* command ids; id 1 is the fabrics connect

SendStates == {"DATA_PDU", "DATA", "R2T", "DDGST", "RESPONSE"}

(***************************************************************************)
(* The host side.  A command the host sends is a write or not, a transfer  *)
(* length in pages, and whether its write data travels inline.             *)
(***************************************************************************)
HostCmdShapes ==
  { [write |-> FALSE, pages |-> n, inline |-> FALSE] : n \in TransferPages }
  \cup { [write |-> TRUE, pages |-> n, inline |-> FALSE] : n \in TransferPages \ {0} }
  \cup { [write |-> TRUE, pages |-> n, inline |-> TRUE] :
           n \in {m \in TransferPages : 0 < m /\ m <= InlinePages} }

ASSUME /\ QDepth \in Nat \ {0} /\ NrSlots = 2 * QDepth
       /\ MaxCmds \in Nat \ {0}
       /\ TransferPages \subseteq Nat /\ InlinePages \in Nat \ {0}
       /\ MaxH2CPages \in Nat \ {0}
       /\ InitFailCmds \subseteq HostCmdShapes
       /\ AdminQueue \in BOOLEAN /\ DataDigest \in BOOLEAN /\ ExecFails \in BOOLEAN
       /\ MayDisconnect \in BOOLEAN
       /\ {RecvBudget, SendBudget, IoWorkBudget, HdrLen, PageLen} \subseteq Nat \ {0}
       /\ {Caravan1Capacity, Caravan2Capacity, MaxFills} \subseteq Nat

ConnectCmd == [write |-> TRUE, pages |-> 1, inline |-> TRUE]
NoHostCmd  == [write |-> FALSE, pages |-> 0, inline |-> FALSE]

\* A chunk of the host-to-target stream.
Chunk(k, id, tag, off, len) == [k |-> k, id |-> id, tag |-> tag, off |-> off, len |-> len]
HeaderKinds == {"icreq", "cmd", "h2c"}
\* The data digest trailer that follows a payload when it was negotiated.
DigestChunk(id) == IF DataDigest THEN << Chunk("ddgst", id, NoSlot, 0, 0) >> ELSE << >>

(***************************************************************************)
(* Target-side records.                                                    *)
(***************************************************************************)
\* struct i10_target_cmd, its fields in pages.  pages is req.transfer_len,
\* ok is "req.rsp->status = 0", initFailed is I10_TARGET_F_INIT_FAILED.
FreshCmd == [id |-> 0, write |-> FALSE, pages |-> 0, pduLen |-> 0, pduRecv |-> 0,
             rbytes |-> 0, wbytes |-> 0, state |-> "DATA_PDU", ok |-> TRUE,
             initFailed |-> FALSE]

\* The caravan fields of struct i10_target_queue: iovs (segs), caravan_cmds,
\* the number of mapped pages, caravan_len and send_now.
EmptyCaravan == [segs |-> << >>, cmds |-> << >>, mapped |-> 0, len |-> 0,
                 sendNow |-> FALSE]

VARIABLES
  \* the initiator
  issued,       \* capsules sent so far; ids 1..issued
  hostCmd,      \* hostCmd[id]: what capsule id asked for
  h2cSent,      \* h2cSent[id]: pages of solicited data sent for id
  icreqSent,
  \* the connection
  inbox,        \* host-to-target chunks not yet read by the target
  emitted,      \* emitted[id]: what reached the wire for id, in order
  \* struct i10_target_queue
  qstate,       \* queue->state
  dataDigest,   \* queue->data_digest
  rcvState,     \* queue->rcv_state
  rcvCmd,       \* queue->cmd
  freeList,     \* queue->free_list
  respList,     \* queue->resp_list, the lock-free stack; head is newest
  respSendList, \* queue->resp_send_list
  sndCmd,       \* queue->snd_cmd
  cmd,          \* the command slots
  c1, c2,       \* caravan and caravan2
  \* the executor
  executing,    \* slots handed to nvmet_req_execute and not yet completed
  \* the socket
  sndbufFull,   \* sk_stream_wspace is short of what the target wants to send
  nospace,      \* SOCK_NOSPACE
  fills,        \* how often the send buffer has filled up
  \* io_work, the queue's work item
  wpc,          \* where io_work is: idle, recv, send, flush1, flush2
  wi,           \* the budget loop index i of try_recv / try_send
  ops,          \* ops counted against I10_TARGET_IO_WORK_BUDGET
  pending,
  sret,         \* the value try_send_one returned, read by the flush step
  workQueued    \* io_work is queued (WORK_STRUCT_PENDING)

hostVars == <<issued, hostCmd, h2cSent, icreqSent>>
sockVars == <<sndbufFull, nospace, fills>>
workVars == <<wpc, wi, ops, pending, sret>>
vars == <<issued, hostCmd, h2cSent, icreqSent, inbox, emitted, qstate, dataDigest,
          rcvState, rcvCmd, freeList, respList, respSendList, sndCmd, cmd, c1, c2,
          executing, sndbufFull, nospace, fills, wpc, wi, ops, pending, sret,
          workQueued>>

\* What the receive path never touches, and what the send path never touches.
recvFrame == <<hostVars, emitted, respSendList, sndCmd, c1, c2, sockVars>>
sendFrame == <<hostVars, inbox, qstate, dataDigest, rcvState, rcvCmd, executing,
               fills>>

Responded(id) == \E j \in DOMAIN emitted[id] : emitted[id][j].k = "rsp"
Outstanding   == {id \in 1 .. issued : ~Responded(id)}


(***************************************************************************)
(* Helpers translated from the small inline functions of PINoF.c.          *)
(***************************************************************************)
HasDataIn(c)     == c.write /\ c.rbytes < c.pages
NeedDataIn(c)    == HasDataIn(c) /\ c.ok
NeedDataOut(c)   == ~c.write /\ c.pages > 0 /\ c.ok
HasInlineData(c) == c.write /\ c.pduLen > 0 /\ c.rbytes = 0

\* i10_target_put_cmd: the connect slot never returns to the free list.
PutCmd(list, s) == IF s = Connect THEN list ELSE Append(list, s)
\* Mutant: the caravan flush forgets to put its commands back.
PutCmdsNone(list, ss) == list
PutCmds(list, ss) == list \o SelectSeq(ss, LAMBDA x : x # Connect)

\* Mutant: get_cmd without the list_del_init.
GetCmdKeep(list) == list
\* i10_target_get_cmd: the head of the free list leaves it.
GetCmd(list) == Tail(list)

\* Mutant: the batch limits tested with > instead of >=.
IsCaravanFullLate(c, capacity) ==
  \/ c.len >= capacity
  \/ Len(c.segs) > SendBudget * 3
  \/ Len(c.cmds) > SendBudget
  \/ c.mapped > SendBudget
\* i10_target_is_caravan_full / i10_target_is_caravan2_full
IsCaravanFull(c, capacity) ==
  \/ c.len >= capacity
  \/ Len(c.segs) >= SendBudget * 3
  \/ Len(c.cmds) >= SendBudget
  \/ c.mapped >= SendBudget

\* One emission of slot s, as it reaches the wire.
Item(s, k) == [id |-> cmd[s].id, k |-> k, tag |-> s]

\* Bytes reaching the wire, appended to each command's record in order.
Emit(e, items) == [id \in Ids |-> e[id] \o SelectSeq(items, LAMBDA x : x.id = id)]

\* Mutant: the caravan counters are reset but nr_iovs is not.
ResetCaravanKeepIovs(c) == [EmptyCaravan EXCEPT !.segs = c.segs]
\* The resets that end a caravan flush.
ResetCaravan(c) == EmptyCaravan

\* Mutant: a short kernel_sendmsg of a caravan of several segments, its
\* last segment unsent.
SendCaravanShort(c) ==
  IF Len(c.segs) > 1 THEN SubSeq(c.segs, 1, Len(c.segs) - 1) ELSE c.segs
\* What kernel_sendmsg of a caravan puts on the wire.
SendCaravan(c) == c.segs

\* Append one segment to a caravan; page says it maps a data page.
AddSeg(c, item, len, page) ==
  [c EXCEPT !.segs = Append(@, item), !.len = @ + len,
            !.mapped = @ + (IF page THEN 1 ELSE 0)]

(***************************************************************************)
(* Initial state: the queue as i10_target_alloc_queue leaves it.           *)
(***************************************************************************)
Init ==
  /\ issued = 0
  /\ hostCmd = [id \in Ids |-> NoHostCmd]
  /\ h2cSent = [id \in Ids |-> 0]
  /\ icreqSent = FALSE
  /\ inbox = << >>
  /\ emitted = [id \in Ids |-> << >>]
  /\ qstate = "CONNECTING"
  /\ dataDigest = FALSE
  /\ rcvState = "PDU"
  /\ rcvCmd = NoSlot
  /\ freeList = << Connect >>
  /\ respList = << >>
  /\ respSendList = << >>
  /\ sndCmd = NoSlot
  /\ cmd = [s \in AllSlots |-> FreshCmd]
  /\ c1 = EmptyCaravan
  /\ c2 = EmptyCaravan
  /\ executing = {}
  /\ sndbufFull = FALSE
  /\ nospace = FALSE
  /\ fills = 0
  /\ wpc = "idle"
  /\ wi = 0
  /\ ops = 0
  /\ pending = FALSE
  /\ sret = 0
  /\ workQueued = TRUE

(***************************************************************************)
(* The host.  Every chunk it writes raises sk_data_ready, whose callback    *)
(* i10_target_data_ready queues io_work.                                    *)
(***************************************************************************)
HostIcreq ==
  /\ ~icreqSent
  /\ icreqSent' = TRUE
  /\ inbox' = Append(inbox, Chunk("icreq", 0, NoSlot, 0, 0))
  /\ workQueued' = TRUE
  /\ UNCHANGED <<issued, hostCmd, h2cSent, emitted, qstate, dataDigest, rcvState,
                 rcvCmd, freeList, respList, respSendList, sndCmd, cmd, c1, c2,
                 executing, sockVars, workVars>>

\* A capsule, after the icresp; first the connect, then up to QDepth at once.
HostCmd ==
  /\ qstate = "LIVE"
  /\ issued < MaxCmds
  /\ \E hc \in IF issued = 0 THEN {ConnectCmd} ELSE HostCmdShapes :
       LET id == issued + 1 IN
       /\ issued > 0 => Responded(1) /\ Cardinality(Outstanding) < QDepth
       /\ issued' = id
       /\ hostCmd' = [hostCmd EXCEPT ![id] = hc]
       /\ inbox' = inbox \o << Chunk("cmd", id, NoSlot, 0, 0) >>
                         \o (IF hc.inline
                             THEN << Chunk("payload", id, NoSlot, 0, hc.pages) >>
                                  \o DigestChunk(id)
                             ELSE << >>)
  /\ workQueued' = TRUE
  /\ UNCHANGED <<h2cSent, icreqSent, emitted, qstate, dataDigest, rcvState, rcvCmd,
                 freeList, respList, respSendList, sndCmd, cmd, c1, c2,
                 executing, sockVars, workVars>>

\* Solicited data for an R2T the host received, in H2C PDUs of at most
\* MaxH2CPages pages, each at the offset the host has reached.
HostH2CData ==
  /\ qstate = "LIVE"
  /\ \E id \in 1 .. issued : \E j \in DOMAIN emitted[id] :
       /\ emitted[id][j].k = "r2t"
       /\ h2cSent[id] < hostCmd[id].pages
       /\ LET off == h2cSent[id]
              len == IF hostCmd[id].pages - off < MaxH2CPages
                     THEN hostCmd[id].pages - off ELSE MaxH2CPages
          IN /\ h2cSent' = [h2cSent EXCEPT ![id] = off + len]
             /\ inbox' = inbox \o << Chunk("h2c", id, emitted[id][j].tag, off, len),
                                     Chunk("payload", id, NoSlot, 0, len) >>
                               \o DigestChunk(id)
  /\ workQueued' = TRUE
  /\ UNCHANGED <<issued, hostCmd, icreqSent, emitted, qstate, dataDigest, rcvState,
                 rcvCmd, freeList, respList, respSendList, sndCmd, cmd, c1, c2,
                 executing, sockVars, workVars>>

(***************************************************************************)
(* The executor completes a command from its own context and hands it back *)
(* through i10_target_queue_response: a push onto the lock-free resp_list  *)
(* and queue_work_on.  Executing the connect command installs the queue:   *)
(* i10_target_install_queue allocates nr_cmds slots onto the free list.    *)
(***************************************************************************)
QueueResponse(s) ==
  /\ respList' = << s >> \o respList
  /\ workQueued' = TRUE

ExecComplete ==
  /\ \E s \in executing : \E ok \in IF ExecFails /\ s # Connect THEN BOOLEAN ELSE {TRUE} :
       /\ executing' = executing \ {s}
       /\ cmd' = [cmd EXCEPT ![s].ok = ok]
       /\ QueueResponse(s)
       /\ freeList' = IF s = Connect
                      THEN freeList \o [i \in 1 .. NrSlots |-> i]
                      ELSE freeList
  /\ UNCHANGED <<hostVars, inbox, emitted, qstate, dataDigest, rcvState, rcvCmd,
                 respSendList, sndCmd, c1, c2, sockVars, workVars>>

(***************************************************************************)
(* The socket.  The send buffer fills (bounded by MaxFills) and drains; on *)
(* draining, sk_write_space runs i10_target_write_space.                    *)
(***************************************************************************)
SockFill ==
  /\ ~sndbufFull /\ fills < MaxFills
  /\ sndbufFull' = TRUE
  /\ fills' = fills + 1
  /\ UNCHANGED <<hostVars, inbox, emitted, qstate, dataDigest, rcvState, rcvCmd,
                 freeList, respList, respSendList, sndCmd, cmd, c1, c2,
                 executing, nospace, workVars, workQueued>>

\* Mutant: write_space wakes nobody.
WriteSpaceNoRequeue ==
  /\ sndbufFull
  /\ sndbufFull' = FALSE
  /\ UNCHANGED <<nospace, workQueued>>
  /\ UNCHANGED <<hostVars, inbox, emitted, qstate, dataDigest, rcvState, rcvCmd,
                 freeList, respList, respSendList, sndCmd, cmd, c1, c2,
                 executing, fills, workVars>>

\* TCP calls sk_write_space on freeing space only when SOCK_NOSPACE is set.
WriteSpace ==
  /\ sndbufFull
  /\ sndbufFull' = FALSE
  /\ IF nospace /\ qstate = "LIVE"
     THEN nospace' = FALSE /\ workQueued' = TRUE
     ELSE UNCHANGED <<nospace, workQueued>>
  /\ UNCHANGED <<hostVars, inbox, emitted, qstate, dataDigest, rcvState, rcvCmd,
                 freeList, respList, respSendList, sndCmd, cmd, c1, c2,
                 executing, fills, workVars>>

\* The connection closes (TCP_FIN_WAIT1, TCP_CLOSE_WAIT or TCP_CLOSE):
\* i10_target_state_change clears sk_user_data, so the socket callbacks
\* queue no more work, and i10_target_schedule_release_queue marks the
\* queue DISCONNECTING.  The host sends nothing more.  Commands still
\* executing complete and queue io_work as before; release_work is the
\* subject of I10Release.
Disconnect ==
  /\ MayDisconnect /\ qstate = "LIVE"
  /\ qstate' = "DISCONNECTING"
  /\ UNCHANGED <<hostVars, inbox, emitted, dataDigest, rcvState, rcvCmd,
                 freeList, respList, respSendList, sndCmd, cmd, c1, c2,
                 executing, sockVars, workVars, workQueued>>



(***************************************************************************)
(* io_work.  The do-while loop of i10_target_io_work runs try_recv (up to  *)
(* RecvBudget calls of try_recv_one) and then try_send (up to SendBudget   *)
(* calls of try_send_one, each followed by the caravan flushes).  wi is    *)
(* the loop index of the running budget loop; ops counts recvs and sends.  *)
(***************************************************************************)
StartWork ==
  /\ wpc = "idle" /\ workQueued
  /\ wpc' = "recv" /\ wi' = 0 /\ ops' = 0 /\ pending' = FALSE
  /\ workQueued' = FALSE
  /\ UNCHANGED <<hostVars, inbox, emitted, qstate, dataDigest, rcvState, rcvCmd,
                 freeList, respList, respSendList, sndCmd, cmd, c1, c2,
                 executing, sockVars, sret>>

\* The io_work loop condition, after try_send returned v with newOps counted.
SendPhaseEnds(v, newOps) ==
  LET pendingNow == pending \/ v > 0 IN
  IF pendingNow /\ newOps < IoWorkBudget
  THEN wpc' = "recv" /\ wi' = 0 /\ ops' = newOps /\ pending' = FALSE /\ sret' = 0
       /\ UNCHANGED workQueued
  ELSE \* the budget is spent: requeue if pending, else stop
       wpc' = "idle" /\ wi' = 0 /\ ops' = 0 /\ pending' = FALSE /\ sret' = 0
       /\ workQueued' = (workQueued \/ pendingNow)

\* try_recv_one returned v (1: a PDU or data was received, 0: EAGAIN).
RecvOneReturns(v) ==
  IF v > 0 /\ wi + 1 < RecvBudget
  THEN wi' = wi + 1 /\ ops' = ops + 1 /\ UNCHANGED <<wpc, pending, sret>>
  ELSE /\ wpc' = "fetch" /\ wi' = 0 /\ pending' = (v > 0) /\ UNCHANGED sret
       /\ ops' = ops + (IF v > 0 THEN 1 ELSE 0)

\* A receive sub-handler returned 0 leaving rcv_state at st: try_recv_one
\* goes on to the handler of st if that is tested later, else returns 1.
RecvOrder == [PDU |-> 1, DATA |-> 2, DDGST |-> 3]
RecvStepDone(st) ==
  IF RecvOrder[st] > RecvOrder[rcvState] THEN UNCHANGED workVars ELSE RecvOneReturns(1)

\* Mutant: queue->cmd is not cleared.
PrepareReceivePduKeepCmd == rcvState' = "PDU" /\ UNCHANGED rcvCmd
\* i10_target_prepare_receive_pdu
PrepareReceivePdu == rcvState' = "PDU" /\ rcvCmd' = NoSlot

\* kernel_recvmsg / sock_recvmsg find nothing to read: -EAGAIN.
RecvEagain ==
  /\ wpc = "recv"
  /\ inbox = << >>
  /\ rcvState = "DATA" => cmd[rcvCmd].pduRecv < cmd[rcvCmd].pduLen
  /\ RecvOneReturns(0)
  /\ UNCHANGED <<recvFrame, inbox, qstate, dataDigest, rcvState, rcvCmd, freeList,
                 respList, cmd, executing, workQueued>>

\* i10_target_try_recv_pdu -> done_recv_pdu -> handle_icreq on a connecting
\* queue: latch the digests, send the icresp (a blocking kernel_sendmsg),
\* go live and prepare for the next PDU.
RecvIcreq ==
  /\ wpc = "recv" /\ rcvState = "PDU" /\ qstate = "CONNECTING"
  /\ inbox # << >> /\ Head(inbox).k = "icreq"
  /\ inbox' = Tail(inbox)
  /\ dataDigest' = DataDigest
  /\ qstate' = "LIVE"
  /\ PrepareReceivePdu
  /\ RecvStepDone("PDU")
  /\ UNCHANGED <<recvFrame, freeList, respList, cmd, executing, workQueued>>

\* Mutant: pdu_recv is not reset for the new PDU.
SetupH2CKeepRecv(c, h) == [c EXCEPT !.pduLen = h.len]
\* handle_h2c_data_pdu: the PDU's data_length becomes pdu_len, none of it
\* received yet.
SetupH2C(c, h) == [c EXCEPT !.pduLen = h.len, !.pduRecv = 0]

\* done_recv_pdu -> i10_target_handle_h2c_data_pdu: queue->cmds[ttag] takes
\* the PDU's data if its offset is the command's rbytes_done.
RecvH2C ==
  /\ wpc = "recv" /\ rcvState = "PDU" /\ qstate # "CONNECTING"
  /\ inbox # << >> /\ Head(inbox).k = "h2c"
  /\ LET h == Head(inbox) IN
       /\ h.off = cmd[h.tag].rbytes
       /\ inbox' = Tail(inbox)
       /\ cmd' = [cmd EXCEPT ![h.tag] = SetupH2C(@, h)]
       /\ rcvCmd' = h.tag
  /\ rcvState' = "DATA"
  /\ RecvStepDone("DATA")
  /\ UNCHANGED <<recvFrame, qstate, dataDigest, freeList, respList, executing,
                 workQueued>>

\* done_recv_pdu on a capsule: i10_target_get_cmd resets the head of the
\* free list; the command is then set up from the capsule.
FromCapsule(h) ==
  [FreshCmd EXCEPT !.id = h.id, !.write = hostCmd[h.id].write]

\* i10_target_map_data: transfer_len grows by the SGL length; an offset
\* (in-capsule) data descriptor also sets pdu_len.
MapData(c, hc) ==
  [c EXCEPT !.pages = hc.pages, !.pduLen = IF hc.inline THEN hc.pages ELSE 0]

\* nvmet_req_init accepts the capsule and i10_target_map_data maps it.  A
\* command that needs data receives in-capsule data next, or else gets an
\* R2T queued; a command that needs none is executed.
RecvCapsule ==
  /\ wpc = "recv" /\ rcvState = "PDU" /\ qstate # "CONNECTING"
  /\ inbox # << >> /\ Head(inbox).k = "cmd"
  /\ freeList # << >>
  /\ LET h == Head(inbox)
         s == Head(freeList)
         c == MapData(FromCapsule(h), hostCmd[h.id])
     IN /\ inbox' = Tail(inbox)
        /\ freeList' = GetCmd(freeList)
        /\ cmd' = [cmd EXCEPT ![s] = c]
        /\ \/ /\ NeedDataIn(c) /\ HasInlineData(c)
              /\ rcvState' = "DATA" /\ rcvCmd' = s
              /\ RecvStepDone("DATA")
              /\ UNCHANGED <<respList, executing, workQueued>>
           \/ /\ NeedDataIn(c) /\ ~HasInlineData(c)
              /\ QueueResponse(s)
              /\ PrepareReceivePdu
              /\ RecvStepDone("PDU")
              /\ UNCHANGED executing
           \/ /\ ~NeedDataIn(c)
              /\ executing' = executing \cup {s}
              /\ PrepareReceivePdu
              /\ RecvStepDone("PDU")
              /\ UNCHANGED <<respList, workQueued>>
  /\ UNCHANGED <<recvFrame, qstate, dataDigest>>

\* nvmet_req_init rejects the capsule: it completes the request with an
\* error, which queues the response (i10_target_queue_response), and
\* i10_target_handle_req_failure then either drops back to the next PDU or,
\* for a write whose data fits inline, maps it and receives that data with
\* I10_TARGET_F_INIT_FAILED set.  done_recv_pdu returns -EAGAIN.
RecvCapsuleInitFails ==
  /\ wpc = "recv" /\ rcvState = "PDU" /\ qstate # "CONNECTING"
  /\ inbox # << >> /\ Head(inbox).k = "cmd"
  /\ freeList # << >>
  /\ LET h == Head(inbox)
         hc == hostCmd[h.id]
         s == Head(freeList)
         mapped == hc.write /\ hc.pages <= InlinePages
     IN /\ hc \in InitFailCmds
        /\ inbox' = Tail(inbox)
        /\ freeList' = GetCmd(freeList)
        /\ QueueResponse(s)
        /\ cmd' = [cmd EXCEPT ![s] =
                      [(IF mapped THEN MapData(FromCapsule(h), hc) ELSE FromCapsule(h))
                         EXCEPT !.ok = FALSE, !.initFailed = mapped]]
        /\ IF mapped THEN rcvState' = "DATA" /\ rcvCmd' = s ELSE PrepareReceivePdu
  /\ RecvOneReturns(0)
  /\ UNCHANGED <<recvFrame, qstate, dataDigest, executing>>


\* Mutant: the command is taken to have all its data one page early.
DataDoneEarly(c) == ~c.initFailed /\ c.rbytes + 1 = c.pages
\* The test of try_recv_data and try_recv_ddgst before nvmet_req_execute:
\* init did not fail and rbytes_done reached transfer_len.
DataDone(c) == ~c.initFailed /\ c.rbytes = c.pages

\* i10_target_try_recv_data: read what is left of the PDU's data.  A command
\* that now has all its data and did not fail init goes on to its data
\* digest, or else is executed.
RecvData ==
  /\ wpc = "recv" /\ rcvState = "DATA"
  /\ LET s == rcvCmd
         left == cmd[s].pduLen - cmd[s].pduRecv
         c == [cmd[s] EXCEPT !.pduRecv = @ + left, !.rbytes = @ + left]
         complete == DataDone(c)
     IN /\ left = 0 \/ (inbox # << >> /\ Head(inbox).k = "payload")
        /\ inbox' = IF left = 0 THEN inbox ELSE Tail(inbox)
        /\ cmd' = [cmd EXCEPT ![s] = c]
        /\ \/ /\ complete /\ dataDigest
              /\ rcvState' = "DDGST"
              /\ RecvStepDone("DDGST")
              /\ UNCHANGED <<rcvCmd, executing>>
           \/ /\ ~(complete /\ dataDigest)
              /\ executing' = IF complete THEN executing \cup {s} ELSE executing
              /\ PrepareReceivePdu
              /\ RecvStepDone("PDU")
  /\ UNCHANGED <<recvFrame, qstate, dataDigest, freeList, respList, workQueued>>

\* i10_target_try_recv_ddgst: read the data digest and execute.  (The
\* digest is only awaited for a command that did not fail init and has all
\* its data, so the test before nvmet_req_execute holds here.)
RecvDdgst ==
  /\ wpc = "recv" /\ rcvState = "DDGST"
  /\ inbox # << >> /\ Head(inbox).k = "ddgst"
  /\ inbox' = Tail(inbox)
  /\ executing' = executing \cup {rcvCmd}
  /\ PrepareReceivePdu
  /\ RecvStepDone("PDU")
  /\ UNCHANGED <<recvFrame, qstate, dataDigest, freeList, respList, cmd, workQueued>>

(***************************************************************************)
(* The send path.  try_send_one fetches a command when snd_cmd is NULL and *)
(* then tests cmd->state in the order DATA_PDU, DATA, DDGST, R2T, RESPONSE: *)
(* a handler that leaves a later state lets the same call go on (the       *)
(* worker goes on at "send"); one that returns ends the call ("flush1").   *)
(* The worker is at "fetch" at the start of a call.                        *)
(***************************************************************************)
SendOneReturns(v) == wpc' = "flush1" /\ sret' = v /\ UNCHANGED <<wi, ops, pending>>

\* The same try_send_one call goes on with the command's next state.
Continue == wpc' = "send" /\ UNCHANGED <<wi, ops, pending, sret>>

\* Mutant: the state test of try_send_one inverted.
MustFetchInverted == sndCmd = NoSlot \/ qstate # "DISCONNECTING"
\* try_send_one fetches a command when snd_cmd is NULL, and also when the
\* queue is DISCONNECTING, whatever snd_cmd was in the middle of sending.
MustFetch == sndCmd = NoSlot \/ qstate = "DISCONNECTING"

\* A direct send on a full send buffer: SOCK_NOSPACE is set and -EAGAIN makes
\* try_send_one return 0.
SendBlocked == nospace' = TRUE /\ SendOneReturns(0)

\* i10_target_fetch_cmd with nothing to send: try_send_one returns 0.
\* fetch_cmd has set snd_cmd to NULL.
FetchNone ==
  /\ wpc = "fetch" /\ MustFetch
  /\ respSendList = << >> /\ respList = << >>
  /\ sndCmd' = NoSlot
  /\ SendOneReturns(0)
  /\ UNCHANGED <<sendFrame, emitted, freeList, respList, respSendList, cmd,
                 c1, c2, sndbufFull, nospace, workQueued>>

\* Mutant: fetch_cmd without the need_data_in branch (no R2T).
FetchStateNoR2t(c) == IF NeedDataOut(c) THEN "DATA_PDU" ELSE "RESPONSE"
\* The PDU fetch_cmd sets up: C2H data, an R2T, or the response.
FetchState(c) ==
  IF NeedDataOut(c) THEN "DATA_PDU"
  ELSE IF NeedDataIn(c) THEN "R2T" ELSE "RESPONSE"

\* i10_target_fetch_cmd: take the head of resp_send_list, first moving
\* resp_list onto it (process_resp_list list_adds the newest-first llist,
\* which leaves it oldest first), and set up the PDU the command needs.
Fetch ==
  /\ wpc = "fetch" /\ MustFetch
  /\ LET list == IF respSendList = << >> THEN Reverse(respList) ELSE respSendList
         s == Head(list)
         st == FetchState(cmd[s])
     IN /\ list # << >>
        /\ respSendList' = Tail(list)
        /\ respList' = IF respSendList = << >> THEN << >> ELSE respList
        /\ sndCmd' = s
        /\ cmd' = [cmd EXCEPT ![s].state = st]
  /\ Continue
  /\ UNCHANGED <<sendFrame, emitted, freeList, c1, c2, sndbufFull, nospace,
                 workQueued>>


\* How an emission leaves on each queue: an I/O queue aggregates it in a
\* caravan (setting send_now when the caravan is full, and returning 1),
\* the admin queue (qid 0) sends it at once with MSG_DONTWAIT.
Caravan1Full ==
  /\ ~AdminQueue /\ IsCaravanFull(c1, Caravan1Capacity)
  /\ c1' = [c1 EXCEPT !.sendNow = TRUE]
  /\ SendOneReturns(1)
  /\ UNCHANGED <<emitted, c2, nospace>>
Caravan2Full ==
  /\ ~AdminQueue /\ IsCaravanFull(c2, Caravan2Capacity)
  /\ c2' = [c2 EXCEPT !.sendNow = TRUE]
  /\ SendOneReturns(1)
  /\ UNCHANGED <<emitted, c1, nospace>>
ToCaravan1(item, len, page) ==
  /\ ~AdminQueue /\ ~IsCaravanFull(c1, Caravan1Capacity)
  /\ c1' = AddSeg(c1, item, len, page)
  /\ UNCHANGED <<emitted, c2, nospace>>
Direct(item) ==
  /\ AdminQueue /\ ~sndbufFull
  /\ emitted' = Emit(emitted, << item >>)
  /\ UNCHANGED <<c1, c2, nospace>>
DirectBlocked ==
  /\ AdminQueue /\ sndbufFull
  /\ SendBlocked
  /\ UNCHANGED <<emitted, c1, c2>>

\* The handler for state st runs: later in the call, or first in a call
\* that goes on with snd_cmd.
Sending(st) ==
  /\ wpc = "send" \/ (wpc = "fetch" /\ ~MustFetch)
  /\ sndCmd # NoSlot /\ cmd[sndCmd].state = st

\* i10_target_try_send_data_pdu: the C2H data PDU header.
SendDataPdu ==
  /\ Sending("DATA_PDU")
  /\ \/ Caravan1Full /\ UNCHANGED cmd
     \/ /\ \/ ToCaravan1(Item(sndCmd, "c2h"), HdrLen, FALSE)
           \/ Direct(Item(sndCmd, "c2h"))
        \* cmd->state = SEND_DATA, and the same try_send_one goes on
        /\ cmd' = [cmd EXCEPT ![sndCmd].state = "DATA"]
        /\ Continue
     \/ DirectBlocked /\ UNCHANGED cmd
  /\ UNCHANGED <<sendFrame, freeList, respList, respSendList, sndCmd, sndbufFull,
                 workQueued>>


\* Mutant: the data digest state is skipped.
AfterPageNoDigest(c) == IF c.wbytes + 1 < c.pages THEN "DATA" ELSE "RESPONSE"
\* The state after sending a page: more pages (cur_sg), the data digest, or
\* the response (i10_target_setup_response_pdu).
AfterPage(c) ==
  IF c.wbytes + 1 < c.pages THEN "DATA"
  ELSE IF dataDigest THEN "DDGST" ELSE "RESPONSE"

\* i10_target_try_send_data, one page per step of its while loop.
SendData ==
  /\ Sending("DATA")
  /\ \/ Caravan1Full /\ UNCHANGED cmd
     \/ /\ \/ ToCaravan1(Item(sndCmd, "data"), PageLen, TRUE)
           \/ Direct(Item(sndCmd, "data"))
        /\ cmd' = [cmd EXCEPT ![sndCmd].wbytes = @ + 1,
                              ![sndCmd].state = AfterPage(cmd[sndCmd])]
        /\ Continue
     \/ DirectBlocked /\ UNCHANGED cmd
  /\ UNCHANGED <<sendFrame, freeList, respList, respSendList, sndCmd, sndbufFull,
                 workQueued>>

\* i10_target_try_send_ddgst: a direct kernel_sendmsg on every queue, the
\* caravans notwithstanding.
SendDdgst ==
  /\ Sending("DDGST")
  /\ \/ /\ sndbufFull
        /\ SendBlocked
        /\ UNCHANGED <<emitted, cmd>>
     \/ /\ ~sndbufFull
        /\ emitted' = Emit(emitted, << Item(sndCmd, "ddgst") >>)
        /\ cmd' = [cmd EXCEPT ![sndCmd].state = "RESPONSE"]
        /\ UNCHANGED nospace /\ Continue
  /\ UNCHANGED <<sendFrame, freeList, respList, respSendList, sndCmd, c1, c2,
                 sndbufFull, workQueued>>

\* i10_target_try_send_r2t: an I/O queue puts the R2T in caravan 2.
SendR2t ==
  /\ Sending("R2T")
  /\ \/ Caravan2Full /\ UNCHANGED sndCmd
     \/ /\ \/ /\ ~AdminQueue /\ ~IsCaravanFull(c2, Caravan2Capacity)
              /\ c2' = AddSeg(c2, Item(sndCmd, "r2t"), HdrLen, FALSE)
              /\ UNCHANGED <<emitted, c1, nospace>>
           \/ Direct(Item(sndCmd, "r2t"))
        /\ sndCmd' = NoSlot
        /\ SendOneReturns(1)
     \/ DirectBlocked /\ UNCHANGED sndCmd
  /\ UNCHANGED <<sendFrame, freeList, respList, respSendList, cmd, sndbufFull,
                 workQueued>>

\* i10_target_try_send_response: an I/O queue puts the response of a
\* command that is not a write in caravan 1 and that of a write in caravan
\* 2, with the command, which the flush releases; the admin queue sends it
\* and releases the command at once.
SendResponse ==
  /\ Sending("RESPONSE")
  /\ LET item == Item(sndCmd, "rsp") IN
     \/ ~cmd[sndCmd].write /\ Caravan1Full /\ UNCHANGED <<sndCmd, freeList>>
     \/ /\ ~AdminQueue /\ ~cmd[sndCmd].write
        /\ ~IsCaravanFull(c1, Caravan1Capacity)
        /\ c1' = [AddSeg(c1, item, HdrLen, FALSE) EXCEPT !.cmds = Append(@, sndCmd)]
        /\ sndCmd' = NoSlot
        /\ SendOneReturns(1)
        /\ UNCHANGED <<emitted, c2, nospace, freeList>>
     \/ cmd[sndCmd].write /\ Caravan2Full /\ UNCHANGED <<sndCmd, freeList>>
     \/ /\ ~AdminQueue /\ cmd[sndCmd].write
        /\ ~IsCaravanFull(c2, Caravan2Capacity)
        /\ c2' = [AddSeg(c2, item, HdrLen, FALSE) EXCEPT !.cmds = Append(@, sndCmd)]
        /\ sndCmd' = NoSlot
        /\ SendOneReturns(1)
        /\ UNCHANGED <<emitted, c1, nospace, freeList>>
     \/ DirectBlocked /\ UNCHANGED <<sndCmd, freeList>>
     \/ /\ Direct(item)
        /\ sndCmd' = NoSlot
        /\ freeList' = PutCmd(freeList, sndCmd)
        /\ SendOneReturns(1)
  /\ UNCHANGED <<sendFrame, respList, respSendList, cmd, sndbufFull, workQueued>>

(***************************************************************************)
(* The caravan flushes that follow every try_send_one in i10_target_try_send. *)
(* A caravan is sent when it asked to be (send_now), when try_send_one     *)
(* returned <= 0, or at the last budget iteration.  With too little room   *)
(* in the send buffer SOCK_NOSPACE is set and try_send returns 0 at once.  *)
(* A sent caravan releases its commands.                                   *)
(***************************************************************************)
FlushDue(c) == (c.sendNow \/ sret <= 0 \/ wi = SendBudget - 1) /\ c.len > 0

\* The end of one iteration of try_send's loop.
SendLoopNext ==
  IF sret <= 0 THEN SendPhaseEnds(sret, ops)
  ELSE IF wi + 1 < SendBudget
       THEN wpc' = "fetch" /\ wi' = wi + 1 /\ ops' = ops + 1 /\ sret' = 0
            /\ UNCHANGED <<pending, workQueued>>
       ELSE SendPhaseEnds(1, ops + 1)

FlushCaravan1 ==
  /\ wpc = "flush1"
  /\ \/ /\ ~FlushDue(c1)
        /\ wpc' = "flush2"
        /\ UNCHANGED <<emitted, freeList, c1, nospace, wi, ops, pending, sret, workQueued>>
     \/ /\ FlushDue(c1) /\ sndbufFull
        /\ nospace' = TRUE
        /\ SendPhaseEnds(0, ops)
        /\ UNCHANGED <<emitted, freeList, c1>>
     \/ /\ FlushDue(c1) /\ ~sndbufFull
        /\ emitted' = Emit(emitted, SendCaravan(c1))
        /\ freeList' = PutCmds(freeList, c1.cmds)
        /\ c1' = ResetCaravan(c1)
        /\ wpc' = "flush2"
        /\ UNCHANGED <<nospace, wi, ops, pending, sret, workQueued>>
  /\ UNCHANGED <<sendFrame, respList, respSendList, sndCmd, cmd, c2, sndbufFull>>

FlushCaravan2 ==
  /\ wpc = "flush2"
  /\ \/ /\ ~FlushDue(c2)
        /\ SendLoopNext
        /\ UNCHANGED <<emitted, freeList, c2, nospace>>
     \/ /\ FlushDue(c2) /\ sndbufFull
        /\ nospace' = TRUE
        /\ SendPhaseEnds(0, ops)
        /\ UNCHANGED <<emitted, freeList, c2>>
     \/ /\ FlushDue(c2) /\ ~sndbufFull
        /\ emitted' = Emit(emitted, SendCaravan(c2))
        /\ freeList' = PutCmds(freeList, c2.cmds)
        /\ c2' = ResetCaravan(c2)
        /\ SendLoopNext
        /\ UNCHANGED nospace
  /\ UNCHANGED <<sendFrame, respList, respSendList, sndCmd, cmd, c1, sndbufFull>>

(***************************************************************************)
(* The specification.                                                      *)
(***************************************************************************)
\* Every capsule answered and nothing left to do: the connection is idle.
Quiescent ==
  /\ \/ issued = MaxCmds /\ Outstanding = {}
     \/ qstate = "DISCONNECTING"
  /\ wpc = "idle" /\ ~workQueued /\ executing = {} /\ ~sndbufFull

Idle == Quiescent /\ UNCHANGED vars

Host == HostIcreq \/ HostCmd \/ HostH2CData

Worker ==
  \/ StartWork
  \/ RecvEagain \/ RecvIcreq \/ RecvH2C \/ RecvCapsule \/ RecvCapsuleInitFails
  \/ RecvData \/ RecvDdgst
  \/ FetchNone \/ Fetch
  \/ SendDataPdu \/ SendData \/ SendDdgst \/ SendR2t \/ SendResponse
  \/ FlushCaravan1 \/ FlushCaravan2

Next == Host \/ ExecComplete \/ SockFill \/ WriteSpace \/ Disconnect \/ Worker \/ Idle

\* io_work runs whenever it is queued on the workqueue; the executor
\* completes what it was given; TCP frees send-buffer space as the host
\* reads; the host answers every R2T.
Fairness ==
  /\ WF_vars(Worker)
  /\ WF_vars(ExecComplete)
  /\ WF_vars(WriteSpace)
  /\ WF_vars(HostH2CData)

Spec == Init /\ [][Next]_vars /\ Fairness


(***************************************************************************)
(* Properties.                                                             *)
(***************************************************************************)
Items == [id : Ids, k : {"c2h", "data", "ddgst", "r2t", "rsp"}, tag : AllSlots]
Caravans == [segs : Seq(Items), cmds : Seq(AllSlots), mapped : Nat, len : Nat,
             sendNow : BOOLEAN]

TypeOK ==
  /\ issued \in 0 .. MaxCmds
  /\ hostCmd \in [Ids -> HostCmdShapes \cup {ConnectCmd, NoHostCmd}]
  /\ inbox \in Seq([k : HeaderKinds \cup {"payload", "ddgst"}, id : 0 .. MaxCmds,
                     tag : AllSlots \cup {NoSlot}, off : Nat, len : Nat])
  /\ emitted \in [Ids -> Seq(Items)]
  /\ qstate \in {"CONNECTING", "LIVE", "DISCONNECTING"}
  /\ rcvState \in {"PDU", "DATA", "DDGST"}
  /\ rcvCmd \in AllSlots \cup {NoSlot}
  /\ (rcvState = "PDU") = (rcvCmd = NoSlot)
  /\ freeList \in Seq(AllSlots) /\ respList \in Seq(AllSlots)
  /\ respSendList \in Seq(AllSlots)
  /\ sndCmd \in AllSlots \cup {NoSlot}
  /\ \A s \in AllSlots : cmd[s].state \in SendStates /\ cmd[s].id \in 0 .. MaxCmds
  /\ c1 \in Caravans /\ c2 \in Caravans
  /\ executing \subseteq AllSlots
  /\ wpc \in {"idle", "recv", "fetch", "send", "flush1", "flush2"}
  /\ wi \in 0 .. (IF RecvBudget > SendBudget THEN RecvBudget ELSE SendBudget)
  /\ ops \in 0 .. IoWorkBudget + RecvBudget + SendBudget

\* How often slot s appears in a list.
Occ(list, s) == Len(SelectSeq(list, LAMBDA x : x = s))

\* The holders of a command slot: the free list, resp_list, resp_send_list,
\* snd_cmd, the two caravans' command arrays, the executor and the receive
\* path (queue->cmd).
Holders(s) ==
  Occ(freeList, s) + Occ(respList, s) + Occ(respSendList, s)
  + Occ(c1.cmds, s) + Occ(c2.cmds, s)
  + (IF sndCmd = s THEN 1 ELSE 0) + (IF s \in executing THEN 1 ELSE 0)
  + (IF rcvCmd = s THEN 1 ELSE 0)

\* Invariant 1 of the design: a command is in at most one of the lists,
\* caravans or contexts that hold commands at any time.  get_cmd, the
\* response queueing of nvmet_req_init and the executor, fetch_cmd and the
\* caravan flushes' put_cmd must hand a command on, never share it.
SlotExclusive == \A s \in AllSlots : Holders(s) <= 1

\* What the host may see on the wire for one command, in order: for a read
\* with data, the C2H header, its pages, the data digest when negotiated
\* and the response; for a write with solicited data an R2T and the
\* response; for any command, a lone (error or success) response.
Kinds(e) == [j \in DOMAIN e |-> e[j].k]
Pages(n) == [j \in 1 .. n |-> "data"]
LegalWire(hc) ==
  {<< "rsp" >>}
  \cup (IF ~hc.write /\ hc.pages > 0
        THEN {<< "c2h" >> \o Pages(hc.pages)
                \o (IF dataDigest THEN << "ddgst" >> ELSE << >>) \o << "rsp" >>}
        ELSE {})
  \cup (IF hc.write /\ ~hc.inline THEN {<< "r2t", "rsp" >>} ELSE {})

\* Everything the target has written for a command (direct sends, caravan
\* flushes, the data digest of try_send_ddgst) is a prefix of what the
\* NVMe/TCP protocol allows for it.
WireOrder ==
  \A id \in 1 .. issued :
    \E w \in LegalWire(hostCmd[id]) : IsPrefix(Kinds(emitted[id]), w)

\* The receive state machine and the byte stream stay in step: in RECV_PDU
\* the next bytes are a PDU header, in RECV_DATA the payload still owed,
\* in RECV_DDGST a data digest.  try_recv_data and try_recv_ddgst decide
\* from rbytes_done, transfer_len and the INIT_FAILED flag what comes next.
FramingInSync ==
  inbox # << >> =>
    CASE rcvState = "PDU"   -> Head(inbox).k \in HeaderKinds
      [] rcvState = "DATA"  -> cmd[rcvCmd].pduRecv = cmd[rcvCmd].pduLen
                               \/ Head(inbox).k = "payload"
      [] rcvState = "DDGST" -> Head(inbox).k = "ddgst"

\* The caravan arrays, kcalloc'd in i10_target_alloc_queue with 3 *
\* SEND_BUDGET iovecs and SEND_BUDGET command and page slots, are never
\* written past their end: every append is preceded by the fullness test.
CaravanWithinArrays ==
  \A c \in {c1, c2} :
    /\ Len(c.segs) <= SendBudget * 3
    /\ Len(c.cmds) <= SendBudget
    /\ c.mapped <= SendBudget

\* done_recv_pdu's "This should never happen": a capsule never finds the
\* free list empty, since the host keeps at most sq->size commands
\* outstanding and the queue has twice that many slots.
FreeSlotAvailable ==
  (rcvState = "PDU" /\ inbox # << >> /\ Head(inbox).k = "cmd") => freeList # << >>

\* A slot goes back to the free list (put_cmd in try_send_response or in a
\* caravan flush) only once the command's response is on the wire.
ReleasedOnlyWhenAnswered ==
  [][\A s \in Slots :
       Occ(freeList', s) > Occ(freeList, s) /\ cmd[s].id # 0 => Responded(cmd[s].id)'
    ]_vars

\* A command slot that no list, caravan or context holds, while its command
\* is neither answered nor waiting for the host's data: nothing will ever
\* send its response or put it back on the free list.
Abandoned(s) ==
  cmd[s].id # 0 /\ Holders(s) = 0 /\ ~Responded(cmd[s].id) /\ ~NeedDataIn(cmd[s])

\* try_send_one fetches a new command when the queue is DISCONNECTING even
\* though snd_cmd is set (PINoF.c:781): the command being sent is dropped
\* without its response and without put_cmd.  No other step abandons a
\* command; this one abandons only the command in snd_cmd, only once the
\* connection has closed.
AbandonedOnlyOnDisconnect ==
  [][\A s \in AllSlots :
       ~Abandoned(s) /\ Abandoned(s)' => qstate = "DISCONNECTING" /\ sndCmd = s
    ]_vars

\* Every capsule the host sends is eventually answered: io_work is always
\* requeued while it has work (the budget requeue, queue_response, and
\* write_space after SOCK_NOSPACE), so no command is stranded in a list
\* or a caravan.
EveryCommandAnswered == \A id \in Ids : (issued >= id) ~> Responded(id)


(***************************************************************************)
(* Refinement: the queue implements I10Lifecycle.  A command's stage is    *)
(* read off the slot that holds its id: the executor has it, or the        *)
(* receive path still waits for its data (or its data digest), or it has  *)
(* completed and waits in resp_list, snd_cmd or a caravan until its        *)
(* response reaches the wire.                                              *)
(***************************************************************************)
HasSlot(id) == \E s \in AllSlots : cmd[s].id = id
SlotOf(id)  == CHOOSE s \in AllSlots : cmd[s].id = id

AbsStage(id) ==
  IF id > issued THEN "idle"
  ELSE IF Responded(id) THEN "answered"
  ELSE IF ~HasSlot(id) THEN "issued"
  ELSE LET s == SlotOf(id) IN
       IF s \in executing THEN "executing"
       ELSE IF NeedDataIn(cmd[s]) \/ (rcvState = "DDGST" /\ rcvCmd = s)
            THEN "received"
            ELSE "completed"

AbsDataIn(id) ==
  AbsStage(id) \in {"received", "executing"} /\ ~HasDataIn(cmd[SlotOf(id)])

Lifecycle == INSTANCE I10Lifecycle
               WITH stage  <- [id \in Ids |-> AbsStage(id)],
                    dataIn <- [id \in Ids |-> AbsDataIn(id)]

\* Every step of the queue is a step of the command lifecycle: a command is
\* executed at most once and only with all of its data in (try_recv_data,
\* try_recv_ddgst), it is answered only after it completed or was rejected
\* (queue_response from nvmet, handle_req_failure), and no receive, send or
\* caravan flush moves a command back to an earlier stage.
LifecycleRefined == Lifecycle!Spec

==============================================================================
