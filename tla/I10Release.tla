----------------------------- MODULE I10Release -----------------------------
(***************************************************************************)
(* The end of a queue's life: the connection closes, state_change          *)
(* schedules release_work, and i10_target_release_queue_work tears the     *)
(* queue down while io_work and the nvmet executor may still be running.   *)
(*                                                                         *)
(* The data path is abstracted to what the teardown interacts with: a      *)
(* command slot is free, held by the receive path, executing, or waiting   *)
(* for its response to be sent; a write carries its data in the capsule    *)
(* in DataChunks pieces that the host sends one at a time, so the          *)
(* connection can close with a command half received.  Each io_work step   *)
(* is one try_recv_one or one response send (budgets of one); a response   *)
(* is sent in one step and its command put at once, caravans left out.     *)
(* The work item is modelled as the workqueue runs it: queued (the pending *)
(* bit) and running are separate, so a work item can be queued again      *)
(* while it runs.                                                          *)
(***************************************************************************)
EXTENDS Integers, Sequences, FiniteSets

CONSTANTS
  Slots,         \* queue->cmds[]
  MaxCapsules,   \* capsules the host sends on the connection (bound)
  DataChunks,    \* pieces in which a write's in-capsule data arrives
  IoWorkBudget,  \* I10_TARGET_IO_WORK_BUDGET
  NoCmd,         \* a NULL queue->cmd
  CloseMidWrite, \* the connection may close while write data is in flight
  CloseDuringAccept \* the host may close before alloc_queue has returned

ASSUME /\ IsFiniteSet(Slots) /\ NoCmd \notin Slots
       /\ CloseMidWrite \in BOOLEAN /\ CloseDuringAccept \in BOOLEAN
       /\ {MaxCapsules, DataChunks, IoWorkBudget} \subseteq Nat \ {0}

VARIABLES
  inbox,         \* bytes the host has sent that the target has not read
  owed,          \* data pieces of the last write the host has yet to send
  capsules,      \* capsules sent so far
  eof,           \* the host closed the connection (FIN received)
  userData,      \* sk->sk_user_data still points at the queue
  qstate,        \* queue->state: "live" or "disconnecting"
  rcvState,      \* queue->rcv_state: "PDU" or "DATA"
  rcvCmd,        \* queue->cmd
  slot,          \* where each command is: free, held, exec or resp
  respList,      \* resp_list and resp_send_list, in sending order
  buf,           \* req.sg / cmd->iov of each command: none, alloc, freed
  got,           \* in-capsule data pieces received into each command
  ref,           \* the nvmet_sq reference each request holds (0 or 1)
  failed,        \* req.rsp->status set (nvmet_req_init failed)
  write,         \* nvme_is_write(cmd->req.cmd)
  queued,        \* io_work's pending bit
  running,       \* io_work is executing
  wpc,           \* where io_work is in its do/while: "recv" or "send"
  pending,       \* io_work's local pending
  ops,           \* io_work's local ops
  rpc,           \* where release_work is
  barrier,       \* io_work executions flush_work still waits for
  canceling,     \* cancel_work_sync is in progress
  sqKilled,      \* nvmet_sq_destroy has killed the sq reference
  freed,         \* kfree(queue) has run
  apc,           \* where accept_work's i10_target_alloc_queue is
  listed,        \* the queue is on i10_target_queue_list
  dpc            \* where delete_ctrl's walk of the queue list is

vars == << inbox, owed, capsules, eof, userData, qstate, rcvState, rcvCmd,
           slot, respList, buf, got, ref, failed, write, queued, running, wpc,
           pending, ops, rpc, barrier, canceling, sqKilled, freed, apc,
           listed, dpc >>
hostVars == << inbox, owed, capsules, eof >>
cmdVars  == << slot, respList, buf, got, ref, failed, write >>
workVars == << queued, running, wpc, pending, ops >>
relVars  == << rpc, barrier, canceling, sqKilled, freed, listed >>
ctlVars  == << apc, dpc >>

\* queue_work_on: sets the pending bit, unless cancel_work_sync holds it.
QueueWork == queued' = (queued \/ ~canceling)

\* i10_target_need_data_in: a write with data still to receive and no
\* error status, judged from the command's fields whatever list it is on.
NeedDataIn(s) == write[s] /\ got[s] < DataChunks /\ ~failed[s]

-----------------------------------------------------------------------------
(* The host and the socket.                                                *)

\* The host sends a read capsule, or a write capsule whose data follows in
\* pieces; data_ready queues io_work while sk_user_data is set.  The host
\* keeps no more commands outstanding than the queue has slots.
HostCapsule ==
  /\ ~eof /\ owed = 0 /\ capsules < MaxCapsules
  /\ Cardinality({s \in Slots : slot[s] # "free"})
       + Len(SelectSeq(inbox, LAMBDA k : k # "d")) < Cardinality(Slots)
  /\ \E k \in {"rd", "wr"} :
       /\ inbox' = Append(inbox, k)
       /\ owed' = IF k = "wr" THEN DataChunks ELSE 0
  /\ capsules' = capsules + 1
  /\ IF userData THEN QueueWork ELSE UNCHANGED queued
  /\ UNCHANGED << eof, userData, qstate, rcvState, rcvCmd, cmdVars,
                  running, wpc, pending, ops, relVars, ctlVars >>

HostData ==
  /\ ~eof /\ owed > 0
  /\ inbox' = Append(inbox, "d")
  /\ owed' = owed - 1
  /\ IF userData THEN QueueWork ELSE UNCHANGED queued
  /\ UNCHANGED << capsules, eof, userData, qstate, rcvState, rcvCmd, cmdVars,
                  running, wpc, pending, ops, relVars, ctlVars >>

\* The connection closes.  If the queue's callbacks are installed,
\* i10_target_state_change clears sk_user_data and, through
\* i10_target_schedule_release_queue, marks the queue DISCONNECTING and
\* schedules release_work once; before set_queue_sock the socket's own
\* state_change runs and the queue learns nothing.
Disconnected ==
  /\ eof' = TRUE
  /\ userData' = FALSE
  /\ IF userData /\ qstate # "disconnecting"
       THEN /\ qstate' = "disconnecting" /\ rpc' = "scheduled"
       ELSE UNCHANGED << qstate, rpc >>

\* The host's FIN, possibly in the middle of a write's data.  Without
\* CloseMidWrite the connection closes only between writes: all write
\* data sent has been read.  Without CloseDuringAccept it closes only
\* once alloc_queue has returned.
Close ==
  /\ ~eof
  /\ CloseDuringAccept \/ apc = "done"
  /\ CloseMidWrite \/ (owed = 0 /\ rcvState = "PDU" /\ \A i \in DOMAIN inbox : inbox[i] = "rd")
  /\ Disconnected
  /\ UNCHANGED << inbox, owed, capsules, rcvState, rcvCmd, cmdVars, workVars,
                  barrier, canceling, sqKilled, freed, listed, ctlVars >>

-----------------------------------------------------------------------------
(* accept_work and delete_ctrl, which reach the queue from outside.       *)

\* The tail of i10_target_alloc_queue in accept_work.  The queue is on
\* i10_target_queue_list already (list_add_tail under the mutex);
\* i10_target_set_queue_sock installs sk_user_data and the callbacks.
AllocSetSock ==
  /\ apc = "setsock"
  /\ userData' = TRUE
  /\ apc' = "queue_work"
  /\ UNCHANGED << hostVars, qstate, rcvState, rcvCmd, cmdVars, workVars,
                  relVars, dpc >>

\* alloc_queue returns after queue_work_on(queue->cpu, ..., &queue->io_work).
AllocQueueWork ==
  /\ apc = "queue_work"
  /\ QueueWork
  /\ apc' = "done"
  /\ UNCHANGED << hostVars, userData, qstate, rcvState, rcvCmd, cmdVars,
                  running, wpc, pending, ops, relVars, dpc >>

\* i10_target_delete_ctrl (i10_target_exit walks the list the same way)
\* takes i10_target_queue_mutex.  The queue belongs to the controller once
\* its connect command ran, so after alloc_queue returned.  The shutdown
\* may come in the middle of a write: the walk runs where CloseMidWrite.
DeleteCtrlLock ==
  /\ dpc = "idle" /\ apc = "done" /\ CloseMidWrite
  /\ dpc' = "locked"
  /\ UNCHANGED << hostVars, userData, qstate, rcvState, rcvCmd, cmdVars,
                  workVars, relVars, apc >>

\* list_for_each_entry finds the queue while it is on the list, or the
\* walk ends and the mutex is released.
DeleteCtrlVisit ==
  /\ dpc = "locked"
  /\ dpc' = IF listed THEN "shutdown" ELSE "done"
  /\ UNCHANGED << hostVars, userData, qstate, rcvState, rcvCmd, cmdVars,
                  workVars, relVars, apc >>

\* kernel_sock_shutdown(queue->sock, SHUT_RDWR): the TCP state change
\* runs i10_target_state_change unless the connection closed already;
\* then the walk ends and the mutex is released.
DeleteCtrlShutdown ==
  /\ dpc = "shutdown"
  /\ IF eof THEN UNCHANGED << eof, userData, qstate, rpc >> ELSE Disconnected
  /\ dpc' = "done"
  /\ UNCHANGED << inbox, owed, capsules, rcvState, rcvCmd, cmdVars, workVars,
                  barrier, canceling, sqKilled, freed, listed, apc >>

-----------------------------------------------------------------------------
(* nvmet.                                                                  *)

\* Mutant: the completion does not drop the request's sq reference.
ExecCompleteKeepRef(s) ==
  /\ slot[s] = "exec"
  /\ slot' = [slot EXCEPT ![s] = "resp"]
  /\ respList' = Append(respList, s)
  /\ QueueWork
  /\ UNCHANGED << hostVars, userData, qstate, rcvState, rcvCmd, buf, got, ref,
                  failed, write, running, wpc, pending, ops, relVars, ctlVars >>

\* nvmet_req_execute completes: __nvmet_req_complete puts the sq reference
\* and i10_target_queue_response adds the command to resp_list and queues
\* io_work.
ExecComplete(s) ==
  /\ slot[s] = "exec"
  /\ slot' = [slot EXCEPT ![s] = "resp"]
  /\ respList' = Append(respList, s)
  /\ ref' = [ref EXCEPT ![s] = ref[s] - 1]
  /\ QueueWork
  /\ UNCHANGED << hostVars, userData, qstate, rcvState, rcvCmd, buf, got,
                  failed, write, running, wpc, pending, ops, relVars, ctlVars >>

-----------------------------------------------------------------------------
(* io_work.                                                                *)

StartWork ==
  /\ queued /\ ~running /\ ~freed
  /\ queued' = FALSE /\ running' = TRUE
  /\ wpc' = "recv" /\ pending' = FALSE /\ ops' = 0
  /\ UNCHANGED << hostVars, userData, qstate, rcvState, rcvCmd, cmdVars,
                  relVars, ctlVars >>

\* The end of one execution: requeue when the budget ran out with work
\* pending; a flush_work waiting on this execution is released.
EndWork(p) ==
  /\ running' = FALSE /\ wpc' = "idle"
  /\ IF p THEN QueueWork ELSE UNCHANGED queued
  /\ barrier' = IF barrier > 0 THEN barrier - 1 ELSE 0

\* Mutant: the do/while without the ops budget.
SendDoneNoBudget(p, o) ==
  IF p
  THEN /\ wpc' = "recv" /\ pending' = FALSE /\ ops' = o
       /\ UNCHANGED << running, queued, barrier >>
  ELSE /\ EndWork(p) /\ UNCHANGED << pending, ops >>

\* After try_send: loop while pending and under budget (the next
\* iteration starts with pending false), or end.
SendDone(p, o) ==
  IF p /\ o < IoWorkBudget
  THEN /\ wpc' = "recv" /\ pending' = FALSE /\ ops' = o
       /\ UNCHANGED << running, queued, barrier >>
  ELSE /\ EndWork(p) /\ UNCHANGED << pending, ops >>

\* try_recv_one in RECV_PDU with a capsule at the head: done_recv_pdu
\* takes the head of the free list and calls nvmet_req_init, which takes
\* an sq reference unless nvmet_sq_destroy killed it.  map_data allocates
\* req.sg; a read is executed, a write goes to RECV_DATA.  When init
\* fails the request is completed with an error at once (queue_response)
\* and handle_req_failure still maps and receives a write's inline data.
RecvCapsule ==
  /\ running /\ wpc = "recv" /\ rcvState = "PDU"
  /\ inbox # << >> /\ Head(inbox) \in {"rd", "wr"}
  /\ \E s \in Slots :
       /\ slot[s] = "free"
       /\ LET k  == Head(inbox)
              ok == ~sqKilled
          IN  /\ slot' = [slot EXCEPT ![s] =
                            IF ~ok THEN "resp" ELSE IF k = "rd" THEN "exec" ELSE "held"]
              /\ respList' = IF ok THEN respList ELSE Append(respList, s)
              /\ ref' = [ref EXCEPT ![s] = IF ok THEN 1 ELSE 0]
              /\ failed' = [failed EXCEPT ![s] = ~ok]
              /\ write' = [write EXCEPT ![s] = k = "wr"]
              /\ buf' = [buf EXCEPT ![s] = IF ok \/ k = "wr" THEN "alloc" ELSE "none"]
              /\ got' = [got EXCEPT ![s] = 0]
              /\ rcvState' = IF k = "wr" THEN "DATA" ELSE "PDU"
              /\ rcvCmd' = IF k = "wr" THEN s ELSE NoCmd
              /\ IF ~ok THEN QueueWork ELSE UNCHANGED queued
  /\ inbox' = Tail(inbox)
  /\ wpc' = "send" /\ pending' = TRUE /\ ops' = ops + 1
  /\ UNCHANGED << owed, capsules, eof, userData, qstate, running, relVars, ctlVars >>

\* try_recv_one in RECV_DATA with data available: sock_recvmsg copies it
\* into the pages mapped from cmd->req.sg.  With the last piece the
\* request is executed (unless init failed) and the next PDU prepared.
RecvData ==
  /\ running /\ wpc = "recv" /\ rcvState = "DATA"
  /\ inbox # << >> /\ Head(inbox) = "d"
  /\ LET s == rcvCmd
         last == got[s] + 1 = DataChunks
     IN  /\ got' = [got EXCEPT ![s] = got[s] + 1]
         /\ slot' = IF last /\ ~failed[s] THEN [slot EXCEPT ![s] = "exec"] ELSE slot
         /\ rcvState' = IF last THEN "PDU" ELSE "DATA"
         /\ rcvCmd' = IF last THEN NoCmd ELSE s
  /\ inbox' = Tail(inbox)
  /\ wpc' = "send" /\ pending' = TRUE /\ ops' = ops + 1
  /\ UNCHANGED << owed, capsules, eof, userData, qstate, respList, buf, ref,
                  failed, write, queued, running, relVars, ctlVars >>

\* try_recv_one with nothing to read: in RECV_PDU kernel_recvmsg gives
\* -EAGAIN, or 0 at end of file which leaves queue->left unchanged and
\* also returns -EAGAIN; in RECV_DATA -EAGAIN before end of file.  The
\* receive phase returns 0.
RecvIdle ==
  /\ running /\ wpc = "recv"
  /\ inbox = << >>
  /\ rcvState = "PDU" \/ ~eof
  /\ wpc' = "send"
  /\ UNCHANGED << hostVars, userData, qstate, rcvState, rcvCmd, cmdVars,
                  queued, running, pending, ops, relVars, ctlVars >>

\* Mutant: try_recv not counting the receive in *recvs.
RecvEofNoCount ==
  /\ running /\ wpc = "recv"
  /\ inbox = << >> /\ rcvState = "DATA" /\ eof
  /\ wpc' = "send" /\ pending' = TRUE
  /\ UNCHANGED << hostVars, userData, qstate, rcvState, rcvCmd, cmdVars,
                  queued, running, ops, relVars, ctlVars >>

\* try_recv_data at end of file: sock_recvmsg returns 0, try_recv_data
\* returns 0, and try_recv_one, finding no later state to try, returns 1:
\* the receive phase counts it as progress.
RecvEof ==
  /\ running /\ wpc = "recv"
  /\ inbox = << >> /\ rcvState = "DATA" /\ eof
  /\ wpc' = "send" /\ pending' = TRUE /\ ops' = ops + 1
  /\ UNCHANGED << hostVars, userData, qstate, rcvState, rcvCmd, cmdVars,
                  queued, running, relVars, ctlVars >>

\* try_send_one: fetch_cmd takes the next response and
\* try_send_response sends it, frees cmd->iov and req.sg and puts the
\* command back on the free list.
SendResponse ==
  /\ running /\ wpc = "send" /\ respList # << >>
  /\ LET s == Head(respList)
     IN  /\ slot' = [slot EXCEPT ![s] = "free"]
         /\ buf' = [buf EXCEPT ![s] = IF buf[s] = "none" THEN "none" ELSE "freed"]
  /\ respList' = Tail(respList)
  /\ SendDone(TRUE, ops + 1)
  /\ UNCHANGED << hostVars, userData, qstate, rcvState, rcvCmd, got, ref,
                  failed, write, rpc, canceling, sqKilled, freed, listed, ctlVars >>

\* try_send with nothing to send returns 0.
SendNone ==
  /\ running /\ wpc = "send" /\ respList = << >>
  /\ SendDone(pending, ops)
  /\ UNCHANGED << hostVars, userData, qstate, rcvState, rcvCmd, cmdVars,
                  rpc, canceling, sqKilled, freed, listed, ctlVars >>

-----------------------------------------------------------------------------
(* i10_target_release_queue_work, one step per call.                       *)

\* Mutant: list_del_init without i10_target_queue_mutex.
ListDelNoMutex ==
  /\ rpc = "scheduled"
  /\ listed' = FALSE
  /\ rpc' = "restore"
  /\ UNCHANGED << hostVars, userData, qstate, rcvState, rcvCmd, cmdVars,
                  workVars, barrier, canceling, sqKilled, freed, ctlVars >>

\* list_del_init(&queue->queue_list) under i10_target_queue_mutex, which
\* a delete_ctrl walk holds until it is done.
ListDel ==
  /\ rpc = "scheduled" /\ dpc \notin {"locked", "shutdown"}
  /\ listed' = FALSE
  /\ rpc' = "restore"
  /\ UNCHANGED << hostVars, userData, qstate, rcvState, rcvCmd, cmdVars,
                  workVars, barrier, canceling, sqKilled, freed, ctlVars >>

\* i10_target_restore_socket_callbacks (sk_user_data = NULL).
RestoreCallbacks ==
  /\ rpc = "restore"
  /\ userData' = FALSE
  /\ rpc' = "flush"
  /\ UNCHANGED << hostVars, qstate, rcvState, rcvCmd, cmdVars, workVars,
                  barrier, canceling, sqKilled, freed, listed, ctlVars >>

\* flush_work waits for the last queueing instance: the queued execution
\* if there is one (after the running one), else the running one.
FlushWork ==
  /\ rpc = "flush"
  /\ barrier' = (IF queued THEN 1 ELSE 0) + (IF running THEN 1 ELSE 0)
  /\ rpc' = "flushing"
  /\ UNCHANGED << hostVars, userData, qstate, rcvState, rcvCmd, cmdVars,
                  workVars, canceling, sqKilled, freed, listed, ctlVars >>

\* i10_target_uninit_data_in_cmds once flush_work returns: every command
\* that still needs data in is finished (nvmet_req_uninit puts its sq
\* reference, the pages are unmapped and req.sg freed).
UninitDataInCmds ==
  /\ rpc = "flushing" /\ barrier = 0
  /\ buf' = [s \in Slots |-> IF NeedDataIn(s) THEN "freed" ELSE buf[s]]
  /\ ref' = [s \in Slots |-> IF NeedDataIn(s) THEN ref[s] - 1 ELSE ref[s]]
  /\ rpc' = "sq_destroy"
  /\ UNCHANGED << hostVars, userData, qstate, rcvState, rcvCmd, slot,
                  respList, got, failed, write, workVars, barrier, canceling,
                  sqKilled, freed, listed, ctlVars >>

\* nvmet_sq_destroy kills the sq reference and waits until every request
\* has dropped its own.
SqDestroy ==
  /\ rpc = "sq_destroy"
  /\ sqKilled' = TRUE
  /\ rpc' = "sq_wait"
  /\ UNCHANGED << hostVars, userData, qstate, rcvState, rcvCmd, cmdVars,
                  workVars, barrier, canceling, freed, listed, ctlVars >>

SqWait ==
  /\ rpc = "sq_wait"
  /\ \A s \in Slots : ref[s] <= 0
  /\ rpc' = "cancel"
  /\ UNCHANGED << hostVars, userData, qstate, rcvState, rcvCmd, cmdVars,
                  workVars, barrier, canceling, sqKilled, freed, listed, ctlVars >>

\* Mutant: cancel_work_sync replaced by a wait that leaves a pending
\* execution queued.
CancelWorkKeepPending ==
  /\ rpc = "cancel"
  /\ canceling' = TRUE
  /\ rpc' = "canceling"
  /\ UNCHANGED << hostVars, userData, qstate, rcvState, rcvCmd, cmdVars,
                  workVars, barrier, sqKilled, freed, listed, ctlVars >>

\* cancel_work_sync: takes the pending bit and waits for a running
\* execution to finish; queueing fails meanwhile.
CancelWork ==
  /\ rpc = "cancel"
  /\ queued' = FALSE /\ canceling' = TRUE
  /\ rpc' = "canceling"
  /\ UNCHANGED << hostVars, userData, qstate, rcvState, rcvCmd, cmdVars,
                  running, wpc, pending, ops, barrier, sqKilled, freed, listed, ctlVars >>

\* cancel_work_sync returns; sock_release, free_cmds, the caravan arrays
\* and kfree(queue) follow without waiting on anything.
FreeQueue ==
  /\ rpc = "canceling" /\ ~running
  /\ canceling' = FALSE
  /\ freed' = TRUE
  /\ rpc' = "done"
  /\ UNCHANGED << hostVars, userData, qstate, rcvState, rcvCmd, cmdVars,
                  workVars, barrier, sqKilled, listed, ctlVars >>

-----------------------------------------------------------------------------
Init ==
  /\ inbox = << >> /\ owed = 0 /\ capsules = 0 /\ eof = FALSE
  /\ userData = FALSE /\ qstate = "live"
  /\ rcvState = "PDU" /\ rcvCmd = NoCmd
  /\ slot = [s \in Slots |-> "free"] /\ respList = << >>
  /\ buf = [s \in Slots |-> "none"] /\ got = [s \in Slots |-> 0]
  /\ ref = [s \in Slots |-> 0] /\ failed = [s \in Slots |-> FALSE]
  /\ write = [s \in Slots |-> FALSE]
  /\ queued = FALSE /\ running = FALSE /\ wpc = "idle"
  /\ pending = FALSE /\ ops = 0
  /\ rpc = "none" /\ barrier = 0 /\ canceling = FALSE
  /\ sqKilled = FALSE /\ freed = FALSE
  /\ apc = "setsock" /\ listed = TRUE /\ dpc = "idle"

Host == HostCapsule \/ HostData \/ Close
Worker == StartWork \/ RecvCapsule \/ RecvData \/ RecvIdle \/ RecvEof
          \/ SendResponse \/ SendNone
Release == ListDel \/ RestoreCallbacks \/ FlushWork \/ UninitDataInCmds \/ SqDestroy
           \/ SqWait \/ CancelWork \/ FreeQueue

\* The system stops for good once kfree(queue) is done, and an idle
\* connection may sit without traffic: the cfgs do not check deadlock,
\* and ReleaseCompletes is what rules out a stall after the disconnect.
Accept == AllocSetSock \/ AllocQueueWork
Ctrl == DeleteCtrlLock \/ DeleteCtrlVisit \/ DeleteCtrlShutdown

Next == Host \/ (\E s \in Slots : ExecComplete(s)) \/ Worker \/ Release
        \/ Accept \/ Ctrl

\* The workqueue runs queued work, the release worker and accept_work;
\* nvmet completes what it executes; a delete_ctrl walk that holds the
\* mutex finishes.  Nothing obliges the administrator to delete.
Fairness ==
  /\ WF_vars(Worker)
  /\ WF_vars(Release)
  /\ WF_vars(Accept)
  /\ WF_vars(DeleteCtrlVisit \/ DeleteCtrlShutdown)
  /\ \A s \in Slots : WF_vars(ExecComplete(s))

Spec == Init /\ [][Next]_vars /\ Fairness
-----------------------------------------------------------------------------
TypeOK ==
  /\ inbox \in Seq({"rd", "wr", "d"}) /\ owed \in 0 .. DataChunks
  /\ slot \in [Slots -> {"free", "held", "exec", "resp"}]
  /\ buf \in [Slots -> {"none", "alloc", "freed"}]
  /\ rcvState \in {"PDU", "DATA"} /\ rcvCmd \in Slots \cup {NoCmd}
  /\ wpc \in {"idle", "recv", "send"} /\ ops \in 0 .. IoWorkBudget
  /\ barrier \in 0 .. 2
  /\ write \in [Slots -> BOOLEAN]
  /\ apc \in {"setsock", "queue_work", "done"} /\ listed \in BOOLEAN
  /\ dpc \in {"idle", "locked", "shutdown", "done"}

\* try_recv_data never copies into a command's pages after
\* uninit_data_in_cmds (or a response send) freed req.sg: release_work
\* must not free what a still-running io_work is receiving into.
NoWriteAfterFree ==
  [][\A s \in Slots : got'[s] > got[s] => buf[s] = "alloc"]_vars

\* Once kfree(queue) has run, io_work is neither queued nor running:
\* cancel_work_sync, after the callbacks are restored and the sq drained,
\* leaves nothing that can queue it again.
NoWorkAfterFree == freed => ~queued /\ ~running

\* No request drops its nvmet_sq reference twice: completion and
\* nvmet_req_uninit in uninit_data_in_cmds are exclusive.  Only a
\* mid-write close makes uninit_data_in_cmds finish a command, and there
\* it fails; no run checks it (README, release_uaf).
SqRefBalanced == \A s \in Slots : ref[s] >= 0

\* When the queue is freed no command still owns its data pages (req.sg
\* and cmd->iov are freed on the response send and in
\* uninit_data_in_cmds only).
NoBufferLeak == freed => \A s \in Slots : buf[s] # "alloc"

\* delete_ctrl (and module exit) calls kernel_sock_shutdown only on a
\* queue that release_work has not freed: release_work takes the queue off
\* i10_target_queue_list under the mutex the walk holds, before it
\* restores the callbacks, drains io_work and nvmet and frees the queue.
ShutdownOnlyLiveQueue == dpc = "shutdown" => ~freed

\* flush_work in release_work returns even while io_work keeps
\* requeueing itself (at end of file in RECV_DATA it spins): every
\* execution of io_work ends within its ops budget.
FlushReturns == rpc = "flushing" ~> rpc # "flushing"

\* Once the connection is marked DISCONNECTING, release_work eventually
\* frees the queue: flush_work, nvmet_sq_destroy and cancel_work_sync all
\* return.
ReleaseCompletes == qstate = "disconnecting" ~> freed
=============================================================================
