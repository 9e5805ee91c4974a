# TLA+ models of the i10 NVMe-over-TCP target (PINoF)

The code checked here is `src/PINoF/target/PINoF.c`: the i10 NVMe/TCP target
driver. It is an NVMe-oF TCP target. On I/O queues it batches outgoing PDUs
into two *caravans* and sends each with a single `kernel_sendmsg`:

- caravan 1 carries C2H data and the responses of non-write commands;
- caravan 2 carries R2Ts and the responses of writes.

## The system and how its parts interact

| Part | Code | What it does |
|---|---|---|
| Command pool | `get_cmd`, `put_cmd`, `alloc_cmds`, `queue->connect` | A per-queue array of command slots on a free list. A slot's index is the transfer tag (ttag). The fabrics connect command uses a separate slot. |
| Receive path | `try_recv` → `try_recv_one` → `try_recv_pdu` / `try_recv_data` / `try_recv_ddgst`, `done_recv_pdu`, `handle_icreq`, `handle_h2c_data_pdu`, `handle_req_failure`, `map_data` | Reads PDU headers, in-capsule data, H2C data and data digests in the `rcv_state` order PDU → DATA → DDGST. It takes a slot per capsule and hands the request to nvmet. |
| nvmet execution | `nvmet_req_execute` → `queue_response` | Asynchronous. On completion it pushes the command onto the lock-free `resp_list` and queues `io_work`. |
| Send path | `fetch_cmd`, `process_resp_list`, `setup_c2h/r2t/response`, `try_send_one`, `try_send_data[_pdu]`, `try_send_response`, `try_send_r2t`, `try_send_ddgst`, `try_send` | Moves each command through the send states: C2H header, data pages, digest, then response, or R2T. Caravans are flushed when one is full, when a step returns ≤ 0, or at the end of the budget. After a caravan is sent, the commands it answered are put back on the free list. |
| Scheduler | `io_work` | Alternates `try_recv` and `try_send` with per-call budgets. It requeues itself while work is pending. |
| Socket callbacks | `data_ready`, `write_space`, `state_change` | `data_ready` queues `io_work`. `write_space` queues it when `SOCK_NOSPACE` was set and the queue is not connecting. `state_change` clears `sk_user_data`, so neither callback queues work any more, and marks the queue `DISCONNECTING`. |
| Lifecycle | `alloc_queue` (in `accept_work`), `state_change` → `schedule_release_queue` → `release_queue_work`, `delete_ctrl`, `add_port` | `I10Release` models the end of `alloc_queue`, the teardown, and `delete_ctrl`'s walk of the global queue list. Socket setup and listening are not modelled. |
| Page mapping | `map_data` (`sgl_alloc`), `map_pdu_iovec`, `try_recv_data` | Maps the bytes of one received data PDU onto the command's scatter list. Modelled in `I10PduIovec`. |

## Module `I10Queue`

`I10Queue` models one queue together with its host peer. `MC_I10Queue`
extends it with the values the cfgs give to `InitFailCmds`.

**State.** The variables mirror the `struct i10_target_queue` fields:

- `rcvState`, `rcvCmd`: `rcv_state` and `queue->cmd`;
- `freeList`: `free_list`, as a sequence of slot indices;
- `respList`, `respSendList`: `resp_list` and `resp_send_list`;
- `sndCmd`: `snd_cmd`;
- `cmd`: the command array. Each command record keeps `state`, `rbytes_done`/`transfer_len` as page counts, `pdu_len`, INIT_FAILED as `ok`, and so on;
- `c1`, `c2`: the two caravans. Each holds the iov segments in order, the commands to put, the number of mapped pages, `caravan_len` and `send_now`;
- `executing`: commands inside nvmet;
- `sndbufFull`, `nospace`: the send buffer and `SOCK_NOSPACE`.

`io_work`'s own control state is explicit:

- `wpc`: where in the loop the worker is;
- `wi`, `ops`, `pending`: the loop counters;
- `sret`: the last `try_send_one` result;
- `workQueued`: whether the work item is queued.

The host side is made of:

- `issued`, `hostCmd`: the commands sent;
- `h2cSent`: the R2Ts answered;
- `inbox`: the byte stream to the target, as typed chunks;
- `emitted`: the wire from the target, as ordered items.

**Actions.** Each receive or send step is one action. It carries the guard of
the state test that selects it, and every call the handler makes: the trailing
`prepare_receive_pdu`, `queue_response`, caravan appends, and the
`put_cmd` loop after a flush.

| Step | Actions |
|---|---|
| Receive | `RecvEagain`, `RecvIcreq`, `RecvH2C`, `RecvCapsule`, `RecvCapsuleInitFails`, `RecvData`, `RecvDdgst` |
| Send | `FetchNone`, `Fetch`, `SendDataPdu`, `SendData`, `SendDdgst`, `SendR2t`, `SendResponse` |
| Flush | `FlushCaravan1`, `FlushCaravan2` (the end of a `try_send` iteration) |
| Scheduler | `StartWork` |
| Environment | `HostIcreq`, `HostCmd`, `HostH2CData`, `ExecComplete`, `SockFill`, `WriteSpace`, `Disconnect` |

The helpers `RecvOneReturns`, `SendOneReturns`, `SendLoopNext` and
`SendPhaseEnds` carry the return codes through the `try_recv`, `try_send` and
`io_work` loops. This includes the budget requeue and the early `return 0` on
`SOCK_NOSPACE`.

`PROJECT.json` maps every such definition to its lines.

**A call of `try_send_one`.** The worker is at `wpc = "fetch"` when a call
begins. `MustFetch` is the test at line 781: the call fetches a new command
when `snd_cmd` is empty *or* the queue is `DISCONNECTING`. Otherwise it goes
on with `snd_cmd` in its current send state. A step that sends part of a
command and carries on within the same call (`Continue`) moves to
`wpc = "send"`, where the test is not made again.

**Disconnect.** With `MayDisconnect`, the connection may close while the
queue is live. `Disconnect` models `state_change` and
`schedule_release_queue`: the queue becomes `DISCONNECTING`, and the host and
the socket callbacks stop. Commands already in nvmet still complete and
queue `io_work`, and `io_work` still sends. The release itself is modelled
in `I10Release`.

**The host.** The modelled host is well-behaved:

- it sends an ICReq first;
- it then sends capsules with in-capsule data when the write fits;
- it answers each R2T with H2C data PDUs of at most `MaxH2CPages` pages;
- it adds a data digest after each data PDU when digests are negotiated.

`InitFailCmds` is the set of capsule shapes for which `nvmet_req_init` fails.
When it fails, the request is completed at once, and its response is queued
before `handle_req_failure` runs, as in the code. `ExecFails` lets an
executed command fail without data.

## Properties

| Property | Kind | What it says |
|---|---|---|
| `TypeOK` | type | Every variable has its type. |
| `SlotExclusive` | safety | A slot is held by at most one of these: the free list, the receive path (`queue->cmd`), nvmet, `resp_list`/`resp_send_list`/`snd_cmd`, or a caravan's put list. Spec invariant 1. |
| `WireOrder` | safety | For each command, what reaches the host is a legal NVMe/TCP sequence: C2H header, then data pages, then the digest when digests are on, then the response. Or it is an R2T then the response. Nothing follows the response. |
| `FramingInSync` | safety | The receive state matches the next chunk of the inbound stream. A header is read only at a header, data only at data, a digest only at a digest. |
| `FreeSlotAvailable` | safety | Whenever a capsule is at the head of the stream in state PDU, the free list is not empty. Otherwise `get_cmd` returns NULL, and `done_recv_pdu` calls `fatal_error` and returns `-ENOMEM` (lines 1108–1114). |
| `CaravanWithinArrays` | safety | Caravan iov and mapped-page counts never exceed the array sizes. |
| `ReleasedOnlyWhenAnswered` | action | A step that returns a slot to the free list only does so for a command whose response is already on the wire. |
| `AbandonedOnlyOnDisconnect` | action | A step that leaves an unanswered command with no holder, and with no data still to come, is a refetch while the queue is `DISCONNECTING`, and it drops only `snd_cmd`. |
| `LifecycleRefined` | refinement | The queue implements `I10Lifecycle` (below). |
| `EveryCommandAnswered` | liveness | Every command the host issues is eventually answered. |

The properties of the two other modules are described in their sections below.

## Runs

| Run | Expect | Bounds and purpose |
|---|---|---|
| `io` | pass | I/O queue, queue depth 1, 2 slots, 4 commands (connect + 3), writes/reads of 1–2 pages, in-capsule limit 1 page. Checks the six safety properties for reads, writes via in-capsule data and via R2T, and executions that fail. Send budget 2 makes the end-of-budget flush and the requeue happen. It also checks `EveryCommandAnswered`; the send buffer can fill once (`MaxFills`). 286k states, about 2 minutes. |
| `admin` | pass | Admin queue (direct sends, no caravans), data digests, H2C PDUs of up to 2 pages. Also checks `LifecycleRefined`. |
| `pipeline` | pass | Queue depth 2, 4 slots, 2-page transfers, and byte capacities large enough that the `SEND_BUDGET` limits on iovs, commands and mapped pages are what fill a caravan. This reaches the full-caravan branches and checks `CaravanWithinArrays`. The host may disconnect (`MayDisconnect`), so the run also checks `AbandonedOnlyOnDisconnect` and `LifecycleRefined`. 60k states. |
| `ddgst_order` | violation | `WireOrder` with data digests on an I/O queue. |
| `initfail` | violation | `SlotExclusive` when init can fail for any command. |
| `h2c_split` | violation | `FramingInSync` with digests and 1-page H2C PDUs. |
| `iovec_aligned` | pass | `I10PduIovec`: `PduDataInPlace` for every transfer of 1–24 bytes (4-byte pages), in-capsule up to 8, H2C PDUs of up to 12 bytes ending on page boundaries. |
| `iovec_maxdata` | violation | `I10PduIovec`: `PduDataInPlace` when the host splits at a `maxdata` of 7 bytes. |
| `release` | pass | `I10Release`, orderly close: `TypeOK`, `NoWorkAfterFree`, `ReleaseCompletes`. |
| `release_midwrite` | pass | `I10Release`, close mid-write, with `delete_ctrl` racing the release: `FlushReturns`, `ShutdownOnlyLiveQueue`. 180k states. |
| `release_uaf` | violation | `I10Release`, close mid-write: `NoWriteAfterFree`. |
| `release_leak` | violation | `I10Release`, orderly close: `NoBufferLeak`. |

**Why these bounds.** A queue depth of 1–2 with a spare slot is the smallest
configuration where both of these happen:

- a new capsule is read while an earlier command is still executing or waiting in a caravan;
- the free list can run short.

Two send-budget iterations and an io_work budget of 4 are enough to end a
`try_send` call with unflushed data and to requeue `io_work`. Lengths are counted in units: a PDU header is `HdrLen` = 1 and a data
page `PageLen` = 2. The caravan byte capacities are in the same units.

**Fairness.** The fairness assumptions come from the code:

- weak fairness on the worker: a queued `io_work` runs;
- weak fairness on `ExecComplete`: nvmet completes what it accepted;
- weak fairness on `WriteSpace`: TCP calls `sk_write_space` once the peer drains the buffer and `SOCK_NOSPACE` is set;
- weak fairness on `HostH2CData`: the host answers R2Ts.

The host is not obliged to issue new commands.

## Module `I10Lifecycle` and the refinement

`I10Lifecycle` is the abstract specification: what a queue promises each
command of its host, with no slots, lists, caravans or `io_work`. Each
command id has a `stage`: idle, issued, received, executing, completed,
answered. It also has a flag `dataIn`, meaning all its data has arrived.

- The host issues commands in id order.
- The target accepts a capsule and then does one of three things: it waits
  for the data, it executes the command at once, or it rejects the command.
- A command is executed only with all its data in.
- An executed command completes.
- One send answers any set of completed commands, as a caravan flush does.

`I10Queue` ends with the refinement mapping. `AbsStage(id)` reads a
command's stage off the detailed state:

| Stage | Detailed state |
|---|---|
| idle | Not issued yet. |
| answered | A response for the command is on the wire. |
| issued | The capsule is not yet in a slot. |
| executing | The slot is in `executing`. |
| received | Data still to come, or its digest still to read. |
| completed | Anything else, which includes waiting in a list, in `snd_cmd` or in a caravan. |

`AbsDataIn(id)` is true for a received or executing command with no data
still to come. `LifecycleRefined == Lifecycle!Spec` is checked as a
`PROPERTY` by the `admin` and `pipeline` runs. It says that each step of the
queue is either a step of the lifecycle or leaves the mapped state alone.
So no receive, send or flush ever does any of these:

- executes a command twice, or before its data is in;
- answers a command before it completed;
- moves a command back to an earlier stage.

The mutants show what the refinement adds. One makes `fetch_cmd` send C2H
data instead of an R2T for a write (`FetchStateNoR2t`). `WireOrder` does not
catch it, but `LifecycleRefined` does: the command completes without ever
receiving its data.

## Module `I10PduIovec`

It models one command's data receive, byte by byte. Its state is:

- `transferLen`, `rbytesDone`: `req.transfer_len` and `rbytes_done`;
- `placed`: what each byte of each page received;
- `fault`: set when the walk leaves the scatter list (`sg_next` gives NULL) or the kvec array.

The operators follow the code:

- `SglLens` is `sgl_alloc`;
- `Walk` (RECURSIVE) is the `while (length)` loop of `map_pdu_iovec`. Its `sg_offset` stays the same on every entry, and `sg->length - sg_offset` wraps as a u32 does;
- `MapPduIovec` computes `nr_mapped` and `sg_idx` with `DIV_ROUND_UP`;
- `IterLocs` is what the message iterator covers.

`ReceivePdu` is one `try_recv_data`. There are two actions. `RecvInlineData` is in-capsule data, from `done_recv_pdu`. `RecvH2CData` is one H2C data PDU at `data_offset = rbytes_done`. The host splits the data in one of two ways, chosen by `AlignedHost`:

- on page boundaries;
- at `maxdata`, as a Linux host does with `icresp->maxdata`.

The reference that `PduDataInPlace` checks against is the plain definition: byte `b` belongs at page `b ÷ PAGE`, offset `b % PAGE`. Pages are 4 bytes. That is enough for a 7-byte `maxdata` to produce every unaligned offset, and for transfers to span up to 6 pages.

## Module `I10Release`

It models the end of a queue. Its state is:

- the host: `inbox`, `owed`, `eof`;
- the command slots: `slot`, `respList`, `buf` (`req.sg`/`iov`), `got`, `ref` (the `nvmet_sq` reference), `failed`, `write`;
- the `io_work` item as the workqueue runs it: the pending bit `queued`, `running`, and the loop's `pending`/`ops`;
- `release_work`'s position `rpc`, with `barrier` (what `flush_work` still waits for), `canceling`, `sqKilled` and `freed`;
- `listed`: the queue is on the global `i10_target_queue_list`;
- `apc`: where `accept_work`'s `alloc_queue` is (before `set_queue_sock`, before `queue_work_on`, returned);
- `dpc`: where a `delete_ctrl` walk of the list is.

The actions are:

- `Close`: the host's FIN. If the callbacks are installed, `state_change` and `schedule_release_queue` follow (`Disconnected`);
- `AllocSetSock`, `AllocQueueWork`: the end of `alloc_queue`. `Init` is the queue as `alloc_queue` left it on the list, with the socket's own callbacks still in place;
- `DeleteCtrlLock`, `DeleteCtrlVisit`, `DeleteCtrlShutdown`: `delete_ctrl` takes the queue mutex, finds the queue if it is still listed, calls `kernel_sock_shutdown` (which runs `state_change` if the connection was still open) and unlocks. `i10_target_exit` walks the list the same way;
- `ExecComplete`: `queue_response`;
- the receive and send steps of `io_work`;
- one action per call in `release_queue_work`: `ListDel` (under the queue mutex), `RestoreCallbacks`, `FlushWork`, `UninitDataInCmds`, `SqDestroy`, `SqWait`, `CancelWork`, `FreeQueue`.

Caravans are left out. A response is sent in one step and its command is put back at once.

`flush_work` waits for one execution: the queued one if there is one, else the running one. `cancel_work_sync` takes the pending bit and blocks requeueing until it returns. These are the workqueue's semantics.

**Fairness.** Weak fairness applies to:

- the worker: a queued `io_work` runs;
- each release step: the workqueue runs `release_work`;
- each `ExecComplete`;
- `accept_work`, which runs to its end;
- a `delete_ctrl` walk that holds the mutex.

The host is not obliged to do anything, and neither is the administrator
who would delete the controller. Deadlock is not checked, for two reasons:

- the queue stops for good after `kfree`;
- an idle connection may sit without traffic.

`ReleaseCompletes` is what rules out a stall after the disconnect.

**Properties.**

| Property | Kind | What it says |
|---|---|---|
| `NoWorkAfterFree` | safety | After `kfree(queue)`, `io_work` is neither queued nor running. |
| `SqRefBalanced` | safety, no run | No request drops its sq reference twice. Only a mid-write close lets `uninit_data_in_cmds` finish a command. After an orderly close the property cannot fail, and a mid-write close breaks it (finding 5), so no run checks it. |
| `NoBufferLeak` | safety | At `kfree`, no command still owns `req.sg`. |
| `NoWriteAfterFree` | action | `io_work` never receives into freed pages. |
| `FlushReturns` | liveness | `flush_work` returns, even while `io_work` spins at end of file. |
| `ReleaseCompletes` | liveness | `DISCONNECTING` leads to the queue being freed. |
| `ShutdownOnlyLiveQueue` | safety | `delete_ctrl` calls `kernel_sock_shutdown` only on a queue that is not freed. `release_work` takes the queue off the list under the mutex the walk holds, before anything is torn down. The mutant `ListDelNoMutex` drops the mutex, and the walk then shuts down a freed queue. |

`CloseMidWrite` chooses between two kinds of close:

- FALSE: the connection closes only between commands;
- TRUE: it may close while write data is still owed.

`delete_ctrl` may shut the socket down at any point of a write, so the walk
is enabled only where `CloseMidWrite` is TRUE. `ShutdownOnlyLiveQueue` is
checked by `release_midwrite`.

`CloseDuringAccept` lets the host close before `alloc_queue` has returned.
Every cfg sets it to FALSE, because with TRUE the code breaks
`NoWorkAfterFree`. Setting it to TRUE in `MC_I10Release.cfg` shows the race
in 12 states:
1. `set_queue_sock` installs the callbacks;
2. the host closes, and `state_change` schedules `release_work`;
3. `release_work` runs to `kfree(queue)`;
4. `alloc_queue`'s `queue_work_on(&queue->io_work)` then writes to the freed
   queue (line 1770).

The same setting also reaches a close before `set_queue_sock`. That FIN goes
to the socket's own `state_change`, so the queue is never marked
`DISCONNECTING` and never released. Neither behaviour has a violation run of
its own; both are listed as hazards in `PROJECT.json`.

Two slots, three capsules and two data pieces are enough for three things to happen: one command executes while another is held mid-data, a capsule is read after the release has started, and a response is pending at cancel.

## Findings

The violation runs show six behaviours of the code. Each breaks what the spec
or the protocol requires.

1. **`ddgst_order`** (line 766). `try_send_data` puts the C2H header and data
   pages into caravan 1. `try_send_ddgst` then sends the digest immediately
   with `kernel_sendmsg`, so it reaches the host ahead of the PDU it belongs to.
2. **`initfail`** (lines 1031–1055). `nvmet_req_init` fails for a write whose
   data is in the capsule, and its completion queues the response. But
   `handle_req_failure` leaves the command in `RECV_DATA`. The send path then
   sends the response and returns the slot with `put_cmd`, while the receive
   path still fills it. A later capsule can take the same slot.
3. **`h2c_split`** (line 1267). `try_recv_data` reads the digest only when
   `rbytes_done == transfer_len`. Every H2C PDU carries its own digest, so the
   digest of an earlier PDU is parsed as a header.
   A related case is not a run of its own. When `INIT_FAILED` is set
   (line 1267), the digest of the in-capsule data is never consumed either.
   The hazard list records this case.
4. **`iovec_maxdata`** (line 327). `sg_idx = DIV_ROUND_UP(rbytes_done, PAGE)`
   is one page too far for an unaligned offset, and `sg_offset` is applied
   to every entry. The ICResp advertises `maxdata = 0xffff` (line 1010), which
   is not a page multiple. A host that splits H2C data at `maxdata` therefore
   sends a second PDU at an unaligned offset. The walk then starts past the
   scatter list. In the model, that is a 7-byte PDU followed by a PDU at
   offset 7 of an 8-byte transfer.
5. **`release_uaf`** (line 1555). `flush_work` does not fence an `io_work`
   that requeues itself. After it returns, `uninit_data_in_cmds` frees the
   pages of a write that is still receiving, and `io_work` copies into them.
   Closing mid-write with the same constants also breaks three other
   properties, each with its own trace:
   - `SqRefBalanced`: the write executes and completes, and drops its sq
     reference a second time;
   - `NoWorkAfterFree`: `io_work` is queued after `kfree`;
   - `ReleaseCompletes`: a write received after uninit never gets its data.
     `nvmet_sq_destroy` then waits forever, while `io_work` spins on EOF
     (`sock_recvmsg` returns 0 and `try_recv_one` returns 1).

   To reproduce them, run `MC_I10Release_uaf.cfg` with that property in
   place of `NoWriteAfterFree`.
6. **`release_leak`** (line 1464). A read completes during release and
   queues its response. `cancel_work_sync` drops the `io_work` that would
   send it, and `free_cmd` frees only the PDU buffers. The command's `req.sg`
   is therefore leaked.

**A divergence no run checks.** The code puts the responses of non-writes in
caravan 1 and those of writes in caravan 2 (line 659). The spec's caravan
table says the opposite. The spec's scenario S2 agrees with the code. The
model follows the code.

## What is not modelled, and why

- **Caravans at release.** `I10Release` sends responses directly. So it
  does not model commands held in unflushed caravans when the queue is
  freed. The `DISCONNECTING` refetch at line 781 is modelled in `I10Queue`
  (`Disconnect`, `MustFetch`). `AbandonedOnlyOnDisconnect` confines the
  drop to `snd_cmd` after a close. The model does not track the dropped
  command's buffers. An exploratory check of the `pipeline`
  bounds with the invariant "no command is abandoned" fails, in 28 steps:
  1. a read's response waits in `snd_cmd` for room in a full caravan 1;
  2. the host disconnects;
  3. the next `try_send_one` refetches and drops it.
- **Malformed or hostile host input**, none of which the code checks:
  - a bad ICReq `plen` (no return at 972–976);
  - an out-of-range `ttag` (1062);
  - an oversize `data_length` (1074);
  - header digests.
- **Partial `kernel_sendmsg`/`sendpage`.** Sends are all-or-nothing. A partial
  caravan send is treated by the code as complete (856–858).
  `ReleasedOnlyWhenAnswered` is the property that would catch its effect.
- **Page arithmetic inside `I10Queue`.** `I10Queue` counts data in pages.
  The byte-level mapping is checked on its own, in `I10PduIovec`.
- **Ports.** `add_port`, `remove_port` and `listen_data_ready` are not
  modelled, and neither are the socket setup and error paths of
  `alloc_queue`. Nor is the lifetime of a port: `remove_port` frees the port
  while queues accepted on it keep `queue->port`, which `alloc_cmd` reads
  when the connect command installs the queue (line 1426).
- **Digest values** (crc32c), transport registration and `disc_port_addr`.
  These are crypto, registration and formatting, with no protocol state.

The hazards in `PROJECT.json` list each of these at its line.
