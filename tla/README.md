# TLA+ models of the netmap Linux glue (`src/LINUX/netmap_linux.c`)

This directory holds TLA+ models of the data path in `netmap_linux.c`, with
the TLC configurations that check them. It covers five parts:
- the notification‑mitigation timer of the generic adapter, with its
  teardown;
- the two halves of the in‑kernel netmap socket: `sendmsg` into tx ring 0
  and `recvmsg` from rx ring 0;
- the life cycle of that socket and of the file references that keep its
  adapter alive;
- the transmit glue of the generic adapter. `PROJECT.json` lists the components, the runs, the mutants, the map
from each definition to the source lines it translates, the findings and the
hazards.

## 1. Inventory

| Component | Source | State | Operations | Interacts with |
|---|---|---|---|---|
| Mitigation coalescer | lines 35‑101 | `gna->mit_pending`, the hrtimer (queued / callback running) | `netmap_mitigation_init/start/restart/active/cleanup`, `generic_timer_handler` | the receive path `generic_rx_handler` (netmap_generic.c). It calls `netmap_mitigation_active` and `_start` and sets `mit_pending`. `netmap_common_irq` wakes the reader. |
| Ingest adapter | `netmap_socket_sendmsg`, 233‑319 | tx ring: `slot[].len/flags/buf`, `cur`, `avail`. kring: `nr_hwcur`, `nr_hwavail` | one sendmsg = admission test, copy loop, flag fix‑up, publish, `nm_txsync` | the NIC, through `nm_txsync` |
| Drain adapter | `netmap_socket_recvmsg`, 321‑437 | rx ring: `slot[]`, `cur`, `avail` | one recvmsg = copy loop over slot cursor and iovec cursor, then write back `cur`/`avail` | `nm_rxsync` (poll / irq), which fills slots and releases the ones before `cur` |
| Ring index math | `NETMAP_RING_NEXT` | — | — | used by both adapters |
| Socket lifecycle | 224‑231, 450‑538, 695‑738 | `na->na_private`, `na->nm_dtor`, `saved_nm_dtor`, `owner`, fake skb | setup, teardown, dtor chain, `get_netmap_socket` under `NMG_LOCK`, write_space | adapter destructor, vhost |
| Generic adapter glue | 105‑219 | netdev rx handler, `ifp->netdev_ops`, `na->if_transmit`, `skb->users`/`queue_mapping` of the tx pool | catch_rx, packet steering, xmit_frame, find_num_desc/queues | Linux net core (`dev_queue_xmit`), `generic_netmap_register`/txsync in netmap_generic.c |
| File operations, module init | 541‑785 | `file->private_data` | open, release, mmap, ioctl, poll | BSD netmap core |

**What makes it hard.**
- *Concurrency.* The mitigation state is shared by a softirq receive context
  and the hrtimer callback, and no lock protects it.
- *Ring ownership.* sendmsg and recvmsg run against a kernel side, txsync or
  rxsync, that owns the other part of the ring. An off‑by‑one in
  `cur`/`avail` hands a slot to the wrong side.
- *Partial consumption.* Both copy loops consume two lists of different
  granularity (iovecs and fixed‑size slots), and either list can run out
  first.
- *Failure paths.* Out of slots part‑way through sendmsg. Destination too
  small in recvmsg.

**What makes each part correct.**
- Mitigation: every arrival is eventually notified. After
  `netmap_mitigation_cleanup` no timer is queued or running. Between two
  expiries there are no more notifications than receive CPUs. The timer
  stops once traffic stops.
- sendmsg: the wire carries the accepted messages intact and in order. A
  rejected call publishes nothing. Only user‑owned slots are written. Running
  out of space is recoverable.
- recvmsg: each call returns a prefix of the packet at `cur`. Only available
  slots are read. Each packet is consumed once.
- Socket: `na->na_private` names exactly the live socket. Destroying the
  adapter runs the saved destructor chain once. A socket handed to a caller
  stays alive while the caller holds it. Every file reference taken is
  given back.
- Generic xmit: netmap keeps its reference on every pool skb. Frames go to
  the hardware queue of their ring. The steering ops are installed only
  while the adapter is registered. A -1 return means the frame was not
  kept.

## 2. Modules

### `Mitigation.tla` (composed in `MCMitigation.tla`)

**Variables.**
- `mit_pending`.
- `queued`: the hrtimer is enqueued.
- `hpc`: the program counter of `generic_timer_handler`. It is `"idle"` when
  the callback is not running, so `netmap_mitigation_active` equals
  `queued \/ hpc # "idle"`, which is what `hrtimer_active` returns.
- `apc[c]`: the program counter of the receive path on CPU `c`.
- `dpc`: where the adapter's rx hook is, from `"detached"` through
  `"attached"` to the three detach steps.
- History variables: `arrived` and `unnotified`.
- The `IFCAP_NETMAP` test before the handler's notification (line 66) is
  taken as true: the flag is cleared by the unregister path of
  netmap_generic.c, which is not under `src/`.

**Actions.** Each access to shared state is one step:
- `TimerExpire` (the hrtimer core).
- `HandlerCheck` (line 56), `HandlerNoRestart` (57), `HandlerClear` (64),
  `HandlerNotify` (66‑67), and `netmap_mitigation_restart` (88‑91, called at line 69; with line 71 it
  forwards the timer and returns `HRTIMER_RESTART`).
- `netmap_catch_rx(TRUE)` (126‑131) registers `linux_generic_rx_handler`.
  Its -EBUSY return changes nothing in the model.
- The receive path `linux_generic_rx_handler` (114‑119). It calls
  `generic_rx_handler`, which is modelled from spec 4.4 because it is not
  under `src/`:
  - `ArrivalEnqueue`;
  - `ArrivalMitigate`: the test of `netmap_mitigation_active`, then setting
    `mit_pending`;
  - `ArrivalIrq`;
  - `netmap_mitigation_start`.

**Detach.** This part is modelled from spec 5, as the unregister path lives
in netmap_generic.c. There are three steps, tracked by `dpc`:
1. `netmap_catch_rx(FALSE)` (line 133) unregisters the rx handler. From then on no
   new `ArrivalEnqueue` happens.
2. `RxHandlerSynced` waits, as `synchronize_net` does, until no CPU is
   inside the receive path.
3. `netmap_mitigation_cleanup` (98‑101) is `hrtimer_cancel`. It waits for
   a running callback and then dequeues the timer, even if the callback has
   just re‑armed it.

Time is abstract: one expiry is one interval.

**Fairness.** Weak fairness on the timer expiry, the handler, and a receive
path that has started on a packet. A queued hrtimer does fire, and a callback
or a softirq that is running does finish. Arrivals are not forced.

### `NetmapTx.tla` (`MCNetmapTx.tla`)

**Variables.** `slot[i] = [flags, data]` (len is `Len(data)`), `cur`,
`avail`, `hwcur`, `hwavail`, `busy` / `completed` (NIC progress), and the
histories `wire` and `sent`. Byte `p` of the k‑th accepted message is
`<<k, p>>`.

**`netmap_socket_sendmsg(iov)`** is the whole handler, in one step:
1. The `avail < iovcnt` return.
2. The copy loop, written as the chunk list `Chunks`/`IovChunks` and the
   writes `WriteChunks`.
3. The mid‑loop out‑of‑slots return (`OutOfSlots`).
4. The clearing of `NS_MOREFRAG` on the last slot (`ClearLastMoreFrag`).
5. The update of `cur`/`avail`.
6. The trailing `nm_txsync` (`TxSync`).

**Environment.** `TxSync`, `NicComplete` and `PollTxSync` are modelled from
the spec. `PollTxSync` is a txsync from poll or ioctl, and it is enabled only
when `ExternalTxSync` is TRUE. One tx slot is always reserved
(`hwavail = NumSlots - 1` initially).

**Copy faults.** With `CopyFaults` TRUE, one chunk of a call
(`bad \in Faults(iov)`) may fault in `copy_from_user`. The slot then
holds zero bytes (`CopiedData`), because `copy_from_user` zero‑fills what it
could not copy, and the code at 296‑298 only logs the fault.

**Refinement.** `IngestChannel.tla` is the abstract promise of the ingest
side. `accepted` is the sequence of messages taken in, and `published` is
what a receiver sees. Each `Ingest(len)` step appends one whole message of
`len` bytes to both. `NetmapTx` instantiates it through
`INSTANCE IngestChannel WITH accepted <- sent,
published <- Reassemble(wire, << >>)`: the published messages are the wire
cut at the slots without `NS_MOREFRAG`. The run checks
`ImplementsIngestChannel`, which is `Channel!Spec`, as a PROPERTY. Every
sendmsg step must therefore publish exactly the message it accepts, whole,
or publish nothing. This covers the early return, the mid‑loop return and
the NIC's own steps.

### `NetmapRx.tla` (`MCNetmapRx.tla`)

**Copy loop.** The loop of recvmsg is the `RECURSIVE` operator `CopyLoop`,
over a record of the loop's locals (`i`, `avail`, `morefrag`, `nm_frag_ofs`,
`nm_frag_size`, `j`, `iov_frag_ofs`, `iov_frag_size`, `copied`, `out`). Its
helpers are `CopyStep` (lines 382‑389), `TakeNextSlot` (397‑403) and
`LoopStart` (352‑376). `netmap_socket_recvmsg` runs the loop and then writes
back `cur = i` and `avail` (431‑432). The spurious‑call return at line 364 is
its guard.

**Environment.** `NicReceive` and `RxSync` are modelled from the spec. RxSync
imports waiting fragments into the free slots, releases the slots up to
`cur`, and publishes `hwavail`. With `WholePackets` TRUE it publishes only
complete packets.

**Checking the copy loop.** `PacketFrom` is the reference definition of "the
packet at `cur`". `lastcall` records what each call saw and returned, so the
copy loop is checked against the reference over every slot and iovec split
that the bounds allow.

### `SocketLifecycle.tla` (`MCSocketLifecycle.tla`)

**Scope.** One adapter `na`, the netmap files of `Files` (those of `Bound`
already bound to it by NIOCREGIF, those of `Unopened` not yet opened, those
of `Foreign` of another kind), and tasks calling `get_netmap_socket(fd)`.
`get_netmap_socket` does all of its work under `NMG_LOCK`, and so do the
adapter destructor and `netmap_ioctl`, so each is one step.

**Variables.**
- `fd_open`.
- `fcount`: the file reference counts.
- `na_refs`: the files' references on `na`.
- `np_na[f]`: the priv of file `f` is bound to `na`.
- `unopened`, `nioctls`, `ioctl_ret`: files not yet opened, ioctls so far,
  and what the last ioctl returned.
- `na_alive`.
- `kern_owned`: `NETMAP_OWNED_BY_KERN`.
- `na_private`, `nm_dtor`.
- `sk[s]`: the sockets `sk_alloc` returned, each with `state`, `owner`,
  `file`, `saved_nm_dtor` and the fake skb on `sk_receive_queue` (`rxq`).
- `calls`: a history of what every call returned, and whether the caller
  still holds it.

**Helpers.** The setup and destructor code is written as pure functions
over a record view of `na` (`NaState`/`StoreNa`):
- `netmap_sock_setup` (496‑538) has both allocation failures.
- `netmap_sock_teardown` (465‑486).
- `netmap_socket_nm_dtor` (488‑494) calls the saved destructor through the
  mutually recursive `CallDtor`. The nesting is capped by `MaxDtorDepth`,
  and exceeding the cap is flagged as `overflow`.

**Actions.**
- `get_netmap_socket(p, f, outcome)` (695‑737): the `fget`, the
  EBADF, EINVAL and EBADF returns at lines 703, 706 and 716, the EBUSY owner test, the reuse of an
  existing socket, and setup with its ENOMEM return. Each error return is
  `ERR_PTR` of a positive errno, as the code writes it (`ERR_PTR`), which
  the caller's `IS_ERR` test does not flag; the caller therefore holds it,
  and the model does not follow what it does with it.
- `linux_netmap_open(f)` (668‑680): a new file with a zeroed priv. Its
  ENOMEM return creates no file and changes no state.
- `linux_netmap_ioctl(f, cmd, data)` (621‑656): the syncs drop the
  argument; a fault of `copy_from_user` returns -EFAULT before anything is
  done; `netmap_ioctl` runs; a fault of `copy_to_user` returns -EFAULT
  after it; otherwise `-ret`. The argument is NULL, a writable nmreq, a
  read‑only one or an unmapped address.
- `Close(f)` and `DropSocket(i)`. These are the caller's `fput`, modelled
  from the spec; a holder drops its socket by `fput(sock->file)`, as vhost
  does. The history `calls` records each returned value (`SockPtr(s)` or
  `ERR_PTR(e)`) and whether the caller still holds it.

**Environment.** The last `fput` runs `linux_netmap_release`, and
`netmap_dtor` (netmap.c) frees the priv and drops its reference on `na`.
At the last reference it calls `na->nm_dtor`. `netmap_ioctl` (netmap.c) is
modelled by its contract: NIOCREGIF refuses a zeroed nmreq (EINVAL), a
bound priv or a kernel‑owned adapter (EBUSY), may fail to allocate
(ENOMEM), and otherwise binds the priv, taking a reference on `na`; the
syncs return ENXIO on an unbound priv. NIOCREGIF is only issued while `na`
exists: an adapter created anew after `na`'s destruction is outside the
model.

### `GenericXmit.tla` (`MCGenericXmit.tla`)

**Variables.**
- `users` and `mapping`: `skb->users` and `skb->queue_mapping` of every pool
  skb.
- `stack`: the frames `dev_queue_xmit` has queued and the driver not yet
  freed.
- `netdev_ops`: `"driver"` or `"generic_ndo"`.
- `if_transmit`: the saved pointer.
- `registered`: generic register has started (`Registering` while it is
  still inside the steering switch).
- `last`: the result of the last call.
- `gen_ndo`: what `gna->generic_ndo` holds: `"zero"`, `"copied"` (the
  driver's ops) or `"steer"` (with our `ndo_select_queue`).
- `steer_pc`: how far the enable branch of the switch has got.

**Actions.**
- `generic_xmit_frame(m, ring_nr)` (166‑195). It takes the reference
  (`TakeRef`, line 179), sets the mapping, and picks the queue through the
  current ops (`PickTx`, `generic_ndo_select_queue`). It returns 0 only for
  `NET_XMIT_SUCCESS`.
- `Register`/`Unregister`. These call `netmap_catch_packet_steering`
  (143‑164) under rtnl. The enable branch is its four stores, each a step
  in source order (`SaveStep` 156, `CopyStep` 157, `SelectStep` 158,
  `PublishStep` 159); disable is the single store `Restore` (162).
- `DriverFree`. The driver frees a queued frame.

**Rings.** `generic_find_num_queues` (214‑219) makes one ring per hardware
tx queue.

**Environment.** This comes from outside `src/`:
- txsync reuses a pool skb only once `users` is back to 1.
- `dev_queue_xmit` consumes one reference whatever it returns.
  `NET_XMIT_SUCCESS` keeps the frame queued. `NET_XMIT_CN` may or may not
  keep it, since it "does not guarantee that this packet is lost".
  `NET_XMIT_DROP` and the negative errors free the frame.

## 3. Runs

| Run | Config | Expect | Shows |
|---|---|---|---|
| mitigation_three_cpus | MCMitigation.cfg | pass | Three receive CPUs. `TimerQuiesces`: the timer stops once packets stop. `NoTimerAfterCleanup`: once `netmap_mitigation_cleanup` returns, the timer is neither queued nor running. |
| mitigation_lost_wakeup | MCMitigation_lost.cfg | violation | `ArrivalNotified` fails. The handler reads `mit_pending == 0`. A packet then arrives, sees the timer still active (its callback is running) and sets `mit_pending`. The handler returns NORESTART, and the packet is never notified. |
| tx_round_trip | MCNetmapTx.cfg | pass | `WireCarriesMessages`: cutting the wire at slots without `NS_MOREFRAG` gives exactly the accepted messages, and `NS_VNET_HDR` marks the first slot of each. `BusySlotsUntouched`: the NIC's slots keep what was handed to it. `ImplementsIngestChannel`: sendmsg with its txsync refines `IngestChannel`. |
| tx_full_ring_stall | MCNetmapTx_stall.cfg | violation | `RingRecovers` fails. Once the ring is full, every sendmsg returns 0 without `nm_txsync`, so completed slots are never reclaimed. |
| tx_copy_fault | MCNetmapTx_fault.cfg | violation | `WireCarriesMessages` fails. A faulting `copy_from_user` is only logged, and the zero‑filled slot is published as part of an accepted message. |
| rx_copy_prefix | MCNetmapRx.cfg | pass | `RecvCopiesPrefix`: each call returns the first `total_len` bytes of the packet at `cur`, or the whole packet. |
| rx_overread | MCNetmapRx_overread.cfg | violation | `ReadsOnlyAvailable` fails. With `avail == 1` and `NS_MOREFRAG`, the loop reads the slot after the available region. |
| rx_redelivery | MCNetmapRx_redeliver.cfg | violation | `DeliversInOrder` fails. `cur` is left on the last slot read, so the next call returns the same packet. |
| socket_lifecycle | MCSocketLifecycle.cfg | pass | Two tasks on one netmap file, which is opened, bound by NIOCREGIF through the ioctl wrapper (with every kind of argument) and closed, and one tap file (EINVAL), with `sk_alloc`/`alloc_skb` failures and kernel ownership. `LiveSocketIsPrivate`: `na_private` is exactly the live socket and the fake skb is queued on it. `DestructorChain`: destroying `na` restores `nm_dtor` and runs the adapter's own destructor exactly once, with no recursion. `HandedSocketAlive`: a real socket a caller holds is never freed, although `get_netmap_socket` drops `NMG_LOCK` before returning it. |
| socket_fget_leak | MCSocketLifecycle_leak.cfg | violation | `RefsAccounted` fails. The EBADF/EINVAL/EBUSY/ENOMEM returns after `fget` never `fput`. With two files, the socket returned through the second has `sock.file` set to the first. |
| generic_xmit | MCGenericXmit.cfg | pass | `PoolSkbRetained`: `skb->users` is 1 plus the frames the stack holds, under every `dev_queue_xmit` outcome. `FramesOnRingQueue`: every frame goes to its ring's hardware queue. `OpsOwnedByAdapter`: `na->if_transmit` only ever saves the driver's own ops, and `generic_ndo` is installed only while the adapter is registered and always once register has returned, over repeated cycles. |
| generic_xmit_cn | MCGenericXmit_cn.cfg | violation | `XmitResultTruthful` fails. `dev_queue_xmit` queues the frame and returns `NET_XMIT_CN`, and `generic_xmit_frame` returns -1, the result its comment gives to a dropped frame. |

Every property of a passing run has a mutant in `PROJECT.json` that breaks
it. The mutant operators sit in the modules just above the definitions they
replace.

**Bounds.**
- Mitigation: six packets on three CPUs, two per CPU. That is enough for:
  - all three CPUs testing an idle timer before any starts it;
  - an arrival during each handler step;
  - two restart cycles;
  - a detach that starts while the callback runs.

  The violation run has three packets on one CPU.
- TX: four slots of two bytes, iovecs of 0..3 bytes, one or two iovecs,
  three messages. A 3‑byte iovec spans two slots. A message can need more
  slots than `avail` while passing the `avail < iovcnt` test. Three messages
  wrap the ring.
- RX: four slots of two bytes, and packets of one or two slots. The
  destinations are shorter than, equal to and longer than a packet, and one
  has an empty first iovec. Four copying calls.
- Socket: two tasks, four calls, three ioctls, two allocations, and a
  destructor depth of three. That is enough for setup, reuse, EBUSY from the
  other task, both allocation failures, EINVAL on the tap file, close and
  re‑setup, and for a NIOCREGIF answered -EFAULT followed by a retry that
  gets EBUSY. The pass run has one netmap file: with two bound files the
  line‑727 bug of the leak run is reachable and drives `f_count` below
  zero. With depth three, a chain that
  called itself would show as `overflow`. The leak run adds a second bound
  file.
- Generic xmit: two skbs, three hardware queues, and six transmissions,
  with the steering switch taken store by store.
  These allow an skb sent for ring 1 and then reused for ring 0, a
  `NET_XMIT_CN` that keeps the frame, and two register cycles.

**Fairness.** Only the mitigation model and the TX model have liveness
properties. `NetmapTx` assumes weak fairness of sendmsg, of the NIC
completing slots, and of `PollTxSync`. The stall run sets `ExternalTxSync`
FALSE, so no outside txsync exists, and `RingRecovers` fails even under
this fairness. The socket and xmit models check safety only.

## 4. Findings without a run

There is room for at most 12 runs, and all are in use, so these
disagreements found while modelling are described here and not checked by a
run.

**Notification rate on several CPUs (line 95).** The comment at lines 41‑44
says that after the first packet, "subsequent incoming packets do not cause
a notification until the timer expires". The receive path tests
`netmap_mitigation_active` and starts the timer in separate steps with no
lock. With one CPU the rule holds. With two, both CPUs find the timer idle
and both notify in the same interval. Stating the rule as an invariant
(notifications since the last expiry at most 1) in `MCMitigation.cfg` with
two CPUs, TLC finds this in 8 states.

**Error returns that are not errors (lines 703‑734).** Every error return
of `get_netmap_socket` is `ERR_PTR(EBADF)`, `ERR_PTR(EINVAL)`,
`ERR_PTR(EBUSY)` or `ERR_PTR(ENOMEM)`, with a positive errno. `IS_ERR`
flags only `-MAX_ERRNO..-1`, so a caller that tests `IS_ERR` takes the
small value for a socket pointer. `SocketLifecycle` returns these values as
the code does, and its caller holds them.

**An ioctl that failed after it worked (line 652).** `linux_netmap_ioctl`
copies the nmreq back after `netmap_ioctl` has done the command. With a
read‑only argument, NIOCREGIF binds the file and the call returns -EFAULT;
a retry gets EBUSY. The file's release still drops the binding.

**Admission.** sendmsg starts every iovec in a slot of its own (283‑306) and
asks for `avail >= iovcnt`. It therefore rejects messages whose total length
fits in `avail * nr_buf_size`. An example is iovecs `<<3, 3>>` with
`avail = 3` and 2‑byte slots. The round‑trip law of spec 8 says such
messages are accepted. Spec 4.2's own algorithm copies per segment, as the
code does.

## 5. Not modelled, and why

- **`netmap_sock_write_space`.** It only wakes waiters; no socket state is
  changed but the SOCK_ASYNC_NOSPACE bit, which nothing else here reads.
- **The `private_data == NULL` test of `get_netmap_socket` (line 709).** No
  netmap file reaches it, because `linux_netmap_open` either sets the field
  or fails.
- **`generic_find_num_desc`.** It reads ring sizes that no property is
  about.
- **A TX→RX round trip through the generic adapter.** `generic_xmit_frame`
  sends each slot as its own frame and ignores `NS_MOREFRAG` (the TODO at
  line 176). A multi‑slot message would leave as several frames, and what
  arrives on the rx side depends on `generic_netmap_txsync`/`rxsync`, which
  are not in this repository. The hazard list records this.
- **The publication of `netdev_ops` under weak memory ordering.** The
  switch at lines 156‑159 has no barrier. The model runs its stores as
  separate steps in source order against a lockless reader, which is what a
  TSO CPU and a compiler keeping the order produce; the reorderings a weakly
  ordered CPU may make are not enumerated.
- **poll, mmap and start_xmit** and **module init**. They forward to
  netmap.c or the memory allocator or register the device, and hold no
  state of their own. The ioctl wrapper is modelled; that it answers
  -EFAULT for a NIOCREGIF that took effect (line 652) is described in
  section 4.
- **A copy fault in recvmsg** (`copy_to_user` at line 383). It has the same
  pattern as the sendmsg fault that tx_copy_fault shows, and is left out
  for the run budget.
- **rxsync or txsync concurrent with recvmsg or sendmsg.** Spec 5 requires
  one owner per ring direction. The hazard list records the stale
  read‑then‑write of `avail` that would follow if the rule were broken.

## 6. Plan

1. Done:
   - `Mitigation`, with attach, detach and cleanup on three CPUs;
   - `NetmapTx`, `NetmapRx`, with the copy loops checked against reference
     definitions;
   - the `IngestChannel` refinement;
   - liveness of the mitigation timer and of a full tx ring;
   - `SocketLifecycle`, with every control path of `get_netmap_socket`, and open,
     the ioctl wrapper and release;
   - `GenericXmit`, with the steering switch store by store.
2. Next: a drain‑side abstract channel. A fixed‑cursor `recvmsg` would be
   checked against it, and the code's `recvmsg` shown not to refine it.
   That needs a run, and the 12 runs are all in use.
3. Next: the reorderings of the `netdev_ops` switch a weakly ordered CPU
   may make, as a nondeterministic visibility order of the four stores.
