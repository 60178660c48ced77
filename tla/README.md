# A TLA+ model of rdmapp

rdmapp wraps libibverbs in C++20 coroutines. An operation (`send`, `write`,
`read`, atomics, `recv`) is an awaitable: it posts a work request whose `wr_id`
is a pointer, the coroutine sleeps, and a poller thread that finds the
completion follows the pointer and wakes the coroutine. Most of what can go
wrong lies in who owns what that pointer leads to, and which of several threads
gets there first. This directory models that machinery, the life of a queue
pair, the ownership of verbs objects and memory regions, the RPC layer of the
examples, their spinning coroutine type, and what the example programs say to
each other.

Contents: [1 the system](#1-the-system), [2 modules](#2-modules-and-the-code-they-model),
[3 runs](#3-runs), [4 fairness](#4-fairness), [5 proofs](#5-proofs),
[6 limits](#6-abstractions-and-limits), [7 plan](#7-plan).

## 1 The system

| component | state | operations | talks to |
|---|---|---|---|
| `basic_qp` (`src/qp.cc`) | `qp_`, its verbs state, `sq_psn_`, references | create, init, rtr, rts, err, destroy; post_send, post_recv | CQs, PD, awaitables (weak_ptr) |
| native awaitables | `operation_state` (wc, handle, byte_len, exception) | await_suspend / suspend, await_resume | QP; resumed by the poller |
| asio awaitables | shared composed operation, callback, `complete_called`, cancellation slot | initiating function, callback, cancellation handler | asio executor, poller |
| `cq`, `cq_poller`, `executor` | entries, batch, stop token | poll, process_wc, execute_callback | one thread per CQ |
| `local_mr`, `mr_view`, `remote_mr`, `pd` | registration, shared PD | register, move, destroy, cut a view, (de)serialise | users, awaitables, peer |
| `qp_acceptor`, `qp_connector` (`examples/`) | socket, pollers, QP under construction | connect, accept, send_qp, recv_qp | each other over TCP |
| `RpcClient`, `RpcServer` (`examples/include/coro_rpc.hpp`) | slots, free list, sequence, receive workers; server workers and buffers | call, recv_worker; server_worker | each other over a QP |
| `device`, `pd`, `cq`, `srq` | a verbs handle, `shared_ptr`s to what it needs | open or create, destroy | each other, `basic_qp`, pollers |
| servers of the examples | the QP `accept` returned, or null | accept in a loop, start a handler | acceptor, handlers |
| `task`, `SpinFuture` (`examples/include/`) | `continuation_`, ready flag, coroutine frame | await_ready, await_suspend, await_resume, final suspend, destructor | main thread and poller thread |
| handlers and clients of the examples | position in the conversation, described regions | sends, receives, remote accesses | each other over a QP |
| `blocking_queue`, logging, error helpers | queue and flag; — | not modelled | |

What is hard, component by component, and what makes it correct:

* **Asio path.** Executor, poller and the thread that drops the QP meet on one
  heap object; a cancellation may run during the callback, or, when the
  coroutine was resumed on the poller thread, while its next receive is still
  being set up. Correct: each
  coroutine is completed once, no `wr_id` dangles, a posted operation is not
  dropped silently.
* **Native path.** The poller may resume the coroutine, which destroys the
  awaitable, while the posting thread is still in `await_suspend`. Correct:
  nothing dead is touched, and the result is the operation's own.
* **Teardown and overload.** Destroying the QP discards completions, CQs are
  shallower than the work queues, pollers stop. Correct: sleepers are woken in
  every case in which the code can wake them.
* **RPC.** Replies out of order, slots reused, code that spins on the poller
  thread, a connection that fails. Correct: every call gets its own reply,
  slots are exclusive, only a failure strands a call.
* **Handshake.** Several clients, failures anywhere. Correct: QPs face each
  other with matching packet numbers, the acceptor is ready first, a failure
  concerns its own client only, nobody waits for ever.
* **Memory regions and resources.** Arbitrary sequences of moves, owners that
  go in any order, constructors that fail half-way, unsigned arithmetic.
  Correct: one owner, one deregistration, each resource after its users, views
  inside.
* **Tasks.** `continuation_` is written by one thread and read by another, and
  a frame may be freed as soon as the ready flag is up. Correct: the awaiting
  coroutine goes on once, and no frame goes before its coroutine has finished.
* **Conversations.** Each side posts what it believes the other expects, and
  leaves when it is through. Correct: sizes, immediates and regions match, and
  both sides end (or wait) where they are meant to.

`PROJECT.json` lists the hazards line by line with the properties that address
them.

## 2 Modules and the code they model

```
Verbs <- CqPoller <- AsioAwaitable   <- MCAsioAwaitable
                  <- NativeAwaitable <- MCNativeAwaitable
OpContract  (abstract; instantiated by AsioAwaitable and NativeAwaitable)
RpcServer <- RpcClient <- MCRpcClient
Connect <- MCConnect        Resources <- MemoryRegions <- MCMemoryRegions
Session, SpinTask <- Examples <- MCExamples

CqPoller_proofs (lemmas for AsioAwaitable_proofs and NativeAwaitable_proofs),
Session_proofs (lemmas for Examples_proofs),
RpcClient_proofs, Connect_proofs, MemoryRegions_proofs
```

**Verbs** is a connected QP. `wr[o]` is where a work request is (idle, posted,
cqe, polled, done, lost), `status[o]` what the NIC said, `cq[c]` the entries of
a CQ, `qpState`, `userRef` and `dtor` the life of the `basic_qp`. `PostWr` is
`post_send`/`post_recv`, `Room` the size of the work queue, `Err` and `Destroy`
the two steps of `basic_qp::destroy`. The NIC is external: it may complete
outstanding requests in any order, which over-approximates a real one, fails
and flushes them when the QP is in error, and loses a completion that finds its
CQ full.

**CqPoller** is `basic_cq_poller::worker`: check the stop token, poll up to
`BatchSize` entries, dispatch them in order, or end on a poll error.

**AsioAwaitable** adds, per operation, the place of the initiating function
(`pc`), the callback (`cb`), `complete_called` (`flag`), the cancellation
handler (`slot`), what the coroutine has got (`coro`) and a count of
`self->complete`. Each call that another thread can get in between of is a step
of its own: making the callback, locking the weak_ptr, posting, returning;
setting the flag and locking `self` in the handler; invoking and deleting the
callback. A signal may come at any time after `slot.assign`: the second receive
of `cancellation.cc` is initiated on the poller thread, which resumed the
coroutine inline, while SIGINT is handled on the thread of the `io_context`, so
a receive can be aborted before it is posted. `self` is alive while `SelfHeld`; when the last reference goes without
a completion, asio destroys the coroutine ("abandoned").

**NativeAwaitable** does the same for `co_await` with `use_native_awaitable`;
it also tracks where `byte_len` comes from, per opcode.

**OpContract** is what either kind of awaitable promises: resolved at most once
and for good, success only if the NIC reported it, an error only for a failed
or unposted request, abort only for receives. A receive may be handed to the
NIC after it was aborted, when the signal came before the posting; nothing that
happens to it then reaches the coroutine. Both modules are checked and
proved to implement it, with `phase <- coro` and `wire` computed from `wr` and
`status`.

**RpcServer / RpcClient.** Server workers receive, handle and reply from
buffers of their own. The client keeps the fields of each `RpcSlot`, the free
slots and the sequence number, which is never cut; `MakeReqId` is the shift,
which keeps its low 32 bits (`SeqMod`). `job[c]` is what the poller of a CQ is running inline: nothing, a
receive worker that spins for a waiter, or a caller; while it is busy no
completion of that CQ is dispatched. `Coroutines` selects callers that continue
on the poller (`rpc_test_worker`) or on a thread (`sync_rpc_test_worker`).

**Connect** is create, init, rtr, rts and destroy of a QP together with
`connect` and `accept`. Every verbs call and socket operation may fail; a side
that gives up closes its socket. `ibv` is the QP as the kernel knows it, apart
from `handle`, which says whether `qp_` is set. `Leave` is the end of `accept`
and what the server does with its result: `helloworld` and `cancellation` test
it (`checks`), `rpc`, `async_rpc`, `latency`, `latency_raw`, `write_bw` and
`send_bw_raw` do not, and then a null QP ends the server (`Crash`). The clients
in `silent` may stop where they are. `faults` records whose connection failed.

**Resources** is the graph of owners: `Members` are the `shared_ptr` members,
`Uses` what the kernel needs for an object to exist. `Release` destructs all
that has no owner left and tells which releases fail because something still
uses the resource (raw state "busy"; the code logs that and goes on). Opening a
device or moving a new QP through its states may fail half-way and leak.

**MemoryRegions** adds `local_mr` with its moves and destructor to Resources
(a `local_mr` is one more owner of the PD), `mr_view` with its `size_t`
arithmetic, and the description a peer reads, whose `length()` keeps 32 bits.

**SpinTask** is `task<void>` with its spinning future as `latency_raw.cc` uses
it. Per host, `mpc` is the main thread, which runs the awaiting coroutine up to
its `co_await` and then sits in the destructor of its task, and `ppc` is the
poller thread, which runs the awaited coroutine and whatever its final suspend
resumes. `AfterAwait` is where the awaiting coroutine goes: `client()` ends,
`server()` accepts again or, if its handler rethrows, hangs in the join of its
jthread. Setting the flag, reading `continuation_` and freeing a frame are
steps of their own; reading from a freed frame puts the thread in state
"undefined", from which nothing follows.

**Session** holds, as sequences of instructions, what each coroutine of
`helloworld`, `latency`, `latency_raw`, `rpc`, `write_bw`, `send_bw_raw` and
`cancellation` awaits, with sizes, immediates and the checks on what arrives.
The connection is external: it executes the requests of a side in order, lets
those that need a receive wait for one, refuses what does not fit, and
acknowledges later; requests to a QP that has been destroyed fail. **Examples**
puts both together: the conversation of `latency_raw` runs inside its tasks.

Definitions named as mutants in comments are deliberate errors; they are used
by no specification and exist to show that a property notices them.

## 3 Runs

| run | instance | properties | shows |
|---|---|---|---|
| `asio_ops` | 2 sends, 1 receive, one CQ of depth 2, queues of 1, batch 2 | CompletedOnce, CallbackLive, PostedNotAbandoned, NoOverrunIfSized, IInv, HonoursContract, SendResolved, CancelledReclaimed | the asio path is safe whenever a signal comes, implements OpContract and wakes its coroutines; the inductive invariant holds |
| `native_ops` | a write, a plain send, a receive, CQ depth 1 | WrIdUsable, SuspendTouchesLive, OwnResult, NativeInv, HonoursContract, SendResolved, ErrorWakesReceivers | the native path is safe, implements OpContract and wakes its coroutines |
| `rpc_split` | 2 coroutine callers with 2 calls each, 2 slots, 2 server workers, separate CQs, request ids modulo 3 (wrap) | OwnReply, WorkerTouchesLiveCall, RpcInv, CallsReturn | calls get their own replies and return; no deadlock |
| `rpc_failures` | 3 threads, 2 slots, 1 server worker, shared CQ, disconnection | SlotExclusive, NoBadPacket, AnyFlushInv, StrandedOnlyByFailure | what a failure can and cannot do |
| `connect` | 2 clients, one may fall silent, failures everywhere, servers with and without a test | Paired, AcceptorReadyFirst, FailsAlone, ConnectInv, ConnectReturns | the handshake is right; who suffers from a failure; no deadlock |
| `memory_regions` | one object of each kind, 2 `local_mr`, 2 regions, sizes mod 5, words mod 2 | OwnedOnce, ReleasedInOrder, NothingLeft, ViewsInside, Ownership | ownership, order of release, exactly what is left behind, bounds |
| `examples` | 7 programs, loops of 2, 2 senders, 3 receivers | FailsOnlyAfterTheEnd, ChecksHold, EndsAsIntended, ResumedOnce, FreedWhenFinished, WokenUnlessTooLate, ExamplesInv | the two sides of each program fit; tasks go on once |

The inductive invariants of section 5 (`IInv`, `NativeInv`, `RpcInv`,
`AnyFlushInv`, `ConnectInv`, `ExamplesInv`) contain the type invariants of their
modules; `memory_regions` checks the parts of `MrInv` one by one, its type
invariant excepted, which is proved (`TypeOKAlways`).

Five runs show that the code does not do what the repository says; each is a
finding in `PROJECT.json` with the line it contradicts:

* `asio_cancel_race`: the handler sets `complete_called`, the callback sees it
  set and is deleted with `self`, the handler finds `self` gone and returns. The
  log line says "recv done, skipped", but nobody completed the receive.
* `asio_failure`: `complete` is `noexcept`, `resume()` throws on a bad status:
  a failed or flushed completion ends the program instead of reaching the
  coroutine.
* `rpc_inversion`: on a shared CQ (what `qp_connector` makes) a reply reported
  before the send it answers makes the poller spin on itself.
* `native_send_length`: `send` is documented to complete "with the number of
  bytes sent" (`qp.h` 471), but `byte_len` of a plain send keeps its initial 0.
* `connect_leak`: a failed transition sets `qp_` to null before `destroy()`, so
  the `ibv_qp` is never released.

**Bounds.** The races of the awaitables involve one operation, its poller, its
canceller and the destructor; further operations matter only as neighbours in a
CQ, a batch or a full work queue, and two sends with queues of one and batches
of two have all of those. Depth 1 makes overruns happen (`native_ops`), depth 2
is the smallest that must not (`NoOverrunIfSized`); the repository's own CQs are
shallower than that, so the theorem says how deep they would have to be. Two
coroutine callers never exceed the two slots of `rpc_split`; a third would spin
on a poller and deadlock (section 6). In `rpc_failures` there are more callers than
slots; in `rpc_split` two calls per caller and `SeqMod` 3 make slots and numbers
come round while old replies are about. Two clients are enough for one to be served while the other is
anywhere in its handshake, one silent client (`MayStall`) enough to block the
other, and `PsnMod` 3 wraps. `SizeMod` 5, `WordMod` 2 and `Lengths` {1, 3} have
lengths on both sides of the 32-bit limit and offsets past every end; one object
of each kind is enough, as owners of different objects of a kind do not meet.
In `examples` each loop goes round `Count` = 2 times (a first and a last time),
`Concurrency` 2 makes requests of two senders overtake each other's receives,
and `RecvDepth` 3 leaves a receiver waiting. Deadlock is not checked where the
program may stop for good: after a crash, a stopped poller, a disconnection, the
end of a program or its last object (the asio, native, `rpc_failures`,
`memory_regions` and `examples` runs). It is checked in `rpc_split` and
`connect`.

## 4 Fairness

* A thread inside a function of the library finishes it (weak fairness of the
  operation and destructor steps); nobody is obliged to start an operation, to
  cancel one or to drop the QP.
* A poller polls and dispatches until it is stopped.
* The NIC reports every posted send: the peer keeps receives posted, and
  `rnr_retry` 7 means retry without limit (`rts`). Receives are owed a
  completion only once the QP is in error, when the NIC flushes them. A
  cancellation handler that has set `complete_called` goes on.
* RPC: a caller that spins for a slot gets one if slots keep coming back
  (strong fairness of `Acquire`); the network delivers, and the server's
  threads run. Nothing forces a disconnection.
* Handshake: servers and clients run, clients that fall silent excepted, and
  TCP delivers what was written and the end of a closed stream. No network failure is owed to a reader that has neither, so
  `ConnectReturns` does not rest on failures. It says when a silent client
  blocks the others: when the acceptor is reading from it.
* Examples: a coroutine that can run does, the connection delivers and
  acknowledges, main and poller threads keep running. Nobody is obliged to drop
  a QP.

## 5 Proofs

Every theorem holds for all values of the constants that satisfy the
assumptions of its module; each specification is the one its run checks. No
safety property is inductive as it stands, so each module has an inductive
invariant, which its run checks on the small instance and the proof module
proves action by action. Each property then follows from it in one step.

| module | for all | inductive invariant | theorems |
|---|---|---|---|
| `CqPoller_proofs` | see the next two | `QpInv` | lemmas only |
| `AsioAwaitable_proofs` | finite sets of sends and receives, CQs, queue sizes, CQ depth, batch size | `IInv` | `Invariance`, `TypeCorrect`, `AtMostOneCompletion` (CompletedOnce), `NoUseAfterFree` (CallbackLive), `PostedKept` (PostedNotAbandoned), `NoOverrun` (NoOverrunIfSized), `ContractHonoured` (HonoursContract) |
| `NativeAwaitable_proofs` | the same, and any opcodes | `NativeInv` | `NativeInvAlways`, `TypeOKAlways`, `WrIdUsableAlways`, `SuspendTouchesLiveAlways`, `OwnResultAlways`, `NoOverrun`, `ContractHonoured` |
| `RpcClient_proofs` | callers, slots, workers, CQs, calls per caller, width of the sequence number, failures | `RpcInv`, `AnyFlushInv` | `RpcInvAlways`, `AnyFlushInvAlways`, `TypeOKAlways`, `SlotExclusiveAlways`, `OwnReplyAlways`, `WorkerTouchesLiveCallAlways`, `NoBadPacketAlways` |
| `Connect_proofs` | clients, width of the packet number, silent clients, failures | `ConnectInv` | `ConnectInvAlways`, `TypeOKAlways`, `PairedAlways`, `AcceptorReadyFirstAlways`, `FailsAloneAlways` |
| `MemoryRegions_proofs` | `local_mr` objects, regions, lengths, word sizes | `MrInv` | `MrInvAlways`, `TypeOKAlways`, `OwnedOnceAlways`, `OwnershipAlways`, `ReleasedInOrderAlways`, `NothingLeftAlways`, `ViewsInsideAlways` |
| `Session_proofs` | see the next | `FitInv` | lemmas only |
| `Examples_proofs` | programs, loop counts, senders and receivers, hosts | `ExamplesInv` | `ExamplesInvAlways`, `ChecksHoldAlways`, `FailsOnlyAfterTheEndAlways`, `ServerStaysAlways`, `TaskInvAlways`, `ResumedOnceAlways`, `FreedWhenFinishedAlways` |

**The QP and its CQs.** `QpInv` is the part both kinds of awaitable share.
`QueuesInv`: a CQ or a batch holds only requests that `wr` places there, each
once; lemmas about appending, splitting and taking the head carry it through
polling and dispatch. `WithinLimits`: each work queue has at most its capacity
outstanding, counted where `Room` counts. With it, `NoOverrun` is a
counting argument: a CQ holds entries of distinct outstanding requests, so one
as deep as the work queues together is never full when one more completes.

**Asio path.** That the poller invokes a live callback depends on the `wr_id`
being in one place only; that a completion is the first depends on who won the
flag. `IInv` adds to `QpInv`: `PostingInv` (before posting nobody but the
cancellation handler knows the operation, and the handler leaves the callback
alone; from then on the callback belongs to the `wr_id`), `RightInv` (the right
to complete exists once; the handler or the poller holds it, whichever set
`complete_called`, for a send always the poller, and a completion uses it up; as
long as `self` is alive and was not completed, the coroutine waits) and
`WaitingInv` (a waiting coroutine has somebody left who can complete it, and once
its callback is gone that is a handler which won the flag). An
action that touches one operation keeps the others (`KeepOp`), so each needs an
argument for its own operation only.

**Native path.** `SuspendInv` ties the posting thread's place to what the poller
may do meanwhile (the handle is stored before the request is posted, and nothing
is read after it), `DispatchInv` ties the `operation_state` to the place of its
`wr_id`: alive while it can be dispatched, resumed after it was filled.

**OpContract.** Under the refinement mapping the initial states are initial, and
each action is a step of the contract or leaves it alone. The invariants are
needed: that a resolution is the first, that the NIC had reported the request
(`Reported`), that a request is posted while its coroutine waits or after it was
aborted, and that only receives are aborted.

**RPC.** `RpcInv` says of each call where its slot and request are: `CallInv`
(what a caller holds at each of its steps), `OneReply` and `ServingInv` (a request is
in one place on its way to the server and back, and names its slot and
sequence number), `PlacesInv` and `SendsInv` (each completion waits once, in its
own CQ, and a send is reported to a call suspended in it), `JobInv` (what a
poller runs inline) and `CreditInv` (no receive worker has two receives posted). `OwnReply` needs all of them: an answer is
recognised by slot and the low bits of a number that wraps, and is right only
because no other answer for the slot is about.

One case breaks `RpcInv`: the connection fails, on separate CQs, when the reply
is in one CQ and the send it answers is flushed into the other. `NoLateFlush`
excludes it: no failures, or sends are reported before their replies
(`AckFirst`), or one CQ for both. Under it `RpcInvAlways`,
`WorkerTouchesLiveCallAlways` and `NoBadPacketAlways` are proved; without it TLC
finds both properties violated, so the hypothesis is necessary. `AnyFlushInv` is
what remains without it: `RpcInv` until the connection fails and `LateInv` from
then on. After the failure no request gets through, so a reply can only resume a
call whose send was acknowledged while the connection was up (`Sound`), and a
slot with a late reply has no waiter unless it is that of its own call
(`LateReply`). From `AnyFlushInv`, `OwnReply`, `SlotExclusive` and type
correctness are proved with no hypothesis at all.

**Handshake.** `AddressesInv` (what is in a socket is what the QP at the other end
of that connection wrote), `ConnectorInv` and `AcceptorInv` (the state of each
side's QP at each of its steps, and what it knows of the other), `ServerInv` (one
client at a time; only an unchecked null QP, the fault of some connection, ends
the server).

**Resources and regions.** `Ownership`: alive is what the owners keep, no more and
no less; an object has its raw resource while it is alive; a registered region
has its `local_mr`, unless a move assignment dropped it. `ReleasedInOrder` is
inductive with it, because `Release` takes only what has no owner left.
`NothingLeft` says what is left in both directions and needs `LostForGood`,
which is inductive given `MrInv`: a dropped region has no owner and so stays
registered, and what a lost resource uses can only be live or refused release.

**Tasks.** `RunsOuter` names the one thread that may run the awaiting
coroutine in each state of the two threads; without it both might have passed
their test of the ready flag.

**Conversations.** `ExamplesInv` is `TaskInv` with `FitInv`, which has three
layers.

* `SessionInv` (`SideInv`, `AwaitsOne`): a queue holds a coroutine once, no two
  queues hold the same, one that waits is in a queue that fits its instruction,
  one that runs is in none. That the positions stay in their scripts and the
  descriptions received are descriptions (type correctness) rests on it, and on
  `ScriptType`, which goes through the scripts.
* `InStep` relates the two sides. A request that was executed and not yet
  acknowledged has had its effect, so `Effective(s)` counts it as done; `Meets`
  says which pairs of such positions a program can be in. In the loops of
  `latency`, `latency_raw` and `rpc` the server is always the same distance
  ahead; in `write_bw` it is past its last receive if and only if the last
  request was executed; `helloworld` is a table. `Described` says which regions
  the client has been told of, `HasMade` that the server has registered all
  those of its script so far. `send_bw_raw`, with its many coroutines, needs
  only `StaysAtRecv`: no receiver ever leaves its one receive.
* `FateInv` is what may have happened to a side: no assertion failed, a side
  that ended is through its script, and one that failed had only its last
  acknowledgement left when the other side had ended.

The proof has a static and a dynamic half. The static half computes every
script position by position for any `Count` and shows (`ScriptsFit`) that at all
positions which meet, the instructions agree: a message fits the receive it
finds and passes its check, an access stays inside a region the server has made
and described, and the positions that follow meet again; the server is through
only when the client is, and then the client has nothing left to request. The
dynamic half takes the actions one by one; registering a region moves the
effective position of the server, executing a request that of one side or both,
and `ScriptsFit` says that they still meet.
`ChecksHold` and `FailsOnlyAfterTheEnd` follow from `FateInv`. `ServerStays` (the
servers of `cancellation` and `send_bw_raw` wait for ever) is the safety half of
`EndsAsIntended`.

**Only model-checked.** Every safety property of the passing runs has a
theorem. Liveness and everything under fairness is out of the prover's reach:
`SendResolved`, `CancelledReclaimed`, `ErrorWakesReceivers`, `CallsReturn`,
`StrandedOnlyByFailure`, `ConnectReturns`, `EndsAsIntended` and
`WokenUnlessTooLate` stay with TLC, on the instances of section 3.

## 6 Abstractions and limits

* Payloads, addresses, keys, logging and statistics are left out; lengths
  appear where arithmetic on them matters. Running out of memory for a callback
  is not modelled. Registration of an awaitable's buffer always succeeds.
* A signal emitted during `slot.assign` itself is a data race inside asio's
  cancellation slot, whose outcome this code does not determine; the model
  starts once the handler is assigned.
* An operation is used once; a program that starts many is covered by many
  operations.
* SRQs change where a receive is posted, not who completes it; they appear as
  objects with owners in Resources.
* Sessions start from connected QPs. Contents of messages are left out except
  for descriptions of regions, sizes and immediates; the client's own regions,
  which nobody else reaches, too. The four connections of `write_bw` are four
  sessions.
* In the handshake `user_data` is empty, as it is on this path of the code.
* Server packets shorter than a header, or with a wrong length, never come from
  this client and are left out. `RpcClientMux` only chooses a client, whichever
  its uninitialised `selector_` starts with.

Behaviour seen in the models that no document of the repository contradicts, so
that it is not a finding: an error while posting is dropped on the asio path
(the coroutine is destroyed, `qp.cc` 491-494); a cancelled receive leaves its
buffer with the NIC (533); a call whose send was acknowledged waits for ever
after a disconnection (`coro_rpc.hpp` 133); on separate CQs a send that fails
after its request was answered frees a slot whose late reply then meets the next
call (`NoBadPacket` and `WorkerTouchesLiveCall` hold on a shared CQ, or without
failures; `OwnReply` and `SlotExclusive` hold even then); coroutine callers in excess of the slots spin on the poller of a
shared CQ, and on separate ones (100: three coroutine callers with two slots
deadlock); `~RpcClient` joins receive workers that never end while the connection
is up, so `run_client` stays where `AllDone` leaves it; `server()` of
`latency_raw.cc` joins its jthread (125) before its work guard (124) is gone when
its handler rethrows ("join" in SpinTask); failed accepts leave their pollers behind (`qp_acceptor.cc`
36); move assignment of a `local_mr` drops a registration (`mr.cc` 17); a peer
of a region of 4 GiB or more sees its length modulo 2^32 (67); a view whose
offset is past the end of its region wraps (87) and is outside what `ViewsInside`
is about; a failed query leaves the context of a device open (`device.cc` 81). In `task.hpp` the continuation may be
stored after the final suspend has looked for it, so that nobody goes on
(`StoredTooLate`), and the final suspend may read `continuation_` from a frame
that main, or the awaiting coroutine, has just freed (`dangling`); both need the
other thread to be held up for exactly the right moment. The last operation of
a client may fail because the server, through with its script, destroyed its QP
before the acknowledgement arrived (`FailsOnlyAfterTheEnd` says that this is all
that can fail). The client of `helloworld` writes the 42 it fetched back over
the counter (`helloworld_handler.cc` 130), so its compare-and-swap with 43 never
swaps.

Not modelled: logging and error helpers (output, and checks whose exceptions are
in the models of their callers); `main` functions, reporter threads, the pool of
`io_context`s and the Python binding (set-up, output); `blocking_queue`, which
nothing includes; memory registration that fails inside the `noexcept` factories
of `qp.h`, which ends the program; the contents of RPC replies, and with them
the counter that chooses them (`coro_rpc.hpp` 233, negative after 2^31
requests).

## 7 Plan

Done, in this order: Verbs, CqPoller, AsioAwaitable with OpContract and its
proofs, NativeAwaitable, RpcClient, Connect, RpcServer, MemoryRegions, then
Resources, SpinTask, Session and Examples, and servers and silent clients in
Connect.

Then proofs: the tasks, memory regions and resources, the handshake, the native
path, the refinement of OpContract and `NoOverrunIfSized` for both paths, the RPC
client with and without `NoLateFlush`, `SessionInv`, and `FitInv` with
`ChecksHold` and `FailsOnlyAfterTheEnd` for every `Count`.

Nothing of the plan is left. What could be added: a hand-written liveness
argument beside the runs, and sessions whose QP is in error from the start, as
after a failed handshake.
