# Verification of TensorFlow's core: concurrency and event files

This directory is a verification project for the code under `src/tensorflow/core`: TLA+ modules that
model its parts, TLC configurations that check them on small instances, and proofs, checked by TLAPS,
that the most important properties hold for every instance.

The repository is a Makefile build of TensorFlow's core libraries (`lib`, `platform`, `framework`,
`graph`, `util`, the registrations in `ops`, and the `proto_text` generator) together with the
third-party libraries they need. There is no executor, no session and no kernel in it, and no tests.
What carries its own logic, and is hard to test, is the machinery that the executor and the kernels
share between threads: counters, notifications, the rendezvous, cancellation, the tables of kernels and
resources, and the objects that count their own users. That is what is modelled first, and then the one part
whose state outlives the process: the events file, its writer and the reader that follows it.

## 1. Inventory

| Component | Source (under `src/tensorflow/core/`) | State | Operations | Module |
|---|---|---|---|---|
| BlockingCounter | `lib/core/blocking_counter.h` | `state_` (count and flag), `notified_`, `mu_` | DecrementCount, Wait, WaitFor | `BlockingCounter` |
| Sharder | `util/work_sharder.cc` | a counter on the caller's stack, closures in a pool | Shard, Sharder::Do | `Sharder` |
| Rendezvous | `framework/rendezvous.{h,cc}` | `table_`, `status_` | Send, RecvAsync, Recv, StartAbort, destructor | `Rendezvous`, `RendezvousChannel` |
| Notification | `platform/default/notification.h` | `notified_`, `mu_` | Notify, WaitForNotification(WithTimeout), HasBeenNotified, destructor | `Notification` |
| CancellationManager | `framework/cancellation.{h,cc}` | `is_cancelling_`, `is_cancelled_`, `callbacks_`, tokens | get_cancellation_token, RegisterCallback, DeregisterCallback, StartCancel, destructor | `CancellationManager` |
| ExecuteOnStall | `util/exec_on_stall.h` | `disabled_`, `joined_`, `deadline_` | constructor's thread, destructor | `ExecuteOnStall` |
| OpSegment | `framework/op_segment.{h,cc}` | `sessions_`: holds and kernels | AddHold, RemoveHold, FindOrCreate, destructor | `OpSegment` |
| TrackingAllocator | `framework/tracking_allocator.{h,cc}` | `ref_`, sizes, `in_use_`, records | AllocateRaw, DeallocateRaw, GetRecordsAndUnRef | `TrackingAllocator` |
| ResourceMgr, RefCounted | `framework/resource_mgr.{h,cc}`, `lib/core/refcount.h` | `containers_`, reference counts | Create, Lookup, LookupOrCreate, Delete, Cleanup, Clear; Ref, Unref | `ResourceMgr` |
| ResourceOpKernel, ContainerInfo | `framework/resource_op_kernel.h`, `framework/resource_mgr.cc` | `resource_`, `cinfo_`, the counter of private names | Compute, destructor | `ResourceOpKernel` |
| EventsWriter, RecordWriter | `util/events_writer.{h,cc}`, `lib/io/record_writer.cc`, `platform/posix/posix_file_system.cc` | the file, the buffer of stdio, `num_outstanding_events_` | Init, WriteSerializedEvent, Flush, Close | `EventsWriter`, `RecordFile` |
| SequentialRecordReader and its streams | `lib/io/record_reader.{h,cc}`, `lib/io/buffered_inputstream.{h,cc}`, `lib/io/random_inputstream.{h,cc}` | offset, `last_read_failed_`, the buffer, `file_status_` | ReadRecord, SeekOffset | `RecordReader`, `RecordFile` |

How they interact. Sharder::Do puts a BlockingCounter on its stack and gives the pool closures that
refer to it. Rendezvous::Recv waits for its own callback on a Notification. CancellationManager's
DeregisterCallback waits on a Notification that StartCancel gives. ResourceMgr hands out objects that
are RefCounted; so are a Rendezvous and the device contexts its items hold. A ResourceOpKernel is a client of
the ResourceMgr: it finds or creates its resource and, if the name is its own, deletes it. ReaderOpKernel
registers a callback with the step's CancellationManager. An EventsWriter writes records through stdio to a file
that a reader of another process follows; the file is all they share. The executor, which is not in the repository,
wraps allocators in TrackingAllocators and keeps kernels in an OpSegment.

What is hard in all of them: a decision is taken under a lock and carried out after the lock was
released (callbacks, deletions, `Unref`); an object is destroyed as soon as a wait on it returns; flags
are read without the lock on a fast path; timeouts race the event they wait for; condition variables
wake up spuriously; a file is read while it grows, and may end anywhere. `PROJECT.json` lists these hazards
at their lines, with the properties that watch them, and lists the components that are not modelled with the reason.

What makes each component correct, in one line:

- BlockingCounter: nobody returns before the last decrement, nobody sleeps through it, and the counter
  may be destroyed when its waiters have returned.
- Sharder: each unit of work is done once before Shard returns; no closure outlives the caller's frame.
- Rendezvous: the i-th tensor under a key goes to the i-th request; an abort completes the others;
  each callback is invoked once; device contexts are held exactly as long as needed.
- Notification: no early return, no lost notification, and no destruction under the notifier's feet.
- CancellationManager: no callback after DeregisterCallback has returned, no callback twice or
  forgotten, nobody blocks for ever.
- ExecuteOnStall: the destructor returns only when the thread is done.
- OpSegment: a kernel under a hold is alive, is the same for all threads, has one owner.
- TrackingAllocator: exact sizes although pointers are reused, and deletes itself once, at the end.
- ResourceMgr: exact reference counts, nothing used after it was deleted, nothing left undeleted.
- ResourceOpKernel: only kernels with one shared name share a resource; a private one goes with its kernel, a
  shared one stays.
- Event files: what the file has taken when a Flush returns OK is on the disk; a reader gets the events in order,
  none twice, none invented, and all that are there, and takes no good record for a damaged one, as far as the code
  allows (section 4 has where it does not).

## 2. The modules and the code

Common conventions. A critical section of a mutex is one step, because no other thread sees a state
inside it; it is split where a thread without the lock can see the difference (Notification, whose
`notified_` is an atomic; the end of ExecuteOnStall's thread; the last worker of BlockingCounter). Every
atomic operation is a step. What the code does after it has released the lock is a separate step, so that
every other call may come in between. A call that blocks is a program counter value with an action that
leaves it. A condition variable's wait releases the lock; a spurious wakeup is an action of its own:
`nsync_cv.h` allows them, and the mutex and condition variable of `platform/default` are thin wrappers
over nsync. Operators under "Seeded fault" are variants, with a plausible bug in them, of the operators that
follow; each property of a run is known to reject one of them, and no specification uses them.

**BlockingCounter.** `state_` is a record of the count and the waiter flag. FetchSub and FetchOr are the two
atomic operations; Notify and Unlock the critical section of the last worker; Check, SpuriousWakeup,
Expire and ReturnFalse the loop of Wait and WaitFor. `gaveUp` is a history variable: the waiters to which
WaitFor has returned false.

**Sharder.** The callers choose their arguments from a set. NumShards, BlockSize, ShardsUsed and Limit are
the arithmetic of Sharder::Do; the product of `total` and `cost_per_unit`, and the sum in a rounded division, wrap
at the width of `int64`, and the number of shards at the width of `int`, scaled down. Totals are at most 2^62
(`SharderAssumption`), so that the sums of sizes fit: near 2^63 `total + num_shards - 1` (`work_sharder.cc:73`) wraps,
`block_size` may be negative, and CHECK_GT ends the process. Shard has the early returns, Do and Schedule the
loop. A caller may be a thread of the pool, and then takes no closures until Shard has returned
(`Idle`); one thread of the pool must not be a caller (`SharderAssumption`). The counter appears as BlockingCounter's specification guarantees it: Wait returns at zero and the counter may
then be destroyed (theorems `WaitReturnsAtZeroHolds` and `SafeToDestroyHolds`, whose hypothesis, that no
WaitFor gave up, is met because Sharder::Do calls Wait). The pool is Eigen's: closures start in any order,
and ParallelFor is modelled by its promise.

**RendezvousChannel** is the abstract specification, taken from the comments of `rendezvous.h`: a channel
is the sequence of messages sent and the sequence of requests made; Deliver completes the i-th request with
the i-th message, Fail completes a request that has no message with the status of the first abort. It has no
table and no threads. `Channel` in Rendezvous instantiates it.

**Rendezvous** is LocalRendezvousImpl. `table` holds the queues of items. SendAborted, SendQueue and
SendMatch are the branches of Send, RecvAborted, RecvQueue and RecvMatch those of RecvAsync; each of them
and StartAbort is one critical section that leaves in `work` what the thread still has to do without the
lock: Invoke makes one of these callbacks and deletes the item. Blocked and Expire are Rendezvous::Recv,
the synchronous wrapper, with a timeout. Destroy is the destructor, which aborts when the table is not
empty; a queue, once used, stays in the table even when it is empty. `sent` and `asked` are histories, and
they are the abstract variables of the refinement: an abort drops from `sent` the messages that nobody had
asked for.

**Notification.** NotifyLock, NotifyStore, NotifyAll and NotifyUnlock are the four effects of Notify;
FastCheck is the load of `notified_` without the lock; WaitLock, Check and Wait the loop under it; Expire and
ReturnFalse the timeout. Destructor is the destructor, which takes the lock so as to wait for a notifier that is
still in its critical section.

**CancellationManager.** Operations get a token, register, work and deregister; `Forgetful` operations do
what ReaderOpKernel::Compute does, they never deregister. StartCancel takes the callbacks out; RunCallback,
MarkCancelled and NotifyCancelled follow without and with the lock, as in the code. Destroy is the destructor.

**ExecuteOnStall.** `now` is the clock, external. TestDeadline and TestDisabled are the polling loop, Finish the
critical section at its end, Destroy and SpuriousWakeup the destructor with its single wait. The module is there
for the run that refutes SafeToDestroy.

**OpSegment.** Find and Insert are the two critical sections of FindOrCreate, Create the creation between them,
which may fail; the second finds that the session is gone, that another thread was faster, or neither. RemoveHold
takes the last session out, DeleteItem deletes it afterwards. `uses` records the kernels a thread was given under
a hold, `lost` the kernels whose session was gone when they had been created.

**TrackingAllocator.** The constructor's arguments are chosen in Init, so that the three cases (sizes tracked
by the underlying allocator, in `in_use_`, or not at all) are in one state space. AllocateUnderlying and Record
are AllocateRaw; Deallocate, Find, UnRef, FreeUnderlying and DeleteThis are DeallocateRaw; GetRecordsAndUnRef is
one critical section, with DeleteThis when it drops the last reference. The underlying allocator, external, is a
pool of pointers that it gives out again as soon as it gets them back.

**ResourceMgr.** Resources are found under the hash code of their type and a name. LookupFails and LookupOrCreate
are the method of that name with its change from the shared to the exclusive lock, and a creator that may fail.
Delete and Cleanup leave a thread with references to drop, Clear drops them with the lock held. UnrefLoad and
UnrefSub are RefCounted::Unref: a load that may find the count to be one, and a subtraction. The module has the
actions and the properties; its next-state relation is that of the module that uses it.

**ResourceOpKernel** composes the manager with kernels. A kernel is one of the threads of ResourceMgr, because its
`mu_` serialises what it does: ContainerInfoInit chooses the name, LookupResource the calls of LookupOrCreate,
VerifyResource and VerifyFails the rest of Compute, Destroy and DeletePrivate the destructor. A private name is a
number from the counter in ContainerInfo::Init; kernels with that attribute use shared names. The other threads
use both, but create under shared names only: CreateResource and LookupOrCreateResource (`resource_mgr.h:487`) would
let a client with a handle create a resource under a kernel's private name, also after the kernel is gone, and
`PrivateDeleted` assumes that none does. All actions of the manager run in the same state space.

**RecordFile** is the format: a file is a sequence of cells, each a length, a checksum or a piece of data, and a
checksum names what it was computed from. A cell of data stands for 8 bytes, the size of a length. Read is the Read of
a random access file: all there is, with OUT_OF_RANGE if that is less than asked for, or any part of it with an I/O
error. **EventsWriter** has the buffer of stdio, which Drain moves to the disk
cell by cell at any time. WriteRecord may fail after any part of a record, which the caller ignores. Flush,
FlushReturns and SyncFails are Flush and the first half of Close, FClose its end, or the end of a file that
InitIfNeeded has found missing; Crash is the end of the process, Remove the removal of the file by somebody else.
History variables: `ends`, where each event of `log` ends in the file, from which `Durable` counts the events
on the disk; `promised`, how far the file went when a Flush last returned OK; `torn`, that a part of a record is in the
file, and `bare`, that this part is the header of an event of one cell. The module follows one file from its opening on.

**RecordReader** is ReadRecord: Position with Reset and SkipNBytes of the stream, PositionFails the I/O error in it,
ReadBuffered or ReadUnbuffered one access to the file, with any of the outcomes of Read, Check the checksum and what
follows for the header or the data, Fail the three kinds of failure: an end of the file in the header is an end of the
file, one in the data is "truncated record", and an I/O error is passed on. `pos` stays behind after an I/O error and
the buffer keeps what was read, as in the code. Two histories tell what may come of that: `doubled`, that this
ReadRecord has got such cells, and `misplaced`, that a later one has skipped within them. A cell that is taken for a
length without being one may spell any of `Numbers`. "record size too large" (`record_reader.cc:88`) needs a length
near 2^64, which no writer writes, and is left out. SkipNBytes never meets the end of the file, because the offset is
the end of a record that was read. Resume is a new reader that goes on from the old one's offset.

**EventLog** is the abstract specification: a log of which a part is durable, the rest may be lost, and a reader gets
what is durable, in order, as long as neither of two accidents happens: the reader loses its place, or the log ends in
a bare header. After the one, and behind the whole log after the other, Misdeliver allows any record.
**EventStream** composes writer and reader and instantiates EventLog with the events that a reader can get at
(`log`), the number of them whose last cell is on the disk (`Durable`), what was returned, and the two histories.

The MC modules extend these modules for TLC; MCSharder and MCResourceMgr also define the values of a constant. The
Proofs modules extend them for TLAPS (section 5).

## 3. What is checked

| Run | Instance | What it shows |
|---|---|---|
| `blocking_counter` | 3 workers, a Wait, a WaitFor | `WaitReturnsAtZero`, `NoLostWakeup`, `SafeToDestroy`, and, with fairness, `WaitersReturn` |
| `sharder` | 2 callers that are threads of a pool of 3, 8 kinds of call | `ReturnsWhenDone`: all units once and no closure left; `ShardReturns` |
| `rendezvous` | 1 key, 2 producers, an asynchronous consumer and a Recv with a timeout, 2 aborts and the destructor, 2 calls each | `QueueHomogeneous`, `CalledOnce`, `ContextsHeld`, `InOrder`, the refinement `ChannelSpec`, `RequestsComplete` |
| `rendezvous_timeout` | 1 producer, 1 consumer that calls Recv with a timeout | `ReachesConsumer` is violated (finding 1) |
| `notification` | a notifier, 3 waiters (one with a timeout), an owner that destroys it | `SafeToDestroy`, `NoEarlyReturn`, `WaitersReturn` |
| `cancellation` | 3 operations (one forgetful), 2 cancellers, the destructor | `NoCallbackAfterReturn`, `RunOnce`, `CallbackRuns`, `DeregisterReturns` |
| `exec_on_stall_wait` | a deadline of 2 ticks | `SafeToDestroy` is violated (finding 2) |
| `op_segment` | 3 threads that drop only holds of their own, 1 session, 1 node, 3 kernels | `KernelsAlive`, `SameKernel`, `OwnedOnce` |
| `op_segment_leak` | 2 threads | `NoKernelLeaked` is violated (finding 3) |
| `tracking_allocator` | 3 threads, 2 pointers, 2 sizes, 4 allocations, all three kinds of tracking | `RefCounted`, `DeletedOnce`, `SizesExact` |
| `resource_mgr` | 2 kernels and another thread, 2 types, a shared and 2 private names, 2 resources | of the manager `RefExact`, `NoUseAfterFree`, `LookupCorrect`, `DeletedInTheEnd`; of the kernels `PrivateIsPrivate`, `PrivateDeleted`, `OthersKeepResource` |
| `event_log` | the version, of 2 cells, and 2 events of 1 cell, 1 failed Append, 1 I/O error, a reader without buffer and with buffers smaller and larger than a record | `FlushedOnDisk`, `DataLossJustified`, the refinement `ImplementsLog`, `ReaderCatchesUp` |

The runs of BlockingCounter, Sharder, Rendezvous and Notification also check the type invariant `TypeOK`, which
states the assertions of the code (a count does not become negative), which shards exist and who may hold a lock.

Why the bounds are enough to be interesting. Three workers include a first, a middle and a last one; two
waiters let one raise the flag for the other. In the rendezvous two calls of each of two producers and two
consumers give queues of up to four items on either side, an abort in the middle of them, and a late Send or
Recv after it; keys do not interact, so one is enough. Eight calls of Shard include an empty one, inline ones, a
short last shard, fewer shards than asked for, and both outcomes of the overflow. Two pointers and four
allocations let the underlying allocator give a pointer away twice while another thread is still in
DeallocateRaw. Two objects and three threads let one thread look up, one delete and one create, and let two
kernels meet on a shared name, or each make a private one, while a third thread deletes and clears. Each event
can be torn, lost or complete behind a complete or torn one; records of 4 and 5 cells and buffers of 3 and 7 put
the end of a fill before, in and after a header, and in the next record. One failed Append is enough for a bare header
with whole records behind it, one I/O error for each of its consequences: a header or data read twice, a reader that
skips within its buffer and then gets another record. (With two I/O errors the space is twice as large and shows the
same.) The bounds are
constants (`MaxCalls`, `MaxKernels`, `MaxAllocs`, `MaxObjects`, `MaxEvents`, `MaxLost`, `MaxReadErrors`,
`MaxTime`, `MaxUnit`) and guards of the actions
that create something; the proofs do not depend on them.

Fairness. All threads are operating-system threads, so a thread that can go on does (WF); no call has to be
made, no object has to be destroyed, no timeout or spurious wakeup has to happen. Where a thread asks for a
lock that others keep taking, the fairness is strong (SF) in Notification: nsync's mutex gives a waiter that has
lost the race too often a bit that keeps newcomers out (`MU_LONG_WAIT`, `src/nsync/internal/common.h:102`,
`src/nsync/internal/mu.c:59`). A pool whose threads all call Shard on it can deadlock; the assumption that one
thread does not is what `ShardReturns` needs, and without it TLC finds the deadlock. The reader of an events file
calls ReadRecord again and again, after any error, data loss included, as a program that follows a file must: it cannot
tell a record in the making from a damaged one. It meets finitely many I/O errors (`MaxReadErrors`); `ReaderCatchesUp`
says nothing of a disk that never stops failing. Nobody has to write, flush or drain.

TLC's deadlock check is on in every run: a state with no successor other than the end of the scenario is an
error. The ends are explicit actions (`Finished`, `PoolIdle`).

## 4. Findings

1. **A Recv that timed out swallows a tensor** (`framework/rendezvous.cc:133`). In TLC's trace a Send takes the
   waiter of a Recv out of the table; before it has run the callback, outside `mu_`, the timeout expires and Recv
   returns DEADLINE_EXCEEDED. The Send then runs the callback: the tensor goes to a call that is over, through
   references to locals (`ret`, `n`) of a frame that is gone. The header promises that "the consumer receives the
   Tensor as soon as it is available". (The timeout may as well expire before the Send: Recv does not take its waiter
   out of the table.)
2. **ExecuteOnStall's destructor waits once** (`util/exec_on_stall.h:72`): `if (!joined_) cond_var_.wait(l)`. A
   spurious wakeup lets it return while the thread still uses the object.
3. **FindOrCreate leaks a kernel** (`framework/op_segment.cc:59`) when its session is removed while it creates
   the kernel: it returns NotFound and keeps no pointer to the kernel.

Smaller disagreements met on the way, which no run states as a property of its own:

- `blocking_counter.h:56`: "return false iff the count has not dropped to zero". WaitFor returns false at a
  timeout without looking at the count again, so it may return false although the last worker has already
  decremented and is on its way to `mu_`. For the same reason a counter on which a WaitFor gave up must not be
  destroyed when a later Wait returns: the flag is set already, Wait sees a zero count and returns at once,
  the last worker still locks `mu_`. `SafeToDestroy` is stated, and proved, with that exception.
- `cancellation.h:56`: IsCancelled "returns true iff StartCancel() has been called". The flag is stored after
  all callbacks have run, so a second StartCancel may return while IsCancelled still says false.
- `cancellation.h:104` asks for DeregisterCallback when an operation completes; ReaderOpKernel::Compute
  (`reader_op_kernel.h:57`) does not call it.
- `exec_on_stall.h:46`: `1000000 * delay_secs` is an int product. From 2148 seconds on it wraps, the deadline lies
  in the past and `f` runs at once.
- `tracking_allocator.h:76`: the sizes are said to be 0 when the underlying allocator does not track them; they
  are not when the wrapper tracks them itself.
- `resource_mgr.h:396`: the cast is safe only as long as no two types have one hash code; InsertDebugTypeName
  compares the names after the insertion, and a lookup does not compare them.
- `work_sharder.cc:57`: "1 <= num_shards <= num worker threads" does not survive the overflow of
  `total * cost_per_unit`: the negative quotient is converted to int and may come out positive. The work is
  still done once, which is what the run checks.
- `resource_op_kernel.h:93`: when VerifyResource fails, the kernel drops its reference and the next Compute makes
  another private name; the resource stays in the manager under a name that nobody knows. `PrivateDeleted` is
  stated with that exception.
- `file_system.h:280`: after Sync "if the OS or machine crashes [...] the contents should be properly saved". The
  posix Sync is fflush, so `FlushedOnDisk` is about a crash of the process, not of the machine.
- `events_writer.cc:109` ignores the status of WriteRecord: a later Flush returns OK although an event was lost or
  torn, whereas `events_writer.h:74` says that Flush "Returns false if the events file could not be created, or if the
  file exists but could not be written too". `FlushedOnDisk` is stated of what Append has taken.
- `events_writer.cc:67`: a writer that is used again in the second in which it was closed makes the same name, and
  NewWritableFile truncates the file. The model assumes that it does not.
- `record_reader.cc:140`: an end of the file in the data of a record is returned as DataLoss, "truncated record". A
  reader that follows a file gets it for a record that is still being written, with nothing damaged or lost, and
  must try again. `DataLossJustified` says when it happens; that it never happens is not true.
- `record_reader.cc:95`: the streams return OUT_OF_RANGE when they have read less than they were asked for, so the
  branch that reports a "truncated record" here is never taken, and a file cut within a header looks like a file that
  ends.
- `random_inputstream.cc:46`: after an I/O error `pos_` stays where it was, also if a part of the data was read, and
  `BufferedInputStream::FillBuffer` keeps that part. If the call needs more, the next fill reads the same cells again:
  they are in the result twice, and ReadRecord returns "corrupted record" for a good record (`doubled`). If they were
  enough, the call fails, and Tell is too small by what was read. A next ReadRecord that skips to its offset within the
  buffer then begins beyond it, and may return another record in place of the next one (`misplaced`). When Tell is below
  zero, the reader resets the stream and nothing is lost. The DCHECK at `record_reader.cc:126` does not see it, because
  Tell is what is wrong.
- `record_writer.cc:108`: an event of 8 bytes of which only the header got into the file is followed by the next
  record's header, a length and its checksum, which is returned as the event (`bare`).
- `buffered_inputstream.cc:170`: ReadAll begins with FillBuffer and drops what was read ahead before it.

## 5. What is proved

TLAPS checks every step of the proofs in the eight `...Proofs` modules. Each extends the module it is about and
proves `Spec => []P` for properties that the runs check on small instances and for a few that are stated beside
their proofs (assertions of the code, and when a comment of the code does hold), or that a specification implements
another; `PROJECT.json` lists the theorems with the property each one states. They hold for any sets of threads,
keys, sessions, kernels or events and any bounds, under the named assumptions of the modules:

- the sets of threads are disjoint and, where the code counts them, finite; a BlockingCounter has a waiter;
- a Notification has a waiter, because its deleter takes a returned wait as the sign that it may destroy it;
- a special value (`None`, `NoOne`, `NoToken`) is not one of the values that it stands in for;
- the arguments of Shard are natural numbers, the total at most `MaxUnit`, which is at most a quarter of the range of
  `int64` and leaves room for an `int`; the ranges and the minimum cost of a shard are not zero;
- the sizes asked of a TrackingAllocator are natural numbers other than zero;
- the lengths of events and the sizes of read buffers are natural numbers.

Hardly any of the properties is inductive as it stands; the paragraphs name what the invariants add to them and why it is needed.

**BlockingCounterProofs**: `TypeCorrect`, `WaitReturnsAtZeroHolds`, `NoLostWakeupHolds`, `SafeToDestroyHolds`.
`CountInv`, the count is the number of workers that have not decremented (which needs the cardinality of a finite
set to follow the removal of an element); `MuInv`, the lock is held exactly between Notify and Unlock;
`LastWorkerInv`, a worker that goes on to notify is alone, saw the flag and a zero count, and finds
`notified_` false; `WaiterInv`, `notified_` implies a zero count and a waiter inside its call has raised the flag;
and `DestroyInv`, as long as a worker is still to come or still on its way through the critical section, one of the
waiters that raised the flag, unless it gave up, is inside its call. The last one is what makes the counter
destructible: the waiter that raised the flag early enough to matter can leave only by `mu_`, after the last worker
has released it.

**RendezvousProofs**: `TypeCorrect`, `Homogeneous`, `CallbacksOnce`, `ContextsExact`, `DeliveredInOrder`, and
`Implements`, that is `Spec => ChannelSpec`: LocalRendezvousImpl implements the channels. The invariant's core is
`QueueInv`: without an abort a queue is the excess of one history over the other (the messages that were sent and
not asked for, or the requests that were made and not served), and after an abort every queue is empty and every
request without a message is to be failed. From it follow the homogeneity of the queues, which Send and RecvAsync
rely on when they look at the front only, and that the item RecvMatch takes out is the message with the number of its
request. `DutyInv` says the same of the callbacks that are due outside the lock: each carries the message with the
number of its request, or the status of the first abort if there is none; `UniqueInv` that no two threads owe a
callback to one request; `AskedInv` and `OutcomeInv` that requests are made once and completed after they were made.
With the invariant each step is a step of the channel or leaves its variables unchanged: Invoke maps to Deliver or
Fail, StartAbort and Destroy to Abort, the matching steps of Send and RecvAsync to Send and Ask.
`ContextsExact` (the property `ContextsHeld`) needs to know where an item can be: `HeldInv`, `FreshInv` and `PlaceInv`
say that an item in the table or taken out of it holds its context, is in one place only, and was not there before
its call; `AborterInv` that a thread that has not called StartAbort yet owes nothing. `DeliveredInOrder` (`InOrder`) needs, besides
`ResultInv`, `HandoverInv`: of the two threads that brought the i-th message and the i-th request together the later
one still owes the callback, and has made no other call since. `DeliveredToOne`: with any number of producers and
consumers under a key, no tensor is given to two requests. `SentInv`, a message is sent once and under one key, an
abort only drops the end of a history, and `CompletedInv`, what is completed was asked for, lead from the numbers of
`ResultInv` to the messages themselves.

**CancellationManagerProofs**: `NoCallbackAfterReturnHolds`, `RunOnceHolds`, `CancelledIsFinalHolds`. `TokenInv`, a token
belongs to one operation, and only tokens that were given out have callbacks; `CancelInv`, one caller at most carries a
cancellation out, `is_cancelling_` is set exactly until it has run the callbacks, the table is empty from then on, and
nobody else has a callback to run; `CallbackInv`, an operation that has not registered its callback, was refused, or
has deregistered it has none in the table, and none that is due (`Due`, the callbacks taken out and not yet run).
`CancelledIsFinal` is an action property: once `is_cancelled_` is set, it stays set, nothing is registered or due, and no
step invokes a callback. That is what IsCancelled does tell its caller (section 4 has what it does not).
The module also proves the safety of the Notification, on which DeregisterCallback waits and which goes with the manager:
`NotificationTypeCorrect`, `NotificationSafeToDestroy`, `NotificationNoEarlyReturn`. It extends both modules, whose constants,
variables and names are disjoint, and each theorem is about the behaviours of one: `NotificationSpec` here, `Spec` above.
`PcInv` and `MuInv`: a thread is in its critical section exactly when it holds `mu_`; `FlagInv`: the flag is up exactly when
the notifier has stored it. A waiter that returned by the fast path may have overtaken the notifier; that the destructor
takes the lock is what the proof of `SafeToDestroy` rests on.

**OpSegmentProofs**: `KernelsAliveHolds`, `SameKernelHolds`, `OwnedOnceHolds`. `HoldInv`, `num_holds` is the number of
the threads with a hold on that session; `UseInv`, a kernel that a thread uses under its hold is the one the session
still has for that node; `OwnedInv`, besides `OwnedOnce`, no two sessions share a kernel, without which the deletion of
one session's item could delete the kernel of another. `NoLeakUnderHold` says when `NoKernelLeaked`, which finding 3
refutes, does hold: in every behaviour in which FindOrCreate is called under a hold of its caller (`HoldsWhenCalling`),
because the hold keeps the session in the map until the second critical section (`LeakInv`, `HeldSession`). The holds of
other threads are not enough.

**ResourceOpKernelProofs**: of the manager `RefExactHolds`, `NoUseAfterFreeHolds`, `LookupCorrectHolds`, of the kernels
`PrivateIsPrivateHolds`, `PrivateDeletedHolds` and the action property `OthersKeepResourceHolds`, all of the composed
specification. `CountInv` is the equation `ref_` = entries + holders + threads that still owe an Unref; `OneEntry`,
`LifeInv` and `CallInv` say that an object has at most one entry, that what is not made yet or is deleted has no owner,
and what a thread within a call holds or owes; `TypeInv` that an object is stored and held under the hash code of its
type. For the kernels, `PlaceInv` relates a kernel's position to its reference, `NameInv` says that a number serves one
kernel as its name, `HeldInv` that a kernel has the resource that was stored under its name, `StoredInv` that a kernel
knows of what is stored under a number unless it gave the name up. `LookupCorrect` and `PrivateDeleted` carry
the hypothesis `DistinctHashes`, that no two types have one hash code:
without it a lookup finds the object of another type (section 4), so they do not hold.
`DeletedIffUnownedHolds`: a resource that was made is deleted if and only if it has no owner. `LifeInv` is one half; the
other, that the last of several overlapping Unrefs does delete, needs `ZeroInv`, a count of zero is that of a deleted
resource, and `CountInv`. It is the safety part of `DeletedInTheEnd`. `RefChecksHold`: the three assertions of
`refcount.h`, also between the load and the subtraction of Unref.

**SharderProofs**: `TypeCorrect`, `ReturnsDone` (the property `ReturnsWhenDone`), for every total up to 2^62 and every cost,
whatever the product and the number of shards wrap to. `SumsFit`: the sums of sizes do not wrap. `SizeInv` and `CountInv` have what the proof needs of the arithmetic, by lemmas on the rounded quotient: the shards
used cover the total, the last of them is not empty, and the counter is the number of the closures not yet done and of
the shards not yet given out. `RangeInv`, `DisjointInv` and `WorkInv`: closures cover disjoint ranges
within the work, and a unit is done, or in a closure, or in a shard still to be given out; `PlaceInv`: where a closure
can be. At zero nothing is left in a closure or to be given out, so all is done. `LimitsParallelismHolds`: without an
overflow (`NoOverflow`) the caller and its closures are no more than `max_parallelism` and the thread's own limit. The
conversions are then the identity, the rounded block size takes no more shards than were asked for (`ShardsUsedBound`),
the counter never exceeds them (`ShardsInv`), and each closure has a start of its own (`ClosuresOpen`). With an overflow
it does not hold (section 4).

**TrackingAllocatorProofs**: `RefCountedHolds`, `SizesExactHolds`, `DeletedOnceHolds`, `ChecksHoldAlways`. `PlaceInv`: a
pointer is in one place, free, with a client, or with one thread between the calls of the underlying allocator; it is
why the entry that DeallocateRaw finds in `in_use_` is its own although the pointer was given out before. `CountInv`: the
blocks out are finitely many and `ref_` counts them. `LifeInv`: once `ref_` is zero, the wrapper is deleted or exactly one
thread (`Last`) will do it, after it has given its pointer back. `SizeInv`: what DeallocateRaw has found is the size that
AllocateRaw counted. `SizesExact` compares `allocated_` with the number of the bytes out (`BytesOf`), a cardinality, so
that the lemma `BytesOfBlock`, a block adds as many bytes as its size, takes the place of an induction over a sum.
`ChecksHold` has the two assertions of the code, which a size found in one critical section and subtracted in another
could violate.

**EventStreamProofs**: `FlushedOnDiskHolds`, `DataLossJustifiedHolds`, and `ImplementsLogHolds`: writer, file and reader
implement EventLog. `EndsInv` and `RecordsInv` describe the file: disk and buffer together are the records of `log`
one after another, and `TailInv` what follows them: a record cut short and, if the writer went on behind it, the
length of a next one. `PromisedInv`: what a Flush returned for is before the end of the disk. Of the reader,
`PlaceInv` says that its offset is the end of a record, `StreamInv` that its buffer is a part of the file, unless an I/O
error has just ended a call (`Loose`), and `CallInv` what it has read within a call: what the file has from its
place on (`Straight`), or some of that more than once (`Skewed`). What was read more than once is never taken for a
record or a header: its last cell, where the checksum should be, is one that lies before the checksum in the file
(`SkewedData`). In a torn file the reader meets data that are not a record: they
contain a length, and every checksum in a file is that of a length or of an event, so none matches, except for an event
of one length cell, behind a bare header. All of this is invariant until one of the accidents has happened
(`Astray`); from then on only the writer's part and that what was delivered is a sequence, which is what EventLog asks
for. WriteRecord maps to Write, and to Accident when it leaves a bare header, Drain to Sync or a stutter, the end of the
writer to Lose, Position to Accident or a stutter, and Check to Deliver or Misdeliver.

Only model-checked:

- liveness (`WaitersReturn` of the counter and of the notification, `ShardReturns`, `RequestsComplete`, `CallbackRuns`,
  `DeregisterReturns`, `DeletedInTheEnd`, `ReaderCatchesUp`), which is out of the proof system's reach;
- the three runs that refute a property.

## 6. What is not modelled

`PROJECT.json` has the list. In short: declarative data and its validation (op definitions, attributes, shapes,
function libraries), formatting and parsing, numerical code, thin wrappers over system calls, and third-party
libraries. Within the modelled parts: the text of rendezvous keys and a collision of their 64-bit hashes, the
contents of tensors, allocation ids, trace ids and logging; callbacks, creators and destructors that call back
into the object that calls them with its lock held, of which the repository has none; ResourceHandleOp and the handles of `resource_mgr.cc`;
records with zlib compression, lines and Seek of the buffered stream; the sequence of files that one EventsWriter
opens in its life; a crash of the machine.

## 7. Plan

Done, in this order: BlockingCounter with proofs; the rendezvous with its abstract specification and the refinement
proof; Notification; CancellationManager; ExecuteOnStall; OpSegment; TrackingAllocator; ResourceMgr; Sharder, with
callers inside the pool; ResourceOpKernel over ResourceMgr; the events file with its writer, its reader and their
abstract specification; the proofs of all safety properties.

Next, the most important first:

1. ReffedStatusCallback (the last of several operations runs the callback with the first error), on top of
   RefCounted; Rendezvous::Recv composed with Notification.
2. Graph and EdgeSet (nodes, edges and their free lists; the switch from an array to a set), the presized cuckoo
   map (the chain of displaced entries), TensorSliceSet (coverage), against reference definitions.
3. The zlib streams under the records, the block format of sorted tables.
4. SubProcess (pipes and two locks), GuardedPhiloxRandom (disjoint reservations).
