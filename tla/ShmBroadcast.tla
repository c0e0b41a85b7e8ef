---------------------------- MODULE ShmBroadcast ----------------------------
(***************************************************************************)
(* The one-writer, many-reader MessageQueue of                             *)
(* vllm/distributed/device_communicators/shm_broadcast.py: a ring of       *)
(* max_chunks blocks in shared memory for the readers of the writer's      *)
(* node, a ZMQ publish socket per locality for payloads that do not fit a  *)
(* block and for the readers of other nodes, and a lossy notify socket     *)
(* that wakes parked readers.                                              *)
(*                                                                         *)
(* Memory model.  Between two memory_fence() calls the writer's stores sit *)
(* in a store buffer (pending, pendFlags) and become visible one by one,   *)
(* in any order that StoresOrdered leaves open; a fence waits until the    *)
(* buffer is empty.  Loads, and a reader's single store followed by a      *)
(* fence, take effect in program order.                                    *)
(***************************************************************************)
EXTENDS Integers, Sequences

CONSTANTS
  LocalReaders,   \* handle.local_reader_ranks: readers that map the ring
  RemoteReaders,  \* readers of other nodes, served by remote_socket only
  max_chunks,     \* blocks in the ring
  Stoppable,      \* local readers whose process may call shutdown()
  MaxMessages,    \* bound: how many objects the writer enqueues
  StoresOrdered   \* stores to one block's metadata keep program order

ASSUME ChunksAssumption  == max_chunks \in Nat \ {0}
ASSUME BoundAssumption   == MaxMessages \in Nat
ASSUME ReadersAssumption == LocalReaders \cap RemoteReaders = {}
ASSUME StopAssumption    == Stoppable \subseteq LocalReaders
ASSUME OrderAssumption   == StoresOrdered \in BOOLEAN

Readers == LocalReaders \cup RemoteReaders
Chunks  == 0 .. max_chunks - 1
\* (variant: the index is not wrapped)
Next_idx_NoWrap(idx) == idx + 1
Next_idx(idx) == (idx + 1) % max_chunks

\* Objects are numbered 0, 1, ... in the order the writer publishes them; READY
\* is the frame of the connection handshake on the same sockets.
READY    == -1
Messages == 0 .. MaxMessages - 1

VARIABLES
  \* shared memory
  written,    \* written[c]: metadata byte 0 of block c
  readFlag,   \* readFlag[c][r]: metadata byte of reader r in block c
  hdr,        \* hdr[c]: byte 0 of the block's data ("overflow" or "inline")
  body,       \* body[c]: the object serialised in the block
  \* writer process
  wpc, wIdx,  \* program point and current_idx
  overflow,   \* the object being enqueued does not fit a block
  published,  \* objects accepted so far; the next one has this number
  pending,    \* stores of the block being filled that are not yet visible
  pendFlags,  \* readers whose flag reset is not yet visible
  \* reader processes
  rpc, rIdx,  \* program point and current_idx
  obj,        \* the object loaded from the block
  shutting_down, cancelled,
  \* sockets
  subs,       \* readers whose subscription reached the publisher
  sock,       \* sock[r]: frames queued at r's SUB socket
  notified,   \* a (conflated) notification is queued at r
  \* history
  consumed,   \* ring blocks reader r has released
  got,        \* objects dequeue() returned to r, in order
  dropped     \* r timed out waiting for an overflow payload

shm     == <<written, readFlag, hdr, body>>
wvars   == <<wpc, wIdx, overflow, published, pending, pendFlags>>
rvars   == <<rpc, rIdx, obj, shutting_down, cancelled>>
netvars == <<subs, sock, notified>>
hist    == <<consumed, got, dropped>>
vars    == <<shm, wvars, rvars, netvars, hist>>

-----------------------------------------------------------------------------
(* Creation: all metadata bytes are 0, block data is whatever it was.      *)

Init ==
  /\ written = [c \in Chunks |-> 0]
  /\ readFlag = [c \in Chunks |-> [r \in LocalReaders |-> 0]]
  /\ hdr = [c \in Chunks |-> "inline"]
  /\ body = [c \in Chunks |-> READY]
  /\ wpc = "handshake" /\ wIdx = 0
  /\ overflow = FALSE /\ published = 0
  /\ pending = {} /\ pendFlags = {}
  /\ rpc = [r \in Readers |-> "connect"]
  /\ rIdx = [r \in LocalReaders |-> 0]
  /\ obj = [r \in LocalReaders |-> READY]
  /\ shutting_down = [r \in LocalReaders |-> FALSE]
  /\ cancelled = [r \in LocalReaders |-> FALSE]
  /\ subs = {}
  /\ sock = [r \in Readers |-> <<>>]
  /\ notified = [r \in LocalReaders |-> FALSE]
  /\ consumed = [r \in LocalReaders |-> 0]
  /\ got = [r \in Readers |-> <<>>]
  /\ dropped = [r \in LocalReaders |-> FALSE]

(* A publisher hands a frame to the subscriptions it knows of; a frame     *)
(* published before a reader's subscription arrives never reaches it.      *)
Publish(targets, frame) ==
  sock' = [r \in Readers |-> IF r \in targets \cap subs
                             THEN Append(sock[r], frame) ELSE sock[r]]

-----------------------------------------------------------------------------
(* wait_until_ready()                                                      *)

\* A reader connects its SUB socket (create_from_handle).
Connect(r) ==
  /\ rpc[r] = "connect"
  /\ subs' = subs \cup {r}
  /\ rpc' = [rpc EXCEPT ![r] = "hello"]
  /\ UNCHANGED <<shm, wvars, rIdx, obj, shutting_down, cancelled, sock, notified, hist>>

\* (variant: READY is published without waiting for the subscriptions)
HandshakeLocal_NoWait ==
  /\ wpc = "handshake"
  /\ Publish(LocalReaders, READY)
  /\ wpc' = "handshake_remote"
  /\ UNCHANGED <<shm, wIdx, overflow, published, pending, pendFlags, rvars, subs,
                 notified, hist>>

\* The writer has received one subscription per local reader; it publishes READY.
HandshakeLocal ==
  /\ wpc = "handshake"
  /\ LocalReaders \subseteq subs
  /\ Publish(LocalReaders, READY)
  /\ wpc' = "handshake_remote"
  /\ UNCHANGED <<shm, wIdx, overflow, published, pending, pendFlags, rvars, subs,
                 notified, hist>>

HandshakeRemote ==
  /\ wpc = "handshake_remote"
  /\ RemoteReaders \subseteq subs
  /\ Publish(RemoteReaders, READY)
  /\ wpc' = "idle"
  /\ UNCHANGED <<shm, wIdx, overflow, published, pending, pendFlags, rvars, subs,
                 notified, hist>>

\* The reader takes the first frame, which it asserts to be READY.
RecvReady(r) ==
  /\ rpc[r] = "hello"
  /\ sock[r] # <<>>
  /\ sock' = [sock EXCEPT ![r] = Tail(@)]
  /\ rpc' = [rpc EXCEPT ![r] = "idle"]
  /\ UNCHANGED <<shm, wvars, rIdx, obj, shutting_down, cancelled, subs, notified, hist>>

-----------------------------------------------------------------------------
(* Writer: enqueue() and acquire_write()                                   *)

\* enqueue(obj): the object is serialised and found to fit a block or not.
Enqueue(over) ==
  /\ wpc = "idle"
  /\ published < MaxMessages
  /\ overflow' = over
  /\ IF LocalReaders # {}
     THEN wpc' = "acquire" /\ UNCHANGED published
     ELSE wpc' = "remote" /\ published' = published + 1
  /\ UNCHANGED <<shm, wIdx, pending, pendFlags, rvars, netvars, hist>>

\* (variant: one reader having read the block is enough)
WriteReady_AnyReader ==
  ~ (written[wIdx] = 1 /\ \A r \in LocalReaders : readFlag[wIdx][r] = 0)

\* (variant: a block read by everybody is not recognised as free)
WriteReady_OnlyFresh == written[wIdx] = 0

\* check() of acquire_write: the block is unwritten, or read by everybody.
WriteReady ==
  ~ (written[wIdx] = 1 /\ \E r \in LocalReaders : readFlag[wIdx][r] = 0)

\* The writer takes the block: written flag := 0, the caller's data, read flags := 0.
\* None of these stores is visible yet.
AcquireWrite ==
  /\ wpc = "acquire"
  /\ WriteReady
  /\ pending' = {"unmark", "hdr"} \cup (IF overflow THEN {} ELSE {"body"})
  /\ pendFlags' = LocalReaders
  /\ wpc' = "fence"
  /\ UNCHANGED <<shm, wIdx, overflow, published, rvars, netvars, hist>>

\* enqueue(timeout) gives up while the block is unread; the object is not sent at all.
AcquireTimeout ==
  /\ wpc = "acquire"
  /\ ~ WriteReady
  /\ wpc' = "idle"
  /\ UNCHANGED <<shm, wIdx, overflow, published, pending, pendFlags, rvars, netvars, hist>>

\* The store buffer drains.
DrainUnmark ==
  /\ "unmark" \in pending
  /\ pending' = pending \ {"unmark"}
  /\ written' = [written EXCEPT ![wIdx] = 0]
  /\ UNCHANGED <<readFlag, hdr, body, wpc, wIdx, overflow, published, pendFlags,
                 rvars, netvars, hist>>

DrainHdr ==
  /\ "hdr" \in pending
  /\ pending' = pending \ {"hdr"}
  /\ hdr' = [hdr EXCEPT ![wIdx] = IF overflow THEN "overflow" ELSE "inline"]
  /\ UNCHANGED <<written, readFlag, body, wpc, wIdx, overflow, published, pendFlags,
                 rvars, netvars, hist>>

DrainBody ==
  /\ "body" \in pending
  /\ pending' = pending \ {"body"}
  /\ body' = [body EXCEPT ![wIdx] = published]
  /\ UNCHANGED <<written, readFlag, hdr, wpc, wIdx, overflow, published, pendFlags,
                 rvars, netvars, hist>>

DrainFlag(r) ==
  /\ r \in pendFlags
  /\ StoresOrdered => "unmark" \notin pending
  /\ pendFlags' = pendFlags \ {r}
  /\ readFlag' = [readFlag EXCEPT ![wIdx][r] = 0]
  /\ UNCHANGED <<written, hdr, body, wpc, wIdx, overflow, published, pending,
                 rvars, netvars, hist>>

\* (variant: the fence before the written flag is missing)
PublishBlock_NoFence ==
  /\ wpc = "fence"
  /\ pendFlags = {} /\ "unmark" \notin pending
  /\ written' = [written EXCEPT ![wIdx] = 1]
  /\ wIdx' = Next_idx(wIdx)
  /\ published' = published + 1
  /\ pending' = {}
  /\ wpc' = IF overflow THEN "send" ELSE "notify"
  /\ UNCHANGED <<readFlag, hdr, body, overflow, pendFlags, rvars, netvars, hist>>

\* Both fences around the store written flag := 1.
PublishBlock ==
  /\ wpc = "fence"
  /\ pending = {} /\ pendFlags = {}
  /\ written' = [written EXCEPT ![wIdx] = 1]
  /\ wIdx' = Next_idx(wIdx)
  /\ published' = published + 1
  /\ wpc' = IF overflow THEN "send" ELSE "notify"
  /\ UNCHANGED <<readFlag, hdr, body, overflow, pending, pendFlags, rvars, netvars, hist>>

\* local_socket.send_multipart, after the block has been published.
SendOverflow ==
  /\ wpc = "send"
  /\ Publish(LocalReaders, published - 1)
  /\ wpc' = "notify"
  /\ UNCHANGED <<shm, wIdx, overflow, published, pending, pendFlags, rvars, subs,
                 notified, hist>>

\* notify(): the PUB socket (SNDHWM 1) drops for any reader it cannot take; the
\* reader keeps one notification at most (CONFLATE).
Notify ==
  /\ wpc = "notify"
  /\ \E woken \in SUBSET LocalReaders :
       notified' = [r \in LocalReaders |-> notified[r] \/ r \in woken]
  /\ wpc' = IF RemoteReaders # {} THEN "remote" ELSE "idle"
  /\ UNCHANGED <<shm, wIdx, overflow, published, pending, pendFlags, rvars, subs, sock, hist>>

SendRemote ==
  /\ wpc = "remote"
  /\ Publish(RemoteReaders, published - 1)
  /\ wpc' = "idle"
  /\ UNCHANGED <<shm, wIdx, overflow, published, pending, pendFlags, rvars, subs,
                 notified, hist>>

-----------------------------------------------------------------------------
(* Readers: dequeue() and acquire_read()                                   *)

Goto(r, from, to) ==
  /\ rpc[r] = from
  /\ rpc' = [rpc EXCEPT ![r] = to]

StartDequeue(r) ==
  /\ Goto(r, "idle", IF r \in LocalReaders THEN "check" ELSE "recv")
  /\ UNCHANGED <<shm, wvars, rIdx, obj, shutting_down, cancelled, netvars, hist>>

\* (variant: the reader looks at the written flag only)
LoadReadFlag_Ignored(r) ==
  /\ Goto(r, "check", "unread")
  /\ UNCHANGED <<shm, wvars, rIdx, obj, shutting_down, cancelled, netvars, hist>>

\* check() of acquire_read loads its own read flag first, ...
LoadReadFlag(r) ==
  /\ Goto(r, "check", IF readFlag[rIdx[r]][r] = 0 THEN "unread" ELSE "wait")
  /\ UNCHANGED <<shm, wvars, rIdx, obj, shutting_down, cancelled, netvars, hist>>

\* ... then the written flag.
LoadWritten(r) ==
  /\ Goto(r, "unread", IF written[rIdx[r]] = 1 THEN "hdr" ELSE "wait")
  /\ UNCHANGED <<shm, wvars, rIdx, obj, shutting_down, cancelled, netvars, hist>>

\* (variant: shutting_down is not looked at after a wait)
AfterWait_NoCheck(r) == "check"

AfterWait(r) == IF shutting_down[r] THEN "stopped" ELSE "check"

\* SpinCondition.wait soon after a read: yield the processor and look again.
SpinYield(r) ==
  /\ Goto(r, "wait", AfterWait(r))
  /\ UNCHANGED <<shm, wvars, rIdx, obj, shutting_down, cancelled, netvars, hist>>

\* SpinCondition.wait after busy_loop_s without a read: poll the sockets.
Park(r) ==
  /\ Goto(r, "wait", "parked")
  /\ UNCHANGED <<shm, wvars, rIdx, obj, shutting_down, cancelled, netvars, hist>>

\* A cancel frame is never taken off its socket, a notification is.
WakeCancel(r) ==
  /\ cancelled[r]
  /\ Goto(r, "parked", AfterWait(r))
  /\ UNCHANGED <<shm, wvars, rIdx, obj, shutting_down, cancelled, netvars, hist>>

WakeNotify(r) ==
  /\ notified[r] /\ ~ cancelled[r]
  /\ Goto(r, "parked", AfterWait(r))
  /\ notified' = [notified EXCEPT ![r] = FALSE]
  /\ UNCHANGED <<shm, wvars, rIdx, obj, shutting_down, cancelled, subs, sock, hist>>

\* (variant: the poll has no time limit, only a notification ends it)
WakeRecheck_Never(r) ==
  /\ notified[r]
  /\ Goto(r, "parked", AfterWait(r))
  /\ UNCHANGED <<shm, wvars, rIdx, obj, shutting_down, cancelled, netvars, hist>>

\* The poll lasts at most SHM_READER_RECHECK_INTERVAL_MS.
WakeRecheck(r) ==
  /\ Goto(r, "parked", AfterWait(r))
  /\ UNCHANGED <<shm, wvars, rIdx, obj, shutting_down, cancelled, netvars, hist>>

\* timeout_ms() raises TimeoutError past the deadline of dequeue(timeout).
DequeueTimeout(r) ==
  /\ Goto(r, "wait", "idle")
  /\ UNCHANGED <<shm, wvars, rIdx, obj, shutting_down, cancelled, netvars, hist>>

ReadHeader(r) ==
  /\ Goto(r, "hdr", IF hdr[rIdx[r]] = "overflow" THEN "mark_overflow" ELSE "body")
  /\ UNCHANGED <<shm, wvars, rIdx, obj, shutting_down, cancelled, netvars, hist>>

ReadBody(r) ==
  /\ Goto(r, "body", "mark")
  /\ obj' = [obj EXCEPT ![r] = body[rIdx[r]]]
  /\ UNCHANGED <<shm, wvars, rIdx, shutting_down, cancelled, netvars, hist>>

\* End of acquire_read: own read flag := 1, fence, next block.
ReleaseBlock(r) ==
  /\ readFlag' = [readFlag EXCEPT ![rIdx[r]][r] = 1]
  /\ rIdx' = [rIdx EXCEPT ![r] = Next_idx(@)]
  /\ consumed' = [consumed EXCEPT ![r] = @ + 1]

\* An inline object is returned, ...
ReturnInline(r) ==
  /\ Goto(r, "mark", "idle")
  /\ ReleaseBlock(r)
  /\ got' = [got EXCEPT ![r] = Append(@, obj[r])]
  /\ UNCHANGED <<written, hdr, body, wvars, obj, shutting_down, cancelled, netvars, dropped>>

\* ... an overflow payload is awaited after the block has been released.
AwaitOverflow(r) ==
  /\ Goto(r, "mark_overflow", "recv")
  /\ ReleaseBlock(r)
  /\ UNCHANGED <<written, hdr, body, wvars, obj, shutting_down, cancelled, netvars,
                 got, dropped>>

\* MessageQueue.recv, of an overflow payload or at a remote reader.
Recv(r) ==
  /\ Goto(r, "recv", "idle")
  /\ sock[r] # <<>>
  /\ sock' = [sock EXCEPT ![r] = Tail(@)]
  /\ got' = [got EXCEPT ![r] = Append(@, Head(sock[r]))]
  /\ UNCHANGED <<shm, wvars, rIdx, obj, shutting_down, cancelled, subs, notified,
                 consumed, dropped>>

\* The payload is not there (or still in flight) at the deadline.
RecvTimeout(r) ==
  /\ Goto(r, "recv", "idle")
  /\ dropped' = [q \in LocalReaders |-> dropped[q] \/ q = r]
  /\ UNCHANGED <<shm, wvars, rIdx, obj, shutting_down, cancelled, netvars, consumed, got>>

\* shutdown(), called from a monitor thread of the reader's process: the flag,
\* then the cancel frame.
Shutdown(r) ==
  /\ r \in Stoppable
  /\ ~ shutting_down[r]
  /\ rpc[r] \notin {"connect", "hello"}
  /\ shutting_down' = [shutting_down EXCEPT ![r] = TRUE]
  /\ UNCHANGED <<shm, wvars, rpc, rIdx, obj, cancelled, netvars, hist>>

Cancel(r) ==
  /\ shutting_down[r] /\ ~ cancelled[r]
  /\ cancelled' = [cancelled EXCEPT ![r] = TRUE]
  /\ UNCHANGED <<shm, wvars, rpc, rIdx, obj, shutting_down, netvars, hist>>

-----------------------------------------------------------------------------
Drain == DrainUnmark \/ DrainHdr \/ DrainBody \/ \E r \in LocalReaders : DrainFlag(r)

WriterStep ==
  \/ HandshakeLocal \/ HandshakeRemote
  \/ AcquireWrite \/ PublishBlock \/ SendOverflow \/ Notify \/ SendRemote

Wake(r) == WakeCancel(r) \/ WakeNotify(r) \/ WakeRecheck(r)

LocalStep(r) ==
  \/ LoadReadFlag(r) \/ LoadWritten(r) \/ SpinYield(r) \/ Park(r) \/ Wake(r)
  \/ ReadHeader(r) \/ ReadBody(r) \/ ReturnInline(r) \/ AwaitOverflow(r)

ReaderStep(r) ==
  \/ Connect(r) \/ RecvReady(r) \/ StartDequeue(r) \/ Recv(r)
  \/ r \in LocalReaders /\ LocalStep(r)

Next ==
  \/ WriterStep \/ Drain \/ AcquireTimeout
  \/ \E over \in BOOLEAN : Enqueue(over)
  \/ \E r \in Readers : ReaderStep(r) \/ RecvTimeout(r)
  \/ \E r \in LocalReaders : DequeueTimeout(r) \/ Shutdown(r) \/ Cancel(r)

\* Both processes keep running, stores become visible, the poll's timer fires and
\* ZMQ delivers; nobody has to enqueue, to time out or to shut down, but shutdown()
\* once entered goes through.
Fairness ==
  /\ WF_vars(WriterStep) /\ WF_vars(Drain)
  /\ \A r \in Readers : WF_vars(ReaderStep(r))
  /\ \A r \in LocalReaders : WF_vars(Cancel(r))

Spec     == Init /\ [][Next]_vars
FairSpec == Spec /\ Fairness
-----------------------------------------------------------------------------
(* Properties                                                              *)

WriterPoints == {"handshake", "handshake_remote", "idle", "acquire", "fence", "send",
                 "notify", "remote"}
ReaderPoints == {"connect", "hello", "idle", "check", "unread", "wait", "parked", "hdr",
                 "body", "mark", "mark_overflow", "recv", "stopped"}
Frames == Messages \cup {READY}

MemoryTypeOK ==
  /\ written \in [Chunks -> {0, 1}]
  /\ readFlag \in [Chunks -> [LocalReaders -> {0, 1}]]
  /\ hdr \in [Chunks -> {"inline", "overflow"}]
  /\ body \in [Chunks -> Frames]

WriterTypeOK ==
  /\ wpc \in WriterPoints /\ wIdx \in Chunks
  /\ published \in 0 .. MaxMessages
  /\ pending \subseteq {"unmark", "hdr", "body"} /\ pendFlags \subseteq LocalReaders

ReaderTypeOK ==
  /\ rpc \in [Readers -> ReaderPoints]
  /\ rIdx \in [LocalReaders -> Chunks]
  /\ obj \in [LocalReaders -> Frames]
  /\ consumed \in [LocalReaders -> Nat]

SocketTypeOK ==
  /\ subs \subseteq Readers
  /\ sock \in [Readers -> Seq(Frames)]
  /\ got \in [Readers -> Seq(Frames)]

FlagTypeOK ==
  /\ overflow \in BOOLEAN
  /\ shutting_down \in [LocalReaders -> BOOLEAN]
  /\ cancelled \in [LocalReaders -> BOOLEAN]
  /\ notified \in [LocalReaders -> BOOLEAN]
  /\ dropped \in [LocalReaders -> BOOLEAN]

\* The types of the state.
TypeOK == MemoryTypeOK /\ WriterTypeOK /\ ReaderTypeOK /\ SocketTypeOK /\ FlagTypeOK

InBlock(r) == rpc[r] \in {"hdr", "body", "mark", "mark_overflow"}

\* A reader that check() has let into a block never shares it with the writer
\* refilling it: acquire_write and acquire_read exclude each other per block.
BlockExclusion ==
  \A r \in LocalReaders : InBlock(r) /\ wpc = "fence" => rIdx[r] # wIdx

\* dequeue() returns the enqueued objects in order, none lost, repeated or torn, at
\* every reader, as long as no local wait for an overflow payload has timed out.
InOrder ==
  \A r \in Readers :
    (r \in LocalReaders => ~ dropped[r]) =>
      \A i \in 1 .. Len(got[r]) : got[r][i] = i - 1

\* What a reader takes out of a block is the next object it is owed, whole: the
\* fence in acquire_write orders the data before the written flag.
BlockIntact ==
  \A r \in LocalReaders : rpc[r] = "mark" => obj[r] = consumed[r]

\* wait_until_ready's assertion: the first frame a reader takes is READY.
ReadyFirst ==
  \A r \in Readers : rpc[r] = "hello" /\ sock[r] # <<>> => Head(sock[r]) = READY

\* The ring implements the bounded broadcast log.
BQ == INSTANCE BroadcastQueue
        WITH Consumers <- LocalReaders, Capacity <- max_chunks,
             tail <- published, position <- consumed

BoundedLog == BQ!Spec

\* A published object is consumed by every local reader that is not shut down, even
\* if every notification is lost.
EveryMessageConsumed ==
  \A r \in LocalReaders : \A n \in Messages :
    published > n ~> consumed[r] > n \/ shutting_down[r]

\* shutdown() gets a reader out of dequeue(), parked or not.
ShutdownCompletes ==
  \A r \in LocalReaders : shutting_down[r] ~> rpc[r] \in {"idle", "stopped"}

\* A writer waiting for a block gets it, unless some reader was shut down.
EnqueueCompletes ==
  wpc = "acquire" ~> wpc # "acquire" \/ \E r \in LocalReaders : shutting_down[r]
=============================================================================
