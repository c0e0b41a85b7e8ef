------------------------- MODULE ShmBroadcastProofs -------------------------
(***************************************************************************)
(* Proofs about ShmBroadcast for any sets of readers, any ring size and    *)
(* any number of objects.                                                  *)
(***************************************************************************)
EXTENDS ShmBroadcast, TLAPS

(* What TypeOK needs besides itself: the stores in the buffer belong to a  *)
(* block being filled, and the object counter respects its bound.          *)
CountInv ==
  /\ wpc \in {"acquire", "fence"} => published < MaxMessages
  /\ wpc \in {"send", "notify", "remote"} => published > 0
  /\ pending # {} \/ pendFlags # {} => wpc = "fence"

TypeInv == TypeOK /\ CountInv

(* The ring index advances by one and wraps.                               *)
LEMMA NextIdx ==
  ASSUME NEW i \in Chunks
  PROVE  Next_idx(i) = IF i = max_chunks - 1 THEN 0 ELSE i + 1
BY ChunksAssumption, SMT DEF Next_idx, Chunks

LEMMA NextIdxType ==
  ASSUME NEW i \in Chunks PROVE Next_idx(i) \in Chunks
BY NextIdx, ChunksAssumption DEF Chunks

(* Publishing a frame keeps the sockets' queues queues of frames.          *)
LEMMA PublishType ==
  ASSUME sock \in [Readers -> Seq(Frames)], NEW f \in Frames, NEW T, Publish(T, f)
  PROVE  sock' \in [Readers -> Seq(Frames)]
BY DEF Publish

LEMMA InitType == Init => TypeInv
<1> SUFFICES ASSUME Init PROVE TypeInv
  OBVIOUS
<1>1. 0 \in Chunks
  BY ChunksAssumption DEF Chunks
<1>2. READY \in Frames
  BY DEF Frames
<1>3. MemoryTypeOK
  BY <1>2 DEF Init, MemoryTypeOK
<1>4. WriterTypeOK
  BY <1>1, BoundAssumption DEF Init, WriterTypeOK, WriterPoints
<1>5. ReaderTypeOK
  BY <1>1, <1>2 DEF Init, ReaderTypeOK, ReaderPoints
<1>6. SocketTypeOK
  BY DEF Init, SocketTypeOK
<1>7. FlagTypeOK
  BY Zenon DEF Init, FlagTypeOK
<1>8. CountInv
  BY DEF Init, CountInv
<1> QED
  BY <1>3, <1>4, <1>5, <1>6, <1>7, <1>8 DEF TypeInv, TypeOK
-----------------------------------------------------------------------------
(* Which actions touch which part of the state.                            *)

LEMMA MemoryFrame ==
  [Next]_vars =>
    \/ UNCHANGED shm
    \/ DrainUnmark \/ DrainHdr \/ DrainBody \/ PublishBlock
    \/ \E r \in LocalReaders : DrainFlag(r) \/ ReturnInline(r) \/ AwaitOverflow(r)
BY DEF Next, WriterStep, Drain, ReaderStep, LocalStep, Wake, vars, HandshakeLocal,
  HandshakeRemote, AcquireWrite, SendOverflow, Notify, SendRemote, AcquireTimeout,
  Connect, RecvReady, StartDequeue, Recv, RecvTimeout, LoadReadFlag, LoadWritten,
  SpinYield, Park, WakeCancel, WakeNotify, WakeRecheck, ReadHeader, ReadBody,
  DequeueTimeout, Shutdown, Cancel, Enqueue

LEMMA WriterFrame ==
  [Next]_vars =>
    \/ UNCHANGED wvars
    \/ HandshakeLocal \/ HandshakeRemote \/ (\E over \in BOOLEAN : Enqueue(over))
    \/ AcquireWrite \/ AcquireTimeout \/ DrainUnmark \/ DrainHdr \/ DrainBody
    \/ (\E r \in LocalReaders : DrainFlag(r))
    \/ PublishBlock \/ SendOverflow \/ Notify \/ SendRemote
BY DEF Next, WriterStep, Drain, ReaderStep, LocalStep, Wake, vars, Connect, RecvReady,
  StartDequeue, Recv, RecvTimeout, LoadReadFlag, LoadWritten, SpinYield, Park,
  WakeCancel, WakeNotify, WakeRecheck, ReadHeader, ReadBody, ReturnInline,
  AwaitOverflow, DequeueTimeout, Shutdown, Cancel

LEMMA SocketFrame ==
  [Next]_vars =>
    \/ UNCHANGED <<subs, sock, got>>
    \/ HandshakeLocal \/ HandshakeRemote \/ SendOverflow \/ SendRemote
    \/ (\E r \in Readers : Connect(r) \/ RecvReady(r) \/ Recv(r))
    \/ \E r \in LocalReaders : ReturnInline(r)
BY DEF Next, WriterStep, Drain, ReaderStep, LocalStep, Wake, vars, netvars, hist,
  AcquireWrite, Notify, AcquireTimeout, StartDequeue, RecvTimeout, LoadReadFlag,
  LoadWritten, SpinYield, Park, WakeCancel, WakeNotify, WakeRecheck, ReadHeader,
  ReadBody, AwaitOverflow, DequeueTimeout, Shutdown, Cancel, Enqueue, DrainUnmark,
  DrainHdr, DrainBody, DrainFlag, PublishBlock

LEMMA FlagFrame ==
  [Next]_vars =>
    \/ UNCHANGED <<overflow, shutting_down, cancelled, notified, dropped>>
    \/ (\E over \in BOOLEAN : Enqueue(over)) \/ Notify
    \/ (\E r \in Readers : RecvTimeout(r))
    \/ \E r \in LocalReaders : WakeNotify(r) \/ Shutdown(r) \/ Cancel(r)
BY DEF Next, WriterStep, Drain, ReaderStep, LocalStep, Wake, vars, wvars, rvars,
  netvars, hist, HandshakeLocal, HandshakeRemote, AcquireWrite, SendOverflow,
  SendRemote, AcquireTimeout, Connect, RecvReady, StartDequeue, Recv, LoadReadFlag,
  LoadWritten, SpinYield, Park, WakeCancel, WakeRecheck, ReadHeader, ReadBody,
  DequeueTimeout, DrainUnmark, DrainHdr, DrainBody, DrainFlag, PublishBlock,
  ReturnInline, AwaitOverflow

(* A reader moves between program points one at a time; its index, its     *)
(* counter and the object it holds change in three actions only.           *)
LEMMA PointFrame ==
  [Next]_vars =>
    \/ UNCHANGED rpc
    \/ \E r \in Readers : \E p \in ReaderPoints : rpc' = [rpc EXCEPT ![r] = p]
BY DEF Next, WriterStep, Drain, ReaderStep, LocalStep, Wake, vars, rvars, Goto,
  AfterWait, ReaderPoints, Readers, HandshakeLocal, HandshakeRemote, AcquireWrite,
  SendOverflow, Notify, SendRemote, AcquireTimeout, Connect, RecvReady, StartDequeue,
  Recv, RecvTimeout, LoadReadFlag, LoadWritten, SpinYield, Park, WakeCancel,
  WakeNotify, WakeRecheck, ReadHeader, ReadBody, DequeueTimeout, Shutdown, Cancel,
  Enqueue, DrainUnmark, DrainHdr, DrainBody, DrainFlag, PublishBlock, ReturnInline,
  AwaitOverflow

LEMMA ReaderFrame ==
  [Next]_vars =>
    \/ UNCHANGED <<rIdx, obj, consumed>>
    \/ \E r \in LocalReaders : ReadBody(r) \/ ReturnInline(r) \/ AwaitOverflow(r)
BY DEF Next, WriterStep, Drain, ReaderStep, LocalStep, Wake, vars, rvars, hist,
  HandshakeLocal, HandshakeRemote, AcquireWrite, SendOverflow, Notify, SendRemote,
  AcquireTimeout, Connect, RecvReady, StartDequeue, Recv, RecvTimeout, LoadReadFlag,
  LoadWritten, SpinYield, Park, WakeCancel, WakeNotify, WakeRecheck, ReadHeader,
  DequeueTimeout, Shutdown, Cancel, Enqueue, DrainUnmark, DrainHdr, DrainBody,
  DrainFlag, PublishBlock

-----------------------------------------------------------------------------
(* Type correctness, part by part.                                         *)

LEMMA NextType == TypeInv /\ [Next]_vars => TypeInv'
<1> SUFFICES ASSUME TypeInv, [Next]_vars PROVE TypeInv'
  OBVIOUS
<1> USE DEF TypeInv, TypeOK
<1>1. MemoryTypeOK'
  <2>1. CASE UNCHANGED shm
    BY <2>1 DEF MemoryTypeOK, shm
  <2>2. CASE DrainUnmark
    BY <2>2 DEF DrainUnmark, MemoryTypeOK
  <2>3. CASE DrainHdr
    BY <2>3 DEF DrainHdr, MemoryTypeOK
  <2>4. CASE DrainBody
    <3>1. published \in Frames
      BY <2>4, BoundAssumption DEF DrainBody, CountInv, WriterTypeOK, Frames, Messages
    <3> QED
      BY <2>4, <3>1 DEF DrainBody, MemoryTypeOK
  <2>5. CASE PublishBlock
    BY <2>5 DEF PublishBlock, MemoryTypeOK
  <2>6. ASSUME NEW r \in LocalReaders, DrainFlag(r) PROVE MemoryTypeOK'
    BY <2>6 DEF DrainFlag, MemoryTypeOK
  <2>7. ASSUME NEW r \in LocalReaders, ReturnInline(r) PROVE MemoryTypeOK'
    BY <2>7 DEF ReturnInline, ReleaseBlock, MemoryTypeOK
  <2>8. ASSUME NEW r \in LocalReaders, AwaitOverflow(r) PROVE MemoryTypeOK'
    BY <2>8 DEF AwaitOverflow, ReleaseBlock, MemoryTypeOK
  <2> QED
    BY <2>1, <2>2, <2>3, <2>4, <2>5, <2>6, <2>7, <2>8, MemoryFrame
<1>2. WriterTypeOK' /\ CountInv'
  <2> USE DEF WriterTypeOK, WriterPoints, CountInv
  <2>1. CASE UNCHANGED wvars
    BY <2>1 DEF wvars
  <2>2. CASE HandshakeLocal
    BY <2>2 DEF HandshakeLocal
  <2>3. CASE HandshakeRemote
    BY <2>3 DEF HandshakeRemote
  <2>4. ASSUME NEW over \in BOOLEAN, Enqueue(over) PROVE WriterTypeOK' /\ CountInv'
    BY <2>4, BoundAssumption DEF Enqueue
  <2>5. CASE AcquireWrite
    BY <2>5 DEF AcquireWrite
  <2>6. CASE AcquireTimeout
    BY <2>6 DEF AcquireTimeout
  <2>7. CASE DrainUnmark
    BY <2>7 DEF DrainUnmark
  <2>8. CASE DrainHdr
    BY <2>8 DEF DrainHdr
  <2>9. CASE DrainBody
    BY <2>9 DEF DrainBody
  <2>10. ASSUME NEW r \in LocalReaders, DrainFlag(r) PROVE WriterTypeOK' /\ CountInv'
    BY <2>10 DEF DrainFlag
  <2>11. CASE PublishBlock
    BY <2>11, NextIdxType, BoundAssumption DEF PublishBlock
  <2>12. CASE SendOverflow
    BY <2>12 DEF SendOverflow
  <2>13. CASE Notify
    BY <2>13 DEF Notify
  <2>14. CASE SendRemote
    BY <2>14 DEF SendRemote
  <2> QED
    BY <2>1, <2>2, <2>3, <2>4, <2>5, <2>6, <2>7, <2>8, <2>9, <2>10, <2>11, <2>12,
       <2>13, <2>14, WriterFrame
<1>3. ReaderTypeOK'
  <2>1. rpc' \in [Readers -> ReaderPoints]
    BY PointFrame DEF ReaderTypeOK
  <2> DEFINE OwnTypeOK == /\ rIdx \in [LocalReaders -> Chunks]
                          /\ obj \in [LocalReaders -> Frames]
                          /\ consumed \in [LocalReaders -> Nat]
  <2>2. OwnTypeOK'
    <3>1. CASE UNCHANGED <<rIdx, obj, consumed>>
      BY <3>1 DEF ReaderTypeOK
    <3>2. ASSUME NEW r \in LocalReaders, ReadBody(r) PROVE OwnTypeOK'
      BY <3>2 DEF ReadBody, ReaderTypeOK, MemoryTypeOK, hist
    <3>3. ASSUME NEW r \in LocalReaders, ReturnInline(r) \/ AwaitOverflow(r)
          PROVE  OwnTypeOK'
      <4>1. Next_idx(rIdx[r]) \in Chunks
        BY NextIdxType DEF ReaderTypeOK
      <4>2. UNCHANGED obj
        BY <3>3 DEF ReturnInline, AwaitOverflow
      <4>3. ReleaseBlock(r)
        BY <3>3 DEF ReturnInline, AwaitOverflow
      <4> QED
        BY <4>1, <4>2, <4>3 DEF ReleaseBlock, ReaderTypeOK
    <3> QED
      <4> HIDE DEF OwnTypeOK
      <4> QED
        BY <3>1, <3>2, <3>3, ReaderFrame
  <2> QED
    BY <2>1, <2>2 DEF ReaderTypeOK
<1>4. SocketTypeOK'
  <2> USE DEF SocketTypeOK
  <2>1. CASE UNCHANGED <<subs, sock, got>>
    BY <2>1
  <2>2. CASE HandshakeLocal \/ HandshakeRemote
    <3>1. READY \in Frames
      BY DEF Frames
    <3> QED
      BY <2>2, <3>1, PublishType DEF HandshakeLocal, HandshakeRemote, hist
  <2>3. CASE SendOverflow \/ SendRemote
    <3>1. published - 1 \in Frames
      BY <2>3, BoundAssumption
      DEF SendOverflow, SendRemote, CountInv, WriterTypeOK, Frames, Messages
    <3> QED
      BY <2>3, <3>1, PublishType DEF SendOverflow, SendRemote, hist
  <2>4. ASSUME NEW r \in Readers, Connect(r) PROVE SocketTypeOK'
    BY <2>4 DEF Connect, hist
  <2>5. ASSUME NEW r \in Readers, RecvReady(r) PROVE SocketTypeOK'
    BY <2>5 DEF RecvReady, hist
  <2>6. ASSUME NEW r \in Readers, Recv(r) PROVE SocketTypeOK'
    <3>1. Head(sock[r]) \in Frames /\ Tail(sock[r]) \in Seq(Frames)
      BY <2>6 DEF Recv
    <3> QED
      BY <2>6, <3>1 DEF Recv
  <2>7. ASSUME NEW r \in LocalReaders, ReturnInline(r) PROVE SocketTypeOK'
    <3>1. obj[r] \in Frames /\ r \in Readers
      BY DEF ReaderTypeOK, Readers
    <3> QED
      BY <2>7, <3>1 DEF ReturnInline, netvars
  <2> QED
    BY <2>1, <2>2, <2>3, <2>4, <2>5, <2>6, <2>7, SocketFrame
<1>5. FlagTypeOK'
  <2> USE DEF FlagTypeOK
  <2>1. CASE UNCHANGED <<overflow, shutting_down, cancelled, notified, dropped>>
    BY <2>1
  <2>2. ASSUME NEW over \in BOOLEAN, Enqueue(over) PROVE FlagTypeOK'
    BY <2>2 DEF Enqueue, rvars, netvars, hist
  <2>3. CASE Notify
    BY <2>3, Zenon DEF Notify, rvars, hist
  <2>4. ASSUME NEW r \in Readers, RecvTimeout(r) PROVE FlagTypeOK'
    BY <2>4, Zenon DEF RecvTimeout, wvars, netvars
  <2>5. ASSUME NEW r \in LocalReaders, WakeNotify(r) PROVE FlagTypeOK'
    BY <2>5 DEF WakeNotify, wvars, hist
  <2>6. ASSUME NEW r \in LocalReaders, Shutdown(r) PROVE FlagTypeOK'
    BY <2>6 DEF Shutdown, wvars, netvars, hist
  <2>7. ASSUME NEW r \in LocalReaders, Cancel(r) PROVE FlagTypeOK'
    BY <2>7 DEF Cancel, wvars, netvars, hist
  <2> QED
    BY <2>1, <2>2, <2>3, <2>4, <2>5, <2>6, <2>7, FlagFrame
<1> QED
  BY <1>1, <1>2, <1>3, <1>4, <1>5

(* Every variable keeps its type: indices stay inside the ring, counters   *)
(* inside their bound, sockets and results are sequences of frames.        *)
THEOREM TypeCorrect == Spec => []TypeOK
<1>1. Init => TypeInv
  BY InitType
<1>2. TypeInv /\ [Next]_vars => TypeInv'
  BY NextType
<1>3. TypeInv => TypeOK
  BY DEF TypeInv
<1> QED
  BY <1>1, <1>2, <1>3, PTL DEF Spec

-----------------------------------------------------------------------------
(***************************************************************************)
(* The ring invariant, free of modular arithmetic.  ObjectIn(c) is the     *)
(* number of the object block c holds (negative: none yet), Lag(r) how     *)
(* many objects reader r is behind.                                        *)
(***************************************************************************)
Lag(r) == published - consumed[r]

ObjectIn(c) ==
  IF c < wIdx THEN published - wIdx + c ELSE published - wIdx + c - max_chunks

Filling(c) == wpc = "fence" /\ c = wIdx

\* A reader's index follows from the writer's and from its lag.
PositionInv ==
  \A r \in LocalReaders :
    /\ Lag(r) \in 0 .. max_chunks
    /\ wpc = "fence" => Lag(r) < max_chunks
    /\ rIdx[r] = IF Lag(r) <= wIdx THEN wIdx - Lag(r) ELSE wIdx - Lag(r) + max_chunks

\* A block that is not being refilled holds its object, and its flags say who read it.
BlockInv ==
  \A r \in LocalReaders : \A c \in Chunks :
    ~ Filling(c) =>
      /\ ObjectIn(c) >= 0 => /\ written[c] = 1
                             /\ readFlag[c][r] = 1 <=> consumed[r] > ObjectIn(c)
                             /\ hdr[c] = "inline" => body[c] = ObjectIn(c)
      /\ ObjectIn(c) < 0 => written[c] = 0

\* The block being refilled, as far as its stores have become visible.
FillInv ==
  wpc = "fence" =>
    \A r \in LocalReaders :
      /\ "unmark" \notin pending => written[wIdx] = 0
      /\ "unmark" \in pending => r \in pendFlags
      /\ written[wIdx] = 1 => readFlag[wIdx][r] = 1
      /\ r \notin pendFlags => readFlag[wIdx][r] = 0
      /\ "hdr" \notin pending => hdr[wIdx] = IF overflow THEN "overflow" ELSE "inline"
      /\ "body" \notin pending /\ ~ overflow => body[wIdx] = published

\* A reader past check() has not read its block yet, and the block is published.
ReaderInv ==
  \A r \in LocalReaders :
    /\ rpc[r] = "unread" \/ InBlock(r) => readFlag[rIdx[r]][r] = 0
    /\ InBlock(r) => consumed[r] < published
    /\ rpc[r] = "body" => hdr[rIdx[r]] = "inline"
    /\ rpc[r] = "mark" => obj[r] = consumed[r]

RingInv == PositionInv /\ BlockInv /\ FillInv /\ ReaderInv

LEMMA InitRing == Init => RingInv
<1> SUFFICES ASSUME Init PROVE RingInv
  OBVIOUS
<1> USE ChunksAssumption DEF Init, Lag
<1>1. PositionInv
  <2> SUFFICES ASSUME NEW r \in LocalReaders
               PROVE  /\ Lag(r) \in 0 .. max_chunks
                      /\ wpc = "fence" => Lag(r) < max_chunks
                      /\ rIdx[r] = IF Lag(r) <= wIdx THEN wIdx - Lag(r)
                                   ELSE wIdx - Lag(r) + max_chunks
    BY DEF PositionInv
  <2>1. Lag(r) = 0 /\ rIdx[r] = 0
    OBVIOUS
  <2> QED
    BY <2>1
<1>2. BlockInv
  BY DEF BlockInv, ObjectIn, Chunks
<1>3. FillInv
  BY DEF FillInv
<1>4. ReaderInv
  BY DEF ReaderInv, InBlock, Readers
<1> QED
  BY <1>1, <1>2, <1>3, <1>4 DEF RingInv

(* The object a reader is owed next sits in its current block.             *)
LEMMA ReaderBlock ==
  ASSUME TypeInv, RingInv, NEW r \in LocalReaders, consumed[r] < published
  PROVE  /\ ObjectIn(rIdx[r]) = consumed[r]
         /\ wpc = "fence" => rIdx[r] # wIdx
BY ChunksAssumption, BoundAssumption
DEF TypeInv, TypeOK, WriterTypeOK, ReaderTypeOK, RingInv, PositionInv, ObjectIn, Lag, Chunks

(* check() of acquire_write lets the writer in only when no reader is a    *)
(* whole ring behind.                                                      *)
LEMMA WriteReadyLag ==
  ASSUME TypeInv, RingInv, wpc = "acquire", WriteReady, NEW r \in LocalReaders
  PROVE  Lag(r) < max_chunks
<1> SUFFICES ASSUME Lag(r) = max_chunks PROVE FALSE
  BY ChunksAssumption, BoundAssumption
  DEF RingInv, PositionInv, TypeInv, TypeOK, WriterTypeOK, ReaderTypeOK, Lag
<1>1. /\ wIdx \in Chunks /\ consumed[r] \in Nat /\ published \in Nat
      /\ written[wIdx] \in {0, 1} /\ readFlag[wIdx][r] \in {0, 1}
  BY BoundAssumption DEF TypeInv, TypeOK, WriterTypeOK, ReaderTypeOK, MemoryTypeOK
<1>2. ObjectIn(wIdx) = consumed[r]
  BY <1>1, ChunksAssumption DEF ObjectIn, Lag, Chunks
<1>3. ~ Filling(wIdx)
  BY DEF Filling
<1>4. written[wIdx] = 1 /\ readFlag[wIdx][r] = 0
  BY <1>1, <1>2, <1>3 DEF RingInv, BlockInv
<1> QED
  BY <1>4 DEF WriteReady

(* check() of acquire_read lets a reader in only when an object is there.  *)
LEMMA ReadReady ==
  ASSUME TypeInv, RingInv, NEW r \in LocalReaders,
         readFlag[rIdx[r]][r] = 0, written[rIdx[r]] = 1
  PROVE  consumed[r] < published
<1> SUFFICES ASSUME consumed[r] >= published PROVE FALSE
  BY BoundAssumption DEF TypeInv, TypeOK, WriterTypeOK, ReaderTypeOK
<1>1. wIdx \in Chunks /\ consumed[r] \in Nat /\ published \in Nat
  BY BoundAssumption DEF TypeInv, TypeOK, WriterTypeOK, ReaderTypeOK
<1>2. consumed[r] = published /\ rIdx[r] = wIdx
  BY <1>1, ChunksAssumption DEF RingInv, PositionInv, Lag, Chunks
<1>3. CASE wpc = "fence"
  BY <1>2, <1>3 DEF RingInv, FillInv
<1>4. CASE wpc # "fence"
  <2>1. ObjectIn(wIdx) < published /\ ObjectIn(wIdx) \in Int
    BY <1>1, ChunksAssumption DEF ObjectIn, Chunks
  <2>2. ~ Filling(wIdx)
    BY <1>4 DEF Filling
  <2> QED
    BY <1>1, <1>2, <2>1, <2>2 DEF RingInv, BlockInv
<1> QED
  BY <1>3, <1>4

-----------------------------------------------------------------------------
(* Steps that leave the ring alone: the writer elsewhere than at a block,  *)
(* or a reader moving between points outside a block.                      *)
Outside == ReaderPoints \ {"unread", "hdr", "body", "mark", "mark_overflow"}

QuietWriter ==
  /\ wpc # "fence" /\ wpc' # "fence"
  /\ LocalReaders # {} => UNCHANGED published
  /\ UNCHANGED <<shm, wIdx, pending, pendFlags, rpc, rIdx, obj, consumed>>

QuietReader ==
  /\ UNCHANGED <<shm, wvars, rIdx, obj, consumed>>
  /\ \/ UNCHANGED rpc
     \/ \E r \in Readers : \E p \in Outside : rpc' = [rpc EXCEPT ![r] = p]

LEMMA RingFrame ==
  [Next]_vars =>
    \/ QuietWriter \/ QuietReader
    \/ AcquireWrite \/ DrainUnmark \/ DrainHdr \/ DrainBody \/ PublishBlock
    \/ \E r \in LocalReaders :
         \/ DrainFlag(r) \/ LoadReadFlag(r) \/ LoadWritten(r) \/ ReadHeader(r)
         \/ ReadBody(r) \/ ReturnInline(r) \/ AwaitOverflow(r)
<1> SUFFICES ASSUME [Next]_vars
             PROVE  \/ QuietWriter \/ QuietReader
                    \/ AcquireWrite \/ DrainUnmark \/ DrainHdr \/ DrainBody \/ PublishBlock
                    \/ \E r \in LocalReaders :
                         \/ DrainFlag(r) \/ LoadReadFlag(r) \/ LoadWritten(r)
                         \/ ReadHeader(r) \/ ReadBody(r) \/ ReturnInline(r)
                         \/ AwaitOverflow(r)
  OBVIOUS
<1>1. ASSUME HandshakeLocal \/ HandshakeRemote \/ AcquireTimeout \/ SendOverflow
             \/ Notify \/ SendRemote \/ \E over \in BOOLEAN : Enqueue(over)
      PROVE  QuietWriter
  BY <1>1 DEF QuietWriter, HandshakeLocal, HandshakeRemote, AcquireTimeout, SendOverflow,
    Notify, SendRemote, Enqueue, rvars, hist
<1>2. ASSUME NEW r \in Readers,
             Connect(r) \/ RecvReady(r) \/ StartDequeue(r) \/ Recv(r) \/ RecvTimeout(r)
      PROVE  QuietReader
  <2>1. "hello" \in Outside /\ "idle" \in Outside /\ "check" \in Outside
        /\ "recv" \in Outside
    BY DEF Outside, ReaderPoints
  <2> QED
    BY <1>2, <2>1 DEF QuietReader, Connect, RecvReady, StartDequeue, Recv, RecvTimeout,
      Goto, hist
<1>3. ASSUME NEW r \in LocalReaders,
             SpinYield(r) \/ Park(r) \/ WakeCancel(r) \/ WakeNotify(r) \/ WakeRecheck(r)
             \/ DequeueTimeout(r) \/ Shutdown(r) \/ Cancel(r)
      PROVE  QuietReader
  <2>1. "stopped" \in Outside /\ "idle" \in Outside /\ "check" \in Outside
        /\ "parked" \in Outside
    BY DEF Outside, ReaderPoints
  <2>2. AfterWait(r) \in Outside /\ r \in Readers
    BY <2>1 DEF AfterWait, Readers
  <2> QED
    BY <1>3, <2>1, <2>2 DEF QuietReader, SpinYield, Park, WakeCancel, WakeNotify,
      WakeRecheck, DequeueTimeout, Shutdown, Cancel, Goto, hist
<1>4. CASE UNCHANGED vars
  BY <1>4 DEF QuietReader, vars, rvars, hist
<1> QED
  BY <1>1, <1>2, <1>3, <1>4 DEF Next, WriterStep, Drain, ReaderStep, LocalStep, Wake

(* Every step preserves the ring invariant, provided that a CPU does not   *)
(* reorder the writer's stores to one block's metadata.                    *)
LEMMA NextRing ==
  ASSUME StoresOrdered, TypeInv, TypeInv', RingInv, [Next]_vars PROVE RingInv'
<1>0. /\ wIdx \in 0 .. max_chunks - 1 /\ published \in Nat /\ max_chunks \in Nat \ {0}
      /\ Chunks = 0 .. max_chunks - 1
      /\ \A q \in LocalReaders : /\ consumed[q] \in Nat
                                 /\ rIdx[q] \in 0 .. max_chunks - 1
                                 /\ q \in Readers
  BY BoundAssumption, ChunksAssumption
  DEF TypeInv, TypeOK, WriterTypeOK, ReaderTypeOK, Chunks, Readers
<1> USE DEF RingInv
<1>1. CASE QuietWriter
  <2>1. CASE LocalReaders = {}
    BY <2>1 DEF PositionInv, BlockInv, FillInv, ReaderInv
  <2>2. CASE LocalReaders # {}
    <3>1. PositionInv' /\ FillInv' /\ ReaderInv'
      BY <1>1, <2>2 DEF QuietWriter, PositionInv, FillInv, ReaderInv, InBlock, Lag, shm
    <3>2. BlockInv'
      BY <1>1, <2>2 DEF QuietWriter, BlockInv, Filling, ObjectIn, shm
    <3> QED
      BY <3>1, <3>2
  <2> QED
    BY <2>1, <2>2
<1>2. CASE QuietReader
  <2>1. PositionInv' /\ FillInv'
    BY <1>2 DEF QuietReader, PositionInv, FillInv, Lag, shm, wvars
  <2>2. BlockInv'
    BY <1>2 DEF QuietReader, BlockInv, Filling, ObjectIn, shm, wvars
  <2>3. ReaderInv'
    <3>1. CASE UNCHANGED rpc
      BY <1>2, <3>1 DEF QuietReader, ReaderInv, InBlock, shm, wvars
    <3>2. ASSUME NEW r \in Readers, NEW p \in Outside, rpc' = [rpc EXCEPT ![r] = p]
          PROVE  ReaderInv'
      <4>1. /\ rpc \in [Readers -> ReaderPoints]
            /\ p \notin {"unread", "hdr", "body", "mark", "mark_overflow"}
        BY DEF TypeInv, TypeOK, ReaderTypeOK, Outside
      <4>2. \A q \in LocalReaders : q # r => rpc'[q] = rpc[q]
        BY <1>0, <3>2, <4>1
      <4>3. rpc'[r] = p
        BY <3>2, <4>1
      <4>4. UNCHANGED <<readFlag, hdr, published, rIdx, obj, consumed>>
        BY <1>2 DEF QuietReader, shm, wvars
      <4> QED
        BY <4>1, <4>2, <4>3, <4>4 DEF ReaderInv, InBlock
    <3> QED
      BY <1>2, <3>1, <3>2 DEF QuietReader
  <2> QED
    BY <2>1, <2>2, <2>3
<1>3. CASE AcquireWrite
  <2>1. PositionInv'
    BY <1>3, WriteReadyLag DEF AcquireWrite, PositionInv, Lag, rvars, hist
  <2>2. BlockInv'
    BY <1>3 DEF AcquireWrite, BlockInv, Filling, ObjectIn, shm, hist
  <2>3. FillInv'
    BY <1>3 DEF AcquireWrite, WriteReady, FillInv, shm, TypeInv, TypeOK, MemoryTypeOK,
      WriterTypeOK
  <2>4. ReaderInv'
    BY <1>3 DEF AcquireWrite, ReaderInv, InBlock, shm, rvars, hist
  <2> QED
    BY <2>1, <2>2, <2>3, <2>4
<1>4. CASE DrainUnmark
  <2>0. wpc = "fence"
    BY <1>4 DEF DrainUnmark, TypeInv, CountInv
  <2>1. PositionInv'
    BY <1>4 DEF DrainUnmark, PositionInv, Lag, rvars, hist
  <2>2. BlockInv'
    BY <1>4, <2>0 DEF DrainUnmark, BlockInv, Filling, ObjectIn, hist, TypeInv, TypeOK,
      MemoryTypeOK
  <2>3. FillInv'
    BY <1>4, <2>0 DEF DrainUnmark, FillInv, TypeInv, TypeOK, MemoryTypeOK, WriterTypeOK
  <2>4. ReaderInv'
    BY <1>4 DEF DrainUnmark, ReaderInv, InBlock, rvars, hist
  <2> QED
    BY <2>1, <2>2, <2>3, <2>4
<1>5. CASE DrainHdr
  <2>0. wpc = "fence"
    BY <1>5 DEF DrainHdr, TypeInv, CountInv
  <2>1. PositionInv'
    BY <1>5 DEF DrainHdr, PositionInv, Lag, rvars, hist
  <2>2. BlockInv'
    BY <1>5, <2>0 DEF DrainHdr, BlockInv, Filling, ObjectIn, hist, TypeInv, TypeOK,
      MemoryTypeOK
  <2>3. FillInv'
    BY <1>5, <2>0 DEF DrainHdr, FillInv, TypeInv, TypeOK, MemoryTypeOK, WriterTypeOK
  <2>4. ReaderInv'
    BY <1>5, <2>0, ReaderBlock DEF DrainHdr, ReaderInv, InBlock, rvars, hist
  <2> QED
    BY <2>1, <2>2, <2>3, <2>4
<1>6. CASE DrainBody
  <2>0. wpc = "fence"
    BY <1>6 DEF DrainBody, TypeInv, CountInv
  <2>1. PositionInv'
    BY <1>6 DEF DrainBody, PositionInv, Lag, rvars, hist
  <2>2. BlockInv'
    BY <1>6, <2>0 DEF DrainBody, BlockInv, Filling, ObjectIn, hist, TypeInv, TypeOK,
      MemoryTypeOK
  <2>3. FillInv'
    BY <1>6, <2>0 DEF DrainBody, FillInv, TypeInv, TypeOK, MemoryTypeOK, WriterTypeOK
  <2>4. ReaderInv'
    BY <1>6 DEF DrainBody, ReaderInv, InBlock, rvars, hist
  <2> QED
    BY <2>1, <2>2, <2>3, <2>4
<1>7. ASSUME NEW r \in LocalReaders, DrainFlag(r) PROVE RingInv'
  <2>0. wpc = "fence" /\ "unmark" \notin pending /\ written[wIdx] = 0
    BY <1>7 DEF DrainFlag, TypeInv, CountInv, FillInv
  <2>1. PositionInv'
    BY <1>7 DEF DrainFlag, PositionInv, Lag, rvars, hist
  <2>2. BlockInv'
    BY <1>7, <2>0 DEF DrainFlag, BlockInv, Filling, ObjectIn, hist, TypeInv, TypeOK,
      MemoryTypeOK
  <2>3. FillInv'
    BY <1>7, <2>0 DEF DrainFlag, FillInv, TypeInv, TypeOK, MemoryTypeOK, WriterTypeOK
  <2>4. ReaderInv'
    BY <1>7, <1>0 DEF DrainFlag, ReaderInv, InBlock, rvars, hist, TypeInv, TypeOK, MemoryTypeOK
  <2> QED
    BY <2>1, <2>2, <2>3, <2>4
<1>8. CASE PublishBlock
  <2>0. /\ wpc = "fence" /\ pending = {} /\ pendFlags = {}
        /\ wIdx' = IF wIdx = max_chunks - 1 THEN 0 ELSE wIdx + 1
        /\ published' = published + 1
    BY <1>8, <1>0, NextIdx DEF PublishBlock
  <2>1. PositionInv'
    <3>1. UNCHANGED <<rIdx, consumed>> /\ wpc' # "fence"
      BY <1>8 DEF PublishBlock, rvars, hist
    <3> SUFFICES ASSUME NEW q \in LocalReaders
                 PROVE  /\ Lag(q)' \in 0 .. max_chunks
                        /\ rIdx[q] = IF Lag(q)' <= wIdx' THEN wIdx' - Lag(q)'
                                     ELSE wIdx' - Lag(q)' + max_chunks
      BY <3>1 DEF PositionInv
    <3>2. /\ Lag(q) >= 0 /\ Lag(q) < max_chunks /\ Lag(q) \in Int
          /\ rIdx[q] = IF Lag(q) <= wIdx THEN wIdx - Lag(q) ELSE wIdx - Lag(q) + max_chunks
      BY <1>0, <2>0 DEF PositionInv
    <3>3. Lag(q)' = Lag(q) + 1
      BY <1>0, <2>0, <3>1 DEF Lag
    <3>4. CASE wIdx = max_chunks - 1
      BY <1>0, <2>0, <3>2, <3>3, <3>4
    <3>5. CASE wIdx # max_chunks - 1
      BY <1>0, <2>0, <3>2, <3>3, <3>5
    <3> QED
      BY <3>4, <3>5
  <2>2. BlockInv'
    <3> SUFFICES ASSUME NEW q \in LocalReaders, NEW c \in Chunks
                 PROVE  /\ ObjectIn(c)' >= 0 =>
                             /\ written'[c] = 1
                             /\ readFlag'[c][q] = 1 <=> consumed'[q] > ObjectIn(c)'
                             /\ hdr'[c] = "inline" => body'[c] = ObjectIn(c)'
                        /\ ObjectIn(c)' < 0 => written'[c] = 0
      BY DEF BlockInv
    <3>1. CASE c = wIdx
      <4>1. ObjectIn(c)' = published
        BY <1>0, <2>0, <3>1 DEF ObjectIn
      <4>2. written'[c] = 1
        BY <1>8, <3>1 DEF PublishBlock, TypeInv, TypeOK, MemoryTypeOK
      <4>3. consumed'[q] <= published
        BY <1>8, <1>0 DEF PublishBlock, hist, PositionInv, Lag
      <4>4. readFlag'[c][q] = 0
        BY <1>8, <2>0, <3>1 DEF PublishBlock, FillInv
      <4>5. hdr'[c] = "inline" => body'[c] = published
        BY <1>8, <2>0, <3>1 DEF PublishBlock, FillInv
      <4>6. consumed'[q] \in Nat
        BY <1>8, <1>0 DEF PublishBlock, hist
      <4> QED
        BY <1>0, <4>1, <4>2, <4>3, <4>4, <4>5, <4>6
    <3>2. CASE c # wIdx
      <4>1. ObjectIn(c)' = ObjectIn(c)
        BY <1>0, <2>0, <3>2 DEF ObjectIn
      <4>2. ~ Filling(c)
        BY <3>2 DEF Filling
      <4> QED
        BY <1>8, <3>2, <4>1, <4>2
        DEF PublishBlock, BlockInv, hist, TypeInv, TypeOK, MemoryTypeOK
    <3> QED
      BY <3>1, <3>2
  <2>3. FillInv'
    BY <1>8 DEF PublishBlock, FillInv
  <2>4. ReaderInv'
    BY <1>8, <1>0, <2>0 DEF PublishBlock, ReaderInv, InBlock, rvars, hist
  <2> QED
    BY <2>1, <2>2, <2>3, <2>4
<1>9. ASSUME NEW r \in LocalReaders,
             LoadReadFlag(r) \/ LoadWritten(r) \/ ReadHeader(r) \/ ReadBody(r)
      PROVE  RingInv'
  <2>0. UNCHANGED <<shm, wvars, rIdx, consumed>>
    BY <1>9 DEF LoadReadFlag, LoadWritten, ReadHeader, ReadBody, hist
  <2>1. PositionInv' /\ FillInv'
    BY <2>0 DEF PositionInv, FillInv, Lag, shm, wvars
  <2>2. BlockInv'
    BY <2>0 DEF BlockInv, Filling, ObjectIn, shm, wvars
  <2>3. ReaderInv'
    <3>0. rpc \in [Readers -> ReaderPoints] /\ r \in Readers /\ obj \in [LocalReaders -> Frames]
      BY DEF TypeInv, TypeOK, ReaderTypeOK, Readers
    <3>1. CASE LoadReadFlag(r)
      BY <3>0, <3>1, <2>0 DEF LoadReadFlag, Goto, ReaderInv, InBlock, shm, wvars
    <3>2. CASE LoadWritten(r)
      BY <3>0, <3>2, <2>0, ReadReady DEF LoadWritten, Goto, ReaderInv, InBlock, shm, wvars
    <3>3. CASE ReadHeader(r)
      BY <3>0, <3>3, <2>0
      DEF ReadHeader, Goto, ReaderInv, InBlock, shm, wvars, TypeInv, TypeOK, ReaderTypeOK, MemoryTypeOK
    <3>4. CASE ReadBody(r)
      <4>1. InBlock(r) /\ hdr[rIdx[r]] = "inline" /\ consumed[r] < published
        BY <3>4 DEF ReadBody, Goto, ReaderInv, InBlock
      <4>2. ObjectIn(rIdx[r]) = consumed[r] /\ ~ Filling(rIdx[r]) /\ rIdx[r] \in Chunks
        BY <4>1, <1>0, ReaderBlock DEF Filling
      <4>3. body[rIdx[r]] = consumed[r]
        BY <4>1, <4>2, <1>0 DEF BlockInv
      <4> QED
        BY <3>0, <3>4, <2>0, <4>1, <4>3 DEF ReadBody, Goto, ReaderInv, InBlock, shm, wvars
    <3> QED
      BY <1>9, <3>1, <3>2, <3>3, <3>4
  <2> QED
    BY <2>1, <2>2, <2>3
<1>10. ASSUME NEW r \in LocalReaders, ReturnInline(r) \/ AwaitOverflow(r) PROVE RingInv'
  <2>0. /\ InBlock(r) /\ ReleaseBlock(r)
        /\ UNCHANGED <<written, hdr, body, wvars, obj>>
        /\ rpc' = [rpc EXCEPT ![r] = "idle"] \/ rpc' = [rpc EXCEPT ![r] = "recv"]
    BY <1>10 DEF ReturnInline, AwaitOverflow, Goto, InBlock
  <2>1. /\ consumed[r] < published
        /\ ObjectIn(rIdx[r]) = consumed[r]
        /\ wpc = "fence" => rIdx[r] # wIdx
    BY <2>0, ReaderBlock DEF ReaderInv
  <2>2. /\ rIdx' = [rIdx EXCEPT ![r] = IF rIdx[r] = max_chunks - 1 THEN 0 ELSE rIdx[r] + 1]
        /\ consumed' = [consumed EXCEPT ![r] = consumed[r] + 1]
        /\ readFlag' = [readFlag EXCEPT ![rIdx[r]][r] = 1]
    BY <2>0, <1>0, NextIdx DEF ReleaseBlock
  <2>3. /\ readFlag \in [Chunks -> [LocalReaders -> {0, 1}]]
        /\ rIdx \in [LocalReaders -> Chunks] /\ consumed \in [LocalReaders -> Nat]
        /\ rpc \in [Readers -> ReaderPoints]
    BY DEF TypeInv, TypeOK, MemoryTypeOK, ReaderTypeOK
  <2>4. PositionInv'
    <3>1. UNCHANGED <<wpc, wIdx, published>>
      BY <2>0 DEF wvars
    <3> SUFFICES ASSUME NEW q \in LocalReaders
                 PROVE  /\ Lag(q)' \in 0 .. max_chunks
                        /\ wpc = "fence" => Lag(q)' < max_chunks
                        /\ rIdx'[q] = IF Lag(q)' <= wIdx THEN wIdx - Lag(q)'
                                      ELSE wIdx - Lag(q)' + max_chunks
      BY <3>1 DEF PositionInv
    <3>2. CASE q # r
      <4>1. Lag(q)' = Lag(q) /\ rIdx'[q] = rIdx[q]
        BY <2>2, <2>3, <3>1, <3>2 DEF Lag
      <4> QED
        BY <4>1 DEF PositionInv
    <3>3. CASE q = r
      <4>1. /\ Lag(q)' = Lag(q) - 1
            /\ rIdx'[q] = IF rIdx[q] = max_chunks - 1 THEN 0 ELSE rIdx[q] + 1
        BY <1>0, <2>2, <2>3, <3>1, <3>3 DEF Lag
      <4>2. Lag(q) \in 1 .. max_chunks
        BY <1>0, <2>1, <3>3 DEF PositionInv, Lag
      <4>3. CASE Lag(q) <= wIdx
        BY <1>0, <4>1, <4>2, <4>3 DEF PositionInv
      <4>4. CASE ~ (Lag(q) <= wIdx)
        <5>1. rIdx[q] = wIdx - Lag(q) + max_chunks
          BY <4>4 DEF PositionInv
        <5>2. CASE Lag(q) = wIdx + 1
          BY <1>0, <4>1, <4>2, <5>1, <5>2
        <5>3. CASE Lag(q) # wIdx + 1
          BY <1>0, <4>1, <4>2, <4>4, <5>1, <5>3
        <5> QED
          BY <5>2, <5>3
      <4> QED
        BY <4>3, <4>4
    <3> QED
      BY <3>2, <3>3
  <2>5. BlockInv'
    <3> SUFFICES ASSUME NEW q \in LocalReaders, NEW c \in Chunks, ~ Filling(c)
                 PROVE  /\ ObjectIn(c) >= 0 =>
                             /\ written[c] = 1
                             /\ readFlag'[c][q] = 1 <=> consumed'[q] > ObjectIn(c)
                             /\ hdr[c] = "inline" => body[c] = ObjectIn(c)
                        /\ ObjectIn(c) < 0 => written[c] = 0
      BY <2>0 DEF BlockInv, ObjectIn, Filling, wvars
    <3>1. CASE q = r /\ c = rIdx[r]
      BY <1>0, <2>1, <2>2, <2>3, <3>1 DEF BlockInv
    <3>2. CASE q = r /\ c # rIdx[r]
      <4>1. ObjectIn(c) # consumed[r] /\ ObjectIn(c) \in Int
        <5>1. c \in 0 .. max_chunks - 1 /\ rIdx[r] \in 0 .. max_chunks - 1
          BY <1>0
        <5>2. c < wIdx \/ c >= wIdx
          BY <1>0, <5>1
        <5>3. CASE rIdx[r] < wIdx
          BY <1>0, <2>1, <3>2, <5>1, <5>2, <5>3 DEF ObjectIn
        <5>4. CASE ~ (rIdx[r] < wIdx)
          BY <1>0, <2>1, <3>2, <5>1, <5>2, <5>4 DEF ObjectIn
        <5> QED
          BY <5>3, <5>4
      <4> QED
        BY <1>0, <2>2, <2>3, <3>2, <4>1 DEF BlockInv
    <3>3. CASE q # r
      BY <2>2, <2>3, <3>3 DEF BlockInv
    <3> QED
      BY <3>1, <3>2, <3>3
  <2>6. FillInv'
    BY <1>0, <2>0, <2>1, <2>2, <2>3 DEF FillInv, wvars
  <2>7. ReaderInv'
    BY <1>0, <2>0, <2>2, <2>3 DEF ReaderInv, InBlock, wvars
  <2> QED
    BY <2>4, <2>5, <2>6, <2>7
<1> QED
  BY <1>1, <1>2, <1>3, <1>4, <1>5, <1>6, <1>7, <1>8, <1>9, <1>10, RingFrame

(* The ring invariant holds throughout every behaviour.                    *)
LEMMA RingCorrect ==
  ASSUME StoresOrdered PROVE Spec => [](TypeInv /\ RingInv)
<1>1. Init => TypeInv /\ RingInv
  BY InitType, InitRing
<1>2. TypeInv /\ RingInv /\ [Next]_vars => (TypeInv /\ RingInv)'
  <2> SUFFICES ASSUME TypeInv, RingInv, [Next]_vars PROVE TypeInv' /\ RingInv'
    OBVIOUS
  <2>1. TypeInv'
    BY NextType
  <2> QED
    BY <2>1, NextRing
<1> QED
  BY <1>1, <1>2, PTL DEF Spec

(* acquire_write never refills a block that some reader is still inside,   *)
(* whatever the number of readers and the size of the ring.                *)
THEOREM ExclusionTheorem ==
  ASSUME StoresOrdered PROVE Spec => []BlockExclusion
<1>1. TypeInv /\ RingInv => BlockExclusion
  BY ReaderBlock DEF BlockExclusion, RingInv, ReaderInv
<1> QED
  BY <1>1, RingCorrect, PTL

(* What a reader takes out of a block is the very object it is owed next:  *)
(* complete, and none skipped or repeated.                                 *)
THEOREM IntactTheorem ==
  ASSUME StoresOrdered PROVE Spec => []BlockIntact
<1>1. RingInv => BlockIntact
  BY DEF BlockIntact, RingInv, ReaderInv
<1> QED
  BY <1>1, RingCorrect, PTL

(* The ring implements the bounded broadcast log: initial states are       *)
(* initial states of the log, PublishBlock appends, the two actions that   *)
(* release a block advance a reader, and every other step leaves the log   *)
(* alone.                                                                  *)
THEOREM LogTheorem ==
  ASSUME StoresOrdered PROVE Spec => BoundedLog
<1>1. Init => BQ!Init
  BY DEF Init, BQ!Init
<1>2. TypeInv /\ RingInv /\ [Next]_vars => [BQ!Next]_<<published, consumed>>
  <2> SUFFICES ASSUME TypeInv, RingInv, [Next]_vars
               PROVE  BQ!Next \/ UNCHANGED <<published, consumed>>
    OBVIOUS
  <2>1. CASE PublishBlock
    <3>1. \A q \in LocalReaders : published - consumed[q] < max_chunks
      BY <2>1 DEF PublishBlock, RingInv, PositionInv, Lag
    <3> QED
      BY <2>1, <3>1 DEF PublishBlock, BQ!Next, BQ!Append1, hist
  <2>2. ASSUME NEW r \in LocalReaders, ReturnInline(r) \/ AwaitOverflow(r)
        PROVE  BQ!Next
    <3>1. consumed[r] < published
      BY <2>2 DEF ReturnInline, AwaitOverflow, Goto, RingInv, ReaderInv, InBlock
    <3>2. BQ!Advance(r)
      BY <2>2, <3>1 DEF ReturnInline, AwaitOverflow, ReleaseBlock, BQ!Advance, wvars
    <3> QED
      BY <3>2 DEF BQ!Next
  <2>3. CASE QuietWriter /\ LocalReaders # {}
    BY <2>3 DEF QuietWriter
  <2>4. CASE QuietWriter /\ LocalReaders = {}
    <3>1. UNCHANGED published \/ published' = published + 1
      BY WriterFrame DEF wvars, HandshakeLocal, HandshakeRemote, Enqueue, AcquireWrite,
        AcquireTimeout, DrainUnmark, DrainHdr, DrainBody, DrainFlag, PublishBlock,
        SendOverflow, Notify, SendRemote
    <3> QED
      BY <2>4, <3>1 DEF QuietWriter, BQ!Next, BQ!Append1
  <2>5. CASE QuietReader
    BY <2>5 DEF QuietReader, wvars
  <2>6. CASE AcquireWrite \/ DrainUnmark \/ DrainHdr \/ DrainBody
    BY <2>6 DEF AcquireWrite, DrainUnmark, DrainHdr, DrainBody, hist
  <2>7. ASSUME NEW r \in LocalReaders,
               DrainFlag(r) \/ LoadReadFlag(r) \/ LoadWritten(r) \/ ReadHeader(r) \/ ReadBody(r)
        PROVE  UNCHANGED <<published, consumed>>
    BY <2>7 DEF DrainFlag, LoadReadFlag, LoadWritten, ReadHeader, ReadBody, hist, wvars
  <2> QED
    BY <2>1, <2>2, <2>3, <2>4, <2>5, <2>6, <2>7, RingFrame
<1>3. Spec => [](TypeInv /\ RingInv)
  BY RingCorrect
<1> QED
  BY <1>1, <1>2, <1>3, PTL DEF Spec, BoundedLog, BQ!Spec

-----------------------------------------------------------------------------
(* What the readers receive: READY first, then every object in order,      *)
(* through the ring, through the overflow socket and through the socket of *)
(* the remote readers.                                                     *)

(* READY was published to the readers of r's kind.                         *)
Greeted(r) ==
  IF r \in LocalReaders THEN wpc # "handshake"
  ELSE wpc \notin {"handshake", "handshake_remote"}

(* wait_until_ready(): nothing is published to a reader before READY, and  *)
(* READY is published when its subscription is known.                      *)
GreetInv ==
  \A r \in Readers :
    /\ r \in subs <=> rpc[r] # "connect"
    /\ ~ Greeted(r) => sock[r] = <<>> /\ rpc[r] \in {"connect", "hello"}
    /\ Greeted(r) => r \in subs
    /\ Greeted(r) /\ rpc[r] = "hello" => sock[r] # <<>> /\ Head(sock[r]) = READY

-----------------------------------------------------------------------------
(* Which actions matter for delivery.                                      *)

(* The program points between which a reader moves without a socket call   *)
(* and without taking anything out of a block.                             *)
Plain == {"idle", "check", "unread", "wait", "parked", "hdr", "stopped"}

CalmWriter ==
  \/ UNCHANGED wpc
  \/ /\ wpc \notin {"handshake", "handshake_remote", "fence", "send"}
     /\ wpc' \notin {"handshake", "handshake_remote", "fence", "send"}
     /\ RemoteReaders # {} =>
          (wpc \in {"notify", "remote"} <=> wpc' \in {"notify", "remote"})

CalmReader ==
  \/ UNCHANGED rpc
  \/ \E r \in LocalReaders : \E p \in Plain :
       rpc[r] \in Plain /\ rpc' = [rpc EXCEPT ![r] = p]

Calm ==
  /\ CalmWriter /\ CalmReader
  /\ UNCHANGED <<hdr, wIdx, published, overflow, rIdx, subs, sock, consumed, got, dropped>>

(* Every step is calm or one of the actions with an effect on delivery.    *)
LEMMA DeliveryFrame ==
  [Next]_vars =>
    \/ Calm
    \/ HandshakeLocal \/ HandshakeRemote \/ (\E over \in BOOLEAN : Enqueue(over))
    \/ AcquireWrite \/ DrainHdr \/ PublishBlock \/ SendOverflow \/ SendRemote
    \/ (\E r \in Readers : \/ Connect(r) \/ RecvReady(r) \/ StartDequeue(r) \/ Recv(r)
                           \/ RecvTimeout(r))
    \/ \E r \in LocalReaders :
         ReadHeader(r) \/ ReadBody(r) \/ ReturnInline(r) \/ AwaitOverflow(r)
<1>1. ASSUME Notify \/ AcquireTimeout PROVE Calm
  BY <1>1 DEF Calm, CalmWriter, CalmReader, Notify, AcquireTimeout, shm, rvars, netvars, hist
<1>2. ASSUME DrainUnmark \/ DrainBody \/ \E r \in LocalReaders : DrainFlag(r) PROVE Calm
  BY <1>2 DEF Calm, CalmWriter, CalmReader, DrainUnmark, DrainBody, DrainFlag, rvars,
    netvars, hist
<1>3. ASSUME NEW r \in LocalReaders,
             \/ LoadReadFlag(r) \/ LoadWritten(r) \/ SpinYield(r) \/ Park(r)
             \/ WakeCancel(r) \/ WakeNotify(r) \/ WakeRecheck(r) \/ DequeueTimeout(r)
      PROVE  Calm
  <2>1. UNCHANGED <<shm, wvars, rIdx, subs, sock, hist>>
    BY <1>3 DEF LoadReadFlag, LoadWritten, SpinYield, Park, WakeCancel, WakeNotify,
      WakeRecheck, DequeueTimeout, netvars
  <2>2. rpc[r] \in Plain /\ \E p \in Plain : rpc' = [rpc EXCEPT ![r] = p]
    BY <1>3 DEF LoadReadFlag, LoadWritten, SpinYield, Park, WakeCancel, WakeNotify,
      WakeRecheck, DequeueTimeout, Goto, AfterWait, Plain
  <2> QED BY <2>1, <2>2 DEF Calm, CalmWriter, CalmReader, shm, wvars, hist
<1>4. ASSUME NEW r \in LocalReaders, Shutdown(r) \/ Cancel(r) PROVE Calm
  BY <1>4 DEF Calm, CalmWriter, CalmReader, Shutdown, Cancel, shm, wvars, netvars, hist
<1>5. ASSUME UNCHANGED vars PROVE Calm
  BY <1>5 DEF Calm, CalmWriter, CalmReader, vars, shm, wvars, rvars, netvars, hist
<1> QED
  BY <1>1, <1>2, <1>3, <1>4, <1>5
  DEF Next, WriterStep, Drain, ReaderStep, LocalStep, Wake

(* A published frame is appended to the queues of the subscribed targets.  *)
LEMMA PublishFacts ==
  ASSUME SocketTypeOK, NEW T, NEW f \in Frames, Publish(T, f), NEW r \in Readers
  PROVE  /\ sock[r] \in Seq(Frames)
         /\ r \in T /\ r \in subs => sock'[r] = Append(sock[r], f)
         /\ r \notin T => sock'[r] = sock[r]
BY DEF SocketTypeOK, Publish

(* Moving one reader leaves the others where they are.                     *)
LEMMA MoveFacts ==
  ASSUME ReaderTypeOK, NEW q \in Readers, NEW p, rpc' = [rpc EXCEPT ![q] = p]
  PROVE  rpc'[q] = p /\ \A r \in Readers : r # q => rpc'[r] = rpc[r]
BY DEF ReaderTypeOK

(* A calm step moves readers between plain points only.                    *)
LEMMA CalmMoves ==
  ASSUME ReaderTypeOK, CalmReader
  PROVE  \A r \in Readers : rpc'[r] = rpc[r] \/ (rpc[r] \in Plain /\ rpc'[r] \in Plain)
<1>1. CASE UNCHANGED rpc
  BY <1>1
<1>2. ASSUME NEW q \in LocalReaders, NEW p \in Plain, rpc[q] \in Plain,
             rpc' = [rpc EXCEPT ![q] = p]
      PROVE  \A r \in Readers : rpc'[r] = rpc[r] \/ (rpc[r] \in Plain /\ rpc'[r] \in Plain)
  <2>1. q \in Readers
    BY DEF Readers
  <2>2. rpc'[q] = p /\ \A r \in Readers : r # q => rpc'[r] = rpc[r]
    BY <1>2, <2>1, MoveFacts
  <2> QED BY <1>2, <2>2
<1> QED BY <1>1, <1>2 DEF CalmReader

-----------------------------------------------------------------------------
(* The handshake.                                                          *)

LEMMA InitGreet == Init => GreetInv
BY DEF Init, GreetInv, Greeted

LEMMA NextGreet ==
  ASSUME TypeInv, GreetInv, [Next]_vars PROVE GreetInv'
<1> USE DEF TypeInv, TypeOK
<1>0. /\ \A r \in Readers : sock[r] \in Seq(Frames) /\ rpc[r] \in ReaderPoints
      /\ LocalReaders \subseteq Readers /\ RemoteReaders \subseteq Readers
      /\ \A r \in Readers : r \in RemoteReaders <=> r \notin LocalReaders
  BY ReadersAssumption DEF SocketTypeOK, ReaderTypeOK, Readers
<1>r. READY \in Frames /\ (wpc \in {"send", "remote"} => published - 1 \in Frames)
  BY BoundAssumption DEF Frames, CountInv, WriterTypeOK, Messages
<1>1. CASE Calm
  <2>1. \A r \in Readers : Greeted(r)' = Greeted(r)
    BY <1>1 DEF Calm, CalmWriter, Greeted
  <2>2. \A r \in Readers :
          rpc'[r] = rpc[r] \/ (rpc[r] \in Plain /\ rpc'[r] \in Plain)
    BY <1>1, CalmMoves DEF Calm
  <2>3. UNCHANGED <<sock, subs>>
    BY <1>1 DEF Calm
  <2> QED BY <2>1, <2>2, <2>3 DEF GreetInv, Plain
<1>2. CASE HandshakeLocal
  <2>1. /\ LocalReaders \subseteq subs /\ wpc = "handshake" /\ wpc' = "handshake_remote"
        /\ UNCHANGED <<rpc, subs>> /\ Publish(LocalReaders, READY)
    BY <1>2 DEF HandshakeLocal, rvars
  <2> SUFFICES ASSUME NEW r \in Readers
               PROVE  /\ ~ Greeted(r)' => sock'[r] = <<>> /\ rpc[r] \in {"connect", "hello"}
                      /\ Greeted(r)' => r \in subs
                      /\ Greeted(r)' /\ rpc[r] = "hello" => sock'[r] # <<>> /\ Head(sock'[r]) = READY
    BY <2>1 DEF GreetInv
  <2>2. CASE r \in LocalReaders
    <3>1. sock'[r] = Append(sock[r], READY) /\ sock[r] = <<>> /\ Greeted(r)'
      BY <1>r, <2>1, <2>2, PublishFacts DEF GreetInv, Greeted
    <3> QED BY <2>1, <2>2, <3>1
  <2>3. CASE r \notin LocalReaders
    <3>1. sock'[r] = sock[r] /\ ~ Greeted(r)' /\ ~ Greeted(r)
      BY <1>r, <2>1, <2>3, PublishFacts DEF Greeted
    <3> QED BY <3>1 DEF GreetInv
  <2> QED BY <2>2, <2>3
<1>3. CASE HandshakeRemote
  <2>1. /\ RemoteReaders \subseteq subs /\ wpc = "handshake_remote" /\ wpc' = "idle"
        /\ UNCHANGED <<rpc, subs>> /\ Publish(RemoteReaders, READY)
    BY <1>3 DEF HandshakeRemote, rvars
  <2> SUFFICES ASSUME NEW r \in Readers
               PROVE  /\ ~ Greeted(r)' => sock'[r] = <<>> /\ rpc[r] \in {"connect", "hello"}
                      /\ Greeted(r)' => r \in subs
                      /\ Greeted(r)' /\ rpc[r] = "hello" => sock'[r] # <<>> /\ Head(sock'[r]) = READY
    BY <2>1 DEF GreetInv
  <2>2. CASE r \in RemoteReaders
    <3>1. sock'[r] = Append(sock[r], READY) /\ sock[r] = <<>> /\ Greeted(r)'
      BY <1>0, <1>r, <2>1, <2>2, PublishFacts DEF GreetInv, Greeted
    <3> QED BY <2>1, <2>2, <3>1
  <2>3. CASE r \notin RemoteReaders
    <3>1. sock'[r] = sock[r] /\ Greeted(r)' /\ Greeted(r)
      BY <1>0, <1>r, <2>1, <2>3, PublishFacts DEF Greeted
    <3> QED BY <3>1 DEF GreetInv
  <2> QED BY <2>2, <2>3
<1>4. CASE SendOverflow \/ SendRemote
  <2>1. /\ UNCHANGED <<rpc, subs>> /\ wpc \in {"send", "remote"}
        /\ wpc' \notin {"handshake", "handshake_remote"}
        /\ \E T : Publish(T, published - 1)
    BY <1>4 DEF SendOverflow, SendRemote, rvars
  <2> SUFFICES ASSUME NEW r \in Readers
               PROVE  rpc[r] = "hello" => sock'[r] # <<>> /\ Head(sock'[r]) = READY
    BY <2>1 DEF GreetInv, Greeted
  <2>2. r \in subs /\ (rpc[r] = "hello" => sock[r] # <<>> /\ Head(sock[r]) = READY)
    BY <2>1 DEF GreetInv, Greeted
  <2>3. PICK T : Publish(T, published - 1)
    BY <2>1
  <2>4. sock'[r] = sock[r] \/ sock'[r] = Append(sock[r], published - 1)
    BY <1>r, <2>1, <2>2, <2>3, PublishFacts
  <2>5. sock[r] # <<>> => /\ Append(sock[r], published - 1) # <<>>
                          /\ Head(Append(sock[r], published - 1)) = Head(sock[r])
    BY <1>0, <1>r, <2>1
  <2> QED BY <2>2, <2>4, <2>5
<1>5. CASE AcquireWrite \/ DrainHdr \/ PublishBlock \/ \E over \in BOOLEAN : Enqueue(over)
  <2>1. UNCHANGED <<rpc, subs, sock>> /\ \A r \in Readers : Greeted(r)' = Greeted(r)
    BY <1>5 DEF AcquireWrite, DrainHdr, PublishBlock, Enqueue, rvars, netvars, Greeted
  <2> QED BY <2>1 DEF GreetInv
<1>6. ASSUME NEW q \in Readers, Connect(q) PROVE GreetInv'
  <2>1. /\ rpc[q] = "connect" /\ rpc'[q] = "hello" /\ subs' = subs \cup {q}
        /\ \A r \in Readers : r # q => rpc'[r] = rpc[r]
        /\ UNCHANGED <<wpc, sock>>
    BY <1>6, MoveFacts DEF Connect, wvars
  <2>2. \A r \in Readers : Greeted(r)' = Greeted(r)
    BY <2>1 DEF Greeted
  <2>3. ~ Greeted(q)
    BY <2>1 DEF GreetInv
  <2> QED BY <2>1, <2>2, <2>3 DEF GreetInv
<1>7. ASSUME NEW q \in Readers, RecvReady(q) \/ Recv(q) PROVE GreetInv'
  <2>1. /\ rpc[q] \in {"hello", "recv"} /\ rpc'[q] = "idle" /\ UNCHANGED <<wpc, subs>>
        /\ \A r \in Readers : r # q => rpc'[r] = rpc[r] /\ sock'[r] = sock[r]
        /\ sock[q] # <<>>
    BY <1>7, MoveFacts DEF RecvReady, Recv, Goto, wvars, SocketTypeOK
  <2>2. \A r \in Readers : Greeted(r)' = Greeted(r)
    BY <2>1 DEF Greeted
  <2>3. Greeted(q) /\ q \in subs
    BY <2>1 DEF GreetInv
  <2> QED BY <2>1, <2>2, <2>3 DEF GreetInv
<1>8. ASSUME NEW q \in Readers,
             \/ StartDequeue(q) \/ RecvTimeout(q)
             \/ q \in LocalReaders /\ \/ ReadHeader(q) \/ ReadBody(q)
                                      \/ ReturnInline(q) \/ AwaitOverflow(q)
      PROVE  GreetInv'
  <2>1. /\ rpc[q] \notin {"connect", "hello"} /\ UNCHANGED <<wpc, subs, sock>>
        /\ \E p \in ReaderPoints \ {"connect", "hello"} : rpc' = [rpc EXCEPT ![q] = p]
    BY <1>8 DEF StartDequeue, RecvTimeout, ReadHeader, ReadBody, ReturnInline,
      AwaitOverflow, Goto, wvars, netvars, ReaderPoints
  <2>2. /\ rpc'[q] \notin {"connect", "hello"}
        /\ \A r \in Readers : r # q => rpc'[r] = rpc[r]
    BY <2>1, MoveFacts
  <2>3. \A r \in Readers : Greeted(r)' = Greeted(r)
    BY <2>1 DEF Greeted
  <2>4. Greeted(q) /\ q \in subs
    BY <2>1 DEF GreetInv
  <2> QED BY <2>1, <2>2, <2>3, <2>4 DEF GreetInv
<1> QED
  BY <1>0, <1>1, <1>2, <1>3, <1>4, <1>5, <1>6, <1>7, <1>8, DeliveryFrame

(* wait_until_ready's assertion never fails, for any readers that connect  *)
(* in any order: the first frame each of them takes is READY.              *)
THEOREM ReadyTheorem == Spec => []ReadyFirst
<1>1. Init => TypeInv /\ GreetInv
  BY InitType, InitGreet
<1>2. TypeInv /\ GreetInv /\ [Next]_vars => (TypeInv /\ GreetInv)'
  <2> SUFFICES ASSUME TypeInv, GreetInv, [Next]_vars PROVE TypeInv' /\ GreetInv'
    OBVIOUS
  <2> QED BY NextType, NextGreet
<1>3. GreetInv => ReadyFirst
  BY DEF GreetInv, ReadyFirst
<1> QED BY <1>1, <1>2, <1>3, PTL DEF Spec
-----------------------------------------------------------------------------
(* Queues of frames.  Of a queue s the first h frames are READY frames;    *)
(* the others are object numbers.                                          *)

(* What a reader has returned so far is 0, 1, 2, ...                       *)
Ordered(g) == \A i \in 1 .. Len(g) : g[i] = i - 1

(* The object numbers rise and lie in lo .. hi - 1.                        *)
Rising(s, h, lo, hi) ==
  \A i \in 1 .. Len(s) : i > h =>
    /\ lo <= s[i] /\ s[i] < hi
    /\ \A j \in 1 .. Len(s) : i < j => s[i] < s[j]

(* Object m is in the queue.                                               *)
Holds(s, h, m) == \E i \in 1 .. Len(s) : i > h /\ s[i] = m

(* The object numbers are n, n + 1, ... up to hi - 1.                      *)
Dense(s, h, n, hi) ==
  /\ n + Len(s) = hi + h
  /\ \A i \in 1 .. Len(s) : i > h => s[i] = n + i - 1 - h

LEMMA FrameInt == Frames \subseteq Int /\ READY \in Frames
BY BoundAssumption DEF Frames, Messages, READY

LEMMA EmptyQueue ==
  ASSUME NEW lo, NEW hi, NEW h \in {0, 1}
  PROVE  Rising(<<>>, h, lo, hi) /\ \A m : ~ Holds(<<>>, h, m)
BY DEF Rising, Holds

(* A returned object that is the next one keeps the order.                 *)
LEMMA OrderedAppend ==
  ASSUME NEW g \in Seq(Frames), Ordered(g), NEW m \in Frames, m = Len(g)
  PROVE  Ordered(Append(g, m)) /\ Len(Append(g, m)) = Len(g) + 1 /\ Len(g) \in Nat
BY DEF Ordered

(* Sending object hi.                                                      *)
LEMMA RisingAppend ==
  ASSUME NEW s \in Seq(Frames), NEW h \in {0, 1}, h <= Len(s), NEW lo \in Int,
         NEW hi \in Frames, lo <= hi, Rising(s, h, lo, hi)
  PROVE  /\ Rising(Append(s, hi), h, lo, hi + 1)
         /\ \A m : Holds(Append(s, hi), h, m) <=> Holds(s, h, m) \/ m = hi
<1> USE FrameInt
<1> DEFINE t == Append(s, hi)
<1>1. /\ Len(t) = Len(s) + 1 /\ Len(s) \in Nat /\ t[Len(s) + 1] = hi
      /\ \A i \in 1 .. Len(s) : t[i] = s[i] /\ s[i] \in Int
      /\ \A i \in 1 .. Len(t) : i \in 1 .. Len(s) \/ i = Len(s) + 1
  <2>1. /\ Len(t) = Len(s) + 1 /\ Len(s) \in Nat /\ t[Len(s) + 1] = hi
        /\ \A i \in 1 .. Len(s) : t[i] = s[i] /\ s[i] \in Frames
    OBVIOUS
  <2> HIDE DEF t
  <2>2. \A i \in 1 .. Len(t) : i \in 1 .. Len(s) \/ i = Len(s) + 1
    BY ONLY <2>1
  <2> QED BY <2>1, <2>2
<1> HIDE DEF t
<1>2. Rising(t, h, lo, hi + 1)
  BY <1>1 DEF Rising
<1>3. ASSUME NEW m, Holds(t, h, m) PROVE Holds(s, h, m) \/ m = hi
  BY <1>1, <1>3 DEF Holds
<1>4. ASSUME NEW m, Holds(s, h, m) PROVE Holds(t, h, m)
  BY <1>1, <1>4 DEF Holds
<1>5. Holds(t, h, hi)
  BY <1>1 DEF Holds
<1> QED BY <1>2, <1>3, <1>4, <1>5 DEF t

(* Receiving an object.                                                    *)
LEMMA RisingTail ==
  ASSUME NEW s \in Seq(Frames), s # <<>>, NEW lo \in Int, NEW hi \in Int, Rising(s, 0, lo, hi)
  PROVE  /\ lo <= Head(s) /\ Head(s) < hi /\ Holds(s, 0, Head(s))
         /\ Rising(Tail(s), 0, Head(s) + 1, hi)
         /\ \A m : Holds(s, 0, m) <=> m = Head(s) \/ Holds(Tail(s), 0, m)
         /\ \A m : Holds(s, 0, m) => Head(s) <= m
<1> USE FrameInt
<1> DEFINE t == Tail(s)
<1>1. /\ Len(t) = Len(s) - 1 /\ Len(s) \in Nat \ {0} /\ Head(s) = s[1]
      /\ \A i \in 1 .. Len(s) : s[i] \in Int
      /\ \A i \in 1 .. Len(t) : t[i] = s[i + 1]
  <2>1. /\ Len(t) = Len(s) - 1 /\ Len(s) \in Nat \ {0} /\ Head(s) = s[1]
        /\ \A i \in 1 .. Len(s) : s[i] \in Frames
        /\ \A i \in 1 .. Len(t) : t[i] = s[i + 1]
    OBVIOUS
  <2> HIDE DEF t
  <2> QED BY <2>1
<1> HIDE DEF t
<1>2. lo <= Head(s) /\ Head(s) < hi /\ Holds(s, 0, Head(s))
  BY <1>1 DEF Rising, Holds
<1>3. Rising(t, 0, Head(s) + 1, hi)
  <2>1. ASSUME NEW i \in 1 .. Len(t) PROVE Head(s) + 1 <= t[i] /\ t[i] < hi
    <3>1. i + 1 \in 1 .. Len(s) /\ 1 < i + 1 /\ 1 \in 1 .. Len(s) /\ t[i] = s[i + 1]
      BY <1>1
    <3>2. s[1] < s[i + 1] /\ s[i + 1] < hi
      BY <3>1 DEF Rising
    <3> QED BY <1>1, <3>1, <3>2
  <2>2. ASSUME NEW i \in 1 .. Len(t), NEW j \in 1 .. Len(t), i < j PROVE t[i] < t[j]
    <3>1. /\ i + 1 \in 1 .. Len(s) /\ j + 1 \in 1 .. Len(s) /\ i + 1 < j + 1 /\ i + 1 > 0
          /\ t[i] = s[i + 1] /\ t[j] = s[j + 1]
      BY <1>1, <2>2
    <3> QED BY <3>1 DEF Rising
  <2> QED BY <2>1, <2>2 DEF Rising
<1>4. ASSUME NEW m, Holds(s, 0, m) PROVE (m = Head(s) \/ Holds(t, 0, m)) /\ Head(s) <= m
  <2>1. PICK i \in 1 .. Len(s) : s[i] = m
    BY <1>4 DEF Holds
  <2>2. CASE i = 1
    BY <1>1, <2>1, <2>2
  <2>3. CASE i # 1
    <3>1. i - 1 \in 1 .. Len(t) /\ t[i - 1] = m /\ i - 1 > 0
      BY <1>1, <2>1, <2>3
    <3>2. s[1] < s[i]
      BY <1>1, <2>3 DEF Rising
    <3> QED BY <1>1, <2>1, <3>1, <3>2 DEF Holds
  <2> QED BY <2>2, <2>3
<1>5. ASSUME NEW m, Holds(t, 0, m) PROVE Holds(s, 0, m)
  <2>1. PICK i \in 1 .. Len(t) : t[i] = m
    BY <1>5 DEF Holds
  <2>2. i + 1 \in 1 .. Len(s) /\ i + 1 > 0 /\ s[i + 1] = m
    BY <1>1, <2>1
  <2> QED BY <2>2 DEF Holds
<1> QED BY <1>2, <1>3, <1>4, <1>5 DEF t

(* Receiving READY.                                                        *)
LEMMA RisingHello ==
  ASSUME NEW s \in Seq(Frames), s # <<>>, NEW lo \in Int, NEW hi \in Int, Rising(s, 1, lo, hi)
  PROVE  /\ Rising(Tail(s), 0, lo, hi)
         /\ \A m : Holds(s, 1, m) <=> Holds(Tail(s), 0, m)
<1> USE FrameInt
<1> DEFINE t == Tail(s)
<1>1. /\ Len(t) = Len(s) - 1 /\ Len(s) \in Nat \ {0}
      /\ \A i \in 1 .. Len(t) : t[i] = s[i + 1]
  OBVIOUS
<1> HIDE DEF t
<1>2. Rising(t, 0, lo, hi)
  <2>1. ASSUME NEW i \in 1 .. Len(t) PROVE lo <= t[i] /\ t[i] < hi
    <3>1. i + 1 \in 1 .. Len(s) /\ i + 1 > 1 /\ t[i] = s[i + 1]
      BY <1>1
    <3> QED BY <3>1 DEF Rising
  <2>2. ASSUME NEW i \in 1 .. Len(t), NEW j \in 1 .. Len(t), i < j PROVE t[i] < t[j]
    <3>1. /\ i + 1 \in 1 .. Len(s) /\ j + 1 \in 1 .. Len(s) /\ i + 1 < j + 1 /\ i + 1 > 1
          /\ t[i] = s[i + 1] /\ t[j] = s[j + 1]
      BY <1>1, <2>2
    <3> QED BY <3>1 DEF Rising
  <2> QED BY <2>1, <2>2 DEF Rising
<1>3. ASSUME NEW m, Holds(s, 1, m) PROVE Holds(t, 0, m)
  <2>1. PICK i \in 1 .. Len(s) : i > 1 /\ s[i] = m
    BY <1>3 DEF Holds
  <2>2. i - 1 \in 1 .. Len(t) /\ t[i - 1] = m /\ i - 1 > 0
    BY <1>1, <2>1
  <2> QED BY <2>2 DEF Holds
<1>4. ASSUME NEW m, Holds(t, 0, m) PROVE Holds(s, 1, m)
  <2>1. PICK i \in 1 .. Len(t) : t[i] = m
    BY <1>4 DEF Holds
  <2>2. i + 1 \in 1 .. Len(s) /\ i + 1 > 1 /\ s[i + 1] = m
    BY <1>1, <2>1
  <2> QED BY <2>2 DEF Holds
<1> QED BY <1>2, <1>3, <1>4 DEF t

(* The same three for the queue of a remote reader.                        *)
LEMMA DenseAppend ==
  ASSUME NEW s \in Seq(Frames), NEW h \in {0, 1}, NEW n \in Nat, NEW hi \in Frames,
         Dense(s, h, n, hi)
  PROVE  Dense(Append(s, hi), h, n, hi + 1)
BY FrameInt DEF Dense

LEMMA DenseTail ==
  ASSUME NEW s \in Seq(Frames), s # <<>>, NEW n \in Nat, NEW hi \in Int, Dense(s, 0, n, hi)
  PROVE  Head(s) = n /\ Dense(Tail(s), 0, n + 1, hi)
BY FrameInt DEF Dense

LEMMA DenseHello ==
  ASSUME NEW s \in Seq(Frames), s # <<>>, NEW n \in Nat, NEW hi \in Int, Dense(s, 1, n, hi)
  PROVE  Dense(Tail(s), 0, n, hi)
BY FrameInt DEF Dense
-----------------------------------------------------------------------------
(* Remote readers.                                                         *)

(* READY frames at the head of r's queue once it was greeted.              *)
Hello(r) == IF rpc[r] = "hello" THEN 1 ELSE 0

(* Objects published to the remote readers.                                *)
SentRemote == IF wpc \in {"send", "notify", "remote"} THEN published - 1 ELSE published

StartInv == wpc \in {"handshake", "handshake_remote"} => published = 0

(* A remote reader has the first objects, its queue all the others sent.   *)
RemoteInv ==
  \A r \in RemoteReaders :
    /\ Ordered(got[r])
    /\ ~ Greeted(r) => Len(got[r]) = 0
    /\ Greeted(r) => Dense(sock[r], Hello(r), Len(got[r]), SentRemote)

LEMMA InitRemote == Init => StartInv /\ RemoteInv
BY DEF Init, StartInv, RemoteInv, Ordered, Greeted, Readers

(* Nothing is published during the handshake.                              *)
LEMMA NextStart ==
  ASSUME StartInv, [Next]_vars PROVE StartInv'
<1>1. CASE Calm
  BY <1>1 DEF Calm, CalmWriter, StartInv
<1>2. CASE UNCHANGED wvars
  BY <1>2 DEF wvars, StartInv
<1>3. CASE HandshakeLocal \/ HandshakeRemote \/ SendOverflow \/ SendRemote \/ AcquireWrite
           \/ DrainHdr \/ PublishBlock \/ \E over \in BOOLEAN : Enqueue(over)
  BY <1>3 DEF HandshakeLocal, HandshakeRemote, SendOverflow, SendRemote, AcquireWrite,
    DrainHdr, PublishBlock, Enqueue, StartInv
<1>4. ASSUME NEW r \in Readers,
             \/ Connect(r) \/ RecvReady(r) \/ StartDequeue(r) \/ Recv(r) \/ RecvTimeout(r)
             \/ ReadHeader(r) \/ ReadBody(r) \/ ReturnInline(r) \/ AwaitOverflow(r)
      PROVE  UNCHANGED wvars
  BY <1>4 DEF Connect, RecvReady, StartDequeue, Recv, RecvTimeout, ReadHeader, ReadBody,
    ReturnInline, AwaitOverflow
<1>5. LocalReaders \subseteq Readers
  BY DEF Readers
<1> QED BY <1>1, <1>2, <1>3, <1>4, <1>5, DeliveryFrame

LEMMA NextRemote ==
  ASSUME TypeInv, GreetInv, StartInv, RemoteInv, [Next]_vars PROVE RemoteInv'
<1> USE DEF TypeInv, TypeOK
<1>0. /\ \A r \in Readers : /\ sock[r] \in Seq(Frames) /\ got[r] \in Seq(Frames)
                            /\ rpc[r] \in ReaderPoints /\ Len(got[r]) \in Nat
                            /\ Hello(r) \in {0, 1}
      /\ \A r \in RemoteReaders : r \in Readers /\ r \notin LocalReaders
      /\ LocalReaders \subseteq Readers
      /\ published \in Nat /\ SentRemote \in Int
  BY ReadersAssumption, BoundAssumption
  DEF SocketTypeOK, ReaderTypeOK, WriterTypeOK, Readers, Hello, SentRemote
<1>r. READY \in Frames /\ (wpc \in {"send", "remote"} => published - 1 \in Frames)
  BY BoundAssumption DEF Frames, CountInv, WriterTypeOK, Messages
(* A step that leaves the socket and the results of remote readers alone.  *)
<1>f. ASSUME \A r \in RemoteReaders : /\ Greeted(r)' = Greeted(r) /\ SentRemote' = SentRemote
                                      /\ (Greeted(r) => Hello(r)' = Hello(r))
                                      /\ sock'[r] = sock[r] /\ got'[r] = got[r]
      PROVE  RemoteInv'
  BY <1>f DEF RemoteInv
<1>1. CASE Calm
  <2>1. UNCHANGED <<published, sock, got>>
    BY <1>1 DEF Calm
  <2>2. \A r \in RemoteReaders : Greeted(r)' = Greeted(r) /\ SentRemote' = SentRemote
    BY <1>1, <2>1 DEF Calm, CalmWriter, Greeted, SentRemote
  <2>3. \A r \in RemoteReaders : Hello(r)' = Hello(r)
    BY <1>0, <1>1, CalmMoves DEF Calm, Hello, Plain
  <2> QED BY <1>f, <2>1, <2>2, <2>3
<1>2. CASE HandshakeLocal
  <2>1. /\ Publish(LocalReaders, READY) /\ UNCHANGED <<got, rpc, published>>
        /\ wpc = "handshake" /\ wpc' = "handshake_remote"
    BY <1>2 DEF HandshakeLocal, rvars, hist
  <2>2. \A r \in RemoteReaders : ~ Greeted(r)' /\ ~ Greeted(r)
    BY <1>0, <2>1 DEF Greeted
  <2> QED BY <2>1, <2>2 DEF RemoteInv
<1>3. CASE HandshakeRemote
  <2>1. /\ Publish(RemoteReaders, READY) /\ UNCHANGED <<got, rpc, published>>
        /\ wpc = "handshake_remote" /\ wpc' = "idle" /\ RemoteReaders \subseteq subs
    BY <1>3 DEF HandshakeRemote, rvars, hist
  <2> SUFFICES ASSUME NEW r \in RemoteReaders
               PROVE  Ordered(got[r]) /\ Dense(sock'[r], Hello(r)', Len(got[r]), SentRemote')
    BY <1>0, <2>1 DEF RemoteInv, Greeted
  <2>2. ~ Greeted(r)
    BY <1>0, <2>1 DEF Greeted
  <2>3. sock[r] = <<>> /\ rpc[r] = "hello" /\ Len(got[r]) = 0 /\ Ordered(got[r])
    BY <1>0, <2>1, <2>2 DEF GreetInv, RemoteInv
  <2>4. sock'[r] = Append(<<>>, READY)
    BY <1>0, <1>r, <2>1, <2>3, PublishFacts
  <2>5. Hello(r)' = 1 /\ SentRemote' = 0
    BY <2>1, <2>3 DEF Hello, SentRemote, StartInv
  <2>6. Dense(Append(<<>>, READY), 1, 0, 0)
    BY <1>r DEF Dense
  <2> QED BY <2>3, <2>4, <2>5, <2>6
<1>4. CASE SendRemote
  <2>1. /\ Publish(RemoteReaders, published - 1) /\ UNCHANGED <<got, rpc, subs, published>>
        /\ wpc = "remote" /\ wpc' = "idle"
    BY <1>4 DEF SendRemote, rvars, hist
  <2> SUFFICES ASSUME NEW r \in RemoteReaders
               PROVE  Ordered(got[r]) /\ Dense(sock'[r], Hello(r)', Len(got[r]), SentRemote')
    BY <1>0, <2>1 DEF RemoteInv, Greeted
  <2>2. Greeted(r) /\ r \in subs
    BY <1>0, <2>1 DEF GreetInv, Greeted
  <2>3. sock'[r] = Append(sock[r], published - 1)
    BY <1>0, <1>r, <2>1, <2>2, PublishFacts
  <2>4. Hello(r)' = Hello(r) /\ SentRemote' = published /\ SentRemote = published - 1
    BY <2>1 DEF Hello, SentRemote
  <2>5. Dense(sock[r], Hello(r), Len(got[r]), published - 1)
    BY <2>2, <2>4 DEF RemoteInv
  <2>6. Dense(Append(sock[r], published - 1), Hello(r), Len(got[r]), published - 1 + 1)
    BY <1>0, <1>r, <2>1, <2>5, DenseAppend
  <2>7. published - 1 + 1 = published
    BY <1>0
  <2> QED BY <2>3, <2>4, <2>6, <2>7 DEF RemoteInv
<1>5. CASE SendOverflow
  <2>1. /\ Publish(LocalReaders, published - 1) /\ UNCHANGED <<got, rpc, published>>
        /\ wpc = "send" /\ wpc' = "notify"
    BY <1>5 DEF SendOverflow, rvars, hist
  <2>2. \A r \in RemoteReaders : sock'[r] = sock[r]
    BY <1>0, <1>r, <2>1, PublishFacts
  <2> QED BY <1>f, <2>1, <2>2 DEF Greeted, Hello, SentRemote
<1>6. CASE AcquireWrite \/ DrainHdr \/ PublishBlock \/ \E over \in BOOLEAN : Enqueue(over)
  <2>1. /\ UNCHANGED <<rpc, sock, got>> /\ SentRemote' = SentRemote
        /\ \A r \in Readers : Greeted(r)' = Greeted(r)
    BY <1>0, <1>6 DEF AcquireWrite, DrainHdr, PublishBlock, Enqueue, rvars, netvars, hist,
      Greeted, SentRemote
  <2> QED BY <1>0, <1>f, <2>1 DEF Hello
<1>7. ASSUME NEW q \in Readers, Connect(q) PROVE RemoteInv'
  <2>1. /\ rpc[q] = "connect" /\ rpc'[q] = "hello" /\ UNCHANGED <<wpc, published, sock, got>>
        /\ \A r \in Readers : r # q => rpc'[r] = rpc[r]
    BY <1>7, MoveFacts DEF Connect, wvars, hist
  <2>2. ~ Greeted(q)
    BY <2>1 DEF GreetInv
  <2> QED BY <1>0, <1>f, <2>1, <2>2 DEF Greeted, SentRemote, Hello
<1>8. ASSUME NEW q \in Readers, RecvReady(q) PROVE RemoteInv'
  <2>1. /\ rpc[q] = "hello" /\ rpc'[q] = "idle" /\ UNCHANGED <<wpc, published, got>>
        /\ sock[q] # <<>> /\ sock'[q] = Tail(sock[q])
        /\ \A r \in Readers : r # q => rpc'[r] = rpc[r] /\ sock'[r] = sock[r]
    BY <1>8, MoveFacts DEF RecvReady, wvars, hist, SocketTypeOK
  <2>2. \A r \in Readers : Greeted(r)' = Greeted(r) /\ SentRemote' = SentRemote
    BY <2>1 DEF Greeted, SentRemote
  <2> SUFFICES ASSUME NEW r \in RemoteReaders
               PROVE  /\ Ordered(got[r]) /\ (~ Greeted(r) => Len(got[r]) = 0)
                      /\ Greeted(r) => Dense(sock'[r], Hello(r)', Len(got[r]), SentRemote)
    BY <1>0, <2>1, <2>2 DEF RemoteInv
  <2>3. CASE r # q
    BY <1>0, <2>1, <2>3 DEF RemoteInv, Hello
  <2>4. CASE r = q
    <3>1. Greeted(r) => Dense(sock[r], 1, Len(got[r]), SentRemote)
      BY <2>1, <2>4 DEF RemoteInv, Hello
    <3>2. Greeted(r) => Dense(Tail(sock[r]), 0, Len(got[r]), SentRemote)
      BY <1>0, <2>1, <2>4, <3>1, DenseHello
    <3>3. Hello(r)' = 0
      BY <2>1, <2>4 DEF Hello
    <3> QED BY <2>1, <2>4, <3>2, <3>3 DEF RemoteInv
  <2> QED BY <2>3, <2>4
<1>9. ASSUME NEW q \in Readers, Recv(q) PROVE RemoteInv'
  <2>1. /\ rpc[q] = "recv" /\ rpc'[q] = "idle" /\ UNCHANGED <<wpc, published>>
        /\ sock[q] # <<>> /\ sock'[q] = Tail(sock[q])
        /\ got'[q] = Append(got[q], Head(sock[q]))
        /\ \A r \in Readers :
             r # q => rpc'[r] = rpc[r] /\ sock'[r] = sock[r] /\ got'[r] = got[r]
    BY <1>9, MoveFacts DEF Recv, Goto, wvars, SocketTypeOK
  <2>2. \A r \in Readers : Greeted(r)' = Greeted(r) /\ SentRemote' = SentRemote
    BY <2>1 DEF Greeted, SentRemote
  <2> SUFFICES ASSUME NEW r \in RemoteReaders
               PROVE  /\ Ordered(got'[r]) /\ (~ Greeted(r) => Len(got'[r]) = 0)
                      /\ Greeted(r) => Dense(sock'[r], Hello(r)', Len(got'[r]), SentRemote)
    BY <1>0, <2>1, <2>2 DEF RemoteInv
  <2>3. CASE r # q
    BY <1>0, <2>1, <2>3 DEF RemoteInv, Hello
  <2>4. CASE r = q
    <3>1. Greeted(r)
      BY <1>0, <2>1, <2>4 DEF GreetInv
    <3>2. Dense(sock[r], 0, Len(got[r]), SentRemote) /\ Ordered(got[r])
      BY <2>1, <2>4, <3>1 DEF RemoteInv, Hello
    <3>3. Head(sock[r]) = Len(got[r]) /\ Dense(Tail(sock[r]), 0, Len(got[r]) + 1, SentRemote)
      BY <1>0, <2>1, <2>4, <3>2, DenseTail
    <3>4. Head(sock[r]) \in Frames
      BY <1>0, <2>1, <2>4
    <3>5. Ordered(Append(got[r], Head(sock[r])))
          /\ Len(Append(got[r], Head(sock[r]))) = Len(got[r]) + 1
      BY <1>0, <3>2, <3>3, <3>4, OrderedAppend
    <3>6. Hello(r)' = 0
      BY <2>1, <2>4 DEF Hello
    <3> QED BY <2>1, <2>4, <3>1, <3>3, <3>5, <3>6
  <2> QED BY <2>3, <2>4
<1>10. ASSUME NEW q \in Readers,
              \/ StartDequeue(q) \/ RecvTimeout(q)
              \/ q \in LocalReaders /\ \/ ReadHeader(q) \/ ReadBody(q)
                                       \/ ReturnInline(q) \/ AwaitOverflow(q)
       PROVE  RemoteInv'
  <2>1. /\ rpc[q] # "hello" /\ UNCHANGED <<wpc, published, sock>>
        /\ \E p \in ReaderPoints \ {"hello"} : rpc' = [rpc EXCEPT ![q] = p]
    BY <1>10 DEF StartDequeue, RecvTimeout, ReadHeader, ReadBody, ReturnInline,
      AwaitOverflow, Goto, wvars, netvars, ReaderPoints
  <2>2. \A r \in RemoteReaders : got'[r] = got[r]
    BY <1>0, <1>10 DEF StartDequeue, RecvTimeout, ReadHeader, ReadBody, ReturnInline,
      AwaitOverflow, hist, SocketTypeOK
  <2>3. rpc'[q] # "hello" /\ \A r \in Readers : r # q => rpc'[r] = rpc[r]
    BY <2>1, MoveFacts
  <2>4. \A r \in RemoteReaders : Hello(r)' = Hello(r)
    BY <1>0, <2>1, <2>3 DEF Hello
  <2> QED BY <1>f, <2>1, <2>2, <2>4 DEF Greeted, SentRemote
<1> QED
  BY <1>0, <1>1, <1>2, <1>3, <1>4, <1>5, <1>6, <1>7, <1>8, <1>9, <1>10, DeliveryFrame
-----------------------------------------------------------------------------
(* Local readers.                                                          *)

(* Objects whose overflow payload, if they have one, was sent.             *)
Sent == IF wpc = "send" THEN published - 1 ELSE published

(* The header of a block outlives its reading: a reader about to release   *)
(* the block knows it, and so does the writer about to send the payload.   *)
MarkInv ==
  \A r \in LocalReaders :
    /\ rpc[r] = "mark" => hdr[rIdx[r]] = "inline"
    /\ rpc[r] = "mark_overflow" => hdr[rIdx[r]] = "overflow"
    /\ wpc = "send" => \A c \in Chunks : ObjectIn(c) = published - 1 => hdr[c] = "overflow"

(* The payloads queued at r are those of the overflow objects among the    *)
(* ones it still has to read in the ring, and that of the object it        *)
(* awaits.                                                                 *)
StreamAt(r) ==
  /\ Ordered(got[r])
  /\ Len(got[r]) = IF rpc[r] = "recv" THEN consumed[r] - 1 ELSE consumed[r]
  /\ Rising(sock[r], Hello(r), Len(got[r]), Sent)
  /\ \A c \in Chunks : ~ Filling(c) /\ consumed[r] <= ObjectIn(c) =>
       (Holds(sock[r], Hello(r), ObjectIn(c)) <=> hdr[c] = "overflow" /\ ObjectIn(c) < Sent)
  /\ rpc[r] = "recv" /\ consumed[r] <= Sent => Holds(sock[r], Hello(r), consumed[r] - 1)
  /\ wpc = "send" /\ consumed[r] = published => rpc[r] = "recv"

StreamInv == \A r \in LocalReaders : ~ dropped[r] => StreamAt(r)

LEMMA ReadyQueue ==
  ASSUME NEW lo, NEW hi
  PROVE  /\ Rising(Append(<<>>, READY), 1, lo, hi)
         /\ \A m : ~ Holds(Append(<<>>, READY), 1, m)
BY DEF Rising, Holds

(* The bounds of a queue may be relaxed, and the lower one raised over an  *)
(* object that is not there.                                               *)
LEMMA RisingBounds ==
  ASSUME NEW s \in Seq(Frames), NEW h \in {0, 1}, NEW lo \in Int, NEW hi \in Int,
         Rising(s, h, lo, hi)
  PROVE  /\ Rising(s, h, lo, hi + 1)
         /\ ~ Holds(s, h, hi)
         /\ ~ Holds(s, h, lo) => Rising(s, h, lo + 1, hi)
<1>1. \A i \in 1 .. Len(s) : s[i] \in Frames
  OBVIOUS
<1>2. \A i \in 1 .. Len(s) : s[i] \in Int
  BY <1>1, FrameInt
<1>3. Rising(s, h, lo, hi + 1)
  BY <1>2 DEF Rising
<1>4. ~ Holds(s, h, hi)
  BY <1>2 DEF Rising, Holds
<1>5. ~ Holds(s, h, lo) => Rising(s, h, lo + 1, hi)
  BY <1>2 DEF Rising, Holds
<1> QED BY <1>3, <1>4, <1>5

(* The object in a block was published.                                    *)
LEMMA ObjectBelow ==
  ASSUME TypeInv, NEW c \in Chunks
  PROVE  ObjectIn(c) \in Int /\ ObjectIn(c) < published
BY ChunksAssumption, BoundAssumption
DEF TypeInv, TypeOK, WriterTypeOK, ObjectIn, Chunks

LEMMA LocalFacts ==
  ASSUME TypeInv, NEW r \in LocalReaders
  PROVE  /\ r \in Readers /\ r \notin RemoteReaders
         /\ sock[r] \in Seq(Frames) /\ got[r] \in Seq(Frames) /\ rpc[r] \in ReaderPoints
         /\ Len(got[r]) \in Nat /\ consumed[r] \in Nat /\ rIdx[r] \in Chunks
         /\ Hello(r) \in {0, 1} /\ published \in Nat /\ wIdx \in Chunks
         /\ Sent \in Int /\ dropped[r] \in BOOLEAN
         /\ (wpc = "send" => published - 1 \in Frames)
<1>1. r \in Readers /\ r \notin RemoteReaders
  BY ReadersAssumption DEF Readers
<1>2. /\ sock[r] \in Seq(Frames) /\ got[r] \in Seq(Frames) /\ rpc[r] \in ReaderPoints
      /\ Len(got[r]) \in Nat /\ consumed[r] \in Nat /\ rIdx[r] \in Chunks
  BY <1>1 DEF TypeInv, TypeOK, SocketTypeOK, ReaderTypeOK
<1>3. /\ Hello(r) \in {0, 1} /\ published \in Nat /\ wIdx \in Chunks /\ Sent \in Int
      /\ (wpc = "send" => published - 1 \in Frames)
  BY BoundAssumption
  DEF TypeInv, TypeOK, WriterTypeOK, CountInv, Hello, Sent, Frames, Messages
<1>4. dropped[r] \in BOOLEAN
  BY DEF TypeInv, TypeOK, FlagTypeOK
<1> QED BY <1>1, <1>2, <1>3, <1>4

(* A step that touches neither r's socket and results nor the headers of   *)
(* blocks in use.                                                          *)
LEMMA StreamFrame ==
  ASSUME NEW r \in LocalReaders, ~ dropped[r] => StreamAt(r),
         ~ dropped'[r] => ~ dropped[r],
         got'[r] = got[r], consumed'[r] = consumed[r], sock'[r] = sock[r],
         Hello(r)' = Hello(r), rpc'[r] = "recv" <=> rpc[r] = "recv",
         Sent' = Sent, wpc' = "send" => wpc = "send" /\ published' = published,
         \A c \in Chunks : ~ Filling(c)' =>
           ~ Filling(c) /\ ObjectIn(c)' = ObjectIn(c) /\ hdr'[c] = hdr[c]
  PROVE  ~ dropped'[r] => StreamAt(r)'
BY DEF StreamAt

LEMMA InitStream == Init => MarkInv /\ StreamInv
<1> SUFFICES ASSUME Init PROVE MarkInv /\ StreamInv
  OBVIOUS
<1>1. MarkInv
  BY DEF Init, MarkInv, Readers
<1>2. ASSUME NEW r \in LocalReaders PROVE StreamAt(r)
  <2>1. /\ got[r] = <<>> /\ consumed[r] = 0 /\ sock[r] = <<>> /\ Hello(r) = 0
        /\ rpc[r] = "connect" /\ wpc = "handshake" /\ published = 0
    BY DEF Init, Readers, Hello
  <2>2. \A c \in Chunks : ObjectIn(c) < 0 /\ ObjectIn(c) \in Int
    BY <2>1, InitType, ObjectBelow
  <2>3. Ordered(got[r]) /\ Len(got[r]) = 0
    BY <2>1 DEF Ordered
  <2>4. Rising(sock[r], Hello(r), Len(got[r]), Sent)
    BY <2>1, EmptyQueue
  <2> QED BY <2>1, <2>2, <2>3, <2>4 DEF StreamAt
<1> QED BY <1>1, <1>2 DEF StreamInv
(* Who takes an object out of a block releases it with the header known.   *)
LEMMA NextMark ==
  ASSUME TypeInv, RingInv, MarkInv, [Next]_vars PROVE MarkInv'
<1> SUFFICES ASSUME NEW r \in LocalReaders
             PROVE  /\ rpc'[r] = "mark" => hdr'[rIdx'[r]] = "inline"
                    /\ rpc'[r] = "mark_overflow" => hdr'[rIdx'[r]] = "overflow"
                    /\ wpc' = "send" => \A c \in Chunks :
                         ObjectIn(c)' = published' - 1 => hdr'[c] = "overflow"
  BY DEF MarkInv
<1>0. /\ ReaderTypeOK /\ r \in Readers /\ rIdx[r] \in Chunks /\ LocalReaders \subseteq Readers
      /\ hdr \in [Chunks -> {"inline", "overflow"}] /\ wIdx \in Chunks /\ published \in Nat
  BY BoundAssumption
  DEF TypeInv, TypeOK, ReaderTypeOK, MemoryTypeOK, WriterTypeOK, Readers
(* Steps that leave the blocks alone.                                      *)
<1>f. ASSUME UNCHANGED <<hdr, wIdx, published, rIdx>>, wpc' = "send" => wpc = "send",
             rpc'[r] = rpc[r] \/ rpc'[r] \notin {"mark", "mark_overflow"}
      PROVE  /\ rpc'[r] = "mark" => hdr'[rIdx'[r]] = "inline"
             /\ rpc'[r] = "mark_overflow" => hdr'[rIdx'[r]] = "overflow"
             /\ wpc' = "send" => \A c \in Chunks :
                  ObjectIn(c)' = published' - 1 => hdr'[c] = "overflow"
  BY <1>f DEF MarkInv, ObjectIn
<1>1. CASE Calm
  <2>1. rpc'[r] = rpc[r] \/ rpc'[r] \in Plain
    BY <1>0, <1>1, CalmMoves DEF Calm
  <2> QED BY <1>f, <1>1, <2>1 DEF Calm, CalmWriter, Plain
<1>2. CASE HandshakeLocal \/ HandshakeRemote \/ AcquireWrite \/ SendOverflow \/ SendRemote
  BY <1>f, <1>2 DEF HandshakeLocal, HandshakeRemote, AcquireWrite, SendOverflow,
    SendRemote, shm, rvars
<1>3. ASSUME NEW over \in BOOLEAN, Enqueue(over)
      PROVE  UNCHANGED <<hdr, wIdx, published, rIdx, rpc>> /\ wpc' # "send"
  BY <1>3 DEF Enqueue, shm, rvars
<1>4. CASE DrainHdr
  <2>1. /\ wpc = "fence" /\ UNCHANGED <<wpc, rIdx, rpc>>
        /\ \A c \in Chunks : c # wIdx => hdr'[c] = hdr[c]
    BY <1>0, <1>4 DEF DrainHdr, TypeInv, CountInv, rvars
  <2>2. rpc[r] \in {"mark", "mark_overflow"} => rIdx[r] # wIdx
    BY <2>1, ReaderBlock DEF RingInv, ReaderInv, InBlock
  <2> QED BY <1>0, <2>1, <2>2 DEF MarkInv
<1>5. CASE PublishBlock
  <2>1. /\ wpc = "fence" /\ pending = {} /\ published' = published + 1 /\ UNCHANGED <<hdr, rIdx, rpc>>
        /\ (wpc' = "send" => overflow)
        /\ wIdx' = IF wIdx = max_chunks - 1 THEN 0 ELSE wIdx + 1
    BY <1>0, <1>5, NextIdx DEF PublishBlock, rvars
  <2>2. ASSUME NEW c \in Chunks, c # wIdx PROVE ObjectIn(c)' # published' - 1
    <3>1. ObjectIn(c)' = ObjectIn(c)
      BY <1>0, <2>1, <2>2, ChunksAssumption DEF ObjectIn, Chunks
    <3>2. ObjectIn(c) \in Int /\ ObjectIn(c) < published
      BY ObjectBelow
    <3> QED BY <1>0, <2>1, <3>1, <3>2
  <2>3. overflow => hdr[wIdx] = "overflow"
    BY <2>1 DEF RingInv, FillInv
  <2> QED BY <2>1, <2>2, <2>3 DEF MarkInv
<1>6. ASSUME NEW q \in Readers,
             \/ Connect(q) \/ RecvReady(q) \/ StartDequeue(q) \/ Recv(q) \/ RecvTimeout(q)
      PROVE  /\ UNCHANGED <<hdr, wIdx, published, rIdx, wpc>>
             /\ rpc'[r] = rpc[r] \/ rpc'[r] \notin {"mark", "mark_overflow"}
  <2>1. /\ UNCHANGED <<hdr, wIdx, published, rIdx, wpc>>
        /\ \E p \in {"hello", "idle", "check", "recv"} : rpc' = [rpc EXCEPT ![q] = p]
    BY <1>6 DEF Connect, RecvReady, StartDequeue, Recv, RecvTimeout, Goto, shm, wvars
  <2> QED BY <1>0, <2>1, MoveFacts
<1>7. ASSUME NEW q \in LocalReaders, ReadHeader(q) \/ ReadBody(q)
      PROVE  /\ UNCHANGED <<hdr, wIdx, published, rIdx, wpc>>
             /\ rpc'[r] = "mark" => hdr[rIdx[r]] = "inline"
             /\ rpc'[r] = "mark_overflow" => hdr[rIdx[r]] = "overflow"
  <2>1. /\ UNCHANGED <<hdr, wIdx, published, rIdx, wpc>>
        /\ \/ /\ rpc[q] = "hdr"
              /\ rpc' = [rpc EXCEPT ![q] = IF hdr[rIdx[q]] = "overflow"
                                            THEN "mark_overflow" ELSE "body"]
           \/ rpc[q] = "body" /\ rpc' = [rpc EXCEPT ![q] = "mark"]
    BY <1>7 DEF ReadHeader, ReadBody, Goto, shm, wvars
  <2>2. CASE r # q
    <3>1. rpc'[r] = rpc[r]
      BY <1>0, <2>1, <2>2, MoveFacts
    <3> QED BY <2>1, <3>1 DEF MarkInv
  <2>3. CASE r = q
    <3>1. CASE rpc[q] = "hdr"
      BY <1>0, <2>1, <2>3, <3>1, MoveFacts
    <3>2. CASE rpc[q] = "body"
      <4>1. rpc'[r] = "mark"
        BY <1>0, <2>1, <2>3, <3>2, MoveFacts
      <4>2. hdr[rIdx[r]] = "inline"
        BY <2>3, <3>2 DEF RingInv, ReaderInv
      <4> QED BY <2>1, <4>1, <4>2
    <3> QED BY <2>1, <3>1, <3>2
  <2> QED BY <2>2, <2>3
<1>8. ASSUME NEW q \in LocalReaders, ReturnInline(q) \/ AwaitOverflow(q)
      PROVE  /\ UNCHANGED <<hdr, wIdx, published, wpc>>
             /\ rpc'[r] = "mark" => hdr[rIdx'[r]] = "inline"
             /\ rpc'[r] = "mark_overflow" => hdr[rIdx'[r]] = "overflow"
  <2>1. /\ UNCHANGED <<hdr, wIdx, published, wpc>>
        /\ rIdx' = [rIdx EXCEPT ![q] = Next_idx(@)]
        /\ \E p \in {"idle", "recv"} : rpc' = [rpc EXCEPT ![q] = p]
    BY <1>8 DEF ReturnInline, AwaitOverflow, ReleaseBlock, Goto, wvars
  <2>2. rpc'[q] \in {"idle", "recv"} /\ (r # q => rpc'[r] = rpc[r])
    BY <1>0, <2>1, MoveFacts
  <2>3. r # q => rIdx'[r] = rIdx[r]
    BY <2>1 DEF TypeInv, TypeOK, ReaderTypeOK
  <2> QED BY <2>1, <2>2, <2>3 DEF MarkInv
<1>9. ASSUME NEW q \in LocalReaders,
             ReadHeader(q) \/ ReadBody(q) \/ ReturnInline(q) \/ AwaitOverflow(q)
      PROVE  /\ rpc'[r] = "mark" => hdr'[rIdx'[r]] = "inline"
             /\ rpc'[r] = "mark_overflow" => hdr'[rIdx'[r]] = "overflow"
             /\ wpc' = "send" => \A c \in Chunks :
                  ObjectIn(c)' = published' - 1 => hdr'[c] = "overflow"
  <2>1. UNCHANGED <<hdr, wIdx, published, wpc>>
    BY <1>7, <1>8, <1>9
  <2>2. wpc' = "send" => \A c \in Chunks :
          ObjectIn(c)' = published' - 1 => hdr'[c] = "overflow"
    BY <2>1 DEF MarkInv, ObjectIn
  <2> QED BY <1>7, <1>8, <1>9, <2>1, <2>2
<1> QED
  BY <1>f, <1>1, <1>2, <1>3, <1>4, <1>5, <1>6, <1>9, DeliveryFrame
(* PublishBlock: the object is in the ring, its payload is not sent yet.   *)
LEMMA PublishStream ==
  ASSUME TypeInv, RingInv, NEW r \in LocalReaders, StreamAt(r), PublishBlock
  PROVE  StreamAt(r)'
<1>0. /\ sock[r] \in Seq(Frames) /\ Len(got[r]) \in Nat /\ consumed[r] \in Nat
      /\ Hello(r) \in {0, 1} /\ published \in Nat /\ wIdx \in Chunks
  BY LocalFacts
<1>1. /\ wpc = "fence" /\ pending = {} /\ published' = published + 1
      /\ UNCHANGED <<hdr, rpc, sock, got, consumed>>
      /\ wpc' = (IF overflow THEN "send" ELSE "notify")
      /\ wIdx' = IF wIdx = max_chunks - 1 THEN 0 ELSE wIdx + 1
  BY <1>0, NextIdx DEF PublishBlock, rvars, netvars, hist
<1>2. /\ Sent = published /\ Sent' = (IF overflow THEN published ELSE published + 1)
      /\ Hello(r)' = Hello(r) /\ consumed[r] <= published
  BY <1>0, <1>1 DEF Sent, Hello, RingInv, PositionInv, Lag
<1>3. /\ Rising(sock[r], Hello(r), Len(got[r]), published + 1)
      /\ Rising(sock[r], Hello(r), Len(got[r]), published)
      /\ ~ Holds(sock[r], Hello(r), published)
  BY <1>0, <1>2, RisingBounds DEF StreamAt
<1>4. ASSUME NEW c \in Chunks, consumed[r] <= ObjectIn(c)'
      PROVE  Holds(sock[r], Hello(r), ObjectIn(c)')
               <=> hdr[c] = "overflow" /\ ObjectIn(c)' < Sent'
  <2>1. CASE c = wIdx
    <3>1. ObjectIn(c)' = published
      BY <1>0, <1>1, <2>1, ChunksAssumption DEF ObjectIn, Chunks
    <3>2. ~ overflow => hdr[c] = "inline"
      BY <1>1, <2>1 DEF RingInv, FillInv
    <3> QED BY <1>0, <1>2, <1>3, <3>1, <3>2
  <2>2. CASE c # wIdx
    <3>1. ObjectIn(c)' = ObjectIn(c) /\ ~ Filling(c)
      BY <1>0, <1>1, <2>2, ChunksAssumption DEF ObjectIn, Chunks, Filling
    <3>2. ObjectIn(c) \in Int /\ ObjectIn(c) < published
      BY ObjectBelow
    <3>3. Holds(sock[r], Hello(r), ObjectIn(c)) <=> hdr[c] = "overflow" /\ ObjectIn(c) < Sent
      BY <1>4, <3>1 DEF StreamAt
    <3> QED BY <1>0, <1>2, <3>1, <3>2, <3>3
  <2> QED BY <2>1, <2>2
<1>5. rpc[r] = "recv" => Holds(sock[r], Hello(r), consumed[r] - 1)
  BY <1>2 DEF StreamAt
<1>6. Rising(sock[r], Hello(r), Len(got[r]), Sent')
  BY <1>2, <1>3
<1>7. ~ (consumed[r] = published')
  BY <1>0, <1>1, <1>2
<1> QED BY <1>1, <1>2, <1>4, <1>5, <1>6, <1>7 DEF StreamAt

(* SendOverflow: the payload joins the queue of every local reader.        *)
LEMMA SendStream ==
  ASSUME TypeInv, RingInv, GreetInv, MarkInv, NEW r \in LocalReaders, StreamAt(r),
         SendOverflow
  PROVE  StreamAt(r)'
<1>0. /\ sock[r] \in Seq(Frames) /\ Len(got[r]) \in Nat /\ consumed[r] \in Nat
      /\ Hello(r) \in {0, 1} /\ published \in Nat /\ r \in Readers
  BY LocalFacts
<1>1. /\ wpc = "send" /\ wpc' = "notify" /\ Publish(LocalReaders, published - 1)
      /\ UNCHANGED <<hdr, wIdx, published, rpc, got, consumed>>
  BY DEF SendOverflow, shm, rvars, hist
<1>2. published - 1 \in Frames
  BY <1>1, LocalFacts
<1>3. r \in subs /\ (rpc[r] = "hello" => sock[r] # <<>>)
  BY <1>0, <1>1 DEF GreetInv, Greeted
<1>4. sock'[r] = Append(sock[r], published - 1)
  BY <1>0, <1>1, <1>2, <1>3, PublishFacts DEF TypeInv, TypeOK
<1>5. /\ Sent = published - 1 /\ Sent' = published /\ Hello(r)' = Hello(r)
      /\ consumed[r] <= published
  BY <1>0, <1>1 DEF Sent, Hello, RingInv, PositionInv, Lag
<1>6. Len(got[r]) <= published - 1
  BY <1>0, <1>1, <1>5 DEF StreamAt
<1>7. Hello(r) <= Len(sock[r])
  BY <1>0, <1>3 DEF Hello
<1>8. /\ Rising(Append(sock[r], published - 1), Hello(r), Len(got[r]), published - 1 + 1)
      /\ \A m : Holds(Append(sock[r], published - 1), Hello(r), m)
                 <=> Holds(sock[r], Hello(r), m) \/ m = published - 1
  <2>1. Rising(sock[r], Hello(r), Len(got[r]), published - 1) /\ Len(got[r]) \in Int
    BY <1>0, <1>5 DEF StreamAt
  <2> QED BY <1>0, <1>2, <1>6, <1>7, <2>1, RisingAppend
<1>9. published - 1 + 1 = published
  BY <1>0
<1>10. Rising(sock'[r], Hello(r), Len(got[r]), published)
  BY <1>4, <1>8, <1>9
<1>11. \A m : Holds(sock'[r], Hello(r), m) <=> Holds(sock[r], Hello(r), m) \/ m = published - 1
  BY <1>4, <1>8
<1>12. ASSUME NEW c \in Chunks, consumed[r] <= ObjectIn(c)
       PROVE  Holds(sock'[r], Hello(r), ObjectIn(c))
                <=> hdr[c] = "overflow" /\ ObjectIn(c) < published
  <2>1. ObjectIn(c) \in Int /\ ObjectIn(c) < published
    BY ObjectBelow
  <2>2. Holds(sock[r], Hello(r), ObjectIn(c))
          <=> hdr[c] = "overflow" /\ ObjectIn(c) < published - 1
    BY <1>1, <1>5, <1>12 DEF StreamAt, Filling
  <2>3. ObjectIn(c) = published - 1 => hdr[c] = "overflow"
    BY <1>1 DEF MarkInv
  <2> QED BY <1>0, <1>11, <2>1, <2>2, <2>3
<1>13. rpc[r] = "recv" => Holds(sock'[r], Hello(r), consumed[r] - 1)
  <2>1. CASE consumed[r] = published
    BY <1>11, <2>1
  <2>2. CASE consumed[r] # published
    <3>1. consumed[r] <= published - 1
      BY <1>0, <1>5, <2>2
    <3> QED BY <1>5, <1>11, <3>1 DEF StreamAt
  <2> QED BY <2>1, <2>2
<1>14. \A c \in Chunks : ObjectIn(c)' = ObjectIn(c)
  BY <1>1 DEF ObjectIn
<1> QED BY <1>1, <1>5, <1>10, <1>12, <1>13, <1>14 DEF StreamAt
(* HandshakeLocal, Connect and RecvReady: no object is in the queue yet,   *)
(* or READY goes and the objects stay.                                     *)
LEMMA GreetStream ==
  ASSUME TypeInv, GreetInv, StartInv, NEW r \in LocalReaders, StreamAt(r),
         HandshakeLocal \/ Connect(r) \/ RecvReady(r)
  PROVE  StreamAt(r)'
<1>0. /\ sock[r] \in Seq(Frames) /\ Len(got[r]) \in Nat /\ consumed[r] \in Nat
      /\ published \in Nat /\ r \in Readers /\ Sent \in Int
      /\ ReaderTypeOK /\ SocketTypeOK
  BY LocalFacts DEF TypeInv, TypeOK
<1>1. CASE HandshakeLocal \/ Connect(r)
  <2>1. /\ UNCHANGED <<hdr, wIdx, published, got, consumed>> /\ wpc' # "send" /\ wpc # "send"
        /\ wpc \in {"handshake", "handshake_remote"}
        /\ sock[r] = <<>> /\ rpc[r] \in {"connect", "hello"} /\ rpc'[r] = "hello"
        /\ sock'[r] = <<>> \/ sock'[r] = Append(<<>>, READY)
    <3>1. CASE HandshakeLocal
      <4>1. /\ wpc = "handshake" /\ wpc' = "handshake_remote" /\ LocalReaders \subseteq subs
            /\ Publish(LocalReaders, READY)
            /\ UNCHANGED <<hdr, wIdx, published, got, consumed, rpc>>
        BY <3>1 DEF HandshakeLocal, shm, rvars, hist
      <4>2. sock[r] = <<>> /\ rpc[r] = "hello" /\ r \in subs
        BY <1>0, <4>1 DEF GreetInv, Greeted
      <4>3. sock'[r] = Append(<<>>, READY)
        BY <1>0, <4>1, <4>2, FrameInt, PublishFacts
      <4> QED BY <4>1, <4>2, <4>3
    <3>2. CASE Connect(r)
      <4>1. /\ rpc[r] = "connect" /\ rpc'[r] = "hello"
            /\ UNCHANGED <<wpc, sock, hdr, wIdx, published, got, consumed>>
        BY <1>0, <3>2, MoveFacts DEF Connect, shm, wvars, hist
      <4>2. ~ Greeted(r)
        BY <1>0, <4>1 DEF GreetInv
      <4> QED BY <1>0, <4>1, <4>2 DEF GreetInv, Greeted
    <3> QED BY <1>1, <3>1, <3>2
  <2>2. Hello(r)' = 1 /\ published = 0 /\ Sent' = 0
    BY <2>1 DEF Hello, StartInv, Sent
  <2>3. /\ Rising(sock'[r], 1, Len(got[r]), 0)
        /\ \A m : ~ Holds(sock'[r], 1, m)
    BY <2>1, ReadyQueue, EmptyQueue
  <2>4. \A c \in Chunks : ObjectIn(c)' = ObjectIn(c) /\ ~ (consumed[r] <= ObjectIn(c))
    <3>1. \A c \in Chunks : ObjectIn(c) \in Int /\ ObjectIn(c) < published
      BY ObjectBelow
    <3>2. \A c \in Chunks : ObjectIn(c)' = ObjectIn(c)
      BY <2>1 DEF ObjectIn
    <3> QED BY <1>0, <2>2, <3>1, <3>2
  <2> QED BY <2>1, <2>2, <2>3, <2>4 DEF StreamAt
<1>2. CASE RecvReady(r)
  <2>1. /\ UNCHANGED <<hdr, wIdx, published, wpc, got, consumed>>
        /\ rpc[r] = "hello" /\ rpc'[r] = "idle" /\ sock[r] # <<>>
        /\ sock'[r] = Tail(sock[r])
    BY <1>0, <1>2, MoveFacts DEF RecvReady, shm, wvars, hist, SocketTypeOK
  <2>2. Hello(r) = 1 /\ Hello(r)' = 0 /\ Sent' = Sent
    BY <2>1 DEF Hello, Sent
  <2>3. Rising(sock[r], 1, Len(got[r]), Sent)
    BY <2>2 DEF StreamAt
  <2>4. /\ Rising(sock'[r], 0, Len(got[r]), Sent)
        /\ \A m : Holds(sock[r], 1, m) <=> Holds(sock'[r], 0, m)
    BY <1>0, <2>1, <2>3, RisingHello
  <2>5. \A c \in Chunks : ObjectIn(c)' = ObjectIn(c) /\ Filling(c)' = Filling(c)
    BY <2>1 DEF ObjectIn, Filling
  <2> QED BY <2>1, <2>2, <2>4, <2>5 DEF StreamAt
<1> QED BY <1>1, <1>2

(* Recv: the payload at the head is that of the object awaited.            *)
LEMMA RecvStream ==
  ASSUME TypeInv, NEW r \in LocalReaders, StreamAt(r), Recv(r)
  PROVE  StreamAt(r)'
<1>0. /\ sock[r] \in Seq(Frames) /\ got[r] \in Seq(Frames) /\ Len(got[r]) \in Nat
      /\ consumed[r] \in Nat /\ published \in Nat /\ r \in Readers /\ Sent \in Int
      /\ ReaderTypeOK /\ SocketTypeOK
  BY LocalFacts DEF TypeInv, TypeOK
<1>1. /\ UNCHANGED <<hdr, wIdx, published, wpc, consumed>>
      /\ rpc[r] = "recv" /\ rpc'[r] = "idle" /\ sock[r] # <<>>
      /\ sock'[r] = Tail(sock[r]) /\ got'[r] = Append(got[r], Head(sock[r]))
  BY <1>0, MoveFacts DEF Recv, Goto, shm, wvars, SocketTypeOK
<1>2. Hello(r) = 0 /\ Hello(r)' = 0 /\ Sent' = Sent
  BY <1>1 DEF Hello, Sent
<1> DEFINE m == Head(sock[r])
<1>3. /\ Len(got[r]) = consumed[r] - 1 /\ Ordered(got[r])
      /\ Rising(sock[r], 0, consumed[r] - 1, Sent)
      /\ consumed[r] <= Sent => Holds(sock[r], 0, consumed[r] - 1)
  BY <1>1, <1>2 DEF StreamAt
<1>4. m \in Frames /\ m \in Int
  <2>1. m \in Frames
    BY <1>0, <1>1
  <2> QED BY <2>1, FrameInt
<1> HIDE DEF m
<1>5. /\ consumed[r] - 1 <= m /\ m < Sent
      /\ Rising(sock'[r], 0, m + 1, Sent)
      /\ \A n : Holds(sock[r], 0, n) <=> n = m \/ Holds(sock'[r], 0, n)
      /\ \A n : Holds(sock[r], 0, n) => m <= n
  <2>1. consumed[r] - 1 \in Int
    BY <1>0
  <2> QED BY <1>0, <1>1, <1>3, <2>1, RisingTail DEF m
<1>6. m = consumed[r] - 1
  BY <1>0, <1>3, <1>4, <1>5
<1>7. Ordered(got'[r]) /\ Len(got'[r]) = consumed[r]
  <2>1. Ordered(Append(got[r], m)) /\ Len(Append(got[r], m)) = Len(got[r]) + 1
    BY <1>0, <1>3, <1>4, <1>6, OrderedAppend
  <2> QED BY <1>0, <1>1, <1>3, <2>1 DEF m
<1>8. Rising(sock'[r], 0, Len(got'[r]), Sent)
  <2>1. m + 1 = Len(got'[r])
    BY <1>0, <1>6, <1>7
  <2> QED BY <1>5, <2>1
<1>9. ASSUME NEW c \in Chunks, ~ Filling(c), consumed[r] <= ObjectIn(c)
      PROVE  Holds(sock'[r], 0, ObjectIn(c)) <=> hdr[c] = "overflow" /\ ObjectIn(c) < Sent
  <2>1. ObjectIn(c) \in Int /\ ObjectIn(c) # m
    BY <1>0, <1>6, <1>9, ObjectBelow
  <2>2. Holds(sock[r], 0, ObjectIn(c)) <=> hdr[c] = "overflow" /\ ObjectIn(c) < Sent
    BY <1>2, <1>9 DEF StreamAt
  <2> QED BY <1>5, <2>1, <2>2
<1>10. ~ (wpc = "send" /\ consumed[r] = published)
  BY <1>0, <1>5, <1>6 DEF Sent
<1>11. \A c \in Chunks : ObjectIn(c)' = ObjectIn(c) /\ Filling(c)' = Filling(c)
  BY <1>1 DEF ObjectIn, Filling
<1> QED BY <1>1, <1>2, <1>7, <1>8, <1>9, <1>10, <1>11 DEF StreamAt

(* ReturnInline and AwaitOverflow: the block says whether a payload comes. *)
LEMMA ReleaseStream ==
  ASSUME TypeInv, RingInv, MarkInv, NEW r \in LocalReaders, StreamAt(r),
         ReturnInline(r) \/ AwaitOverflow(r)
  PROVE  StreamAt(r)'
<1>0. /\ sock[r] \in Seq(Frames) /\ got[r] \in Seq(Frames) /\ Len(got[r]) \in Nat
      /\ consumed[r] \in Nat /\ published \in Nat /\ r \in Readers /\ Sent \in Int
      /\ rIdx[r] \in Chunks /\ Hello(r) \in {0, 1} /\ ReaderTypeOK /\ SocketTypeOK
  BY LocalFacts DEF TypeInv, TypeOK
<1>1. /\ UNCHANGED <<hdr, wIdx, published, wpc, sock>> /\ consumed'[r] = consumed[r] + 1
      /\ \/ /\ rpc[r] = "mark" /\ rpc'[r] = "idle"
            /\ got'[r] = Append(got[r], obj[r])
         \/ rpc[r] = "mark_overflow" /\ rpc'[r] = "recv" /\ got'[r] = got[r]
  <2>1. CASE ReturnInline(r)
    BY <1>0, <2>1, MoveFacts
    DEF ReturnInline, ReleaseBlock, Goto, wvars, netvars, SocketTypeOK, ReaderTypeOK
  <2>2. CASE AwaitOverflow(r)
    BY <1>0, <2>2, MoveFacts
    DEF AwaitOverflow, ReleaseBlock, Goto, wvars, netvars, SocketTypeOK, ReaderTypeOK
  <2> QED BY <2>1, <2>2
<1>2. /\ consumed[r] < published /\ InBlock(r)
      /\ ObjectIn(rIdx[r]) = consumed[r] /\ ~ Filling(rIdx[r])
  BY <1>1, ReaderBlock DEF RingInv, ReaderInv, InBlock, Filling
<1>3. /\ Hello(r) = 0 /\ Hello(r)' = 0 /\ Sent' = Sent
      /\ \A c \in Chunks : ObjectIn(c)' = ObjectIn(c) /\ Filling(c)' = Filling(c)
  BY <1>1 DEF Hello, Sent, ObjectIn, Filling
<1>4. /\ Ordered(got[r]) /\ Len(got[r]) = consumed[r]
      /\ Rising(sock[r], 0, consumed[r], Sent)
      /\ Holds(sock[r], 0, consumed[r]) <=> hdr[rIdx[r]] = "overflow" /\ consumed[r] < Sent
  BY <1>0, <1>1, <1>2, <1>3 DEF StreamAt
<1>5. \A c \in Chunks : ~ Filling(c) /\ consumed[r] + 1 <= ObjectIn(c) =>
        (Holds(sock[r], 0, ObjectIn(c)) <=> hdr[c] = "overflow" /\ ObjectIn(c) < Sent)
  <2> SUFFICES ASSUME NEW c \in Chunks, ~ Filling(c), consumed[r] + 1 <= ObjectIn(c)
               PROVE  Holds(sock[r], 0, ObjectIn(c)) <=> hdr[c] = "overflow" /\ ObjectIn(c) < Sent
    OBVIOUS
  <2>1. consumed[r] <= ObjectIn(c)
    BY <1>0, ObjectBelow
  <2> QED BY <1>3, <2>1 DEF StreamAt
<1>6. CASE rpc[r] = "mark" /\ rpc'[r] = "idle" /\ got'[r] = Append(got[r], obj[r])
  <2>1. obj[r] = consumed[r] /\ hdr[rIdx[r]] = "inline" /\ obj[r] \in Frames
    BY <1>0, <1>6 DEF RingInv, ReaderInv, MarkInv, ReaderTypeOK
  <2>2. Ordered(got'[r]) /\ Len(got'[r]) = consumed[r] + 1
    BY <1>0, <1>4, <1>6, <2>1, OrderedAppend
  <2>3. Rising(sock[r], 0, consumed[r] + 1, Sent)
    <3>1. ~ Holds(sock[r], 0, consumed[r]) /\ consumed[r] \in Int
      BY <1>0, <1>4, <2>1
    <3> QED BY <1>0, <1>4, <3>1, RisingBounds
  <2>4. ~ (wpc = "send" /\ consumed[r] + 1 = published)
    <3> SUFFICES ASSUME wpc = "send", consumed[r] + 1 = published PROVE FALSE
      OBVIOUS
    <3>1. ObjectIn(rIdx[r]) = published - 1
      BY <1>0, <1>2
    <3> QED BY <1>0, <2>1, <3>1 DEF MarkInv
  <2> QED BY <1>1, <1>3, <1>5, <1>6, <2>2, <2>3, <2>4 DEF StreamAt
<1>7. CASE rpc[r] = "mark_overflow" /\ rpc'[r] = "recv" /\ got'[r] = got[r]
  <2>1. hdr[rIdx[r]] = "overflow"
    BY <1>7 DEF MarkInv
  <2>2. consumed[r] + 1 <= Sent => Holds(sock[r], 0, consumed[r])
    BY <1>0, <1>4, <2>1
  <2>3. consumed'[r] - 1 = consumed[r]
    BY <1>0, <1>1
  <2> QED BY <1>1, <1>3, <1>4, <1>5, <1>7, <2>2, <2>3 DEF StreamAt
<1> QED BY <1>1, <1>6, <1>7
(* Every step keeps what local readers are owed.                           *)
LEMMA NextStream ==
  ASSUME TypeInv, RingInv, GreetInv, StartInv, MarkInv, StreamInv, [Next]_vars
  PROVE  StreamInv'
<1> SUFFICES ASSUME NEW r \in LocalReaders PROVE ~ dropped'[r] => StreamAt(r)'
  BY DEF StreamInv
<1>0. /\ r \in Readers /\ r \notin RemoteReaders /\ LocalReaders \subseteq Readers
      /\ published \in Nat /\ ReaderTypeOK /\ SocketTypeOK /\ FlagTypeOK
      /\ hdr \in [Chunks -> {"inline", "overflow"}]
  BY LocalFacts DEF TypeInv, TypeOK, MemoryTypeOK, Readers
<1>a. ~ dropped[r] => StreamAt(r)
  BY DEF StreamInv
<1>b. (wpc = "remote" => published - 1 \in Frames) /\ READY \in Frames
  BY BoundAssumption DEF TypeInv, TypeOK, WriterTypeOK, CountInv, Frames, Messages
(* Steps of the writer that leave r's blocks, socket and results alone.    *)
<1>w. ASSUME UNCHANGED <<rpc, published, wIdx, consumed, got, dropped>>,
             sock'[r] = sock[r], wpc # "send", wpc' # "send", wpc # "fence",
             UNCHANGED hdr
      PROVE  ~ dropped'[r] => StreamAt(r)'
  <2>1. \A c \in Chunks : ~ Filling(c) /\ ObjectIn(c)' = ObjectIn(c) /\ hdr'[c] = hdr[c]
    BY <1>w DEF Filling, ObjectIn
  <2>2. Hello(r)' = Hello(r) /\ Sent' = Sent
    BY <1>w DEF Hello, Sent
  <2> QED BY <1>a, <1>w, <2>1, <2>2, StreamFrame
(* Steps of readers that leave r's socket and results alone.               *)
<1>q. ASSUME UNCHANGED <<wpc, published, wIdx, hdr>>, sock'[r] = sock[r], got'[r] = got[r],
             consumed'[r] = consumed[r], ~ dropped'[r] => ~ dropped[r],
             \/ rpc'[r] = rpc[r]
             \/ rpc[r] \notin {"hello", "recv"} /\ rpc'[r] \notin {"hello", "recv"}
      PROVE  ~ dropped'[r] => StreamAt(r)'
  <2>1. \A c \in Chunks : Filling(c)' = Filling(c) /\ ObjectIn(c)' = ObjectIn(c)
    BY <1>q DEF Filling, ObjectIn
  <2>2. Hello(r)' = Hello(r) /\ Sent' = Sent /\ (rpc'[r] = "recv" <=> rpc[r] = "recv")
    BY <1>q DEF Hello, Sent
  <2> QED BY <1>a, <1>q, <2>1, <2>2, StreamFrame
<1>1. CASE Calm
  <2>1. UNCHANGED <<hdr, wIdx, published, sock, consumed, got, dropped>>
    BY <1>1 DEF Calm
  <2>2. rpc'[r] = rpc[r]
        \/ (rpc[r] \notin {"hello", "recv"} /\ rpc'[r] \notin {"hello", "recv"})
    BY <1>0, <1>1, CalmMoves DEF Calm, Plain
  <2>3. /\ wpc' = "send" <=> wpc = "send"
        /\ wpc' = "fence" <=> wpc = "fence"
    BY <1>1 DEF Calm, CalmWriter
  <2>4. \A c \in Chunks : Filling(c)' = Filling(c) /\ ObjectIn(c)' = ObjectIn(c)
    BY <2>1, <2>3 DEF Filling, ObjectIn
  <2>5. Hello(r)' = Hello(r) /\ Sent' = Sent /\ (rpc'[r] = "recv" <=> rpc[r] = "recv")
    BY <2>1, <2>2, <2>3 DEF Hello, Sent
  <2> QED BY <1>a, <2>1, <2>3, <2>4, <2>5, StreamFrame
<1>2. CASE HandshakeLocal
  <2>1. UNCHANGED dropped
    BY <1>2 DEF HandshakeLocal, hist
  <2> QED BY <1>2, <1>a, <2>1, GreetStream
<1>3. CASE HandshakeRemote \/ SendRemote
  <2>1. /\ UNCHANGED <<rpc, published, wIdx, consumed, got, dropped, hdr>>
        /\ wpc \in {"handshake_remote", "remote"} /\ wpc' = "idle"
        /\ \/ Publish(RemoteReaders, READY)
           \/ wpc = "remote" /\ Publish(RemoteReaders, published - 1)
    BY <1>3 DEF HandshakeRemote, SendRemote, shm, rvars, hist
  <2>2. sock'[r] = sock[r]
    BY <1>0, <1>b, <2>1, PublishFacts
  <2> QED BY <1>w, <2>1, <2>2
<1>4. CASE (\E over \in BOOLEAN : Enqueue(over)) \/ AcquireWrite
  <2>1. /\ UNCHANGED <<rpc, published, wIdx, consumed, got, dropped, hdr, sock>>
        /\ wpc \in {"idle", "acquire"} /\ wpc' \in {"acquire", "fence"}
    BY <1>4 DEF Enqueue, AcquireWrite, shm, rvars, netvars, hist
  <2> QED BY <1>w, <2>1
<1>5. CASE DrainHdr
  <2>1. /\ wpc = "fence" /\ UNCHANGED <<wpc, wIdx, published, rpc, sock, consumed, got, dropped>>
        /\ \A c \in Chunks : c # wIdx => hdr'[c] = hdr[c]
    BY <1>0, <1>5 DEF DrainHdr, TypeInv, CountInv, rvars, netvars, hist
  <2>2. \A c \in Chunks : ~ Filling(c)' =>
          ~ Filling(c) /\ ObjectIn(c)' = ObjectIn(c) /\ hdr'[c] = hdr[c]
    BY <2>1 DEF Filling, ObjectIn
  <2>3. Hello(r)' = Hello(r) /\ Sent' = Sent
    BY <2>1 DEF Hello, Sent
  <2> QED BY <1>a, <2>1, <2>2, <2>3, StreamFrame
<1>6. CASE PublishBlock
  <2>1. UNCHANGED dropped
    BY <1>6 DEF PublishBlock, hist
  <2> QED BY <1>6, <1>a, <2>1, PublishStream
<1>7. CASE SendOverflow
  <2>1. UNCHANGED dropped
    BY <1>7 DEF SendOverflow, hist
  <2> QED BY <1>7, <1>a, <2>1, SendStream
<1>8. ASSUME NEW q \in Readers, Connect(q) \/ RecvReady(q) \/ Recv(q)
      PROVE  ~ dropped'[r] => StreamAt(r)'
  <2>1. /\ UNCHANGED <<wpc, published, wIdx, hdr, consumed, dropped>>
        /\ q # r => rpc'[r] = rpc[r] /\ sock'[r] = sock[r] /\ got'[r] = got[r]
    <3>1. CASE Connect(q)
      BY <1>0, <3>1, MoveFacts DEF Connect, shm, wvars, hist
    <3>2. CASE RecvReady(q)
      BY <1>0, <3>2, MoveFacts DEF RecvReady, shm, wvars, hist, SocketTypeOK
    <3>3. CASE Recv(q)
      BY <1>0, <3>3, MoveFacts DEF Recv, Goto, shm, wvars, SocketTypeOK
    <3> QED BY <1>8, <3>1, <3>2, <3>3
  <2>2. CASE q # r
    BY <1>q, <2>1, <2>2
  <2>3. CASE q = r
    <3>1. ~ dropped'[r] => StreamAt(r)
      BY <1>a, <2>1
    <3> QED BY <1>8, <2>3, <3>1, GreetStream, RecvStream
  <2> QED BY <2>2, <2>3
<1>9. ASSUME NEW q \in Readers, RecvTimeout(q) PROVE ~ dropped'[r] => StreamAt(r)'
  <2>1. /\ UNCHANGED <<wpc, published, wIdx, hdr, consumed, sock, got>>
        /\ q # r => rpc'[r] = rpc[r]
    BY <1>0, <1>9, MoveFacts DEF RecvTimeout, Goto, shm, wvars, netvars
  <2>2. dropped' = [p \in LocalReaders |-> dropped[p] \/ p = q]
    BY <1>9 DEF RecvTimeout
  <2>3. ~ dropped'[r] => ~ dropped[r] /\ q # r
    BY <2>2, Zenon
  <2>4. CASE dropped'[r]
    BY <2>4
  <2>5. CASE ~ dropped'[r]
    BY <1>q, <2>1, <2>3, <2>5
  <2> QED BY <2>4, <2>5
<1>10. ASSUME NEW q \in Readers,
              StartDequeue(q) \/ (q \in LocalReaders /\ (ReadHeader(q) \/ ReadBody(q)))
       PROVE  ~ dropped'[r] => StreamAt(r)'
  <2>1. /\ UNCHANGED <<wpc, published, wIdx, hdr, consumed, sock, got, dropped>>
        /\ rpc[q] \in {"idle", "hdr", "body"}
        /\ \E p \in ReaderPoints \ {"hello"} :
             /\ rpc' = [rpc EXCEPT ![q] = p]
             /\ q = r => p # "recv"
    BY <1>10 DEF StartDequeue, ReadHeader, ReadBody, Goto, shm, wvars, netvars, hist,
      ReaderPoints
  <2>2. PICK p \in ReaderPoints \ {"hello"} :
          rpc' = [rpc EXCEPT ![q] = p] /\ (q = r => p # "recv")
    BY <2>1
  <2>3. rpc'[q] = p /\ (q # r => rpc'[r] = rpc[r])
    BY <1>0, <2>2, MoveFacts
  <2> QED BY <1>q, <2>1, <2>2, <2>3
<1>11. ASSUME NEW q \in LocalReaders, ReturnInline(q) \/ AwaitOverflow(q)
       PROVE  ~ dropped'[r] => StreamAt(r)'
  <2>1. /\ UNCHANGED <<wpc, published, wIdx, hdr, sock, dropped>>
        /\ q # r => rpc'[r] = rpc[r] /\ got'[r] = got[r] /\ consumed'[r] = consumed[r]
    <3>1. CASE ReturnInline(q)
      BY <1>0, <3>1, MoveFacts
      DEF ReturnInline, ReleaseBlock, Goto, wvars, netvars, SocketTypeOK, ReaderTypeOK
    <3>2. CASE AwaitOverflow(q)
      BY <1>0, <3>2, MoveFacts
      DEF AwaitOverflow, ReleaseBlock, Goto, wvars, netvars, SocketTypeOK, ReaderTypeOK
    <3> QED BY <1>11, <3>1, <3>2
  <2>2. CASE q # r
    BY <1>q, <2>1, <2>2
  <2>3. CASE q = r
    BY <1>11, <1>a, <2>1, <2>3, ReleaseStream
  <2> QED BY <2>2, <2>3
<1> QED
  BY <1>0, <1>1, <1>2, <1>3, <1>4, <1>5, <1>6, <1>7, <1>8, <1>9, <1>10, <1>11, DeliveryFrame

-----------------------------------------------------------------------------
DeliveryInv ==
  TypeInv /\ RingInv /\ GreetInv /\ StartInv /\ RemoteInv /\ MarkInv /\ StreamInv

(* Every reader gets every object exactly once and in order, through the   *)
(* ring, with overflow payloads that arrive on a socket of their own, and  *)
(* at remote readers, unless its wait for a payload has timed out.         *)
THEOREM InOrderTheorem ==
  ASSUME StoresOrdered PROVE Spec => []InOrder
<1>1. Init => DeliveryInv
  BY InitType, InitRing, InitGreet, InitRemote, InitStream DEF DeliveryInv
<1>2. DeliveryInv /\ [Next]_vars => DeliveryInv'
  <2> SUFFICES ASSUME DeliveryInv, [Next]_vars PROVE DeliveryInv'
    OBVIOUS
  <2> USE DEF DeliveryInv
  <2>1. TypeInv'
    BY NextType
  <2>2. RingInv'
    BY <2>1, NextRing
  <2>3. GreetInv' /\ StartInv' /\ RemoteInv'
    BY NextGreet, NextStart, NextRemote
  <2>4. MarkInv' /\ StreamInv'
    BY NextMark, NextStream
  <2> QED BY <2>1, <2>2, <2>3, <2>4
<1>3. DeliveryInv => InOrder
  <2> SUFFICES ASSUME DeliveryInv, NEW r \in Readers, r \in LocalReaders => ~ dropped[r]
               PROVE  \A i \in 1 .. Len(got[r]) : got[r][i] = i - 1
    BY DEF InOrder
  <2>1. Ordered(got[r])
    BY DEF DeliveryInv, RemoteInv, StreamInv, StreamAt, Readers
  <2> QED BY <2>1 DEF Ordered
<1> QED BY <1>1, <1>2, <1>3, PTL DEF Spec
=============================================================================
