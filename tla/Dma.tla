-------------------------------- MODULE Dma --------------------------------
(***************************************************************************)
(* The DMA driver (sw/include/dif/dma.h): one hart, which starts copies    *)
(* without waiting or blocks until they are done, and the engine beside    *)
(* it.                                                                     *)
(*                                                                         *)
(* Reading NEXT_ID starts what the registers say and returns its number;   *)
(* DONE is the number of the last copy that ended.  Copies end in the      *)
(* order of their start.  The hart's register writes are one step: nobody  *)
(* reads them before NEXT_ID is read.  Sources are not written.            *)
(***************************************************************************)
EXTENDS Integers, Sequences

CONSTANTS
  Copies,  \* the calls' arguments
  Places,  \* addresses of the destinations
  Depth,   \* copies the engine accepts before one has ended
  MaxId    \* numbers of copies: 1 .. MaxId, then 1 again

Old == -1
Reg == [src : Nat, dst : Nat, num_bytes : Nat, num_reps : Nat, src_stride : Nat,
        dst_stride : Nat]

\* What n bytes in reps rows amount to: the places and where each comes from.
Moves(src, dst, n, reps, src_stride, dst_stride) ==
  {<<dst + r * dst_stride + j, src + r * src_stride + j>> :
     r \in 0 .. reps - 1, j \in 0 .. n - 1}

\* No repetitions are a single row.
Rows(r) == IF r.num_reps = 0 THEN 1 ELSE r.num_reps

Started(r) == Moves(r.src, r.dst, r.num_bytes, Rows(r), r.src_stride, r.dst_stride)

\* What a call asks for, and what it gets: the driver passes zero repetitions on,
\* and the engine copies a row.
Wanted(c) ==
  Moves(c.src, c.dst, c.size, IF c.dim = 1 THEN 1 ELSE c.num_reps, c.src_stride, c.dst_stride)
Granted(c) ==
  Moves(c.src, c.dst, c.size, IF c.dim = 1 THEN 1 ELSE Rows(c), c.src_stride, c.dst_stride)

\* The driver does not check a size of zero either; nothing tells what the engine
\* does with one.

ASSUME DmaAssumption ==
  /\ {Depth, MaxId} \subseteq Nat \ {0} /\ Depth < MaxId
  /\ Copies \subseteq [dim : {1, 2}, blk : BOOLEAN, src : Nat, dst : Nat,
                      size : Nat \ {0}, num_reps : Nat,
                      src_stride : Nat, dst_stride : Nat]
  /\ \A c \in Copies : \A move \in Granted(c) : move[1] \in Places

VARIABLES
  pc,      \* "idle", "launch" or "wait"
  call,    \* the call's arguments; dim is 1 or 2, blk if it blocks
  reg,     \* the engine's registers
  tf_id,   \* what NEXT_ID returned
  next_id, done,
  queue,   \* the copies the engine has to do; call is the one that started it
  at,      \* bytes of the first that are done
  mem      \* the address each place was copied from

vars == <<pc, call, reg, tf_id, next_id, done, queue, at, mem>>

TypeOK ==
  /\ pc \in {"idle", "launch", "wait"} /\ call \in Copies
  /\ reg \in Reg
  /\ {tf_id, next_id, done} \subseteq 0 .. MaxId /\ next_id # 0
  /\ queue \in Seq([id : 1 .. MaxId, reg : Reg, call : Copies])
  /\ Len(queue) <= Depth
  /\ at \in Nat
  /\ mem \in [Places -> Int]

Init ==
  /\ pc = "idle" /\ call \in Copies
  /\ reg = [src |-> 0, dst |-> 0, num_bytes |-> 0, num_reps |-> 0, src_stride |-> 0,
            dst_stride |-> 0]
  /\ tf_id = 0 /\ next_id = 1 /\ done = 0
  /\ queue = <<>> /\ at = 0
  /\ mem = [a \in Places |-> Old]

engine == <<next_id, done, queue, at, mem>>

-----------------------------------------------------------------------------
\* Mutant: the number of rows is left as it was.
SetUp1DStale(c) ==
  [reg EXCEPT !.src = c.src, !.dst = c.dst, !.num_bytes = c.size]

\* dma_memcpy leaves the strides as they were.
SetUp1D(c) ==
  [reg EXCEPT !.src = c.src, !.dst = c.dst, !.num_bytes = c.size, !.num_reps = 0]

SetUp2D(c) ==
  [src |-> c.src, dst |-> c.dst, num_bytes |-> c.size, num_reps |-> c.num_reps,
   src_stride |-> c.src_stride, dst_stride |-> c.dst_stride]

Call(c) ==
  /\ pc = "idle" /\ pc' = "launch"
  /\ call' = c
  /\ reg' = IF c.dim = 1 THEN SetUp1D(c) ELSE SetUp2D(c)
  /\ UNCHANGED <<tf_id, engine>>

\* Mutant: copies are numbered from zero.
LaunchFromZero ==
  /\ pc = "launch" /\ Len(queue) < Depth
  /\ tf_id' = next_id
  /\ queue' = Append(queue, [id |-> next_id, reg |-> reg, call |-> call])
  /\ next_id' = (next_id + 1) % MaxId
  /\ pc' = IF call.blk THEN "wait" ELSE "idle"
  /\ UNCHANGED <<call, reg, done, at, mem>>

\* The read of NEXT_ID.
Launch ==
  /\ pc = "launch" /\ Len(queue) < Depth
  /\ tf_id' = next_id
  /\ queue' = Append(queue, [id |-> next_id, reg |-> reg, call |-> call])
  /\ next_id' = (next_id % MaxId) + 1
  /\ pc' = IF call.blk THEN "wait" ELSE "idle"
  /\ UNCHANGED <<call, reg, done, at, mem>>

\* Mutant: waiting for any copy to end.
DoneIsSome == done # 0

DoneIsMine == done = tf_id

\* Mutant: the wait reads NEXT_ID anew, which starts the copy again.
BlkReturnRereads ==
  /\ pc = "wait"
  /\ \/ done = next_id /\ pc' = "idle" /\ UNCHANGED <<next_id, queue>>
     \/ /\ done # next_id /\ Len(queue) < Depth
        /\ queue' = Append(queue, [id |-> next_id, reg |-> reg, call |-> call])
        /\ next_id' = (next_id % MaxId) + 1
        /\ UNCHANGED pc
  /\ UNCHANGED <<call, reg, tf_id, done, at, mem>>

BlkReturn ==
  /\ pc = "wait" /\ DoneIsMine
  /\ pc' = "idle"
  /\ UNCHANGED <<call, reg, tf_id, engine>>

-----------------------------------------------------------------------------
\* The engine: a byte of the first copy, or its end.
Bytes(r) == Rows(r) * r.num_bytes

CopyByte ==
  /\ queue # <<>>
  /\ LET r == Head(queue).reg
         row == at \div r.num_bytes
         j == at % r.num_bytes
     IN
     /\ at < Bytes(r)
     /\ mem' = [mem EXCEPT ![r.dst + row * r.dst_stride + j] = r.src + row * r.src_stride + j]
  /\ at' = at + 1
  /\ UNCHANGED <<pc, call, reg, tf_id, next_id, done, queue>>

EndCopy ==
  /\ queue # <<>> /\ at = Bytes(Head(queue).reg)
  /\ done' = Head(queue).id
  /\ queue' = Tail(queue) /\ at' = 0
  /\ UNCHANGED <<pc, call, reg, tf_id, next_id, mem>>

Hart   == Launch \/ BlkReturn
Engine == CopyByte \/ EndCopy

Next == Hart \/ Engine \/ \E c \in Copies : Call(c)

\* Hart and engine go on; whether something is copied is open.
Spec == Init /\ [][Next]_vars /\ WF_vars(Hart) /\ WF_vars(Engine)

-----------------------------------------------------------------------------
\* A copy does what the call that started it asked for, whatever an earlier call
\* left in the registers, unless it asked for no row.
CopyAsAsked ==
  \A q \in DOMAIN queue :
    Wanted(queue[q].call) # {} => Started(queue[q].reg) = Wanted(queue[q].call)

\* When a blocking copy returns, its bytes are there, those of no later copy have
\* replaced them, and nothing else is under way.
CopiedOnReturn ==
  [][pc = "wait" /\ pc' = "idle" =>
       queue = <<>> /\ \A move \in Wanted(call) : mem[move[1]] = move[2]]_vars

\* A call returns, although numbers of copies are used again and DONE may show
\* those of earlier copies first.
CallReturns == (pc # "idle") ~> (pc = "idle")
=============================================================================
