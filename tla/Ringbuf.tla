------------------------------ MODULE Ringbuf ------------------------------
(***************************************************************************)
(* The byte ring of core/lib/ringbuf.c, shared without a lock by one       *)
(* interrupt handler, which puts, and one process, which gets.  An         *)
(* interrupt runs to its end between two statements of the process:        *)
(* ringbuf_put() is one step, ringbuf_get() is three, and put_ptr moves    *)
(* between any two of them.  Size is a power of two, so that "& mask" is   *)
(* the remainder by Size, for the negative differences as well.            *)
(***************************************************************************)
EXTENDS Integers, Sequences

CONSTANTS
  Size,   \* the number of cells of the array
  Byte,   \* what a cell holds
  NoByte  \* a cell never written

\* ringbuf.h: a power of two that is not larger than 128.
ASSUME RingbufAssumption ==
  /\ Size \in {1, 2, 4, 8, 16, 32, 64, 128}
  /\ NoByte \notin Byte

VARIABLES
  data,     \* the array
  put_ptr,  \* the cell the next byte goes to
  get_ptr,  \* the cell of the oldest byte
  get_pc,   \* where ringbuf_get() stands: "idle", "read" or "advance"
  c         \* its local variable

ringVars == << data, put_ptr, get_ptr, get_pc, c >>

Cell == 0 .. Size - 1

ringbuf_init ==
  /\ data = [i \in Cell |-> NoByte]
  /\ put_ptr = 0
  /\ get_ptr = 0
  /\ get_pc = "idle"
  /\ c = NoByte

ringbuf_elements == (put_ptr - get_ptr) % Size

\* Mutant: the ring is taken for full only when all its cells are used.
FullMutant == ringbuf_elements = Size

Full == ringbuf_elements = Size - 1

\* ringbuf_put() that returns 1.
PutOk(b) ==
  /\ ~Full
  /\ data' = [data EXCEPT ![put_ptr] = b]
  /\ put_ptr' = (put_ptr + 1) % Size
  /\ UNCHANGED << get_ptr, get_pc, c >>

\* ringbuf_put() that returns 0.
PutFull == Full /\ UNCHANGED ringVars

\* ringbuf_get() finds a byte, or returns -1.
GetTest ==
  /\ get_pc = "idle"
  /\ ringbuf_elements > 0
  /\ get_pc' = "read"
  /\ UNCHANGED << data, put_ptr, get_ptr, c >>

GetNothing ==
  /\ get_pc = "idle"
  /\ ringbuf_elements = 0
  /\ UNCHANGED ringVars

GetRead ==
  /\ get_pc = "read"
  /\ c' = data[get_ptr]
  /\ get_pc' = "advance"
  /\ UNCHANGED << data, put_ptr, get_ptr >>

\* The advance, and the return of c.
GetAdvance ==
  /\ get_pc = "advance"
  /\ get_ptr' = (get_ptr + 1) % Size
  /\ get_pc' = "idle"
  /\ UNCHANGED << data, put_ptr, c >>

RingNext ==
  \/ \E b \in Byte : PutOk(b)
  \/ PutFull
  \/ GetTest \/ GetNothing \/ GetRead \/ GetAdvance

RingSpec == ringbuf_init /\ [][RingNext]_ringVars

-----------------------------------------------------------------------------
\* The bytes in the ring, oldest first.
Elements == [i \in 1 .. ringbuf_elements |-> data[(get_ptr + (i - 1)) % Size]]

Fifo == INSTANCE BoundedFifo
          WITH Capacity <- Size - 1, Message <- Byte, queue <- Elements

RingTypeOK ==
  /\ data \in [Cell -> Byte \cup {NoByte}]
  /\ put_ptr \in Cell
  /\ get_ptr \in Cell
  /\ get_pc \in {"idle", "read", "advance"}
  /\ c \in Byte \cup {NoByte}

\* Every byte between the pointers was put: no cell is read before it is
\* written (ringbuf_put, ringbuf_get).
ElementsAreBytes == \A i \in 1 .. ringbuf_elements : Elements[i] \in Byte

\* Whatever is put while ringbuf_get() is under way, the ring does not become
\* empty under it and the byte it returns is the oldest (ringbuf_get).
GetsOldest ==
  /\ get_pc # "idle" => ringbuf_elements > 0
  /\ get_pc = "advance" => c = Elements[1]

\* Without a lock, the ring is a bounded FIFO queue of Size - 1 bytes: nothing
\* is lost, duplicated, reordered or overwritten (ringbuf_put, ringbuf_get).
RingFifoSpec == Fifo!Spec
=============================================================================
