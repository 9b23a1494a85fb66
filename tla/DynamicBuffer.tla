--------------------------- MODULE DynamicBuffer ---------------------------
(***************************************************************************)
(* dynamic_buffer.cc: the byte buffer of connections and of the log.       *)
(* Written bytes lie between read_index_ and write_index_; room is made by *)
(* moving them to the front or by a larger array.                          *)
(*                                                                         *)
(* buffer[i + 1] is buffer_[i].  The clients' protocol is kept: memory     *)
(* from writeBegin() on is filled only after reserveWritableBytes(n), with *)
(* at most n bytes, and then committed with write().                       *)
(***************************************************************************)
EXTENDS Integers, Sequences

CONSTANTS
    Bytes,          \* values of a char
    Zero,           \* the value of the chars of a new vector
    InitSize,       \* DynamicBuffer(init_size, expand_size)
    ExpandSize,
    Sizes,          \* sizes in calls
    ByteBound       \* bytes in the buffer, with those room is reserved for

ASSUME BufferAssumption ==
    /\ Zero \in Bytes
    /\ InitSize \in Nat
    /\ ExpandSize \in Nat
    /\ Sizes \subseteq Nat
    /\ ByteBound \in Nat

VARIABLES
    buffer,         \* buffer_
    read_index,     \* read_index_
    write_index,    \* write_index_
    out             \* what the last readBytes() returned

vars == <<buffer, read_index, write_index, out>>

-----------------------------------------------------------------------------
Least(m, n) == IF m < n THEN m ELSE n
Greatest(m, n) == IF m > n THEN m ELSE n

expand_size == Greatest(ExpandSize, 1)
FirstSize == IF InitSize = 0 THEN expand_size ELSE InitSize

readableBytes == write_index - read_index
writableBytes == Len(buffer) - write_index
\* (mutant) the bytes before read_index_ are not counted
free_bytesAhead == writableBytes
free_bytes == read_index + writableBytes

Contents == [i \in 1..readableBytes |-> buffer[read_index + i]]

Init ==
    /\ buffer = [i \in 1..FirstSize |-> Zero]
    /\ read_index = 0
    /\ write_index = 0
    /\ out = <<>>

\* (mutant) rounded down
GrowthShort(n) == expand_size * ((n - free_bytes) \div expand_size)

\* What the array grows by when n writable bytes do not fit.
Growth(n) == expand_size * ((n - free_bytes) \div expand_size + 1)

\* (mutant) memmove from the start
ReservedUnmoved(n) ==
    IF writableBytes >= n
    THEN [buf |-> buffer, r |-> read_index, w |-> write_index]
    ELSE IF free_bytes >= n
    THEN [buf |-> buffer, r |-> 0, w |-> readableBytes]
    ELSE [buf |-> [i \in 1..(Len(buffer) + Growth(n)) |->
                    IF i <= readableBytes THEN buffer[read_index + i] ELSE Zero],
          r |-> 0, w |-> readableBytes]

\* The members after reserveWritableBytes(n): nothing to do, compact, or expand.
Reserved(n) ==
    IF writableBytes >= n
    THEN [buf |-> buffer, r |-> read_index, w |-> write_index]
    ELSE IF free_bytes >= n
    THEN [buf |-> [i \in 1..Len(buffer) |->
                    IF i <= readableBytes THEN buffer[read_index + i] ELSE buffer[i]],
          r |-> 0, w |-> readableBytes]
    ELSE [buf |-> [i \in 1..(Len(buffer) + Growth(n)) |->
                    IF i <= readableBytes THEN buffer[read_index + i] ELSE Zero],
          r |-> 0, w |-> readableBytes]

\* memcpy of s to writeBegin()
Stored(buf, w, s) ==
    [i \in 1..Len(buf) |-> IF i > w /\ i <= w + Len(s) THEN s[i - w] ELSE buf[i]]

Demand(n) == n \in Sizes /\ readableBytes + n <= ByteBound

reserveWritableBytes(n) ==
    /\ Demand(n)
    /\ buffer' = Reserved(n).buf
    /\ read_index' = Reserved(n).r
    /\ write_index' = Reserved(n).w
    /\ UNCHANGED out

\* writeBytes, and writeIntN with n bytes: the index advances by all of them.
writeBytes(s) ==
    /\ Demand(Len(s))
    /\ buffer' = Stored(Reserved(Len(s)).buf, Reserved(Len(s)).w, s)
    /\ read_index' = Reserved(Len(s)).r
    /\ write_index' = Reserved(Len(s)).w + Len(s)
    /\ UNCHANGED out

\* reserveWritableBytes(n), bytes s put at writeBegin(), write(Len(s)).
fill(n, s) ==
    /\ Demand(n)
    /\ Len(s) <= n
    /\ LET R == Reserved(n)
       IN  /\ buffer' = Stored(R.buf, R.w, s)
           /\ read_index' = R.r
           /\ write_index' = R.w + Least(Len(s), Len(R.buf) - R.w)
    /\ UNCHANGED out

\* read_index_ advances over at most n bytes; an empty buffer starts over.
Consume(n) ==
    IF n >= readableBytes
    THEN read_index' = 0 /\ write_index' = 0
    ELSE read_index' = read_index + n /\ UNCHANGED write_index

read(n) ==
    /\ n \in Sizes
    /\ Consume(n)
    /\ UNCHANGED <<buffer, out>>

readBytes(n) ==
    /\ n \in Sizes
    /\ Consume(n)
    /\ out' = [i \in 1..Least(n, readableBytes) |-> buffer[read_index + i]]
    /\ UNCHANGED buffer

clear ==
    /\ read_index' = 0
    /\ write_index' = 0
    /\ UNCHANGED <<buffer, out>>

Strings == UNION {[1..n -> Bytes] : n \in Sizes}

Next ==
    \/ \E n \in Sizes : reserveWritableBytes(n) \/ read(n) \/ readBytes(n)
    \/ \E s \in Strings : writeBytes(s) \/ \E n \in Sizes : fill(n, s)
    \/ clear

Spec == Init /\ [][Next]_vars

-----------------------------------------------------------------------------
(* Properties *)

\* The members keep their types, and the indexes stay in order and inside the
\* array: no write() or memcpy() reaches beyond what reserveWritableBytes made.
IndexesInRange ==
    /\ buffer \in Seq(Bytes)
    /\ out \in Seq(Bytes)
    /\ read_index \in Nat
    /\ write_index \in Nat
    /\ read_index <= write_index
    /\ write_index <= Len(buffer)

\* However long the stream that slides through it, the array never gets larger
\* than what was needed at one time, plus one expand_size_ at most: room before
\* read_index_ is reused.
CapacityBounded == Len(buffer) <= Greatest(FirstSize, ByteBound + expand_size)

Fifo == INSTANCE ByteFifo WITH bytes <- Contents

\* Compacting and expanding are invisible: the buffer is a ByteFifo.
ImplementsByteFifo == Fifo!Spec
=============================================================================
