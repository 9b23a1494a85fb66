-------------------------- MODULE StructuresProofs --------------------------
(***************************************************************************)
(* The data structures, for every value of their constants.                *)
(*                                                                         *)
(* DynamicBuffer, for every initial size, expand size and set of bytes:    *)
(* the indexes stay inside the array, the array does not grow without      *)
(* need, and the buffer implements ByteFifo.                               *)
(*                                                                         *)
(* TimerHeap, for every number of timers: the shifts leave the heap        *)
(* ordered, the map and the heap hold the same timers, the epoll timeout   *)
(* is exact, and the heap implements TimerService.  The loops of the       *)
(* shifts are recursive functions; what they compute is proved by          *)
(* induction over their rounds.                                            *)
(***************************************************************************)
EXTENDS DynamicBuffer, TimerHeap, SequenceTheorems, FunctionTheorems,
        FiniteSetTheorems, WellFoundedInduction, TLAPS

-----------------------------------------------------------------------------
(* DynamicBuffer *)

\* expand_size_ is at least one, whatever the constructor was given.
LEMMA ExpandSizePositive == expand_size \in Nat \ {0} /\ FirstSize \in Nat \ {0}
BY BufferAssumption DEF expand_size, FirstSize, Greatest

\* Rounding up to a multiple of e gives more than d, and at most e more.
LEMMA RoundUp ==
    ASSUME NEW d \in Nat, NEW e \in Nat \ {0}
    PROVE  /\ e * (d \div e + 1) \in Nat
           /\ e * (d \div e + 1) > d
           /\ e * (d \div e + 1) <= d + e
<1> DEFINE q == d \div e
<1>1. q \in Nat /\ d = (e * q) + (d % e) /\ (d % e) \in 0..(e - 1)
  OBVIOUS
<1>2. e * (q + 1) = e * q + e /\ e * q \in Nat
  BY <1>1, SMT
<1> QED BY <1>1, <1>2

\* The strings that are written are sequences of bytes of a size in Sizes.
LEMMA StringsAreSequences ==
    ASSUME NEW s \in Strings
    PROVE  s \in Seq(Bytes) /\ Len(s) \in Sizes /\ s = [i \in 1..Len(s) |-> s[i]]
<1>1. PICK n \in Sizes : s \in [1..n -> Bytes]
  BY DEF Strings
<1>2. n \in Nat
  BY BufferAssumption
<1> QED BY <1>1, <1>2

\* reserveWritableBytes(n) leaves room for n bytes, keeps the readable bytes in
\* order, and enlarges the array only if n bytes do not fit otherwise, by at most
\* expand_size_ more than is missing.
LEMMA ReservedFits ==
    ASSUME IndexesInRange, NEW n \in Nat
    PROVE  /\ Reserved(n).buf \in Seq(Bytes)
           /\ Reserved(n).r \in Nat
           /\ Reserved(n).w \in Nat
           /\ Reserved(n).w - Reserved(n).r = readableBytes
           /\ Reserved(n).w + n <= Len(Reserved(n).buf)
           /\ \A i \in 1..readableBytes :
                Reserved(n).buf[Reserved(n).r + i] = buffer[read_index + i]
           /\ \/ Len(Reserved(n).buf) = Len(buffer)
              \/ Len(Reserved(n).buf) <= readableBytes + n + expand_size
<1> USE DEF IndexesInRange, readableBytes, writableBytes, free_bytes
<1>0. Len(buffer) \in Nat /\ \A i \in 1..Len(buffer) : buffer[i] \in Bytes
  OBVIOUS
<1>1. CASE writableBytes >= n
  BY <1>0, <1>1 DEF Reserved
<1>2. CASE ~(writableBytes >= n) /\ free_bytes >= n
  <2> DEFINE moved == [i \in 1..Len(buffer) |->
                IF i <= readableBytes THEN buffer[read_index + i] ELSE buffer[i]]
  <2>1. moved \in Seq(Bytes) /\ Len(moved) = Len(buffer)
    <3>1. \A i \in 1..Len(buffer) :
            (IF i <= readableBytes THEN buffer[read_index + i] ELSE buffer[i]) \in Bytes
      BY <1>0
    <3> QED BY <1>0, <3>1
  <2>2. Reserved(n) = [buf |-> moved, r |-> 0, w |-> readableBytes]
    BY <1>2 DEF Reserved
  <2>3. \A i \in 1..readableBytes : moved[0 + i] = buffer[read_index + i]
    BY <1>0
  <2> HIDE DEF moved
  <2> QED BY <1>0, <1>2, <2>1, <2>2, <2>3
<1>3. CASE ~(writableBytes >= n) /\ ~(free_bytes >= n)
  <2> DEFINE size == Len(buffer) + Growth(n)
             larger == [i \in 1..size |->
                IF i <= readableBytes THEN buffer[read_index + i] ELSE Zero]
  <2>1. /\ Growth(n) \in Nat
        /\ Growth(n) > n - free_bytes
        /\ Growth(n) <= n - free_bytes + expand_size
    <3> DEFINE d == n - free_bytes
    <3>1. d \in Nat
      BY <1>0, <1>3
    <3>2. Growth(n) = expand_size * (d \div expand_size + 1)
      BY DEF Growth
    <3> HIDE DEF d
    <3>3. /\ Growth(n) \in Nat
          /\ Growth(n) > d
          /\ Growth(n) <= d + expand_size
      BY <3>1, <3>2, ExpandSizePositive, RoundUp
    <3> QED BY <3>3 DEF d
  <2> HIDE DEF size
  <2>2. /\ size \in Nat
        /\ readableBytes + n <= size
        /\ size <= readableBytes + n + expand_size
    <3> HIDE DEF expand_size, Growth
    <3> QED BY <1>0, <2>1, ExpandSizePositive DEF size
  <2>3. larger \in Seq(Bytes) /\ Len(larger) = size
    <3>1. \A i \in 1..size :
            (IF i <= readableBytes THEN buffer[read_index + i] ELSE Zero) \in Bytes
      BY <1>0, <2>2, BufferAssumption
    <3> QED BY <2>2, <3>1
  <2>4. Reserved(n) = [buf |-> larger, r |-> 0, w |-> readableBytes]
    BY <1>3 DEF Reserved, size
  <2>5. \A i \in 1..readableBytes : larger[0 + i] = buffer[read_index + i]
    BY <1>0, <2>2
  <2> HIDE DEF larger
  <2> QED BY <1>0, <2>2, <2>3, <2>4, <2>5
<1> QED BY <1>1, <1>2, <1>3

\* memcpy(writeBegin(), s) changes the bytes from write_index_ on and no other.
LEMMA StoredFits ==
    ASSUME NEW buf \in Seq(Bytes), NEW w \in Nat, NEW s \in Seq(Bytes),
           w + Len(s) <= Len(buf)
    PROVE  /\ Stored(buf, w, s) \in Seq(Bytes)
           /\ Len(Stored(buf, w, s)) = Len(buf)
           /\ \A i \in 1..w : Stored(buf, w, s)[i] = buf[i]
           /\ \A i \in 1..Len(s) : Stored(buf, w, s)[w + i] = s[i]
<1>1. Len(buf) \in Nat /\ Len(s) \in Nat
  OBVIOUS
<1>2. \A i \in 1..Len(buf) :
        (IF i > w /\ i <= w + Len(s) THEN s[i - w] ELSE buf[i]) \in Bytes
  BY <1>1
<1>3. Stored(buf, w, s) \in Seq(Bytes) /\ Len(Stored(buf, w, s)) = Len(buf)
  BY <1>1, <1>2 DEF Stored
<1>4. \A i \in 1..w : Stored(buf, w, s)[i] = buf[i]
  BY <1>1 DEF Stored
<1>5. \A i \in 1..Len(s) : Stored(buf, w, s)[w + i] = s[i]
  BY <1>1 DEF Stored
<1> QED BY <1>3, <1>4, <1>5

\* What a step that stores s does, whichever way it advances write_index_.
LEMMA WriteStep ==
    ASSUME IndexesInRange, NEW n \in Nat, NEW s \in Strings, Len(s) <= n,
           buffer' = Stored(Reserved(n).buf, Reserved(n).w, s),
           read_index' = Reserved(n).r,
           write_index' = Reserved(n).w + Len(s)
    PROVE  /\ buffer' \in Seq(Bytes)
           /\ read_index' \in Nat
           /\ write_index' \in Nat
           /\ read_index' <= write_index'
           /\ write_index' <= Len(buffer')
           /\ Len(buffer') = Len(Reserved(n).buf)
           /\ Contents' = Contents \o s
<1> DEFINE B == Reserved(n).buf
           r == Reserved(n).r
           w == Reserved(n).w
<1>1. s \in Seq(Bytes) /\ Len(s) \in Nat /\ s = [i \in 1..Len(s) |-> s[i]]
  BY StringsAreSequences
<1>2. readableBytes \in Nat
  BY DEF IndexesInRange, readableBytes
<1>3. /\ B \in Seq(Bytes) /\ Len(B) \in Nat
      /\ r \in Nat /\ w \in Nat
      /\ w = r + readableBytes
      /\ w + Len(s) <= Len(B)
      /\ \A i \in 1..readableBytes : B[r + i] = buffer[read_index + i]
  <2> HIDE DEF B, r, w
  <2>1. /\ B \in Seq(Bytes)
        /\ r \in Nat /\ w \in Nat
        /\ w - r = readableBytes
        /\ w + n <= Len(B)
        /\ \A i \in 1..readableBytes : B[r + i] = buffer[read_index + i]
    BY ReservedFits DEF B, r, w
  <2> QED BY <1>1, <1>2, <2>1
<1>4. buffer' = Stored(B, w, s) /\ read_index' = r /\ write_index' = w + Len(s)
  OBVIOUS
<1> HIDE DEF B, r, w
<1>5. /\ buffer' \in Seq(Bytes)
      /\ Len(buffer') = Len(B)
      /\ \A i \in 1..w : buffer'[i] = B[i]
      /\ \A i \in 1..Len(s) : buffer'[w + i] = s[i]
  <2>1. /\ Stored(B, w, s) \in Seq(Bytes)
        /\ Len(Stored(B, w, s)) = Len(B)
        /\ \A i \in 1..w : Stored(B, w, s)[i] = B[i]
        /\ \A i \in 1..Len(s) : Stored(B, w, s)[w + i] = s[i]
    <3>1. w + Len(s) <= Len(B)
      BY <1>3
    <3> QED BY ONLY <1>1, <1>3, <3>1, StoredFits, Zenon
  <2> QED BY <1>4, <2>1
<1>6. Contents \in Seq(Bytes) /\ Len(Contents) = readableBytes
  <2>1. \A i \in 1..readableBytes : buffer[read_index + i] \in Bytes
    BY <1>2 DEF IndexesInRange, readableBytes
  <2> QED BY <1>2, <2>1 DEF Contents
<1>7. /\ Contents' \in Seq(Bytes)
      /\ Len(Contents') = readableBytes + Len(s)
      /\ \A i \in 1..(readableBytes + Len(s)) : Contents'[i] = buffer'[r + i]
  <2>1. Contents' = [i \in 1..(write_index' - read_index') |-> buffer'[read_index' + i]]
    BY DEF Contents, readableBytes
  <2>2. write_index' - read_index' = readableBytes + Len(s)
    BY <1>1, <1>2, <1>3, <1>4
  <2>3. Contents' = [i \in 1..(readableBytes + Len(s)) |-> buffer'[r + i]]
    BY <1>4, <2>1, <2>2
  <2>4. \A i \in 1..(readableBytes + Len(s)) : buffer'[r + i] \in Bytes
    BY <1>1, <1>2, <1>3, <1>5
  <2> QED BY <1>1, <1>2, <2>3, <2>4
<1>8. ASSUME NEW i \in 1..(readableBytes + Len(s))
      PROVE  Contents'[i] = IF i <= readableBytes THEN Contents[i] ELSE s[i - readableBytes]
  <2>1. CASE i <= readableBytes
    <3>1. i \in 1..readableBytes /\ r + i \in 1..w
      BY <1>1, <1>2, <1>3, <2>1
    <3>2. Contents[i] = buffer[read_index + i]
      BY <3>1 DEF Contents
    <3> QED BY <1>3, <1>5, <1>7, <2>1, <3>1, <3>2
  <2>2. CASE ~(i <= readableBytes)
    <3>1. i - readableBytes \in 1..Len(s) /\ r + i = w + (i - readableBytes)
      BY <1>1, <1>2, <1>3, <2>2
    <3> QED BY <1>5, <1>7, <2>2, <3>1
  <2> QED BY <2>1, <2>2
<1>9. Contents' = Contents \o s
  <2> HIDE DEF Contents
  <2>1. /\ Contents \o s \in Seq(Bytes)
        /\ Len(Contents \o s) = readableBytes + Len(s)
        /\ \A i \in 1..(readableBytes + Len(s)) : (Contents \o s)[i] =
              IF i <= readableBytes THEN Contents[i] ELSE s[i - readableBytes]
    BY <1>1, <1>6, ConcatProperties
  <2>2. \A i \in 1..Len(Contents') : Contents'[i] = (Contents \o s)[i]
    BY <1>7, <1>8, <2>1
  <2> QED BY <1>7, <2>1, <2>2, SeqEqual
<1> QED BY <1>1, <1>2, <1>3, <1>4, <1>5, <1>9 DEF B

\* Reading advances over the oldest bytes, and starts over when none are left.
LEMMA ConsumeStep ==
    ASSUME IndexesInRange, NEW n \in Nat, Consume(n), buffer' = buffer
    PROVE  /\ read_index' \in Nat
           /\ write_index' \in Nat
           /\ read_index' <= write_index'
           /\ write_index' <= Len(buffer')
           /\ Contents' = Fifo!Without(Contents, n)
<1>1. readableBytes \in Nat /\ Len(buffer) \in Nat
  BY DEF IndexesInRange, readableBytes
<1>2. Contents \in Seq(Bytes) /\ Len(Contents) = readableBytes
  <2>1. \A i \in 1..readableBytes : buffer[read_index + i] \in Bytes
    BY <1>1 DEF IndexesInRange, readableBytes
  <2> QED BY <1>1, <2>1 DEF Contents
<1>3. Contents' = [i \in 1..(write_index' - read_index') |-> buffer[read_index' + i]]
  BY DEF Contents, readableBytes
<1>4. CASE n >= readableBytes
  <2>1. read_index' = 0 /\ write_index' = 0
    BY <1>4 DEF Consume
  <2>2. Contents' = [i \in 1..0 |-> Contents[n + i]]
    BY <1>3, <2>1
  <2>3. ~(n < Len(Contents))
    BY <1>1, <1>2, <1>4
  <2> QED BY <1>1, <2>1, <2>2, <2>3 DEF Fifo!Without
<1>5. CASE ~(n >= readableBytes)
  <2>1. read_index' = read_index + n /\ write_index' = write_index
    BY <1>5 DEF Consume
  <2>2. write_index' - read_index' = readableBytes - n
    BY <1>1, <2>1 DEF IndexesInRange, readableBytes
  <2>3. n < Len(Contents)
    BY <1>1, <1>2, <1>5
  <2>4. \A i \in 1..(readableBytes - n) : Contents[n + i] = buffer[read_index' + i]
    <3> SUFFICES ASSUME NEW i \in 1..(readableBytes - n)
                 PROVE  Contents[n + i] = buffer[read_index' + i]
      OBVIOUS
    <3>1. n + i \in 1..readableBytes /\ read_index + (n + i) = read_index' + i
      BY <1>1, <1>5, <2>1 DEF IndexesInRange
    <3> QED BY <3>1 DEF Contents
  <2>5. Contents' = [i \in 1..(readableBytes - n) |-> Contents[n + i]]
    BY <1>3, <2>2, <2>4
  <2>6. Fifo!Without(Contents, n) = [i \in 1..(readableBytes - n) |-> Contents[n + i]]
    BY <1>2, <2>3 DEF Fifo!Without
  <2> QED BY <1>1, <1>5, <2>1, <2>5, <2>6 DEF IndexesInRange, readableBytes
<1> QED BY <1>4, <1>5

\* An empty buffer has no contents.
LEMMA NoContents ==
    /\ read_index = 0 /\ write_index = 0 => Contents = <<>>
    /\ read_index' = 0 /\ write_index' = 0 => Contents' = <<>>
BY DEF Contents, readableBytes

-----------------------------------------------------------------------------
\* Every operation keeps the indexes in range and does to the contents what the
\* ByteFifo does to its bytes.
LEMMA BufferStep ==
    ASSUME IndexesInRange, Next
    PROVE  IndexesInRange' /\ [Fifo!Next]_(Fifo!vars)
<1>1. ASSUME NEW n \in Sizes, reserveWritableBytes(n)
      PROVE  IndexesInRange' /\ UNCHANGED <<Contents, out>>
  <2>1. n \in Nat
    BY BufferAssumption
  <2>2. /\ buffer' \in Seq(Bytes)
        /\ read_index' \in Nat /\ write_index' \in Nat
        /\ write_index' - read_index' = readableBytes
        /\ write_index' + n <= Len(buffer')
        /\ \A i \in 1..readableBytes : buffer'[read_index' + i] = buffer[read_index + i]
        /\ out' = out
    BY <1>1, <2>1, ReservedFits DEF reserveWritableBytes
  <2>3. Contents' = [i \in 1..(write_index' - read_index') |-> buffer'[read_index' + i]]
    BY DEF Contents, readableBytes
  <2>4. Contents' = Contents
    BY <2>2, <2>3 DEF Contents
  <2>5. readableBytes \in Nat
    BY DEF IndexesInRange, readableBytes
  <2>6. read_index' <= write_index' /\ write_index' <= Len(buffer')
    <3> DEFINE r == read_index'
               w == write_index'
               len == Len(buffer')
               b == readableBytes
    <3>1. len \in Nat /\ r \in Nat /\ w \in Nat /\ b \in Nat
      BY <2>2, <2>5
    <3>2. w - r = b /\ w + n <= len
      BY <2>2
    <3> HIDE DEF r, w, len, b
    <3>3. r <= w /\ w <= len
      BY <2>1, <3>1, <3>2
    <3> QED BY <3>3 DEF r, w, len
  <2>7. out' \in Seq(Bytes)
    BY <2>2 DEF IndexesInRange
  <2>8. IndexesInRange'
    BY <2>2, <2>6, <2>7 DEF IndexesInRange
  <2> QED BY <2>2, <2>4, <2>8
<1>2. ASSUME NEW s \in Strings, writeBytes(s)
      PROVE  IndexesInRange' /\ Fifo!Put(s)
  <2>1. Len(s) \in Nat
    BY StringsAreSequences
  <2>2. /\ buffer' = Stored(Reserved(Len(s)).buf, Reserved(Len(s)).w, s)
        /\ read_index' = Reserved(Len(s)).r
        /\ write_index' = Reserved(Len(s)).w + Len(s)
        /\ out' = out
    BY <1>2 DEF writeBytes
  <2>3. /\ buffer' \in Seq(Bytes)
        /\ read_index' \in Nat /\ write_index' \in Nat
        /\ read_index' <= write_index' /\ write_index' <= Len(buffer')
        /\ Contents' = Contents \o s
    BY <2>1, <2>2, WriteStep
  <2> QED BY <2>2, <2>3 DEF IndexesInRange, Fifo!Put
<1>3. ASSUME NEW s \in Strings, NEW n \in Sizes, fill(n, s)
      PROVE  IndexesInRange' /\ Fifo!Put(s)
  <2>1. n \in Nat /\ Len(s) \in Nat /\ Len(s) <= n
    BY <1>3, BufferAssumption, StringsAreSequences DEF fill
  <2>2. /\ buffer' = Stored(Reserved(n).buf, Reserved(n).w, s)
        /\ read_index' = Reserved(n).r
        /\ write_index' = Reserved(n).w
                           + Least(Len(s), Len(Reserved(n).buf) - Reserved(n).w)
        /\ out' = out
    BY <1>3 DEF fill
  <2>3. Least(Len(s), Len(Reserved(n).buf) - Reserved(n).w) = Len(s)
    <3>1. /\ Reserved(n).buf \in Seq(Bytes) /\ Reserved(n).w \in Nat
          /\ Reserved(n).w + n <= Len(Reserved(n).buf)
      BY <2>1, ReservedFits
    <3> QED BY <2>1, <3>1 DEF Least
  <2>4. /\ buffer' \in Seq(Bytes)
        /\ read_index' \in Nat /\ write_index' \in Nat
        /\ read_index' <= write_index' /\ write_index' <= Len(buffer')
        /\ Contents' = Contents \o s
    BY <2>1, <2>2, <2>3, WriteStep
  <2> QED BY <2>2, <2>4 DEF IndexesInRange, Fifo!Put
<1>4. ASSUME NEW n \in Sizes, read(n)
      PROVE  IndexesInRange' /\ Fifo!Discard(n)
  <2>1. n \in Nat
    BY BufferAssumption
  <2> QED BY <1>4, <2>1, ConsumeStep DEF read, IndexesInRange, Fifo!Discard
<1>5. ASSUME NEW n \in Sizes, readBytes(n)
      PROVE  IndexesInRange' /\ Fifo!Take(n)
  <2>1. n \in Nat /\ readableBytes \in Nat
    BY BufferAssumption DEF IndexesInRange, readableBytes
  <2>2. Len(Contents) = readableBytes
    BY <2>1 DEF Contents
  <2>3. out' = [i \in 1..Least(n, readableBytes) |-> Contents[i]]
    BY <1>5, <2>1 DEF readBytes, Contents, Least
  <2>4. out' = Fifo!Prefix(Contents, n)
    BY <2>2, <2>3 DEF Fifo!Prefix, Least
  <2>5. out' \in Seq(Bytes)
    <3>1. \A i \in 1..readableBytes : Contents[i] \in Bytes
      BY <2>1 DEF Contents, IndexesInRange, readableBytes
    <3>2. Least(n, readableBytes) \in Nat /\ Least(n, readableBytes) <= readableBytes
      BY <2>1 DEF Least
    <3> QED BY <2>1, <2>3, <3>1, <3>2
  <2>6. /\ read_index' \in Nat /\ write_index' \in Nat
        /\ read_index' <= write_index' /\ write_index' <= Len(buffer')
        /\ Contents' = Fifo!Without(Contents, n)
        /\ buffer' = buffer
    BY <1>5, <2>1, ConsumeStep DEF readBytes
  <2> QED BY <2>4, <2>5, <2>6 DEF IndexesInRange, Fifo!Take
<1>6. ASSUME clear
      PROVE  IndexesInRange' /\ Fifo!Clear
  BY <1>6, NoContents DEF clear, IndexesInRange, Fifo!Clear
<1> QED BY <1>1, <1>2, <1>3, <1>4, <1>5, <1>6 DEF Next, Fifo!Next, Fifo!vars

\* The members keep their types and no operation reaches beyond the array.
THEOREM Safety == Spec => []IndexesInRange
<1>1. Init => IndexesInRange
  <2>1. FirstSize \in Nat /\ Zero \in Bytes
    BY ExpandSizePositive, BufferAssumption
  <2> QED BY <2>1 DEF Init, IndexesInRange
<1>2. IndexesInRange /\ [Next]_vars => IndexesInRange'
  <2>1. IndexesInRange /\ UNCHANGED vars => IndexesInRange'
    BY DEF IndexesInRange, vars
  <2> QED BY <2>1, BufferStep
<1> QED BY <1>1, <1>2, PTL DEF Spec

\* The array never gets larger than what was needed at one time, plus an
\* expand_size_: reserveWritableBytes() reuses the bytes that were read.
THEOREM BoundedCapacity == Spec => []CapacityBounded
<1> DEFINE Bound == Greatest(FirstSize, ByteBound + expand_size)
<1>0. FirstSize \in Nat /\ expand_size \in Nat /\ ByteBound \in Nat
  BY ExpandSizePositive, BufferAssumption
<1>1. Init => CapacityBounded
  BY <1>0 DEF Init, CapacityBounded, Greatest
<1>2. ASSUME IndexesInRange, CapacityBounded, NEW n \in Nat, Demand(n)
      PROVE  Len(Reserved(n).buf) <= Bound
  <2>1. /\ Reserved(n).buf \in Seq(Bytes)
        /\ \/ Len(Reserved(n).buf) = Len(buffer)
           \/ Len(Reserved(n).buf) <= readableBytes + n + expand_size
    BY <1>2, ReservedFits
  <2>2. Len(buffer) <= Bound /\ readableBytes + n <= ByteBound
    BY <1>2 DEF CapacityBounded, Demand
  <2>3. readableBytes \in Nat /\ Len(Reserved(n).buf) \in Nat
    BY <1>2, <2>1 DEF IndexesInRange, readableBytes
  <2> HIDE DEF expand_size, FirstSize, readableBytes
  <2> QED BY <1>0, <2>1, <2>2, <2>3 DEF Greatest
<1>3. ASSUME IndexesInRange, CapacityBounded, [Next]_vars
      PROVE  CapacityBounded'
  <2>1. ASSUME NEW n \in Sizes, reserveWritableBytes(n)
        PROVE  CapacityBounded'
    BY <1>2, <1>3, <2>1, BufferAssumption DEF reserveWritableBytes, CapacityBounded
  <2>2. ASSUME NEW n \in Nat, NEW s \in Strings, Len(s) <= n, Demand(n),
               buffer' = Stored(Reserved(n).buf, Reserved(n).w, s)
        PROVE  CapacityBounded'
    <3>1. Len(buffer') = Len(Reserved(n).buf)
      BY <1>3, <2>2, ReservedFits, StringsAreSequences DEF Stored
    <3> QED BY <1>2, <1>3, <2>2, <3>1 DEF CapacityBounded
  <2>3. ASSUME NEW s \in Strings, writeBytes(s)
        PROVE  CapacityBounded'
    BY <2>2, <2>3, StringsAreSequences, BufferAssumption DEF writeBytes
  <2>4. ASSUME NEW s \in Strings, NEW n \in Sizes, fill(n, s)
        PROVE  CapacityBounded'
    BY <2>2, <2>4, BufferAssumption DEF fill
  <2>5. buffer' = buffer => CapacityBounded'
    BY <1>3 DEF CapacityBounded
  <2> QED BY <1>3, <2>1, <2>3, <2>4, <2>5 DEF Next, read, readBytes, clear, vars
<1> QED BY <1>1, <1>3, Safety, PTL DEF Spec

\* Every behaviour of the buffer is one of a ByteFifo.
THEOREM Refinement == Spec => ImplementsByteFifo
<1>1. Init => Fifo!Init
  BY NoContents DEF Init, Fifo!Init
<1>2. IndexesInRange /\ [Next]_vars => [Fifo!Next]_(Fifo!vars)
  <2>1. UNCHANGED vars => UNCHANGED Fifo!vars
    BY DEF vars, Fifo!vars, Contents, readableBytes
  <2> QED BY <2>1, BufferStep
<1> QED BY <1>1, <1>2, Safety, PTL DEF Spec, ImplementsByteFifo, Fifo!Spec

-----------------------------------------------------------------------------
(* Induction over the naturals, with a set for the property. *)

\* A set of naturals that is not empty has a least element.
LEMMA LeastElement ==
    ASSUME NEW S, S \subseteq Nat, S # {}
    PROVE  \E x \in S : \A y \in S : x <= y
<1> DEFINE R == OpToRel(<, Nat)
<1>1. IsWellFoundedOn(R, Nat)
  BY NatLessThanWellFounded
<1>2. \A x, y \in Nat : x < y => <<x, y>> \in R
  BY DEF OpToRel
<1> HIDE DEF R
<1>3. PICK x \in S : \A y \in S : <<y, x>> \notin R
  BY <1>1, WFMin
<1>4. ASSUME NEW y \in S PROVE x <= y
  <2>1. x \in Nat /\ y \in Nat /\ ~(y < x)
    BY <1>2, <1>3
  <2> QED
    BY <2>1
<1> QED
  BY <1>4

\* A set that has 0, and n + 1 with every n, has every natural.
LEMMA Induct ==
    ASSUME NEW S, 0 \in S, \A n \in Nat : n \in S => n + 1 \in S
    PROVE  Nat \subseteq S
<1> SUFFICES ASSUME ~(Nat \subseteq S) PROVE FALSE
  OBVIOUS
<1>1. PICK x \in Nat \ S : \A y \in Nat \ S : x <= y
  <2> DEFINE U == Nat \ S
  <2>1. U \subseteq Nat /\ U # {}
    OBVIOUS
  <2> HIDE DEF U
  <2>2. \E x \in U : \A y \in U : x <= y
    BY <2>1, LeastElement
  <2> QED
    BY <2>2 DEF U
<1>2. x # 0 /\ x - 1 \in Nat
  BY <1>1
<1>3. x - 1 \in S
  BY <1>1, <1>2
<1> QED
  BY <1>1, <1>2, <1>3

-----------------------------------------------------------------------------
(* The order of a heap, on its timestamps: a[i] is that of slot i of n.  One  *)
(* shift step may leave the slot cur out of order with its parent, the other  *)
(* with its children, and the children of cur are in order with its parent.   *)

Ordered(a, n) == \A i \in 2..n : a[i \div 2] <= a[i]

Grandchildren(a, n, cur) ==
    \A i \in 2..n : i \div 2 = cur /\ cur >= 2 => a[cur \div 2] <= a[i]

OrderedButUp(a, n, cur) ==
    /\ \A i \in 2..n : i # cur => a[i \div 2] <= a[i]
    /\ Grandchildren(a, n, cur)

OrderedButDown(a, n, cur) ==
    /\ \A i \in 2..n : i \div 2 # cur => a[i \div 2] <= a[i]
    /\ Grandchildren(a, n, cur)

\* b is a with slots i and j exchanged.
Exchanged(a, b, n, i, j) ==
    \A k \in 1..n : b[k] = IF k = i THEN a[j] ELSE IF k = j THEN a[i] ELSE a[k]

Stamped(a, n) == \A k \in 1..n : a[k] \in Int

\* A slot and its parent.
LEMMA ParentIs ==
    ASSUME NEW i \in Nat, i >= 2
    PROVE  i \div 2 \in Nat /\ i \div 2 >= 1 /\ i \div 2 < i
OBVIOUS

\* A slot that comes before its parent is exchanged with it, and may now come
\* before the next.
LEMMA StepUp ==
    ASSUME NEW n \in Nat, NEW a, NEW b, NEW cur \in 2..n,
           Stamped(a, n), Exchanged(a, b, n, cur, cur \div 2),
           OrderedButUp(a, n, cur), a[cur] < a[cur \div 2]
    PROVE  OrderedButUp(b, n, cur \div 2)
<1> DEFINE p == cur \div 2
<1>0. p \in 1..n /\ p # cur /\ p < cur
  BY ParentIs
<1>1. ASSUME NEW i \in 2..n, i # p PROVE b[i \div 2] <= b[i]
  <2>0. i \div 2 \in 1..n /\ i \in 1..n /\ i \div 2 # i
    BY ParentIs
  <2>1. CASE i = cur
    BY <1>0, <2>0, <2>1 DEF Stamped, Exchanged
  <2>2. CASE i # cur /\ i \div 2 = cur
    BY <1>0, <1>1, <2>0, <2>2 DEF Stamped, Exchanged, OrderedButUp, Grandchildren
  <2>3. CASE i # cur /\ i \div 2 = p
    BY <1>0, <1>1, <2>0, <2>3 DEF Stamped, Exchanged, OrderedButUp
  <2>4. CASE i # cur /\ i \div 2 # cur /\ i \div 2 # p
    BY <1>0, <1>1, <2>0, <2>4 DEF Stamped, Exchanged, OrderedButUp
  <2> QED
    BY <2>1, <2>2, <2>3, <2>4
<1>2. ASSUME NEW i \in 2..n, i \div 2 = p, p >= 2 PROVE b[p \div 2] <= b[i]
  <2>0. p \div 2 \in 1..n /\ i \in 1..n /\ p \div 2 < p /\ i # p
    BY <1>0, <1>2, ParentIs
  <2>1. a[p \div 2] <= a[p]
    BY <1>0, <1>2 DEF OrderedButUp
  <2>2. CASE i = cur
    BY <1>0, <2>0, <2>1, <2>2 DEF Stamped, Exchanged
  <2>3. CASE i # cur
    <3>1. a[p] <= a[i]
      BY <1>2, <2>3 DEF OrderedButUp
    <3> QED
      BY <1>0, <2>0, <2>1, <2>3, <3>1 DEF Stamped, Exchanged
  <2> QED
    BY <2>2, <2>3
<1> QED
  BY <1>1, <1>2 DEF OrderedButUp, Grandchildren

\* A slot that does not come before its parent is in its place.
LEMMA DoneUp ==
    ASSUME NEW n \in Nat, NEW a, NEW cur \in 1..n, OrderedButUp(a, n, cur),
           cur \div 2 = 0 \/ a[cur \div 2] <= a[cur]
    PROVE  Ordered(a, n)
<1>1. cur >= 2 => cur \div 2 # 0
  OBVIOUS
<1> QED
  BY <1>1 DEF OrderedButUp, Ordered

\* A slot that comes after its earlier child is exchanged with it, and may now
\* come after the next.
LEMMA StepDown ==
    ASSUME NEW n \in Nat, NEW a, NEW b, NEW cur \in 1..n, NEW c \in 2..n,
           Stamped(a, n), Exchanged(a, b, n, cur, c),
           c \div 2 = cur, \A i \in 2..n : i \div 2 = cur => a[c] <= a[i],
           OrderedButDown(a, n, cur), a[c] < a[cur]
    PROVE  OrderedButDown(b, n, c)
<1>0. c # cur /\ cur < c
  BY ParentIs
<1>1. ASSUME NEW i \in 2..n, i \div 2 # c PROVE b[i \div 2] <= b[i]
  <2>0. i \div 2 \in 1..n /\ i \in 1..n /\ i \div 2 # i
    BY ParentIs
  <2>1. CASE i = c
    BY <1>0, <2>0, <2>1 DEF Stamped, Exchanged
  <2>2. CASE i # c /\ i \div 2 = cur
    BY <1>0, <2>0, <2>2 DEF Stamped, Exchanged
  <2>3. CASE i = cur
    <3>1. cur >= 2 /\ a[cur \div 2] <= a[c]
      BY <2>3 DEF OrderedButDown, Grandchildren
    <3> QED
      BY <1>0, <1>1, <2>0, <2>3, <3>1 DEF Stamped, Exchanged
  <2>4. CASE i # c /\ i # cur /\ i \div 2 # cur
    BY <1>0, <1>1, <2>0, <2>4 DEF Stamped, Exchanged, OrderedButDown
  <2> QED
    BY <2>1, <2>2, <2>3, <2>4
<1>2. ASSUME NEW i \in 2..n, i \div 2 = c PROVE b[c \div 2] <= b[i]
  <2>1. i # c /\ i # cur /\ a[c] <= a[i]
    BY <1>0, <1>2, ParentIs DEF OrderedButDown
  <2> QED
    BY <1>0, <2>1 DEF Stamped, Exchanged
<1> QED
  BY <1>1, <1>2 DEF OrderedButDown, Grandchildren

\* A slot that comes after none of its children is in its place.
LEMMA DoneDown ==
    ASSUME NEW n \in Nat, NEW a, NEW cur \in 1..n, OrderedButDown(a, n, cur),
           \A i \in 2..n : i \div 2 = cur => a[cur] <= a[i]
    PROVE  Ordered(a, n)
BY DEF OrderedButDown, Ordered

\* The first slot of an ordered heap has the least timestamp.
LEMMA RootIsLeast ==
    ASSUME NEW n \in Nat, NEW a, Stamped(a, n), Ordered(a, n), NEW i \in 1..n
    PROVE  a[1] <= a[i]
<1> DEFINE Later == {k \in 1..n : ~(a[1] <= a[k])}
<1> SUFFICES ASSUME Later # {} PROVE FALSE
  OBVIOUS
<1>1. Later \subseteq Nat
  OBVIOUS
<1>2. PICK k \in Later : \A m \in Later : k <= m
  <2> HIDE DEF Later
  <2> QED
    BY <1>1, LeastElement
<1>3. k \in 2..n
  BY DEF Stamped
<1>4. k \div 2 \in 1..n /\ k \div 2 < k
  BY <1>3, ParentIs
<1>5. k \div 2 \notin Later
  BY <1>1, <1>2, <1>4
<1> QED
  BY <1>3, <1>4, <1>5 DEF Stamped, Ordered

-----------------------------------------------------------------------------
(* The heap and the positions its timers record. *)

TimerType == [timestamp : Int, timeout : Nat, call_times : Int, heap_pos : Int]

Slots(H) == {H.heap[i] : i \in 1..Len(H.heap)}

Stamps(H) == [i \in 1..Len(H.heap) |-> At(H, i).timestamp]

Typed(H) ==
    H \in [timers : [DOMAIN H.timers -> TimerType], heap : Seq(DOMAIN H.timers)]

\* Every timer in the heap says where it is.
Placed(H) ==
    /\ Typed(H)
    /\ \A i \in 1..Len(H.heap) : H.timers[H.heap[i]].heap_pos = i

\* K has the timers of H, apart from where they are in the heap.
SameTimers(H, K) ==
    /\ DOMAIN K.timers = DOMAIN H.timers
    /\ \A i \in DOMAIN H.timers :
        /\ K.timers[i].timestamp = H.timers[i].timestamp
        /\ K.timers[i].timeout = H.timers[i].timeout
        /\ K.timers[i].call_times = H.timers[i].call_times

\* K is H with its heap rearranged.
Rearranged(H, K) ==
    /\ SameTimers(H, K)
    /\ Len(K.heap) = Len(H.heap)
    /\ Slots(K) = Slots(H)

\* What the types say of the heap and the map.
LEMMA TypedFacts ==
    ASSUME NEW H, Typed(H)
    PROVE  /\ Len(H.heap) \in Nat
           /\ H.heap \in Seq(DOMAIN H.timers)
           /\ H.heap \in [1..Len(H.heap) -> DOMAIN H.timers]
           /\ \A i \in 1..Len(H.heap) : H.heap[i] \in DOMAIN H.timers
           /\ \A i \in DOMAIN H.timers : H.timers[i] \in TimerType
           /\ H.timers \in [DOMAIN H.timers -> TimerType]
           /\ H = [timers |-> H.timers, heap |-> H.heap]
<1>1. H.heap \in Seq(DOMAIN H.timers) /\ H.timers \in [DOMAIN H.timers -> TimerType]
      /\ H = [timers |-> H.timers, heap |-> H.heap]
  BY DEF Typed
<1> DEFINE s == H.heap
           D == DOMAIN H.timers
<1>2. s \in Seq(D)
  BY <1>1
<1> HIDE DEF s, D
<1>3. Len(s) \in Nat /\ s \in [1..Len(s) -> D]
  BY <1>2, LenProperties
<1> QED
  BY <1>1, <1>3 DEF s, D

\* The due times in the slots are numbers.
LEMMA StampsTyped ==
    ASSUME NEW H, Typed(H)
    PROVE  Stamped(Stamps(H), Len(H.heap))
BY TypedFacts DEF Stamped, Stamps, At, TimerType

\* Two slots hold different timers.
LEMMA SlotsDiffer ==
    ASSUME NEW H, Placed(H), NEW i \in 1..Len(H.heap), NEW j \in 1..Len(H.heap),
           H.heap[i] = H.heap[j]
    PROVE  i = j
BY DEF Placed

\* Two rearrangements of the slots make one.
LEMMA RearrangedChain ==
    ASSUME NEW H, NEW K, NEW L, Rearranged(H, K), Rearranged(K, L)
    PROVE  Rearranged(H, L)
BY DEF Rearranged, SameTimers

\* U is T with the positions p and q for x and y.
Moved(D, T, U, x, y, p, q) ==
    /\ U \in [D -> TimerType]
    /\ U[x].heap_pos = p
    /\ U[y].heap_pos = q
    /\ \A z \in D : /\ U[z].timestamp = T[z].timestamp
                    /\ U[z].timeout = T[z].timeout
                    /\ U[z].call_times = T[z].call_times
    /\ \A z \in D \ {x, y} : U[z] = T[z]

\* Two timers get other positions.
LEMMA TwoMoved ==
    ASSUME NEW D, NEW T \in [D -> TimerType], NEW x \in D, NEW y \in D, x # y,
           NEW p \in Int, NEW q \in Int
    PROVE  Moved(D, T, [T EXCEPT ![x].heap_pos = p, ![y].heap_pos = q], x, y, p, q)
<1> DEFINE U == [T EXCEPT ![x].heap_pos = p, ![y].heap_pos = q]
           A == [T[x] EXCEPT !.heap_pos = p]
           B == [T[y] EXCEPT !.heap_pos = q]
<1>1. U = [z \in D |-> IF z = y THEN B ELSE IF z = x THEN A ELSE T[z]]
  OBVIOUS
<1>2. \A z \in D : T[z] \in TimerType
  OBVIOUS
<1>3. /\ A \in TimerType /\ A.heap_pos = p /\ A.timestamp = T[x].timestamp
      /\ A.timeout = T[x].timeout /\ A.call_times = T[x].call_times
  BY <1>2 DEF TimerType
<1>4. /\ B \in TimerType /\ B.heap_pos = q /\ B.timestamp = T[y].timestamp
      /\ B.timeout = T[y].timeout /\ B.call_times = T[y].call_times
  BY <1>2 DEF TimerType
<1> HIDE DEF U, A, B
<1>5. U \in [D -> TimerType]
  BY <1>1, <1>2, <1>3, <1>4
<1>6. U[x] = A /\ U[y] = B /\ \A z \in D \ {x, y} : U[z] = T[z]
  BY <1>1
<1>7. Moved(D, T, U, x, y, p, q)
  BY <1>3, <1>4, <1>5, <1>6 DEF Moved
<1> QED
  BY <1>7 DEF U

\* Exchanging two slots rearranges the heap.
LEMMA SwapIs ==
    ASSUME NEW H, Placed(H), NEW i \in 1..Len(H.heap), NEW j \in 1..Len(H.heap),
           i # j, NEW K, K = SwapSlots(H, i, j)
    PROVE  /\ Placed(K)
           /\ Rearranged(H, K)
           /\ Exchanged(Stamps(H), Stamps(K), Len(H.heap), i, j)
<1> DEFINE D == DOMAIN H.timers
           n == Len(H.heap)
           x == H.heap[i]
           y == H.heap[j]
<1>0. /\ n \in Nat /\ H.heap \in Seq(D)
      /\ H.heap \in [1..n -> D] /\ H.timers \in [D -> TimerType]
      /\ x \in D /\ y \in D /\ x # y /\ i \in Int /\ j \in Int
  BY TypedFacts, SlotsDiffer DEF Placed
<1>1. /\ K.timers = [H.timers EXCEPT ![x].heap_pos = j, ![y].heap_pos = i]
      /\ K.heap = [H.heap EXCEPT ![i] = y, ![j] = x]
      /\ K = [timers |-> K.timers, heap |-> K.heap]
  BY DEF SwapSlots
<1>2. \A k \in 1..n : \A m \in 1..n : H.heap[k] = H.heap[m] => k = m
  BY SlotsDiffer
<1>3. \A k \in 1..n : H.timers[H.heap[k]].heap_pos = k
  BY DEF Placed
<1>4. i \in 1..n /\ j \in 1..n
  OBVIOUS
<1>x. x = H.heap[i] /\ y = H.heap[j]
  OBVIOUS
<1> HIDE DEF D, n, x, y
<1>5. /\ K.timers \in [D -> TimerType]
      /\ K.timers[x].heap_pos = j /\ K.timers[y].heap_pos = i
      /\ \A z \in D : /\ K.timers[z].timestamp = H.timers[z].timestamp
                      /\ K.timers[z].timeout = H.timers[z].timeout
                      /\ K.timers[z].call_times = H.timers[z].call_times
      /\ \A z \in D \ {x, y} : K.timers[z] = H.timers[z]
  <2> DEFINE T == H.timers
  <2>1. T \in [D -> TimerType]
    BY <1>0
  <2> HIDE DEF T
  <2>2. Moved(D, T, [T EXCEPT ![x].heap_pos = j, ![y].heap_pos = i], x, y, j, i)
    BY <1>0, <2>1, TwoMoved
  <2>3. Moved(D, H.timers, K.timers, x, y, j, i)
    BY <1>1, <2>2 DEF T
  <2> QED
    BY <2>3 DEF Moved
<1>6. /\ K.heap \in Seq(D) /\ Len(K.heap) = n
      /\ \A k \in 1..n : K.heap[k] =
            IF k = i THEN y ELSE IF k = j THEN x ELSE H.heap[k]
  <2> DEFINE s == [H.heap EXCEPT ![i] = y]
  <2>1. H.heap \in Seq(D) /\ i \in 1..Len(H.heap) /\ Len(H.heap) = n
    BY <1>0, <1>4 DEF n
  <2>2. /\ s \in Seq(D) /\ Len(s) = n
        /\ \A k \in 1..n : s[k] = IF k = i THEN y ELSE H.heap[k]
    BY <1>0, <2>1, ExceptSeq
  <2> DEFINE t == [s EXCEPT ![j] = x]
  <2>3. K.heap = t
    BY <1>1
  <2> HIDE DEF s
  <2>4. /\ t \in Seq(D) /\ Len(t) = n
        /\ \A k \in 1..n : t[k] = IF k = j THEN x ELSE s[k]
    BY <1>0, <1>4, <2>2, ExceptSeq
  <2> HIDE DEF t
  <2> QED
    BY <1>4, <2>2, <2>3, <2>4
<1>7. DOMAIN K.timers = D
  BY <1>5
<1>8. Placed(K)
  <2>1. Typed(K)
    BY <1>1, <1>5, <1>6, <1>7 DEF Typed
  <2>2. ASSUME NEW k \in 1..n PROVE K.timers[K.heap[k]].heap_pos = k
    <3>1. CASE k = i \/ k = j
      BY <1>4, <1>5, <1>6, <3>1
    <3>2. CASE k # i /\ k # j
      <4>1. K.heap[k] = H.heap[k] /\ H.heap[k] \in D \ {x, y}
        BY <1>0, <1>2, <1>4, <1>6, <1>x, <3>2
      <4> QED
        BY <1>3, <1>5, <4>1
    <3> QED
      BY <3>1, <3>2
  <2> QED
    BY <1>6, <2>1, <2>2 DEF Placed
<1>9. Rearranged(H, K)
  <2>1. Slots(K) = Slots(H)
    <3>1. \A k \in 1..n : \E m \in 1..n : K.heap[k] = H.heap[m]
      BY <1>4, <1>6, <1>x
    <3>2. \A k \in 1..n : \E m \in 1..n : H.heap[k] = K.heap[m]
      BY <1>4, <1>6, <1>x
    <3>3. \A z : z \in Slots(K) <=> \E k \in 1..n : z = K.heap[k]
      BY <1>6 DEF Slots
    <3>4. \A z : z \in Slots(H) <=> \E k \in 1..n : z = H.heap[k]
      BY DEF Slots, n
    <3>5. ASSUME NEW z \in Slots(K) PROVE z \in Slots(H)
      <4>1. PICK k \in 1..n : z = K.heap[k]
        BY <3>3
      <4> QED
        BY <3>1, <3>4, <4>1
    <3>6. ASSUME NEW z \in Slots(H) PROVE z \in Slots(K)
      <4>1. PICK k \in 1..n : z = H.heap[k]
        BY <3>4
      <4> QED
        BY <3>2, <3>3, <4>1
    <3> QED
      BY <3>5, <3>6
  <2> QED
    BY <1>5, <1>6, <1>7, <2>1 DEF Rearranged, SameTimers, n, D
<1>10. Exchanged(Stamps(H), Stamps(K), n, i, j)
  <2>1. \A k \in 1..n : /\ Stamps(H)[k] = H.timers[H.heap[k]].timestamp
                        /\ Stamps(K)[k] = H.timers[K.heap[k]].timestamp
    <3>1. \A k \in 1..n : K.heap[k] \in D
      BY <1>0, <1>6
    <3>2. /\ Stamps(H) = [k \in 1..n |-> H.timers[H.heap[k]].timestamp]
          /\ Stamps(K) = [k \in 1..n |-> K.timers[K.heap[k]].timestamp]
      BY <1>6 DEF Stamps, At, n
    <3> QED
      BY <1>5, <3>1, <3>2
  <2> QED
    BY <1>4, <1>6, <1>x, <2>1 DEF Exchanged
<1> QED
  BY <1>8, <1>9, <1>10 DEF n

-----------------------------------------------------------------------------
(* The shifts: the states after their rounds are those of the loop, each     *)
(* round rearranges the heap, and the loop ends with the heap ordered.        *)

\* f is what the rounds of minHeapShiftUp from the state in first give.
UpRoundsOf(f, first, m) ==
    f = [n \in 0..m |-> IF n = 0 THEN first ELSE OneMoreUp(f[n - 1])]

\* The recursion over the rounds up is well defined.
LEMMA UpRoundsExist ==
    ASSUME NEW first, NEW m \in Nat
    PROVE  \E f : UpRoundsOf(f, first, m)
<1> DEFINE S == {k \in Nat : \E f : UpRoundsOf(f, first, k)}
<1>1. 0 \in S
  <2> DEFINE g == [n \in 0..0 |-> first]
  <2>1. UpRoundsOf(g, first, 0)
    BY DEF UpRoundsOf
  <2> QED
    BY <2>1
<1>2. ASSUME NEW k \in Nat, k \in S PROVE k + 1 \in S
  <2>1. PICK f : f = [n \in 0..k |-> IF n = 0 THEN first ELSE OneMoreUp(f[n - 1])]
    BY <1>2 DEF UpRoundsOf
  <2> DEFINE g == [n \in 0..k+1 |-> IF n <= k THEN f[n] ELSE OneMoreUp(f[k])]
             h == [n \in 0..k+1 |-> IF n = 0 THEN first ELSE OneMoreUp(g[n - 1])]
  <2>2. \A n \in 0..k+1 : g[n] = h[n]
    BY <2>1
  <2>3. g = h
    BY <2>2
  <2> HIDE DEF g
  <2>4. UpRoundsOf(g, first, k + 1)
    BY <2>3 DEF UpRoundsOf
  <2> QED
    BY <2>4
<1> HIDE DEF S
<1>3. m \in S
  BY <1>1, <1>2, Induct
<1> QED
  BY <1>3 DEF S

\* The rounds up start at the slot and follow each other.
LEMMA UpRoundsAre ==
    ASSUME NEW H, NEW cur, cur \in Nat
    PROVE  /\ shiftUpRounds(H, cur)[0] = {[H |-> H, cur |-> cur]}
           /\ \A n \in 1..cur : shiftUpRounds(H, cur)[n] =
                OneMoreUp(shiftUpRounds(H, cur)[n - 1])
<1> DEFINE f == shiftUpRounds(H, cur)
           first == {[H |-> H, cur |-> cur]}
           m == cur
<1>1. UpRoundsOf(f, first, m)
  <2>1. \E g : UpRoundsOf(g, first, m)
    <3> HIDE DEF first, m
    <3>1. m \in Nat
      BY DEF m
    <3> QED
      BY <3>1, UpRoundsExist
  <2>2. f = CHOOSE g : UpRoundsOf(g, first, m)
    BY DEF shiftUpRounds, UpRoundsOf
  <2> HIDE DEF f, first, m
  <2> QED
    BY <2>1, <2>2
<1> HIDE DEF f, first
<1>2. f[0] = first
  BY <1>1 DEF UpRoundsOf
<1>3. ASSUME NEW n \in 1..m PROVE f[n] = OneMoreUp(f[n - 1])
  <2>1. n \in 0..m /\ n # 0
    OBVIOUS
  <2> QED
    BY <1>1, <2>1 DEF UpRoundsOf
<1> QED
  BY <1>2, <1>3 DEF f, first

\* After n rounds of minHeapShiftUp from cur: the heap is ordered and the loop
\* has left, or it goes on nearer to the top.
UpAfter(H, cur, n, s) ==
    /\ Placed(s.H)
    /\ Rearranged(H, s.H)
    /\ \/ Ordered(Stamps(s.H), Len(s.H.heap)) /\ shiftUpRound(s) = s
       \/ /\ s.cur \in 1..Len(s.H.heap)
          /\ s.cur + n <= cur
          /\ OrderedButUp(Stamps(s.H), Len(s.H.heap), s.cur)

\* A round up ends, or moves the timer that is too early one level up.
LEMMA UpRound ==
    ASSUME NEW H, NEW cur \in Nat, NEW n \in Nat, NEW s, UpAfter(H, cur, n, s)
    PROVE  UpAfter(H, cur, n + 1, shiftUpRound(s))
<1> DEFINE K == s.H
           c == s.cur
           m == Len(K.heap)
           a == Stamps(K)
           t == shiftUpRound(s)
<1>1. CASE Ordered(a, m) /\ t = s
  BY <1>1 DEF UpAfter
<1>2. CASE c \in 1..m /\ c + n <= cur /\ OrderedButUp(a, m, c)
  <2>0. m \in Nat /\ Stamped(a, m) /\ Placed(K) /\ Rearranged(H, K) /\ c \in Nat
    BY <1>2, TypedFacts, StampsTyped DEF UpAfter, Placed
  <2>1. CASE c \div 2 = 0 \/ At(K, c).timestamp >= At(K, c \div 2).timestamp
    <3>1. t = s
      BY <2>1 DEF shiftUpRound
    <3>2. c \div 2 # 0 => c \div 2 \in 1..m
      BY <1>2, <2>0
    <3>3. c \div 2 = 0 \/ a[c \div 2] <= a[c]
      BY <1>2, <2>0, <2>1, <3>2 DEF Stamps, Stamped
    <3>4. Ordered(a, m)
      BY <1>2, <2>0, <3>3, DoneUp
    <3> QED
      BY <2>0, <3>1, <3>4 DEF UpAfter
  <2>2. CASE ~(c \div 2 = 0 \/ At(K, c).timestamp >= At(K, c \div 2).timestamp)
    <3> DEFINE p == c \div 2
               L == SwapSlots(K, c, p)
    <3>1. t.H = L /\ t.cur = p
      BY <2>2 DEF shiftUpRound
    <3>2. p \in 1..m /\ p < c /\ c \in 2..m /\ c \in 1..m /\ p # c
      BY <1>2, <2>0, <2>2, ParentIs
    <3>3. Placed(L) /\ Rearranged(K, L) /\ Exchanged(a, Stamps(L), m, c, p)
      BY <2>0, <3>2, SwapIs
    <3>4. a[c] < a[p]
      <4>1. a[c] = At(K, c).timestamp /\ a[p] = At(K, p).timestamp
        BY <3>2 DEF Stamps
      <4>2. a[c] \in Int /\ a[p] \in Int
        BY <2>0, <3>2 DEF Stamped
      <4> QED
        BY <2>2, <4>1, <4>2
    <3>5. OrderedButUp(Stamps(L), m, p)
      BY <1>2, <2>0, <3>2, <3>3, <3>4, StepUp
    <3>6. Rearranged(H, L) /\ Len(L.heap) = m
      BY <2>0, <3>3, RearrangedChain DEF Rearranged
    <3>7. p + (n + 1) <= cur
      BY <1>2, <2>0, <3>2
    <3> QED
      BY <3>1, <3>2, <3>3, <3>5, <3>6, <3>7 DEF UpAfter
  <2> QED
    BY <2>1, <2>2
<1> QED
  BY <1>1, <1>2 DEF UpAfter

\* minHeapShiftUp puts the slot cur in its place.
LEMMA ShiftUpIs ==
    ASSUME NEW H, Placed(H), NEW cur \in 1..Len(H.heap),
           OrderedButUp(Stamps(H), Len(H.heap), cur)
    PROVE  /\ Placed(minHeapShiftUp(H, cur))
           /\ Rearranged(H, minHeapShiftUp(H, cur))
           /\ Ordered(Stamps(minHeapShiftUp(H, cur)), Len(H.heap))
<1> DEFINE f == shiftUpRounds(H, cur)
           S == {n \in Nat : n <= cur =>
                    \E s : f[n] = {s} /\ UpAfter(H, cur, n, s)}
<1>0. cur \in Nat /\ Len(H.heap) \in Nat
  BY TypedFacts DEF Placed
<1>1. f[0] = {[H |-> H, cur |-> cur]}
      /\ \A n \in 1..cur : f[n] = OneMoreUp(f[n - 1])
  BY <1>0, UpRoundsAre
<1> HIDE DEF f
<1>2. 0 \in S
  <2> DEFINE s == [H |-> H, cur |-> cur]
  <2>1. s.H = H /\ s.cur = cur
    OBVIOUS
  <2>2. f[0] = {s}
    BY <1>1
  <2>3. Rearranged(H, H)
    BY DEF Rearranged, SameTimers
  <2> HIDE DEF s
  <2>4. UpAfter(H, cur, 0, s)
    BY <1>0, <2>1, <2>3 DEF UpAfter
  <2> QED
    BY <2>2, <2>4
<1>3. ASSUME NEW n \in Nat, n \in S PROVE n + 1 \in S
  <2> SUFFICES ASSUME n + 1 <= cur
               PROVE  \E s : f[n + 1] = {s} /\ UpAfter(H, cur, n + 1, s)
    OBVIOUS
  <2>1. PICK s : f[n] = {s} /\ UpAfter(H, cur, n, s)
    BY <1>0, <1>3
  <2>2. n + 1 \in 1..cur /\ (n + 1) - 1 = n
    BY <1>0
  <2>3. f[n + 1] = OneMoreUp(f[n])
    BY <1>1, <2>2
  <2>4. f[n + 1] = {shiftUpRound(s)}
    BY <2>1, <2>3 DEF OneMoreUp
  <2>5. UpAfter(H, cur, n + 1, shiftUpRound(s))
    BY <1>0, <2>1, UpRound
  <2> QED
    BY <2>4, <2>5
<1> HIDE DEF S
<1>4. cur \in S
  BY <1>0, <1>2, <1>3, Induct
<1>5. PICK s : f[cur] = {s} /\ UpAfter(H, cur, cur, s)
  BY <1>0, <1>4 DEF S
<1>6. minHeapShiftUp(H, cur) = s.H
  <2>1. (CHOOSE r \in f[cur] : TRUE) = s
    BY <1>5
  <2> QED
    BY <2>1 DEF minHeapShiftUp, f
<1>7. Placed(s.H) /\ Rearranged(H, s.H) /\ Ordered(Stamps(s.H), Len(s.H.heap))
  BY <1>0, <1>5 DEF UpAfter
<1> QED
  BY <1>6, <1>7 DEF Rearranged
\* f is what the rounds of minHeapShiftDown from the state in first give.
DownRoundsOf(f, first, m) ==
    f = [n \in 0..m |-> IF n = 0 THEN first ELSE OneMoreDown(f[n - 1])]

\* The recursion over the rounds down is well defined.
LEMMA DownRoundsExist ==
    ASSUME NEW first, NEW m \in Nat
    PROVE  \E f : DownRoundsOf(f, first, m)
<1> DEFINE S == {k \in Nat : \E f : DownRoundsOf(f, first, k)}
<1>1. 0 \in S
  <2> DEFINE g == [n \in 0..0 |-> first]
  <2>1. DownRoundsOf(g, first, 0)
    BY DEF DownRoundsOf
  <2> QED
    BY <2>1
<1>2. ASSUME NEW k \in Nat, k \in S PROVE k + 1 \in S
  <2>1. PICK f : f = [n \in 0..k |-> IF n = 0 THEN first ELSE OneMoreDown(f[n - 1])]
    BY <1>2 DEF DownRoundsOf
  <2> DEFINE g == [n \in 0..k+1 |-> IF n <= k THEN f[n] ELSE OneMoreDown(f[k])]
             h == [n \in 0..k+1 |-> IF n = 0 THEN first ELSE OneMoreDown(g[n - 1])]
  <2>2. \A n \in 0..k+1 : g[n] = h[n]
    BY <2>1
  <2>3. g = h
    BY <2>2
  <2> HIDE DEF g
  <2>4. DownRoundsOf(g, first, k + 1)
    BY <2>3 DEF DownRoundsOf
  <2> QED
    BY <2>4
<1> HIDE DEF S
<1>3. m \in S
  BY <1>1, <1>2, Induct
<1> QED
  BY <1>3 DEF S

\* The rounds down start at the slot and follow each other.
LEMMA DownRoundsAre ==
    ASSUME NEW H, NEW cur, Len(H.heap) \in Nat
    PROVE  /\ shiftDownRounds(H, cur)[0] = {[H |-> H, cur |-> cur]}
           /\ \A n \in 1..Len(H.heap) : shiftDownRounds(H, cur)[n] =
                OneMoreDown(shiftDownRounds(H, cur)[n - 1])
<1> DEFINE f == shiftDownRounds(H, cur)
           first == {[H |-> H, cur |-> cur]}
           m == Len(H.heap)
<1>1. DownRoundsOf(f, first, m)
  <2>1. \E g : DownRoundsOf(g, first, m)
    <3> HIDE DEF first, m
    <3>1. m \in Nat
      BY DEF m
    <3> QED
      BY <3>1, DownRoundsExist
  <2>2. f = CHOOSE g : DownRoundsOf(g, first, m)
    BY DEF shiftDownRounds, DownRoundsOf
  <2> HIDE DEF f, first, m
  <2> QED
    BY <2>1, <2>2
<1> HIDE DEF f, first
<1>2. f[0] = first
  BY <1>1 DEF DownRoundsOf
<1>3. ASSUME NEW n \in 1..m PROVE f[n] = OneMoreDown(f[n - 1])
  <2>1. n \in 0..m /\ n # 0
    OBVIOUS
  <2> QED
    BY <1>1, <2>1 DEF DownRoundsOf
<1> QED
  BY <1>2, <1>3 DEF f, first

\* The children of slot c are 2c and 2c + 1; EarlierChild is one that is not later
\* than the other.
LEMMA EarlierChildIs ==
    ASSUME NEW K, Typed(K), NEW c \in Nat \ {0}, c * 2 <= Len(K.heap)
    PROVE  LET e == EarlierChild(K, c)
               m == Len(K.heap)
           IN  /\ e \in 2..m /\ e \div 2 = c /\ c < e
               /\ \A i \in 2..m : i \div 2 = c => Stamps(K)[e] <= Stamps(K)[i]
<1> DEFINE e == EarlierChild(K, c)
           m == Len(K.heap)
           a == Stamps(K)
<1>0. m \in Nat /\ \A k \in 1..m : a[k] \in Int /\ a[k] = At(K, k).timestamp
  BY TypedFacts, StampsTyped DEF Stamped, Stamps
<1>1. \A i \in 2..m : i \div 2 = c => i = c * 2 \/ i = c * 2 + 1
  BY <1>0
<1>2. c * 2 \in 2..m /\ (c * 2) \div 2 = c /\ (c * 2 + 1) \div 2 = c
  BY <1>0
<1>3. CASE c * 2 + 1 <= m /\ At(K, c * 2 + 1).timestamp < At(K, c * 2).timestamp
  <2>1. e = c * 2 + 1
    BY <1>3 DEF EarlierChild
  <2>2. c * 2 + 1 \in 1..m /\ a[c * 2 + 1] < a[c * 2]
    BY <1>0, <1>2, <1>3
  <2> HIDE DEF e, a, m
  <2> QED
    BY <1>0, <1>1, <1>2, <2>1, <2>2 DEF e, a, m
<1>4. CASE ~(c * 2 + 1 <= m /\ At(K, c * 2 + 1).timestamp < At(K, c * 2).timestamp)
  <2>1. e = c * 2
    BY <1>4 DEF EarlierChild
  <2>2. c * 2 + 1 \in 1..m => a[c * 2] <= a[c * 2 + 1]
    BY <1>0, <1>2, <1>4
  <2> QED
    BY <1>0, <1>1, <1>2, <2>1, <2>2
<1> QED
  BY <1>3, <1>4

\* After n rounds of minHeapShiftDown from cur: the heap is ordered and the loop
\* has left, or it goes on farther from the top.
DownAfter(H, cur, n, s) ==
    /\ Placed(s.H)
    /\ Rearranged(H, s.H)
    /\ \/ Ordered(Stamps(s.H), Len(s.H.heap)) /\ shiftDownRound(s) = s
       \/ /\ s.cur \in 1..Len(s.H.heap)
          /\ s.cur >= cur + n
          /\ OrderedButDown(Stamps(s.H), Len(s.H.heap), s.cur)

\* A round down ends, or moves the timer that is too late one level down.
LEMMA DownRound ==
    ASSUME NEW H, NEW cur \in Nat, NEW n \in Nat, NEW s, DownAfter(H, cur, n, s)
    PROVE  DownAfter(H, cur, n + 1, shiftDownRound(s))
<1> DEFINE K == s.H
           c == s.cur
           e == EarlierChild(K, c)
           m == Len(K.heap)
           a == Stamps(K)
           t == shiftDownRound(s)
<1>1. CASE Ordered(a, m) /\ t = s
  BY <1>1 DEF DownAfter
<1>2. CASE c \in 1..m /\ c >= cur + n /\ OrderedButDown(a, m, c)
  <2>0. /\ m \in Nat /\ Stamped(a, m) /\ Typed(K) /\ Placed(K) /\ Rearranged(H, K)
        /\ c \in Nat \ {0}
    BY <1>2, TypedFacts, StampsTyped DEF DownAfter, Placed
  <2>1. CASE c * 2 > m
    <3>1. t = s
      BY <2>1 DEF shiftDownRound
    <3>2. \A i \in 2..m : i \div 2 # c
      BY <2>0, <2>1
    <3>3. Ordered(a, m)
      BY <1>2, <2>0, <3>2, DoneDown
    <3> QED
      BY <2>0, <3>1, <3>3 DEF DownAfter
  <2>2. CASE c * 2 <= m
    <3>1. /\ e \in 2..m /\ e \div 2 = c /\ c < e
          /\ \A i \in 2..m : i \div 2 = c => a[e] <= a[i]
      BY <2>0, <2>2, EarlierChildIs
    <3> HIDE DEF e
    <3>2. e \in 1..m /\ e # c
      BY <2>0, <3>1
    <3>3. /\ a[c] = At(K, c).timestamp /\ a[e] = At(K, e).timestamp
          /\ a[c] \in Int /\ a[e] \in Int
      BY <1>2, <2>0, <3>2 DEF Stamps, Stamped
    <3>4. CASE a[e] >= a[c]
      <4>1. t = s
        BY <3>3, <3>4 DEF shiftDownRound, e
      <4>2. \A i \in 2..m : i \div 2 = c => a[c] <= a[i]
        BY <2>0, <3>1, <3>3, <3>4 DEF Stamped
      <4>3. Ordered(a, m)
        BY <1>2, <2>0, <4>2, DoneDown
      <4> QED
        BY <2>0, <4>1, <4>3 DEF DownAfter
    <3>5. CASE a[e] < a[c]
      <4> DEFINE L == SwapSlots(K, c, e)
      <4>1. t.H = L /\ t.cur = e
        BY <2>0, <2>2, <3>3, <3>5 DEF shiftDownRound, e
      <4>2. Placed(L) /\ Rearranged(K, L) /\ Exchanged(a, Stamps(L), m, c, e)
        BY <1>2, <2>0, <3>2, SwapIs
      <4>3. OrderedButDown(Stamps(L), m, e)
        BY <1>2, <2>0, <3>1, <3>5, <4>2, StepDown
      <4>4. Rearranged(H, L) /\ Len(L.heap) = m
        BY <2>0, <4>2, RearrangedChain DEF Rearranged
      <4>5. e >= cur + (n + 1)
        BY <1>2, <2>0, <3>1
      <4> QED
        BY <3>2, <4>1, <4>2, <4>3, <4>4, <4>5 DEF DownAfter
    <3> QED
      BY <3>3, <3>4, <3>5
  <2> QED
    BY <2>0, <2>1, <2>2
<1> QED
  BY <1>1, <1>2 DEF DownAfter

\* minHeapShiftDown puts the slot cur in its place.
LEMMA ShiftDownIs ==
    ASSUME NEW H, Placed(H), NEW cur \in 1..Len(H.heap),
           OrderedButDown(Stamps(H), Len(H.heap), cur)
    PROVE  /\ Placed(minHeapShiftDown(H, cur))
           /\ Rearranged(H, minHeapShiftDown(H, cur))
           /\ Ordered(Stamps(minHeapShiftDown(H, cur)), Len(H.heap))
<1> DEFINE f == shiftDownRounds(H, cur)
           S == {n \in Nat : n <= Len(H.heap) =>
                    \E s : f[n] = {s} /\ DownAfter(H, cur, n, s)}
<1>0. cur \in Nat /\ Len(H.heap) \in Nat
  BY TypedFacts DEF Placed
<1>1. f[0] = {[H |-> H, cur |-> cur]}
      /\ \A n \in 1..Len(H.heap) : f[n] = OneMoreDown(f[n - 1])
  BY <1>0, DownRoundsAre
<1> HIDE DEF f
<1>2. 0 \in S
  <2> DEFINE s == [H |-> H, cur |-> cur]
  <2>1. s.H = H /\ s.cur = cur
    OBVIOUS
  <2>2. f[0] = {s}
    BY <1>1
  <2>3. Rearranged(H, H)
    BY DEF Rearranged, SameTimers
  <2> HIDE DEF s
  <2>4. DownAfter(H, cur, 0, s)
    BY <1>0, <2>1, <2>3 DEF DownAfter
  <2> QED
    BY <2>2, <2>4
<1>3. ASSUME NEW n \in Nat, n \in S PROVE n + 1 \in S
  <2> SUFFICES ASSUME n + 1 <= Len(H.heap)
               PROVE  \E s : f[n + 1] = {s} /\ DownAfter(H, cur, n + 1, s)
    OBVIOUS
  <2>1. PICK s : f[n] = {s} /\ DownAfter(H, cur, n, s)
    BY <1>0, <1>3
  <2>2. n + 1 \in 1..Len(H.heap) /\ (n + 1) - 1 = n
    BY <1>0
  <2>3. f[n + 1] = OneMoreDown(f[n])
    BY <1>1, <2>2
  <2>4. f[n + 1] = {shiftDownRound(s)}
    BY <2>1, <2>3 DEF OneMoreDown
  <2>5. DownAfter(H, cur, n + 1, shiftDownRound(s))
    BY <1>0, <2>1, DownRound
  <2> QED
    BY <2>4, <2>5
<1> HIDE DEF S
<1>4. Len(H.heap) \in S
  BY <1>0, <1>2, <1>3, Induct
<1>5. PICK s : f[Len(H.heap)] = {s} /\ DownAfter(H, cur, Len(H.heap), s)
  BY <1>0, <1>4 DEF S
<1>6. minHeapShiftDown(H, cur) = s.H
  <2>1. (CHOOSE r \in f[Len(H.heap)] : TRUE) = s
    BY <1>5
  <2> QED
    BY <2>1 DEF minHeapShiftDown, f
<1>7. Placed(s.H) /\ Rearranged(H, s.H) /\ Ordered(Stamps(s.H), Len(s.H.heap))
  BY <1>0, <1>5 DEF DownAfter, Rearranged
<1> QED
  BY <1>6, <1>7 DEF Rearranged


-----------------------------------------------------------------------------
(* Insertion and erasure *)

\* A heap in order, whose timers know their places.
Sound(H) == Placed(H) /\ Ordered(Stamps(H), Len(H.heap))

\* minHeapShiftUp and minHeapShiftDown make a heap sound, one slot of which is
\* out of order upwards or downwards.
LEMMA ShiftedIsSound ==
    ASSUME NEW H, Placed(H), NEW cur \in 1..Len(H.heap), NEW K,
           \/ /\ OrderedButUp(Stamps(H), Len(H.heap), cur)
              /\ K = minHeapShiftUp(H, cur)
           \/ /\ OrderedButDown(Stamps(H), Len(H.heap), cur)
              /\ K = minHeapShiftDown(H, cur)
    PROVE  Sound(K) /\ SameTimers(H, K) /\ Slots(K) = Slots(H)
<1>1. Placed(K) /\ Rearranged(H, K) /\ Ordered(Stamps(K), Len(H.heap))
  <2>1. CASE OrderedButUp(Stamps(H), Len(H.heap), cur) /\ K = minHeapShiftUp(H, cur)
    BY <2>1, ShiftUpIs
  <2>2. CASE OrderedButDown(Stamps(H), Len(H.heap), cur) /\ K = minHeapShiftDown(H, cur)
    BY <2>2, ShiftDownIs
  <2> QED
    BY <2>1, <2>2
<1> QED
  BY <1>1 DEF Sound, Rearranged

\* U is T with the position p for x.
MovedOne(D, T, U, x, p) ==
    /\ U \in [D -> TimerType]
    /\ U[x].heap_pos = p
    /\ \A z \in D : /\ U[z].timestamp = T[z].timestamp
                    /\ U[z].timeout = T[z].timeout
                    /\ U[z].call_times = T[z].call_times
    /\ \A z \in D \ {x} : U[z] = T[z]

\* One timer gets another position.
LEMMA OneMoved ==
    ASSUME NEW D, NEW T \in [D -> TimerType], NEW x \in D, NEW p \in Int
    PROVE  MovedOne(D, T, [T EXCEPT ![x].heap_pos = p], x, p)
<1> DEFINE U == [T EXCEPT ![x].heap_pos = p]
           A == [T[x] EXCEPT !.heap_pos = p]
<1>1. U = [z \in D |-> IF z = x THEN A ELSE T[z]]
  OBVIOUS
<1>2. \A z \in D : T[z] \in TimerType
  OBVIOUS
<1>3. /\ A \in TimerType /\ A.heap_pos = p /\ A.timestamp = T[x].timestamp
      /\ A.timeout = T[x].timeout /\ A.call_times = T[x].call_times
  BY <1>2 DEF TimerType
<1> HIDE DEF U, A
<1>4. U \in [D -> TimerType]
  BY <1>1, <1>2, <1>3
<1>5. U[x] = A /\ \A z \in D \ {x} : U[z] = T[z]
  BY <1>1
<1>6. MovedOne(D, T, U, x, p)
  BY <1>3, <1>4, <1>5 DEF MovedOne
<1> QED
  BY <1>6 DEF U

\* minHeapInsert adds a timer of the map that is not in the heap.
LEMMA InsertIs ==
    ASSUME NEW H, Sound(H), NEW id \in DOMAIN H.timers, id \notin Slots(H)
    PROVE  /\ Sound(minHeapInsert(H, id))
           /\ SameTimers(H, minHeapInsert(H, id))
           /\ Slots(minHeapInsert(H, id)) = Slots(H) \cup {id}
<1> DEFINE D == DOMAIN H.timers
           n == Len(H.heap)
           cur == n + 1
           T == H.timers
           s == H.heap
           U == [T EXCEPT ![id].heap_pos = cur]
           t == Append(s, id)
           G == [timers |-> U, heap |-> t]
<1>0. /\ n \in Nat /\ s \in Seq(D) /\ T \in [D -> TimerType] /\ id \in D
      /\ \A k \in 1..n : s[k] \in D /\ T[s[k]].heap_pos = k /\ s[k] # id
      /\ n = Len(s)
  BY TypedFacts DEF Sound, Placed, Slots
<1>1. MovedOne(D, T, U, id, cur)
  <2>1. cur \in Int
    BY <1>0
  <2> HIDE DEF T, D, n, cur
  <2> QED
    BY <1>0, <2>1, OneMoved
<1>2. /\ t \in Seq(D) /\ Len(t) = cur /\ t[cur] = id
      /\ \A k \in 1..n : t[k] = s[k]
  <2> HIDE DEF s, D, n
  <2>1. /\ t \in Seq(D) /\ Len(t) = Len(s) + 1
        /\ \A k \in 1..Len(s) : t[k] = s[k]
        /\ t[Len(s) + 1] = id
    BY <1>0, AppendProperties
  <2> QED
    BY <1>0, <2>1
<1> HIDE DEF T, s, U, t
<1>3. /\ G.timers = U /\ G.heap = t /\ DOMAIN U = D /\ U \in [D -> TimerType]
      /\ G = [timers |-> G.timers, heap |-> G.heap]
  BY <1>1 DEF MovedOne
<1>g. minHeapInsert(H, id) = minHeapShiftUp(G, cur)
  BY DEF minHeapInsert, T, s, U, t
<1> HIDE DEF D, n, G
<1>4. \A k \in 1..cur : k = cur \/ k \in 1..n
  BY <1>0
<1>5. Placed(G)
  <2>1. Typed(G)
    BY <1>2, <1>3 DEF Typed
  <2>2. ASSUME NEW k \in 1..cur PROVE U[t[k]].heap_pos = k
    <3>1. CASE k = cur
      BY <1>1, <1>2, <3>1 DEF MovedOne
    <3>2. CASE k \in 1..n
      BY <1>0, <1>1, <1>2, <3>2 DEF MovedOne
    <3> QED
      BY <1>4, <3>1, <3>2
  <2> QED
    BY <1>2, <1>3, <2>1, <2>2 DEF Placed
<1>6. SameTimers(H, G)
  BY <1>1, <1>3 DEF MovedOne, SameTimers, T, D
<1>7. Slots(G) = Slots(H) \cup {id}
  <2>1. \A z : z \in Slots(G) <=> \E k \in 1..cur : z = t[k]
    BY <1>2, <1>3 DEF Slots
  <2>2. \A z : z \in Slots(H) <=> \E k \in 1..n : z = s[k]
    BY DEF Slots, n, s
  <2>3. ASSUME NEW z \in Slots(G) PROVE z \in Slots(H) \cup {id}
    <3>1. PICK k \in 1..cur : z = t[k]
      BY <2>1
    <3> QED
      BY <1>2, <1>4, <2>2, <3>1
  <2>4. ASSUME NEW z \in Slots(H) PROVE z \in Slots(G)
    <3>1. PICK k \in 1..n : z = s[k]
      BY <2>2
    <3>2. k \in 1..cur /\ t[k] = z
      BY <1>0, <1>2, <3>1
    <3> QED
      BY <2>1, <3>2
  <2>5. id \in Slots(G)
    BY <1>0, <1>2, <2>1
  <2> QED
    BY <2>3, <2>4, <2>5
<1>8. OrderedButUp(Stamps(G), cur, cur)
  <2>1. Ordered(Stamps(H), n)
    BY DEF Sound, n
  <2>2. \A k \in 1..n : Stamps(G)[k] = Stamps(H)[k]
    <3>1. ASSUME NEW k \in 1..n PROVE Stamps(G)[k] = Stamps(H)[k]
      <4>1. k \in 1..cur
        BY <1>0
      <4>2. Stamps(G)[k] = U[t[k]].timestamp
        BY <1>2, <1>3, <4>1 DEF Stamps, At
      <4>3. Stamps(H)[k] = T[s[k]].timestamp
        BY DEF Stamps, At, T, s, n
      <4> QED
        BY <1>0, <1>1, <1>2, <4>2, <4>3 DEF MovedOne
    <3> QED
      BY <3>1
  <2>3. ASSUME NEW i \in 2..cur PROVE i \div 2 \in 1..n /\ (i # cur => i \in 2..n)
                                      /\ i \div 2 # cur
    BY <1>0, ParentIs
  <2> QED
    BY <1>0, <2>1, <2>2, <2>3 DEF Ordered, OrderedButUp, Grandchildren
<1>9. Len(G.heap) = cur /\ cur \in 1..cur
  BY <1>0, <1>2, <1>3
<1>10. Sound(minHeapInsert(H, id)) /\ SameTimers(G, minHeapInsert(H, id))
       /\ Slots(minHeapInsert(H, id)) = Slots(G)
  BY <1>g, <1>5, <1>8, <1>9, ShiftedIsSound
<1> QED
  BY <1>6, <1>7, <1>10 DEF SameTimers

\* The record before minHeapErase moves the timer that takes the slot: it lacks
\* the erased timer and is in order but for that slot.
LEMMA ReplacedIs ==
    ASSUME NEW H, Sound(H), NEW id \in DOMAIN H.timers, id \in Slots(H)
    PROVE  LET G == Replaced(H, id)
               n == Len(H.heap)
               cur == H.timers[id].heap_pos
           IN  /\ cur \in 1..n
               /\ Placed(G)
               /\ SameTimers(H, G)
               /\ Len(G.heap) = n - 1
               /\ Slots(G) = Slots(H) \ {id}
               /\ \A k \in 1..(n - 1) :
                    Stamps(G)[k] = Stamps(H)[IF k = cur THEN n ELSE k]
<1> DEFINE D == DOMAIN H.timers
           n == Len(H.heap)
           T == H.timers
           s == H.heap
           cur == T[id].heap_pos
           last == s[n]
           V == [T EXCEPT ![id].heap_pos = -1]
           U == [T EXCEPT ![id].heap_pos = -1, ![last].heap_pos = cur]
           t == [s EXCEPT ![cur] = last]
           u == SubSeq(t, 1, n - 1)
           G == [timers |-> U, heap |-> u]
<1>0. /\ n \in Nat /\ s \in Seq(D) /\ T \in [D -> TimerType] /\ id \in D
      /\ \A k \in 1..n : s[k] \in D /\ T[s[k]].heap_pos = k
      /\ n = Len(s)
  BY TypedFacts DEF Sound, Placed
<1>1. cur \in 1..n /\ s[cur] = id
  BY <1>0 DEF Slots
<1>2. n \in 1..n /\ last \in D /\ T[last].heap_pos = n
  BY <1>0, <1>1
<1>3. MovedOne(D, T, V, id, -1)
  <2> DEFINE p == -1
  <2>1. p \in Int
    OBVIOUS
  <2> HIDE DEF T, D, p
  <2>2. MovedOne(D, T, [T EXCEPT ![id].heap_pos = p], id, p)
    BY <1>0, <2>1, OneMoved
  <2> QED
    BY <2>2 DEF p
<1>4. U = [V EXCEPT ![last].heap_pos = cur]
  BY <1>0
<1>5. MovedOne(D, V, U, last, cur)
  <2>1. V \in [D -> TimerType] /\ cur \in Int
    BY <1>1, <1>3 DEF MovedOne
  <2> HIDE DEF V, D, cur, last, U
  <2>2. MovedOne(D, V, [V EXCEPT ![last].heap_pos = cur], last, cur)
    BY <1>2, <2>1, OneMoved
  <2> QED
    BY <1>4, <2>2
<1>6. /\ u \in Seq(D) /\ Len(u) = n - 1
      /\ \A k \in 1..(n - 1) : u[k] = IF k = cur THEN last ELSE s[k]
  <2> HIDE DEF s, D, n, cur, last
  <2>1. /\ t \in Seq(D) /\ Len(t) = n
        /\ \A k \in 1..n : t[k] = IF k = cur THEN last ELSE s[k]
    BY <1>0, <1>1, <1>2, ExceptSeq
  <2> HIDE DEF t
  <2>2. \A k \in 1..(n - 1) : t[k] \in D
    BY <1>0, <2>1, ElementOfSeq
  <2>3. /\ u \in Seq(D) /\ Len(u) = IF 1 <= n - 1 THEN (n - 1) - 1 + 1 ELSE 0
        /\ \A k \in 1..((n - 1) - 1 + 1) : u[k] = t[1 + k - 1]
    BY <1>0, <2>2, SubSeqProperties
  <2> QED
    BY <1>0, <1>1, <2>1, <2>3
<1> HIDE DEF T, s, U, V, t, u
<1>7. /\ G.timers = U /\ G.heap = u /\ DOMAIN U = D /\ U \in [D -> TimerType]
      /\ G = [timers |-> G.timers, heap |-> G.heap]
  BY <1>5 DEF MovedOne
<1>g. Replaced(H, id) = G
  BY DEF Replaced, T, s, U, t, u
<1>8. \A z \in D : /\ U[z].timestamp = T[z].timestamp
                   /\ U[z].timeout = T[z].timeout
                   /\ U[z].call_times = T[z].call_times
  BY <1>3, <1>5 DEF MovedOne
<1> HIDE DEF D, n, G, cur, last
<1>9. \A k \in 1..(n - 1) : k \in 1..n
  BY <1>0
<1>10. Placed(G)
  <2>1. Typed(G)
    BY <1>6, <1>7 DEF Typed
  <2>2. ASSUME NEW k \in 1..(n - 1) PROVE U[u[k]].heap_pos = k
    <3>1. CASE k = cur
      BY <1>5, <1>6, <3>1 DEF MovedOne
    <3>2. CASE k # cur
      <4>1. s[k] \in D \ {id, last} /\ u[k] = s[k]
        BY <1>0, <1>2, <1>6, <3>2 DEF cur
      <4>2. U[s[k]] = T[s[k]]
        BY <1>3, <1>5, <4>1 DEF MovedOne
      <4> QED
        BY <1>0, <1>9, <4>1, <4>2
    <3> QED
      BY <3>1, <3>2
  <2> QED
    BY <1>6, <1>7, <2>1, <2>2 DEF Placed
<1>11. SameTimers(H, G)
  BY <1>7, <1>8 DEF SameTimers, T, D
<1>12. Slots(G) = Slots(H) \ {id}
  <2>1. \A z : z \in Slots(G) <=> \E k \in 1..(n - 1) : z = u[k]
    BY <1>6, <1>7 DEF Slots
  <2>2. \A z : z \in Slots(H) <=> \E k \in 1..n : z = s[k]
    BY DEF Slots, n, s
  <2>3. ASSUME NEW z \in Slots(G) PROVE z \in Slots(H) \ {id}
    <3>1. PICK k \in 1..(n - 1) : z = u[k]
      BY <2>1
    <3>2. CASE k = cur
      <4>1. z = s[n] /\ n # cur
        BY <1>0, <1>6, <3>1, <3>2 DEF last
      <4> QED
        BY <1>0, <1>2, <2>2, <4>1 DEF cur
    <3>3. CASE k # cur
      BY <1>0, <1>6, <1>9, <2>2, <3>1, <3>3 DEF cur
    <3> QED
      BY <3>2, <3>3
  <2>4. ASSUME NEW z \in Slots(H), z # id PROVE z \in Slots(G)
    <3>1. PICK k \in 1..n : z = s[k]
      BY <2>2
    <3>2. k # cur
      BY <1>1, <2>4, <3>1
    <3>3. CASE k = n
      <4>1. cur \in 1..(n - 1) /\ u[cur] = z
        BY <1>0, <1>1, <1>6, <3>1, <3>2, <3>3 DEF last
      <4> QED
        BY <2>1, <4>1
    <3>4. CASE k # n
      <4>1. k \in 1..(n - 1) /\ u[k] = z
        BY <1>0, <1>6, <3>1, <3>2, <3>4
      <4> QED
        BY <2>1, <4>1
    <3> QED
      BY <3>3, <3>4
  <2> QED
    BY <2>3, <2>4
<1>13. ASSUME NEW k \in 1..(n - 1)
       PROVE  Stamps(G)[k] = Stamps(H)[IF k = cur THEN n ELSE k]
  <2> DEFINE j == IF k = cur THEN n ELSE k
  <2>1. j \in 1..n /\ u[k] = s[j] /\ s[j] \in D
    BY <1>0, <1>2, <1>6, <1>9 DEF last
  <2> HIDE DEF j
  <2>2. Stamps(G)[k] = U[u[k]].timestamp
    BY <1>6, <1>7 DEF Stamps, At
  <2>3. Stamps(H)[j] = T[s[j]].timestamp
    BY <2>1 DEF Stamps, At, T, s, n
  <2>4. Stamps(G)[k] = Stamps(H)[j]
    BY <1>8, <2>1, <2>2, <2>3
  <2> QED
    BY <2>4 DEF j
<1>14. Len(G.heap) = n - 1
  BY <1>6, <1>7
<1> QED
  BY <1>1, <1>g, <1>10, <1>11, <1>12, <1>13, <1>14 DEF n, cur, T

\* minHeapErase takes a timer out of the heap, from wherever it is.
LEMMA EraseIs ==
    ASSUME NEW H, Sound(H), NEW id \in DOMAIN H.timers, id \in Slots(H)
    PROVE  /\ Sound(minHeapErase(H, id))
           /\ SameTimers(H, minHeapErase(H, id))
           /\ Slots(minHeapErase(H, id)) = Slots(H) \ {id}
<1> DEFINE G == Replaced(H, id)
           K == minHeapErase(H, id)
           n == Len(H.heap)
           cur == H.timers[id].heap_pos
           a == Stamps(H)
           b == Stamps(G)
           m == n - 1
<1>1. /\ cur \in 1..n /\ Placed(G) /\ SameTimers(H, G) /\ Len(G.heap) = m
      /\ Slots(G) = Slots(H) \ {id}
      /\ \A k \in 1..m : b[k] = a[IF k = cur THEN n ELSE k]
  BY ReplacedIs
<1>2. n \in Nat /\ Stamped(a, n) /\ Ordered(a, n) /\ Stamped(b, m) /\ Typed(G)
  BY <1>1, TypedFacts, StampsTyped DEF Sound, Placed
<1>p. ASSUME NEW i \in 2..m PROVE i \div 2 \in 1..m /\ i \div 2 < i
  BY <1>2, ParentIs
<1>3. \A i \in 2..m : i # cur /\ i \div 2 # cur => b[i \div 2] <= b[i]
  BY <1>1, <1>2, <1>p DEF Ordered
<1>4. Grandchildren(b, m, cur)
  <2> SUFFICES ASSUME NEW i \in 2..m, i \div 2 = cur, cur >= 2
               PROVE  b[cur \div 2] <= b[i]
    BY DEF Grandchildren
  <2>1. cur \in 2..n /\ cur \in 2..m /\ i # cur
    BY <1>2, <1>p
  <2>2. cur \div 2 \in 1..m /\ cur \div 2 # cur
    BY <1>p, <2>1
  <2>3. a[cur \div 2] <= a[cur] /\ a[cur] <= a[i]
    <3>1. i \in 2..n /\ i \div 2 = cur
      BY <1>2
    <3>2. \A k \in 2..n : a[k \div 2] <= a[k]
      BY <1>2 DEF Ordered
    <3> HIDE DEF cur, a, n, m
    <3>3. a[cur \div 2] <= a[cur]
      BY <2>1, <3>2
    <3>4. a[i \div 2] <= a[i]
      BY <3>1, <3>2
    <3> QED
      BY <3>1, <3>3, <3>4
  <2>4. b[cur \div 2] = a[cur \div 2] /\ b[i] = a[i]
    BY <1>1, <2>1, <2>2
  <2>5. cur \div 2 \in 1..n /\ cur \in 1..n /\ i \in 1..n
    BY <1>2, <2>1, <2>2
  <2>6. a[cur \div 2] \in Int /\ a[cur] \in Int /\ a[i] \in Int
    BY <1>2, <2>5 DEF Stamped
  <2> QED
    BY <2>3, <2>4, <2>6
<1> HIDE DEF G, K, n, cur, a, b
<1>5. CASE cur > m
  <2>1. K = G
    BY <1>1, <1>2, <1>5 DEF minHeapErase, K, G, cur
  <2>2. \A i \in 2..m : i # cur /\ i \div 2 # cur
    BY <1>1, <1>2, <1>5, <1>p
  <2>3. Ordered(b, m)
    BY <1>3, <2>2 DEF Ordered
  <2> QED
    BY <1>1, <2>1, <2>3 DEF Sound, b, K
<1>6. CASE cur <= m /\ cur \div 2 > 0 /\ b[cur] < b[cur \div 2]
  <2>1. cur \in 1..m /\ cur \in 2..m /\ cur \div 2 \in 1..m
    BY <1>1, <1>2, <1>6, <1>p
  <2>2. b[cur] = At(G, cur).timestamp /\ b[cur \div 2] = At(G, cur \div 2).timestamp
    BY <1>1, <2>1 DEF Stamps, b
  <2>3. K = minHeapShiftUp(G, cur)
    BY <1>1, <1>2, <1>6, <2>2 DEF minHeapErase, K, G, cur
  <2>4. ASSUME NEW i \in 2..m, i # cur PROVE b[i \div 2] <= b[i]
    <3>1. CASE i \div 2 = cur
      <4>1. b[cur \div 2] <= b[i]
        BY <1>4, <2>1, <3>1 DEF Grandchildren
      <4>2. b[cur \div 2] \in Int /\ b[i] \in Int /\ b[cur] \in Int
        BY <1>2, <2>1 DEF Stamped
      <4> QED
        BY <1>6, <3>1, <4>1, <4>2
    <3> QED
      BY <1>3, <2>4, <3>1
  <2>5. OrderedButUp(b, m, cur)
    BY <1>4, <2>4 DEF OrderedButUp
  <2> QED
    BY <1>1, <2>1, <2>3, <2>5, ShiftedIsSound DEF b, K, SameTimers
<1>7. CASE cur <= m /\ ~(cur \div 2 > 0 /\ b[cur] < b[cur \div 2])
  <2>1. cur \in 1..m /\ (cur \div 2 > 0 => cur \div 2 \in 1..m)
    BY <1>1, <1>2, <1>7
  <2>2. /\ b[cur] = At(G, cur).timestamp
        /\ cur \div 2 > 0 => b[cur \div 2] = At(G, cur \div 2).timestamp
    BY <1>1, <2>1 DEF Stamps, b
  <2>3. K = minHeapShiftDown(G, cur)
    BY <1>1, <1>2, <1>7, <2>2 DEF minHeapErase, K, G, cur
  <2>4. ASSUME NEW i \in 2..m, i \div 2 # cur PROVE b[i \div 2] <= b[i]
    <3>1. CASE i = cur
      <4>1. cur \div 2 > 0 /\ b[cur \div 2] \in Int /\ b[cur] \in Int
        BY <1>2, <1>p, <2>1, <3>1 DEF Stamped
      <4> QED
        BY <1>7, <3>1, <4>1
    <3> QED
      BY <1>3, <2>4, <3>1
  <2>5. OrderedButDown(b, m, cur)
    BY <1>4, <2>4 DEF OrderedButDown
  <2> QED
    BY <1>1, <2>1, <2>3, <2>5, ShiftedIsSound DEF b, K, SameTimers
<1> QED
  BY <1>1, <1>2, <1>5, <1>6, <1>7 DEF K

\* What is not in the heap may change.
LEMMA KeepIs ==
    ASSUME NEW H, Sound(H), NEW K, Typed(K), K.heap = H.heap,
           \A i \in Slots(H) : K.timers[i] = H.timers[i]
    PROVE  Sound(K) /\ Slots(K) = Slots(H)
<1> DEFINE n == Len(H.heap)
<1>1. \A k \in 1..n : K.timers[H.heap[k]] = H.timers[H.heap[k]]
  BY DEF Slots
<1>2. Slots(K) = Slots(H)
  BY DEF Slots
<1>3. Placed(K)
  BY <1>1 DEF Sound, Placed
<1>4. Stamps(K) = Stamps(H)
  BY <1>1 DEF Stamps, At
<1> QED
  BY <1>2, <1>3, <1>4 DEF Sound

\* The heap and the map hold the same timers.
Whole(H) == Sound(H) /\ Slots(H) = DOMAIN H.timers

\* K has the timers of H, apart from id and from where they are in the heap.
SameBut(H, K, id) ==
    \A i \in DOMAIN H.timers \ {id} :
        /\ K.timers[i].timestamp = H.timers[i].timestamp
        /\ K.timers[i].timeout = H.timers[i].timeout
        /\ K.timers[i].call_times = H.timers[i].call_times

\* A timer with the fields of r, wherever it is in the heap.
Matches(K, id, r) ==
    /\ K.timers[id].timestamp = r.timestamp
    /\ K.timers[id].timeout = r.timeout
    /\ K.timers[id].call_times = r.call_times

Added(H, id, r) ==
    [timers |-> [i \in DOMAIN H.timers \cup {id} |->
                    IF i = id THEN r ELSE H.timers[i]],
     heap |-> H.heap]

\* A timer joins the map and the heap.
LEMMA AddIs ==
    ASSUME NEW H, Sound(H), NEW id, Slots(H) = DOMAIN H.timers \ {id},
           NEW r \in TimerType
    PROVE  LET K == minHeapInsert(Added(H, id, r), id)
           IN  /\ Whole(K)
               /\ DOMAIN K.timers = DOMAIN H.timers \cup {id}
               /\ SameBut(H, K, id)
               /\ Matches(K, id, r)
<1> DEFINE D == DOMAIN H.timers
           E == D \cup {id}
           G == Added(H, id, r)
           K == minHeapInsert(G, id)
           T == [i \in E |-> IF i = id THEN r ELSE H.timers[i]]
<1>1. /\ G.timers = T /\ G.heap = H.heap /\ DOMAIN T = E
      /\ G = [timers |-> G.timers, heap |-> G.heap]
  BY DEF Added
<1>2. /\ H.heap \in Seq(D) /\ \A i \in D : H.timers[i] \in TimerType
  BY TypedFacts DEF Sound, Placed
<1>3. H.heap \in Seq(E)
  <2> DEFINE s == H.heap
  <2> HIDE DEF s, D
  <2>1. s \in Seq(D) /\ D \subseteq E
    BY <1>2 DEF s
  <2> HIDE DEF E
  <2>2. s \in Seq(E)
    BY <2>1, SeqMonotonic
  <2> QED
    BY <2>2 DEF s
<1>4. T \in [E -> TimerType]
  BY <1>2
<1> HIDE DEF G
<1>5. Typed(G)
  BY <1>1, <1>3, <1>4 DEF Typed
<1>6. \A i \in D \ {id} : G.timers[i] = H.timers[i]
  BY <1>1
<1>7. G.timers[id] = r
  BY <1>1
<1> HIDE DEF T
<1>8. Sound(G) /\ Slots(G) = D \ {id}
  BY <1>1, <1>5, <1>6, KeepIs
<1>9. Sound(K) /\ SameTimers(G, K) /\ Slots(K) = Slots(G) \cup {id}
  BY <1>1, <1>8, InsertIs
<1> HIDE DEF K
<1>10. Whole(K) /\ DOMAIN K.timers = E
  BY <1>1, <1>8, <1>9 DEF Whole, SameTimers
<1>11. SameBut(H, K, id)
  BY <1>1, <1>6, <1>9 DEF SameBut, SameTimers
<1>12. Matches(K, id, r)
  BY <1>1, <1>7, <1>9 DEF Matches, SameTimers
<1> QED
  BY <1>10, <1>11, <1>12 DEF K, G

\* A timer leaves the map and the heap.
LEMMA RemoveIs ==
    ASSUME NEW H, Whole(H), NEW id \in DOMAIN H.timers
    PROVE  LET K == Delete(minHeapErase(H, id), id)
           IN  /\ Whole(K)
               /\ DOMAIN K.timers = DOMAIN H.timers \ {id}
               /\ SameBut(H, K, id)
<1> DEFINE D == DOMAIN H.timers
           E == D \ {id}
           G == minHeapErase(H, id)
           T == [i \in E |-> G.timers[i]]
           K == Delete(G, id)
<1>1. Sound(G) /\ SameTimers(H, G) /\ Slots(G) = E
  BY EraseIs DEF Whole
<1> HIDE DEF G
<1>2. Typed(G) /\ DOMAIN G.timers = D
  BY <1>1 DEF Sound, Placed, SameTimers
<1>3. /\ G = [timers |-> G.timers, heap |-> G.heap] /\ Len(G.heap) \in Nat
      /\ \A i \in D : G.timers[i] \in TimerType
      /\ G.heap \in [1..Len(G.heap) -> D] /\ G.heap \in Seq(D)
  BY <1>2, TypedFacts
<1>4. K.timers = T /\ K.heap = G.heap /\ K = [timers |-> K.timers, heap |-> K.heap]
  BY <1>2, <1>3 DEF Delete
<1>5. DOMAIN T = E /\ T \in [E -> TimerType] /\ \A i \in E : T[i] = G.timers[i]
  BY <1>3
<1>6. G.heap \in Seq(E)
  <2> DEFINE s == G.heap
  <2>1. s \in Seq(D) /\ \A k \in 1..Len(s) : s[k] \in E
    BY <1>1, <1>3 DEF Slots
  <2> HIDE DEF s, E, D
  <2>2. s \in Seq(E)
    BY <2>1
  <2> QED
    BY <2>2 DEF s
<1> HIDE DEF T, K
<1>7. Typed(K)
  BY <1>4, <1>5, <1>6 DEF Typed
<1>8. Sound(K) /\ Slots(K) = E
  BY <1>1, <1>4, <1>5, <1>7, KeepIs
<1>9. Whole(K) /\ DOMAIN K.timers = E
  BY <1>4, <1>5, <1>8 DEF Whole
<1>10. SameBut(H, K, id)
  BY <1>1, <1>4, <1>5 DEF SameBut, SameTimers
<1> QED
  BY <1>9, <1>10 DEF K, G

-----------------------------------------------------------------------------
(* The steps *)

\* The inductive invariant: types, a sound heap, and one set of timers.
TimerInv ==
    /\ last_id \in 0..MaxId
    /\ DOMAIN timers \subseteq 1..MaxId
    /\ phase \in {"idle", "check", "callback"}
    /\ check_now \in Ticks \cup {0}
    /\ calls \in 0..CallBound
    /\ Whole(Current)

\* What addTimer makes of a request.
Requested(req, now) ==
    LET ms == IF req.timeout < 0 THEN 0 ELSE req.timeout
    IN  [timestamp |-> now + ms * TicksPerMs,
         timeout |-> ms,
         call_times |-> req.call_times,
         heap_pos |-> -1]

\* What checkTimeout makes of a timer that fires and is to fire again.
Again(r) ==
    [r EXCEPT !.call_times = IF @ > 0 THEN @ - 1 ELSE @,
              !.timestamp = @ + getTimeout(r.timeout) * TicksPerMs]

\* A timeout that is read back is a number.
LEMMA getTimeoutType ==
    ASSUME NEW timeout \in Nat
    PROVE  getTimeout(timeout) \in Int
BY TimerAssumption DEF getTimeout

\* A timeout that an int can hold is returned as it is.
LEMMA getTimeoutExact ==
    ASSUME NEW timeout \in Nat, timeout < IntMod \div 2
    PROVE  getTimeout(timeout) = timeout
<1>1. IntMod \in Nat \ {0} /\ timeout < IntMod
  BY TimerAssumption
<1>2. timeout % IntMod = timeout
  BY <1>1
<1> QED
  BY <1>1, <1>2 DEF getTimeout

\* Milliseconds in ticks.
LEMMA ProductType ==
    ASSUME NEW k \in Int
    PROVE  k * TicksPerMs \in Int /\ (k >= 0 => k * TicksPerMs >= 0)
BY TimerAssumption

\* addTimer makes a timer.
LEMMA RequestedType ==
    ASSUME NEW req \in Requests, NEW now \in Ticks
    PROVE  Requested(req, now) \in TimerType
<1> DEFINE ms == IF req.timeout < 0 THEN 0 ELSE req.timeout
<1>1. now \in Int /\ ms \in Nat /\ req.call_times \in Int
  BY TimerAssumption
<1>2. ms * TicksPerMs \in Int
  BY <1>1, ProductType
<1> HIDE DEF ms
<1>3. now + ms * TicksPerMs \in Int
  BY <1>1, <1>2
<1>4. Requested(req, now) = [timestamp |-> now + ms * TicksPerMs, timeout |-> ms,
                             call_times |-> req.call_times, heap_pos |-> -1]
  BY DEF Requested, ms
<1> QED
  BY <1>1, <1>3, <1>4 DEF TimerType

\* A timer that goes on is a timer, due one timeout later.
LEMMA AgainType ==
    ASSUME NEW r \in TimerType
    PROVE  /\ Again(r) \in TimerType
           /\ Again(r).timestamp = r.timestamp + getTimeout(r.timeout) * TicksPerMs
           /\ Again(r).timeout = r.timeout
           /\ Again(r).call_times =
                IF r.call_times > 0 THEN r.call_times - 1 ELSE r.call_times
<1> DEFINE d == getTimeout(r.timeout) * TicksPerMs
           c == IF r.call_times > 0 THEN r.call_times - 1 ELSE r.call_times
<1>1. d \in Int /\ r.timeout \in Nat
  BY getTimeoutType, ProductType DEF TimerType
<1>2. Again(r) = [r EXCEPT !.call_times = c, !.timestamp = r.timestamp + d]
  BY DEF Again, TimerType
<1> HIDE DEF d
<1>3. c \in Int /\ r.timestamp + d \in Int
  BY <1>1 DEF TimerType
<1> HIDE DEF c
<1>4. /\ Again(r) \in TimerType /\ Again(r).timestamp = r.timestamp + d
      /\ Again(r).timeout = r.timeout /\ Again(r).call_times = c
  BY <1>1, <1>2, <1>3 DEF TimerType
<1> QED
  BY <1>4 DEF d, c

\* K is Current', field by field.
LEMMA BecomeIs ==
    ASSUME NEW K, K = [timers |-> K.timers, heap |-> K.heap], Become(K)
    PROVE  Current' = K
BY DEF Become, Current

\* The map and the heap are all there is.
LEMMA WholeIsRecord ==
    ASSUME NEW H, Whole(H)
    PROVE  H = [timers |-> H.timers, heap |-> H.heap]
BY TypedFacts DEF Whole, Sound, Placed

\* Ids stay in their range.
LEMMA getIdType ==
    ASSUME last_id \in 0..MaxId
    PROVE  getId \in 1..MaxId
BY TimerAssumption DEF getId

\* addTimer: the id is taken and nothing changes, or a timer is added.
LEMMA AddStep ==
    ASSUME Whole(Current), NEW req \in Requests, NEW now \in Ticks,
           addTimer(req, now), getId \notin DOMAIN timers
    PROVE  /\ Whole(Current')
           /\ DOMAIN timers' = DOMAIN timers \cup {getId}
           /\ SameBut(Current, Current', getId)
           /\ Matches(Current', getId, Requested(req, now))
<1> DEFINE r == Requested(req, now)
           id == getId
           K == minHeapInsert(Added(Current, id, r), id)
<1>1. Become(K)
  BY DEF addTimer, Added, Current, Requested
<1>2. Sound(Current) /\ Slots(Current) = DOMAIN Current.timers \ {id}
  BY DEF Whole, Current
<1>3. r \in TimerType
  BY RequestedType
<1> HIDE DEF r, id
<1>4. /\ Whole(K) /\ DOMAIN K.timers = DOMAIN Current.timers \cup {id}
      /\ SameBut(Current, K, id) /\ Matches(K, id, r)
  BY <1>2, <1>3, AddIs
<1> HIDE DEF K
<1>5. Current' = K
  BY <1>1, <1>4, WholeIsRecord, BecomeIs
<1>6. timers' = K.timers /\ Current.timers = timers
  BY <1>1 DEF Become, Current
<1> QED
  BY <1>4, <1>5, <1>6 DEF r, id

\* removeTimer of a timer that is there.
LEMMA RemoveStep ==
    ASSUME Whole(Current), NEW id \in DOMAIN timers, removeTimer(id)
    PROVE  /\ Whole(Current')
           /\ DOMAIN timers' = DOMAIN timers \ {id}
           /\ SameBut(Current, Current', id)
<1> DEFINE K == Delete(minHeapErase(Current, id), id)
<1>1. Become(K) /\ Current.timers = timers
  BY DEF removeTimer, Current
<1>2. /\ Whole(K) /\ DOMAIN K.timers = DOMAIN Current.timers \ {id}
      /\ SameBut(Current, K, id)
  BY <1>1, RemoveIs
<1> HIDE DEF K
<1>3. Current' = K
  BY <1>1, <1>2, WholeIsRecord, BecomeIs
<1> QED
  BY <1>1, <1>2, <1>3 DEF Become

\* checkTimeoutFire of a timer that fires for the last time, or fires again.
LEMMA FireStep ==
    ASSUME Whole(Current), checkTimeoutFire
    PROVE  LET id == heap[1]
           IN  /\ Whole(Current')
               /\ id \in DOMAIN timers
               /\ SameBut(Current, Current', id)
               /\ IF timers[id].call_times = 1
                  THEN DOMAIN timers' = DOMAIN timers \ {id}
                  ELSE /\ DOMAIN timers' = DOMAIN timers
                       /\ Matches(Current', id, Again(timers[id]))
<1> DEFINE id == heap[1]
           D == DOMAIN timers
           E == minHeapErase(Current, id)
<1>1. Current.timers = timers /\ Current.heap = heap
  BY DEF Current
<1>2. /\ Len(heap) \in Nat /\ heap \in Seq(D) /\ \A k \in 1..Len(heap) : heap[k] \in D
      /\ \A i \in D : timers[i] \in TimerType
  BY <1>1, TypedFacts DEF Whole, Sound, Placed
<1>3. 1 \in 1..Len(heap)
  <2>1. heap # <<>>
    BY DEF checkTimeoutFire
  <2> DEFINE s == heap
  <2>2. s \in Seq(D) /\ s # <<>>
    BY <1>2, <2>1
  <2> HIDE DEF s, D
  <2>3. Len(s) \in Nat \ {0}
    BY <2>2, EmptySeq
  <2> QED
    BY <2>3 DEF s
<1>4. id \in D
  BY <1>2, <1>3
<1>5. CASE timers[id].call_times = 1
  <2> DEFINE K == Delete(E, id)
  <2>1. Become(K)
    BY <1>5 DEF checkTimeoutFire
  <2>2. /\ Whole(K) /\ DOMAIN K.timers = D \ {id} /\ SameBut(Current, K, id)
    BY <1>1, <1>4, RemoveIs
  <2> HIDE DEF K
  <2>3. Current' = K
    BY <2>1, <2>2, WholeIsRecord, BecomeIs
  <2> QED
    BY <1>4, <1>5, <2>1, <2>2, <2>3 DEF Become
<1>6. CASE timers[id].call_times # 1
  <2> DEFINE again == [E EXCEPT
                    !.timers[id].call_times = IF @ > 0 THEN @ - 1 ELSE @,
                    !.timers[id].timestamp =
                        @ + getTimeout(timers[id].timeout) * TicksPerMs]
             K == minHeapInsert(again, id)
             r == Again(E.timers[id])
  <2>1. Become(K)
    BY <1>6 DEF checkTimeoutFire
  <2>2. Sound(E) /\ SameTimers(Current, E) /\ Slots(E) = D \ {id}
    BY <1>1, <1>4, EraseIs DEF Whole
  <2> HIDE DEF E
  <2>3. DOMAIN E.timers = D /\ E.timers[id].timestamp = timers[id].timestamp
        /\ E.timers[id].timeout = timers[id].timeout
        /\ E.timers[id].call_times = timers[id].call_times
    BY <1>1, <1>4, <2>2 DEF SameTimers
  <2>4. E = [timers |-> E.timers, heap |-> E.heap] /\ E.timers \in [D -> TimerType]
        /\ E.timers[id] \in TimerType
    BY <1>4, <2>2, <2>3, TypedFacts DEF Sound, Placed
  <2>5. again = Added(E, id, r)
    <3> DEFINE T == E.timers
               x == getTimeout(timers[id].timeout) * TicksPerMs
               r1 == [T[id] EXCEPT !.call_times = IF @ > 0 THEN @ - 1 ELSE @]
               T1 == [T EXCEPT ![id] = r1]
               E1 == [E EXCEPT !.timers[id].call_times = IF @ > 0 THEN @ - 1 ELSE @]
               r2 == [r1 EXCEPT !.timestamp = @ + x]
    <3>1. again = [E1 EXCEPT !.timers[id].timestamp = @ + x]
      OBVIOUS
    <3>2. T \in [D -> TimerType] /\ T[id] \in TimerType
      BY <2>4
    <3>3. E1 = [timers |-> T1, heap |-> E.heap]
      BY <2>4
    <3>4. r = r2
      BY <2>3, <3>2 DEF Again, TimerType
    <3>5. T1[id] = r1
      BY <1>4, <3>2
    <3> HIDE DEF again, r, E1, r1, x
    <3>6. again = [timers |-> [T1 EXCEPT ![id] = r2], heap |-> E.heap]
      <4> HIDE DEF T1
      <4> QED
        BY <3>1, <3>3, <3>5
    <3> HIDE DEF r2, T
    <3>7. [T1 EXCEPT ![id] = r2] = [i \in D |-> IF i = id THEN r ELSE T[i]]
      BY <1>4, <3>2, <3>4
    <3>8. D \cup {id} = D
      BY <1>4
    <3> QED
      BY <2>3, <3>6, <3>7, <3>8 DEF Added, T
  <2>6. r \in TimerType
    BY <2>4, AgainType
  <2>7. Slots(E) = DOMAIN E.timers \ {id}
    BY <2>2, <2>3
  <2> HIDE DEF again, r
  <2>8. LET L == minHeapInsert(Added(E, id, r), id)
        IN  /\ Whole(L) /\ DOMAIN L.timers = DOMAIN E.timers \cup {id}
            /\ SameBut(E, L, id) /\ Matches(L, id, r)
    BY <2>2, <2>6, <2>7, AddIs
  <2>9. /\ Whole(K) /\ DOMAIN K.timers = D \cup {id}
        /\ SameBut(E, K, id) /\ Matches(K, id, r)
    BY <2>3, <2>5, <2>8
  <2> HIDE DEF K
  <2>10. Current' = K
    BY <2>1, <2>9, WholeIsRecord, BecomeIs
  <2>11. SameBut(Current, K, id)
    BY <1>1, <2>2, <2>3, <2>9 DEF SameBut, SameTimers
  <2>12. Matches(K, id, Again(timers[id]))
    <3>1. timers[id] \in TimerType
      BY <1>2, <1>4
    <3>2. /\ r.timestamp = Again(timers[id]).timestamp
          /\ r.timeout = Again(timers[id]).timeout
          /\ r.call_times = Again(timers[id]).call_times
      BY <2>3, <2>4, <3>1, AgainType DEF r
    <3> QED
      BY <2>9, <3>2 DEF Matches
  <2>13. D \cup {id} = D
    BY <1>4
  <2> QED
    BY <1>4, <1>6, <2>1, <2>9, <2>10, <2>11, <2>12, <2>13 DEF Become
<1> QED
  BY <1>5, <1>6

\* The invariant holds of a new heap.
LEMMA TimerInitInv == TimerInit => TimerInv
<1> SUFFICES ASSUME TimerInit PROVE TimerInv
  OBVIOUS
<1>1. timers = [i \in {} |-> 0] /\ heap = <<>> /\ DOMAIN timers = {}
  BY DEF TimerInit
<1>2. heap \in Seq(DOMAIN timers) /\ Len(heap) = 0
  BY <1>1, EmptySeq
<1>3. Typed(Current)
  BY <1>1, <1>2 DEF Typed, Current
<1>4. Current.heap = heap /\ Current.timers = timers
  BY DEF Current
<1>5. Placed(Current) /\ Ordered(Stamps(Current), Len(Current.heap))
  BY <1>2, <1>3, <1>4 DEF Placed, Ordered
<1>6. Slots(Current) = DOMAIN Current.timers
  BY <1>1, <1>2, <1>4 DEF Slots
<1> QED
  BY <1>1, <1>5, <1>6, TimerAssumption DEF TimerInit, TimerInv, Whole, Sound

\* Every operation on the timers keeps the invariant.
LEMMA TimerStepInv == TimerInv /\ [TimerNext]_timerVars => TimerInv'
<1> SUFFICES ASSUME TimerInv, [TimerNext]_timerVars PROVE TimerInv'
  OBVIOUS
<1>0. /\ Whole(Current) /\ last_id \in 0..MaxId /\ DOMAIN timers \subseteq 1..MaxId
      /\ calls \in 0..CallBound
  BY DEF TimerInv
<1>c. ClientCall => calls' \in 0..CallBound
  BY <1>0, TimerAssumption DEF ClientCall
<1>u. UNCHANGED <<timers, heap>> => Whole(Current') /\ DOMAIN timers' \subseteq 1..MaxId
  BY <1>0 DEF Current
<1>1. ASSUME NEW req \in Requests, NEW now \in Ticks, addTimer(req, now)
      PROVE  TimerInv'
  <2>1. getId \in 1..MaxId
    BY <1>0, getIdType
  <2>2. Whole(Current') /\ DOMAIN timers' \subseteq 1..MaxId
    <3>1. CASE getId \in DOMAIN timers
      BY <1>1, <1>u, <3>1 DEF addTimer
    <3>2. CASE getId \notin DOMAIN timers
      BY <1>0, <1>1, <2>1, <3>2, AddStep
    <3> QED
      BY <3>1, <3>2
  <2>3. /\ last_id' = getId /\ calls' \in 0..CallBound
        /\ UNCHANGED <<phase, check_now>>
    BY <1>1, <1>c DEF addTimer
  <2>4. last_id' \in 0..MaxId
    BY <2>1, <2>3
  <2> QED
    BY <2>2, <2>3, <2>4 DEF TimerInv
<1>2. ASSUME NEW id \in 1..MaxId, removeTimer(id)
      PROVE  TimerInv'
  <2>1. Whole(Current') /\ DOMAIN timers' \subseteq 1..MaxId
    <3>1. CASE id \in DOMAIN timers
      BY <1>0, <1>2, <3>1, RemoveStep
    <3>2. CASE id \notin DOMAIN timers
      BY <1>2, <1>u, <3>2 DEF removeTimer
    <3> QED
      BY <3>1, <3>2
  <2>2. calls' \in 0..CallBound /\ UNCHANGED <<last_id, phase, check_now>>
    BY <1>2, <1>c DEF removeTimer
  <2> QED
    BY <2>1, <2>2 DEF TimerInv
<1>3. ASSUME NEW now \in Ticks, checkTimeoutBegin(now)
      PROVE  TimerInv'
  BY <1>0, <1>3, <1>u DEF checkTimeoutBegin, TimerInv
<1>4. CASE checkTimeoutFire
  <2>1. Whole(Current') /\ DOMAIN timers' \subseteq 1..MaxId
    BY <1>0, <1>4, FireStep
  <2> QED
    BY <1>4, <2>1 DEF checkTimeoutFire, TimerInv
<1>5. CASE callbackReturns
  BY <1>0, <1>5, <1>u DEF callbackReturns, TimerInv
<1>6. CASE checkTimeoutReturn
  BY <1>0, <1>6, <1>u, TimerAssumption DEF checkTimeoutReturn, TimerInv
<1>7. CASE UNCHANGED timerVars
  BY <1>0, <1>7, <1>u DEF timerVars, TimerInv
<1> QED
  BY <1>1, <1>2, <1>3, <1>4, <1>5, <1>6, <1>7 DEF TimerNext, CheckTimeout

\* The inductive invariant is one.
THEOREM TimerInvariant == TimerSpec => []TimerInv
<1> QED
  BY TimerInitInv, TimerStepInv, PTL DEF TimerSpec

\* The invariant in terms of the two variables.
LEMMA TimerInvFacts ==
    ASSUME TimerInv
    PROVE  /\ Len(heap) \in Nat /\ heap \in Seq(DOMAIN timers)
           /\ heap \in [1..Len(heap) -> DOMAIN timers]
           /\ DOMAIN heap = 1..Len(heap)
           /\ \A i \in DOMAIN timers : timers[i] \in TimerType
           /\ \A i \in 1..Len(heap) : timers[heap[i]].heap_pos = i
           /\ \A i \in DOMAIN timers : \E k \in 1..Len(heap) : heap[k] = i
           /\ \A i \in 2..Len(heap) :
                timers[heap[i \div 2]].timestamp <= timers[heap[i]].timestamp
<1>1. Current.timers = timers /\ Current.heap = heap /\ Placed(Current)
      /\ Slots(Current) = DOMAIN timers
      /\ Ordered(Stamps(Current), Len(heap))
  BY DEF TimerInv, Whole, Sound, Current
<1>2. /\ Len(heap) \in Nat /\ heap \in Seq(DOMAIN timers)
      /\ heap \in [1..Len(heap) -> DOMAIN timers]
      /\ \A i \in DOMAIN timers : timers[i] \in TimerType
  BY <1>1, TypedFacts DEF Placed
<1>3. \A i \in 1..Len(heap) : Stamps(Current)[i] = timers[heap[i]].timestamp
  BY <1>1 DEF Stamps, At
<1>4. \A i \in 2..Len(heap) : i \in 1..Len(heap) /\ i \div 2 \in 1..Len(heap)
  BY <1>2, ParentIs
<1>5. \A i \in 2..Len(heap) :
        timers[heap[i \div 2]].timestamp <= timers[heap[i]].timestamp
  BY <1>1, <1>3, <1>4 DEF Ordered
<1>6. \A i \in DOMAIN timers : \E k \in 1..Len(heap) : heap[k] = i
  BY <1>1 DEF Slots
<1> QED
  BY <1>1, <1>2, <1>5, <1>6 DEF Placed

\* Type correctness.
THEOREM TimerTypeCorrect == TimerSpec => []TimerTypeOK
<1>1. TimerInv => TimerTypeOK
  <2> SUFFICES ASSUME TimerInv PROVE TimerTypeOK
    OBVIOUS
  <2>1. heap \in Seq(1..MaxId)
    <3> DEFINE D == DOMAIN timers
               E == 1..MaxId
    <3>1. heap \in Seq(D) /\ D \subseteq E
      BY TimerInvFacts DEF TimerInv
    <3> HIDE DEF D, E
    <3>2. heap \in Seq(E)
      BY <3>1, SeqMonotonic
    <3> QED
      BY <3>2 DEF E
  <2>2. \A i \in DOMAIN timers :
            timers[i] \in [timestamp : Int, timeout : Nat, call_times : Int,
                           heap_pos : Int]
    BY TimerInvFacts DEF TimerType
  <2> QED
    BY <2>1, <2>2 DEF TimerInv, TimerTypeOK
<1> QED
  BY <1>1, TimerInvariant, PTL

\* The map and the heap hold the same timers, each once and where it says that it
\* is, and the heap is ordered: removeTimer and checkTimeout erase and move the
\* timer they mean to, after any number of insertions, erasures from the middle and
\* re-insertions.
THEOREM HeapIsAlwaysSound == TimerSpec => []HeapIsSound
<1>1. TimerInv => HeapIsSound
  <2> SUFFICES ASSUME TimerInv PROVE HeapIsSound
    OBVIOUS
  <2> DEFINE n == Len(heap)
             D == DOMAIN timers
  <2>1. /\ n \in Nat /\ heap \in [1..n -> D] /\ DOMAIN heap = 1..n
        /\ \A i \in 1..n : timers[heap[i]].heap_pos = i
        /\ \A i \in D : \E k \in 1..n : heap[k] = i
    BY TimerInvFacts
  <2>2. {heap[i] : i \in DOMAIN heap} = DOMAIN timers
    <3>1. \A z \in D : \E i \in DOMAIN heap : z = heap[i]
      BY <2>1
    <3>2. \A i \in DOMAIN heap : heap[i] \in D
      BY <2>1
    <3> HIDE DEF D
    <3>3. {heap[i] : i \in DOMAIN heap} = D
      BY <3>1, <3>2, Zenon
    <3> QED
      BY <3>3 DEF D
  <2>3. Cardinality(D) = n
    <3>1. \A i, j \in 1..n : heap[i] = heap[j] => i = j
      BY <2>1
    <3> HIDE DEF n, D
    <3>2. heap \in Bijection(1..n, D)
      BY <2>1, <3>1, Fun_IsBij
    <3>3. ExistsBijection(1..n, D)
      BY <3>2 DEF ExistsBijection
    <3> QED
      BY <2>1, <3>3, FS_CountingElements
  <2>4. HeapOrdered
    BY TimerInvFacts DEF HeapOrdered
  <2> QED
    BY <2>1, <2>2, <2>3, <2>4 DEF HeapIsSound, HeapMatchesMap
<1> QED
  BY <1>1, TimerInvariant, PTL

-----------------------------------------------------------------------------
(* The epoll timeout *)

\* Whole milliseconds come out of the rounding.
LEMMA MsAdd ==
    ASSUME NEW x \in Int, NEW k \in Int
    PROVE  Ms(x + k * TicksPerMs) = Ms(x) + k /\ Ms(x) \in Int
BY TimerAssumption DEF Ms

\* Rounding to milliseconds keeps the order.
LEMMA MsMonotonic ==
    ASSUME NEW x \in Int, NEW y \in Int, x <= y
    PROVE  Ms(x) <= Ms(y)
BY TimerAssumption DEF Ms

\* A timer at the top of the heap is due no later than any other.
LEMMA TopIsEarliest ==
    ASSUME TimerInv, DOMAIN timers # {}
    PROVE  /\ heap # <<>>
           /\ heap[1] \in DOMAIN timers
           /\ \A i \in DOMAIN timers :
                timers[heap[1]].timestamp <= timers[i].timestamp
<1> DEFINE n == Len(heap)
           a == Stamps(Current)
<1>1. /\ n \in Nat /\ heap \in [1..n -> DOMAIN timers]
      /\ \A i \in DOMAIN timers : timers[i] \in TimerType
      /\ \A i \in DOMAIN timers : \E k \in 1..n : heap[k] = i
  BY TimerInvFacts
<1>2. /\ \A k \in 1..n : a[k] = timers[heap[k]].timestamp
      /\ Stamped(a, n) /\ Ordered(a, n)
  <2>1. Current.timers = timers /\ Current.heap = heap
    BY DEF Current
  <2>2. Typed(Current) /\ Sound(Current)
    BY DEF TimerInv, Whole, Sound, Placed
  <2> QED
    BY <2>1, <2>2, StampsTyped DEF Sound, Stamps, At
<1> HIDE DEF a
<1>3. n # 0
  BY <1>1
<1>4. heap # <<>>
  <2>1. Len(<<>>) = 0
    BY EmptySeq
  <2> QED
    BY <1>3, <2>1
<1>5. ASSUME NEW i \in DOMAIN timers
      PROVE  timers[heap[1]].timestamp <= timers[i].timestamp
  <2>1. PICK k \in 1..n : heap[k] = i
    BY <1>1
  <2>2. a[1] <= a[k]
    BY <1>1, <1>2, RootIsLeast
  <2> QED
    BY <1>1, <1>2, <2>1, <2>2
<1> QED
  BY <1>1, <1>3, <1>4, <1>5

\* The map is empty when the heap is.
LEMMA NoTimers ==
    ASSUME TimerInv
    PROVE  /\ timers = [i \in {} |-> 0] <=> DOMAIN timers = {}
           /\ heap = <<>> <=> DOMAIN timers = {}
<1>1. timers \in [DOMAIN timers -> TimerType]
  <2>1. Current.timers = timers /\ Typed(Current)
    BY DEF Current, TimerInv, Whole, Sound, Placed
  <2> QED
    BY <2>1, TypedFacts
<1>2. timers = [i \in {} |-> 0] <=> DOMAIN timers = {}
  BY <1>1
<1>3. DOMAIN timers = {} => heap = <<>>
  <2> SUFFICES ASSUME DOMAIN timers = {} PROVE heap = <<>>
    OBVIOUS
  <2> DEFINE s == heap
             D == DOMAIN timers
  <2>1. s \in Seq(D) /\ Len(s) \in Nat /\ \A k \in 1..Len(s) : s[k] \in D
    BY TimerInvFacts
  <2>2. D = {}
    OBVIOUS
  <2> HIDE DEF s, D
  <2>3. s = <<>>
    BY <2>1, <2>2, EmptySeq
  <2> QED
    BY <2>3 DEF s
<1> QED
  BY <1>2, <1>3, TopIsEarliest

\* The epoll timeout is exact for every clock reading: after that many milliseconds
\* some timer is due, and one millisecond earlier none is.
THEOREM NextTimeoutAlwaysExact == TimerSpec => []NextTimeoutExact
<1>1. TimerInv => NextTimeoutExact
  <2> SUFFICES ASSUME TimerInv, NEW now \in Ticks
               PROVE  LET wait == getNextTimeoutMillisecond(now)
                          DueAfter(k) == \E i \in DOMAIN timers :
                              Ms(timers[i].timestamp) <= Ms(now + k * TicksPerMs)
                      IN  IF timers = [i \in {} |-> 0] THEN wait = -1
                          ELSE /\ wait >= 0 /\ DueAfter(wait)
                               /\ wait > 0 => ~DueAfter(wait - 1)
    BY DEF NextTimeoutExact
  <2> DEFINE wait == getNextTimeoutMillisecond(now)
             top == timers[heap[1]].timestamp
             DueAfter(k) == \E i \in DOMAIN timers :
                 Ms(timers[i].timestamp) <= Ms(now + k * TicksPerMs)
  <2>1. CASE DOMAIN timers = {}
    BY <2>1, NoTimers DEF getNextTimeoutMillisecond
  <2>2. CASE DOMAIN timers # {}
    <3>1. /\ heap # <<>> /\ heap[1] \in DOMAIN timers
          /\ \A i \in DOMAIN timers : top <= timers[i].timestamp
          /\ \A i \in DOMAIN timers : timers[i].timestamp \in Int
          /\ timers # [i \in {} |-> 0]
      BY <2>2, TopIsEarliest, NoTimers, TimerInvFacts DEF TimerType
    <3>2. now \in Int /\ top \in Int /\ Ms(now) \in Int /\ Ms(top) \in Int
      <4>1. now \in Int /\ top \in Int
        BY <3>1, TimerAssumption
      <4> HIDE DEF top
      <4> QED
        BY <4>1, MsAdd
    <3>3. wait = IF top < now THEN 0 ELSE Ms(top) - Ms(now)
      BY <3>1 DEF getNextTimeoutMillisecond
    <3> HIDE DEF wait
    <3>4. wait \in Int /\ wait >= 0 /\ Ms(top) <= Ms(now) + wait
          /\ (wait > 0 => wait = Ms(top) - Ms(now))
      BY <3>2, <3>3, MsMonotonic
    <3>5. \A k \in Int : Ms(now + k * TicksPerMs) = Ms(now) + k
      BY <3>2, MsAdd
    <3>6. DueAfter(wait)
      BY <3>1, <3>4, <3>5
    <3>7. ASSUME wait > 0 PROVE ~DueAfter(wait - 1)
      <4> SUFFICES ASSUME NEW i \in DOMAIN timers,
                          Ms(timers[i].timestamp) <= Ms(now + (wait - 1) * TicksPerMs)
                   PROVE  FALSE
        OBVIOUS
      <4> DEFINE ts == timers[i].timestamp
      <4>1. ts \in Int /\ top <= ts
        BY <3>1
      <4>2. wait - 1 \in Int
        BY <3>4
      <4>3. Ms(now + (wait - 1) * TicksPerMs) = Ms(now) + (wait - 1)
        BY <3>5, <4>2
      <4>4. Ms(ts) <= Ms(now) + (wait - 1)
        BY <4>3
      <4> HIDE DEF ts, top
      <4>5. Ms(top) <= Ms(ts) /\ Ms(ts) \in Int
        BY <3>2, <4>1, MsMonotonic, MsAdd
      <4> QED
        BY <3>2, <3>4, <3>7, <4>4, <4>5
    <3> QED
      BY <3>1, <3>4, <3>6, <3>7 DEF wait
  <2> QED
    BY <2>1, <2>2
<1> QED
  BY <1>1, TimerInvariant, PTL

-----------------------------------------------------------------------------
(* The heap implements TimerService, for timeouts that are not negative and  *)
(* that an int can hold.                                                      *)

ActiveOf(r) ==
    [deadline |-> r.timestamp, timeout |-> r.timeout, call_times |-> r.call_times]

\* Timers keep the timeouts they were asked for.
TimeoutsFit == \A i \in DOMAIN timers : timers[i].timeout < IntMod \div 2

RequestsFit == \A req \in Requests : req.timeout >= 0 /\ req.timeout < IntMod \div 2

\* The timers that the service sees.
LEMMA ActiveIs ==
    /\ DOMAIN active = DOMAIN timers
    /\ active = [i \in DOMAIN timers |-> ActiveOf(timers[i])]
    /\ \A i \in DOMAIN timers : active[i] = ActiveOf(timers[i])
BY DEF active, ActiveOf

\* The timers that the service sees after a step.
LEMMA ActiveNextIs ==
    active' = [i \in DOMAIN timers' |-> ActiveOf(timers'[i])]
BY DEF active, ActiveOf

\* The other timers look the same.
LEMMA OthersActive ==
    ASSUME NEW id, SameBut(Current, Current', id)
    PROVE  \A i \in DOMAIN timers \ {id} : ActiveOf(timers'[i]) = ActiveOf(timers[i])
BY DEF SameBut, ActiveOf, Current

\* The fields of a request that fits.
LEMMA RequestedActive ==
    ASSUME RequestsFit, NEW req \in Requests, NEW now \in Ticks
    PROVE  /\ ActiveOf(Requested(req, now)) =
                [deadline |-> now + req.timeout * TicksPerMs,
                 timeout |-> req.timeout,
                 call_times |-> req.call_times]
           /\ Requested(req, now).timeout < IntMod \div 2
<1>1. ~(req.timeout < 0) /\ req.timeout < IntMod \div 2
  <2>1. req.timeout \in Int /\ req.timeout >= 0 /\ req.timeout < IntMod \div 2
    BY TimerAssumption DEF RequestsFit
  <2> QED
    BY <2>1
<1> QED
  BY <1>1 DEF ActiveOf, Requested

\* addTimer starts a timer of the service, or nothing happens.
LEMMA StartRefines ==
    ASSUME TimerInv, RequestsFit, TimeoutsFit, NEW req \in Requests, NEW now \in Ticks,
           addTimer(req, now)
    PROVE  TimeoutsFit' /\ [Service!Next]_Service!vars
<1>1. CASE getId \in DOMAIN timers
  <2>1. UNCHANGED <<timers, heap, phase, check_now>>
    BY <1>1 DEF addTimer
  <2> QED
    BY <2>1 DEF TimeoutsFit, Service!vars, active
<1>2. CASE getId \notin DOMAIN timers
  <2> DEFINE id == getId
             r == Requested(req, now)
             D == DOMAIN timers
  <2>1. /\ DOMAIN timers' = D \cup {id} /\ SameBut(Current, Current', id)
        /\ Matches(Current', id, r)
    BY <1>2, AddStep DEF TimerInv
  <2>2. /\ ActiveOf(r) = [deadline |-> now + req.timeout * TicksPerMs,
                          timeout |-> req.timeout, call_times |-> req.call_times]
        /\ r.timeout < IntMod \div 2
    BY RequestedActive
  <2>3. ActiveOf(timers'[id]) = ActiveOf(r) /\ timers'[id].timeout = r.timeout
    BY <2>1 DEF Matches, ActiveOf, Current
  <2>4. \A i \in D : ActiveOf(timers'[i]) = ActiveOf(timers[i])
    BY <1>2, <2>1, OthersActive
  <2>5. id \in 1..MaxId /\ phase # "check" /\ UNCHANGED <<phase, check_now>>
    BY getIdType DEF TimerInv, addTimer, ClientCall
  <2> HIDE DEF id, r
  <2>6. active' = [j \in D \cup {id} |-> IF j = id THEN ActiveOf(r) ELSE active[j]]
    <3>1. active' = [j \in D \cup {id} |-> ActiveOf(timers'[j])]
      BY <2>1, ActiveNextIs
    <3> QED
      BY <2>3, <2>4, <3>1, ActiveIs
  <2>7. Service!Start(id, req, now)
    BY <1>2, <2>2, <2>5, <2>6, ActiveIs DEF Service!Start, id
  <2>8. TimeoutsFit'
    BY <2>1, <2>2, <2>3, <2>4 DEF TimeoutsFit, ActiveOf, SameBut, Current
  <2> QED
    BY <2>5, <2>7, <2>8 DEF Service!Next
<1> QED
  BY <1>1, <1>2

\* removeTimer stops a timer of the service, or nothing happens.
LEMMA StopRefines ==
    ASSUME TimerInv, TimeoutsFit, NEW id \in 1..MaxId, removeTimer(id)
    PROVE  TimeoutsFit' /\ [Service!Next]_Service!vars
<1>1. CASE id \notin DOMAIN timers
  <2>1. UNCHANGED <<timers, heap, phase, check_now>>
    BY <1>1 DEF removeTimer
  <2> QED
    BY <2>1 DEF TimeoutsFit, Service!vars, active
<1>2. CASE id \in DOMAIN timers
  <2> DEFINE D == DOMAIN timers
  <2>1. DOMAIN timers' = D \ {id} /\ SameBut(Current, Current', id)
    BY <1>2, RemoveStep DEF TimerInv
  <2>2. \A i \in D \ {id} : ActiveOf(timers'[i]) = ActiveOf(timers[i])
    BY <2>1, OthersActive
  <2>3. phase # "check" /\ UNCHANGED <<phase, check_now>>
    BY DEF removeTimer, ClientCall
  <2>4. active' = [j \in D \ {id} |-> active[j]]
    <3>1. active' = [j \in D \ {id} |-> ActiveOf(timers'[j])]
      BY <2>1, ActiveNextIs
    <3> QED
      BY <2>2, <3>1, ActiveIs
  <2>5. Service!Stop(id)
    BY <1>2, <2>3, <2>4, ActiveIs DEF Service!Stop
  <2>6. TimeoutsFit'
    BY <2>1 DEF TimeoutsFit, SameBut, Current
  <2> QED
    BY <2>5, <2>6 DEF Service!Next
<1> QED
  BY <1>1, <1>2

\* A round of checkTimeout fires a timer of the service that is due.
LEMMA FireRefines ==
    ASSUME TimerInv, TimeoutsFit, checkTimeoutFire
    PROVE  TimeoutsFit' /\ [Service!Next]_Service!vars
<1> DEFINE id == heap[1]
           D == DOMAIN timers
           r == timers[id]
<1>1. /\ id \in D /\ SameBut(Current, Current', id)
      /\ IF r.call_times = 1
         THEN DOMAIN timers' = D \ {id}
         ELSE DOMAIN timers' = D /\ Matches(Current', id, Again(r))
  BY FireStep DEF TimerInv
<1>2. \A i \in D \ {id} : ActiveOf(timers'[i]) = ActiveOf(timers[i])
  BY <1>1, OthersActive
<1>3. id \in 1..MaxId /\ r \in TimerType /\ r.timeout < IntMod \div 2
  BY <1>1, TimerInvFacts DEF TimerInv, TimeoutsFit
<1>4. /\ phase = "check" /\ phase' = "callback" /\ UNCHANGED check_now
      /\ Service!Due(check_now, active[id].deadline)
  <2>1. active[id].deadline = r.timestamp
    BY <1>1, ActiveIs DEF ActiveOf
  <2>2. ~(Ms(check_now) < Ms(r.timestamp)) /\ phase = "check" /\ phase' = "callback"
        /\ UNCHANGED check_now
    BY DEF checkTimeoutFire, millisecondLess
  <2>3. Ms(check_now) \in Int /\ Ms(r.timestamp) \in Int
    <3>1. check_now \in Int /\ r.timestamp \in Int
      BY <1>3, TimerAssumption DEF TimerInv, TimerType
    <3> QED
      BY <3>1, MsAdd
  <2> QED
    BY <2>1, <2>2, <2>3 DEF Service!Due, Ms
<1>5. \A j \in DOMAIN active : active[id].deadline <= active[j].deadline
  BY <1>1, ActiveIs, TopIsEarliest DEF ActiveOf
<1>6. CASE r.call_times = 1
  <2>1. active' = [j \in D \ {id} |-> active[j]]
    <3>1. active' = [j \in D \ {id} |-> ActiveOf(timers'[j])]
      BY <1>1, <1>6, ActiveNextIs
    <3> QED
      BY <1>2, <3>1, ActiveIs
  <2>2. active[id].call_times = 1
    BY <1>1, <1>6, ActiveIs DEF ActiveOf
  <2>3. Service!Fire(id)
    BY <1>1, <1>4, <1>5, <2>1, <2>2, ActiveIs DEF Service!Fire
  <2>4. TimeoutsFit'
    BY <1>1, <1>6 DEF TimeoutsFit, SameBut, Current
  <2> QED
    BY <1>3, <2>3, <2>4 DEF Service!Next
<1>7. CASE r.call_times # 1
  <2> DEFINE c == IF r.call_times > 0 THEN r.call_times - 1 ELSE r.call_times
             d == r.timestamp + r.timeout * TicksPerMs
  <2>1. DOMAIN timers' = D /\ Matches(Current', id, Again(r))
    BY <1>1, <1>7
  <2>2. getTimeout(r.timeout) = r.timeout
    BY <1>3, getTimeoutExact DEF TimerType
  <2>3. /\ timers'[id].timestamp = d
        /\ timers'[id].timeout = r.timeout
        /\ timers'[id].call_times = c
    BY <1>3, <2>1, <2>2, AgainType DEF Matches, Current
  <2>4. ActiveOf(timers'[id]) = [deadline |-> d, timeout |-> r.timeout, call_times |-> c]
    BY <2>3 DEF ActiveOf
  <2>5. active[id] = [deadline |-> r.timestamp, timeout |-> r.timeout,
                      call_times |-> r.call_times]
    BY <1>1, ActiveIs DEF ActiveOf
  <2> DEFINE after == [active EXCEPT
                        ![id].deadline = @ + active[id].timeout * TicksPerMs,
                        ![id].call_times = IF @ > 0 THEN @ - 1 ELSE @]
  <2>6. after = [j \in D |-> IF j = id
                    THEN [deadline |-> d, timeout |-> r.timeout, call_times |-> c]
                    ELSE active[j]]
    <3> DEFINE s == [deadline |-> r.timestamp, timeout |-> r.timeout,
                     call_times |-> r.call_times]
               x == active[id].timeout * TicksPerMs
               s1 == [s EXCEPT !.deadline = @ + x]
               s2 == [s1 EXCEPT !.call_times = IF @ > 0 THEN @ - 1 ELSE @]
               A1 == [active EXCEPT ![id].deadline = @ + x]
    <3>1. active = [j \in D |-> active[j]] /\ active[id] = s /\ id \in D
      BY <1>1, <2>5, ActiveIs
    <3>2. s2 = [deadline |-> d, timeout |-> r.timeout, call_times |-> c]
      <4>1. s.timeout = r.timeout
        OBVIOUS
      <4>2. r.timestamp + x = d
        BY <3>1, <4>1
      <4> HIDE DEF x, d, r
      <4>3. s1 = [deadline |-> d, timeout |-> r.timeout, call_times |-> r.call_times]
        BY <4>2
      <4> HIDE DEF s1
      <4> QED
        BY <4>3
    <3>3. after = [A1 EXCEPT ![id].call_times = IF @ > 0 THEN @ - 1 ELSE @]
      OBVIOUS
    <3> HIDE DEF D, id, s, x, c, d, r, after
    <3>4. A1 = [j \in D |-> IF j = id THEN s1 ELSE active[j]]
      BY <3>1
    <3>5. A1[id] = s1
      BY <3>1, <3>4
    <3> HIDE DEF s1, A1
    <3>6. after = [j \in D |-> IF j = id THEN s2 ELSE active[j]]
      BY <3>1, <3>3, <3>4, <3>5
    <3> QED
      BY <3>2, <3>6
  <2> HIDE DEF c, d
  <2>7. active' = [j \in D |-> IF j = id
                    THEN [deadline |-> d, timeout |-> r.timeout, call_times |-> c]
                    ELSE active[j]]
    <3>1. active' = [j \in D |-> ActiveOf(timers'[j])]
      BY <2>1, ActiveNextIs
    <3>2. \A j \in D \ {id} : ActiveOf(timers'[j]) = active[j]
      BY <1>2, ActiveIs
    <3> HIDE DEF D, id, r
    <3> QED
      BY <2>4, <3>1, <3>2
  <2>8. active' = after
    BY <2>6, <2>7
  <2>9. active[id].call_times # 1
    BY <1>7, <2>5
  <2> HIDE DEF after
  <2>10. Service!Fire(id)
    BY <1>1, <1>4, <1>5, <2>8, <2>9, ActiveIs DEF Service!Fire, after
  <2>11. TimeoutsFit'
    BY <1>1, <1>3, <2>1, <2>3 DEF TimeoutsFit, SameBut, Current
  <2> QED
    BY <1>3, <2>10, <2>11 DEF Service!Next
<1> QED
  BY <1>6, <1>7

\* checkTimeout returns when nothing is due.
LEMMA ReturnRefines ==
    ASSUME TimerInv, checkTimeoutReturn
    PROVE  Service!EndPass
<1>1. ASSUME NEW i \in DOMAIN active PROVE ~Service!Due(check_now, active[i].deadline)
  <2>1. i \in DOMAIN timers /\ active[i].deadline = timers[i].timestamp
    BY ActiveIs DEF ActiveOf
  <2>2. /\ heap # <<>> /\ heap[1] \in DOMAIN timers
        /\ timers[heap[1]].timestamp <= timers[i].timestamp
    BY <2>1, TopIsEarliest
  <2>3. Ms(check_now) < Ms(timers[heap[1]].timestamp)
    BY <2>2 DEF checkTimeoutReturn, millisecondLess
  <2>4. /\ check_now \in Int /\ timers[heap[1]].timestamp \in Int
        /\ timers[i].timestamp \in Int
    <3>1. check_now \in Int
      BY TimerAssumption DEF TimerInv
    <3>2. \A j \in DOMAIN timers : timers[j].timestamp \in Int
      BY TimerInvFacts DEF TimerType
    <3> QED
      BY <2>1, <2>2, <3>1, <3>2
  <2> DEFINE top == timers[heap[1]].timestamp
             ts == timers[i].timestamp
  <2> HIDE DEF top, ts
  <2>5. Ms(top) <= Ms(ts) /\ Ms(top) \in Int /\ Ms(ts) \in Int /\ Ms(check_now) \in Int
    BY <2>2, <2>4, MsMonotonic, MsAdd DEF top, ts
  <2>6. Ms(check_now) < Ms(ts)
    BY <2>3, <2>5 DEF top
  <2> QED
    BY <2>1, <2>5, <2>6 DEF Service!Due, Ms, ts
<1>2. UNCHANGED timers
  BY DEF checkTimeoutReturn
<1> QED
  BY <1>1, <1>2, ActiveIs, ActiveNextIs DEF checkTimeoutReturn, Service!EndPass

\* Every operation is a step of the service.
LEMMA TimerStepRefines ==
    RequestsFit /\ TimerInv /\ TimeoutsFit /\ [TimerNext]_timerVars
        => TimeoutsFit' /\ [Service!Next]_Service!vars
<1> SUFFICES ASSUME RequestsFit, TimerInv, TimeoutsFit, [TimerNext]_timerVars
             PROVE  TimeoutsFit' /\ [Service!Next]_Service!vars
  OBVIOUS
<1>1. ASSUME NEW req \in Requests, NEW now \in Ticks, addTimer(req, now)
      PROVE  TimeoutsFit' /\ [Service!Next]_Service!vars
  BY <1>1, StartRefines
<1>2. ASSUME NEW id \in 1..MaxId, removeTimer(id)
      PROVE  TimeoutsFit' /\ [Service!Next]_Service!vars
  BY <1>2, StopRefines
<1>3. ASSUME NEW now \in Ticks, checkTimeoutBegin(now)
      PROVE  TimeoutsFit' /\ [Service!Next]_Service!vars
  <2>1. Service!BeginPass(now)
    BY <1>3 DEF checkTimeoutBegin, Service!BeginPass, active
  <2> QED
    BY <1>3, <2>1 DEF checkTimeoutBegin, TimeoutsFit, Service!Next
<1>4. CASE checkTimeoutFire
  BY <1>4, FireRefines
<1>5. CASE callbackReturns
  <2>1. Service!CallbackReturns
    BY <1>5 DEF callbackReturns, Service!CallbackReturns, active
  <2> QED
    BY <1>5, <2>1 DEF callbackReturns, TimeoutsFit, Service!Next
<1>6. CASE checkTimeoutReturn
  <2>1. Service!EndPass
    BY <1>6, ReturnRefines
  <2> QED
    BY <1>6, <2>1 DEF checkTimeoutReturn, TimeoutsFit, Service!Next
<1>7. CASE UNCHANGED timerVars
  BY <1>7 DEF timerVars, TimeoutsFit, Service!vars, active
<1> QED
  BY <1>1, <1>2, <1>3, <1>4, <1>5, <1>6, <1>7 DEF TimerNext, CheckTimeout

\* A new heap is a service without timers.
LEMMA TimerInitRefines == TimerInit => Service!Init /\ TimeoutsFit
<1> SUFFICES ASSUME TimerInit PROVE Service!Init /\ TimeoutsFit
  OBVIOUS
<1>1. timers = [i \in {} |-> 0] /\ DOMAIN timers = {}
  BY DEF TimerInit
<1>2. active = [i \in {} |-> 0]
  BY <1>1 DEF active
<1> QED
  BY <1>1, <1>2 DEF TimerInit, Service!Init, TimeoutsFit

\* The heap implements TimerService: a pass fires due timers in deadline order, each
\* the number of times asked for and at the deadline plus a multiple of its timeout,
\* whatever its callbacks start and stop, and ends with none due.
THEOREM HeapImplementsTimerService ==
    ASSUME RequestsFit
    PROVE  TimerSpec => ImplementsTimerService
<1>1. TimerInit => Service!Init /\ TimeoutsFit
  BY TimerInitRefines
<1>2. TimerInv /\ TimeoutsFit /\ [TimerNext]_timerVars
        => TimeoutsFit' /\ [Service!Next]_Service!vars
  BY RequestsFit, TimerStepRefines
<1> QED
  BY <1>1, <1>2, TimerInvariant, PTL DEF TimerSpec, ImplementsTimerService, Service!Spec
=============================================================================
