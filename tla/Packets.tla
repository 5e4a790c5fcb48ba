------------------------------- MODULE Packets -------------------------------
(* What every protocol is built on: packets written into buffers lent by a pool   *)
(* (Buffer.cpp, PoolBuffers.cpp, PoolBuffer.h, PacketWriter.h), the numbers and   *)
(* texts put in them and read back (BinaryWriter.cpp, BinaryReader.cpp), and the   *)
(* seal of an RTMFP packet: checksum, cipher and scrambled identifier (RTMFP.cpp). *)
(* A word is the sequence of its bytes, the least significant first, which is how  *)
(* the builds keep it in memory; a value on groups of seven bits is a number. The  *)
(* two minutes after which the pool gives memory back may have passed or not.      *)
EXTENDS Integers, Sequences, FiniteSets, SequencesExt, Bitwise

CONSTANTS Names,      \* the packets
          Kept,       \* the items written: <<kind, its value as a sequence>>
          Numbers,    \* numbers written on groups of seven bits
          FarIds,     \* the identifiers packets are sealed for, words of four bytes
          Flips,      \* TRUE: the bytes of words are reversed (network order)
          Start,      \* capacity of a buffer of the pool
          Maximum,    \* capacity over which the pool keeps no buffer
          MaxItems, MaxBuffers

PacketsAssumption ==
    /\ Flips \in BOOLEAN
    /\ Start \in Nat \ {0} /\ Maximum \in Nat /\ MaxItems \in Nat /\ MaxBuffers \in Nat
    /\ \A far \in FarIds : far \in [1..4 -> 0..255]

VARIABLES pool,    \* the buffers waiting, the first to be lent first
          memory,  \* each buffer alive
          held,    \* the buffer of each packet, 0 when it has none
          items,   \* what was written in each packet and is still there
          sealed   \* the identifier each packet was sealed for, or << >>

packetVars == <<pool, memory, held, items, sealed>>

Min2(a, b) == IF a < b THEN a ELSE b

(* ------------------------------ numbers and texts ----------------------------- *)
(* Each way of writing stands beside the one that reads it; a reader returns what  *)
(* it read and the bytes it left. Words: reversed unless the order is the builds'. *)
Flip(word) == IF Flips THEN Reverse(word) ELSE word

(* Get7BitValueSize: groups of seven bits of a value. *)
Groups(n) == 1 + Cardinality({k \in 1..4 : n >= 128 ^ k})

(* write7BitEncoded: the lowest group first, each but the last with its high bit. *)
Encoded(n) == [i \in 1..Groups(n) |->
                  ((n \div 128 ^ (i - 1)) % 128) + IF i < Groups(n) THEN 128 ELSE 0]

(* write7BitLongValue: the highest group first (values of at most five groups). *)
LongValue(n) == [i \in 1..Groups(n) |->
                    ((n \div 128 ^ (Groups(n) - i)) % 128) + IF i < Groups(n) THEN 128 ELSE 0]

(* write7BitValue: the same up to three groups; then four bytes, the last of them *)
(* with all its eight bits.                                                        *)
Value(n) == IF Groups(n) < 4 THEN LongValue(n)
            ELSE [i \in 1..4 |-> IF i = 4 THEN n % 256 ELSE 128 + ((n \div 2 ^ (29 - 7 * i)) % 128)]

(* Bytes with their high bit before the first without it, at most `most`; a reader *)
(* at its end reads zeros.                                                         *)
Continued(bytes, most) ==
    Cardinality({i \in 1..Min2(most, Len(bytes)) : \A j \in 1..i : bytes[j] >= 128})

ReadEncoded(bytes) ==
    LET n == Continued(bytes, 5)
    IN  [value |-> FoldLeft(LAMBDA sum, i : sum + ((bytes[i] % 128) * 128 ^ (i - 1)), 0,
                            [i \in 1..Min2(n + 1, Len(bytes)) |-> i]),
         rest |-> SubSeq(bytes, n + 2, Len(bytes))]

(* read7BitValue (most = 3) and read7BitLongValue (most = 8). *)
ReadGroups(bytes, most) ==
    LET n    == Continued(bytes, most)
        high == FoldLeft(LAMBDA sum, b : sum * 128 + (b % 128), 0, SubSeq(bytes, 1, n))
    IN  [value |-> high * (IF n < most THEN 128 ELSE 256) + (IF n < Len(bytes) THEN bytes[n + 1] ELSE 0),
         rest |-> SubSeq(bytes, n + 2, Len(bytes))]

Size16(text) == Flip(<<Len(text) % 256, Len(text) \div 256>>)

(* The bytes of an item. "hole": next(), bytes left as the memory has them. *)
Put(item) ==
    LET v == item[2]
    IN  CASE item[1] = "word"     -> Flip(v)
          [] item[1] = "encoded"  -> Encoded(v[1])
          [] item[1] = "value"    -> Value(v[1])
          [] item[1] = "long"     -> LongValue(v[1])
          [] item[1] = "string8"  -> <<Len(v) % 256>> \o v
          [] item[1] = "string16" -> Size16(v) \o v
          [] item[1] = "string"   -> Encoded(Len(v)) \o v
          [] OTHER                -> v

(* readRaw: no more than what is left. *)
Take(bytes, n) == [value |-> SubSeq(bytes, 1, Min2(n, Len(bytes))), rest |-> SubSeq(bytes, n + 1, Len(bytes))]

OneNumber(r) == [r EXCEPT !.value = <<@>>]

(* What reading an item of this kind and size gives. *)
Get(item, bytes) ==
    CASE item[1] = "word"     -> LET r == Take(bytes, Len(item[2])) IN [r EXCEPT !.value = Flip(@)]
      [] item[1] = "encoded"  -> OneNumber(ReadEncoded(bytes))
      [] item[1] = "value"    -> OneNumber(ReadGroups(bytes, 3))
      [] item[1] = "long"     -> OneNumber(ReadGroups(bytes, 8))
      [] item[1] = "string8"  -> Take(Tail(bytes), Head(bytes))
      [] item[1] = "string16" -> LET size == Flip(SubSeq(bytes, 1, 2))
                                 IN  Take(SubSeq(bytes, 3, Len(bytes)), size[1] + 256 * size[2])
      [] item[1] = "string"   -> LET size == ReadEncoded(bytes) IN Take(size.rest, size.value)
      [] OTHER                -> Take(bytes, Len(item[2]))

(* ---------------------------------- buffers ----------------------------------- *)
(* [size: of the memory, offset: bytes clipped, capacity: what is after them,       *)
(* content]. Memory out of the content holds zeros or what a former packet left:     *)
(* dirt, all the same.                                                              *)
Dirt    == 170
Dirty(n) == [i \in 1..n |-> Dirt]

(* Buffer(size): 64 bytes when no size is asked for. *)
New(size) ==
    LET memorySize == IF size = 0 THEN Start ELSE size
    IN  [size |-> memorySize, offset |-> 0, capacity |-> memorySize, content |-> Dirty(size)]

Doubled[c \in Nat, size \in Nat] == IF size > c THEN Doubled[2 * c, size] ELSE c

(* resize: within its capacity only the size changes, and what the memory held is *)
(* seen again; beyond, the capacity is doubled until it is enough and the content  *)
(* moves to new memory, clip forgotten.                                            *)
Resized(b, size, preserve) ==
    LET kept == IF size <= b.capacity \/ preserve THEN b.content ELSE << >>
    IN  [size |-> IF size <= b.capacity THEN b.size ELSE Doubled[b.capacity, size],
         offset |-> IF size <= b.capacity THEN b.offset ELSE 0,
         capacity |-> Doubled[b.capacity, size],
         content |-> [i \in 1..size |-> IF i \in DOMAIN kept THEN kept[i] ELSE Dirt]]

(* clip: the first bytes leave the window. *)
Clipped(b, n) ==
    LET cut == Min2(n, Len(b.content))
    IN  [size |-> b.size, offset |-> b.offset + cut, capacity |-> b.capacity - cut,
         content |-> SubSeq(b.content, cut + 1, Len(b.content))]

(* clear: empty, with the whole memory again. *)
Cleared(b) == [size |-> b.size, offset |-> 0, capacity |-> b.capacity + b.offset, content |-> << >>]

(* The bytes over those of the content from a place of it, and never past its end: *)
(* a BinaryWriter on a packet's own bytes.                                         *)
Over(b, place, bytes) ==
    [b EXCEPT !.content = [i \in DOMAIN @ |-> IF i - place \in DOMAIN bytes THEN bytes[i - place] ELSE @[i]]]

(* writeRaw: the content longer, the bytes at its end. *)
Appended(b, bytes) == Over(Resized(b, Len(b.content) + Len(bytes), TRUE), Len(b.content), bytes)

(* ----------------------------------- the pool ---------------------------------- *)
Alive == DOMAIN memory
Free  == CHOOSE id \in 1..MaxBuffers : id \notin Alive

(* The bound: an identifier is free for the buffer that is made by lending. *)
Room(size) == Alive # 1..MaxBuffers \/ (size <= Maximum /\ Len(pool) > 1)

(* beginBuffer: what the pool and the memory become and the buffer lent. A buffer *)
(* too large for the pool is new; the first of the pool otherwise, and the pool is *)
(* never left empty.                                                               *)
Lent(size) ==
    IF size > Maximum
    THEN [id |-> Free, pool |-> pool, memory |-> [i \in Alive \union {Free} |-> IF i = Free THEN New(size) ELSE memory[i]]]
    ELSE LET id   == Head(pool)
             left == Tail(pool)
             b    == IF size > 0 THEN Resized(memory[id], size, FALSE) ELSE memory[id]
         IN  IF left = << >>
             THEN [id |-> id, pool |-> <<Free>>,
                   memory |-> [i \in Alive \union {Free} |->
                                  IF i = Free THEN New(0) ELSE IF i = id THEN b ELSE memory[i]]]
             ELSE [id |-> id, pool |-> left, memory |-> [memory EXCEPT ![id] = b]]

(* The buffer of a packet, lent at its first use. *)
Using(p) == IF held[p] # 0 THEN [id |-> held[p], pool |-> pool, memory |-> memory] ELSE Lent(0)

(* endBuffer: given back cleared, unless it has grown too large or the pool was not *)
(* empty for two minutes (old), when it is deleted. The capacity is taken before    *)
(* clear() undoes a clip: a buffer clipped enough stays, however large it has grown. *)
Returned(mem, id, old) ==
    IF mem[id].capacity > Maximum \/ old
    THEN /\ memory' = [i \in DOMAIN mem \ {id} |-> mem[i]]
         /\ pool' = pool
    ELSE /\ memory' = [mem EXCEPT ![id] = Cleared(@)]
         /\ pool' = Append(pool, id)

(* ---------------------------------- operations --------------------------------- *)
Init ==
    /\ pool = <<1>>
    /\ memory = [id \in {1} |-> New(0)]
    /\ held = [p \in Names |-> 0]
    /\ items = [p \in Names |-> << >>]
    /\ sealed = [p \in Names |-> << >>]

(* The items there are: the bound. *)
Written == Cardinality(UNION {{<<p, i>> : i \in DOMAIN items[p]} : p \in Names})

(* An item at the end of a packet; a hole only at its head, for a header. *)
Head8 == [i \in 1..8 |-> 0]
Write(p, item) ==
    /\ sealed[p] = << >> /\ (item[1] = "hole" => items[p] = << >>) /\ Written < MaxItems /\ (held[p] # 0 \/ Room(0))
    /\ LET u == Using(p)
           b == u.memory[u.id]
       IN  /\ held' = [held EXCEPT ![p] = u.id]
           /\ pool' = u.pool
           /\ memory' = [u.memory EXCEPT ![u.id] =
                            IF item[1] = "hole" THEN Resized(b, Len(b.content) + Len(item[2]), TRUE)
                            ELSE Appended(b, Put(item))]
    /\ items' = [items EXCEPT ![p] = Append(@, item)]
    /\ UNCHANGED sealed

(* A hole left at the head of a packet written once the rest is known. *)
Fill(p, word) ==
    /\ sealed[p] = << >> /\ items[p] # << >> /\ items[p][1][1] = "hole" /\ Len(items[p][1][2]) >= 4
    /\ LET first == items[p][1]
       IN  /\ memory' = [memory EXCEPT ![held[p]] = Over(@, 0, Flip(word))]
           /\ items' = [items EXCEPT ![p] = <<<<"word", word>>>>
                            \o (IF Len(first[2]) = 4 THEN << >>
                                ELSE <<<<"hole", SubSeq(first[2], 5, Len(first[2]))>>>>) \o Tail(@)]
    /\ UNCHANGED <<pool, held, sealed>>

(* A PoolBuffer with its size, filled by a socket: bytes that arrived. *)
Receive(p, bytes) ==
    /\ held[p] = 0 /\ Written < MaxItems /\ Room(Len(bytes))
    /\ LET u == Lent(Len(bytes))
       IN  /\ held' = [held EXCEPT ![p] = u.id]
           /\ pool' = u.pool
           /\ memory' = [u.memory EXCEPT ![u.id] = Over(@, 0, bytes)]
    /\ items' = [items EXCEPT ![p] = <<<<"raw", bytes>>>>]
    /\ UNCHANGED sealed

(* clip: what a header turns out not to need is left out; not a content that fills *)
(* its memory, after which no resize would end.                                     *)
Clip(p) ==
    /\ sealed[p] = << >> /\ Len(items[p]) > 1 /\ items[p][1] = <<"hole", Head8>>
    /\ memory' = [memory EXCEPT ![held[p]] = Clipped(@, 2)]
    /\ items' = [items EXCEPT ![p] = <<<<"hole", SubSeq(Head8, 3, 8)>>>> \o Tail(@)]
    /\ UNCHANGED <<pool, held, sealed>>

(* clear(), or its end: emptied, and its buffer given back. *)
Clear(p, old) ==
    /\ held[p] # 0
    /\ Returned([memory EXCEPT ![held[p]] = Resized(@, 0, TRUE)], held[p], old)
    /\ held' = [held EXCEPT ![p] = 0]
    /\ items' = [items EXCEPT ![p] = << >>]
    /\ sealed' = [sealed EXCEPT ![p] = << >>]

(* clear(size): cut after an item. *)
Truncate(p) ==
    /\ sealed[p] = << >> /\ Len(items[p]) > 1
    /\ LET last == items[p][Len(items[p])]
           n    == IF last[1] = "hole" THEN Len(last[2]) ELSE Len(Put(last))
       IN  memory' = [memory EXCEPT ![held[p]] = Resized(@, Len(@.content) - n, TRUE)]
    /\ items' = [items EXCEPT ![p] = Front(@)]
    /\ UNCHANGED <<pool, held, sealed>>

(* Two packets exchange their buffers. *)
Swap(p, q) ==
    /\ p # q /\ held[p] # 0
    /\ held' = [held EXCEPT ![p] = held[q], ![q] = held[p]]
    /\ items' = [items EXCEPT ![p] = items[q], ![q] = items[p]]
    /\ sealed' = [sealed EXCEPT ![p] = sealed[q], ![q] = sealed[p]]
    /\ UNCHANGED <<pool, memory>>

(* ------------------------------- RTMFP's seal ---------------------------------- *)
(* CheckSum: the sum of the words of two bytes, a last byte alone, with its        *)
(* carries added, complemented.                                                    *)
CheckSum(bytes) ==
    LET words == [i \in 1..((Len(bytes) + 1) \div 2) |->
                     IF 2 * i > Len(bytes) THEN bytes[2 * i - 1] ELSE bytes[2 * i - 1] * 256 + bytes[2 * i]]
        sum   == FoldLeft(LAMBDA s, word : s + word, 0, words)
        once  == (sum \div 65536) + (sum % 65536)
        n     == 65535 - ((once + (once \div 65536)) % 65536)
    IN  <<n \div 256, n % 256>>

Mixed(a, b) == [i \in DOMAIN a |-> a[i] ^^ b[i]]

(* The cipher, external: every byte depends on its key and on those before it. *)
Cipher(bytes, key) ==
    FoldLeft(LAMBDA out, b : Append(out, (b + key + IF out = << >> THEN 0 ELSE out[Len(out)]) % 256), << >>, bytes)
Decipher(bytes, key) ==
    [i \in DOMAIN bytes |-> (bytes[i] - key + 512 - IF i = 1 THEN 0 ELSE bytes[i - 1]) % 256]

(* Encode: padded so that what is ciphered is made of blocks of sixteen bytes, its *)
(* checksum in its bytes 5 and 6, ciphered after the fourth byte.                  *)
Padded(bytes) == bytes \o [i \in 1..((4 - Len(bytes)) % 16) |-> 255]
Signed(bytes) == SubSeq(bytes, 1, 4) \o CheckSum(SubSeq(bytes, 7, Len(bytes))) \o SubSeq(bytes, 7, Len(bytes))
Encode(bytes, key) ==
    LET plain == Signed(Padded(bytes))
    IN  SubSeq(plain, 1, 4) \o Cipher(SubSeq(plain, 5, Len(plain)), key)

(* Pack: the receiver's identifier mixed with the two first ciphered words. *)
Pack(bytes, far) ==
    Mixed(Mixed(SubSeq(bytes, 5, 8), SubSeq(bytes, 9, 12)), Reverse(far)) \o SubSeq(bytes, 5, Len(bytes))

Unpack(bytes) == Reverse(Mixed(Mixed(SubSeq(bytes, 1, 4), SubSeq(bytes, 5, 8)), SubSeq(bytes, 9, 12)))

(* Decode: what the receiver has after deciphering, and whether its sum is right. *)
Deciphered(bytes, key) == SubSeq(bytes, 1, 4) \o Decipher(SubSeq(bytes, 5, Len(bytes)), key)
ReadCRC(bytes)         == SubSeq(bytes, 5, 6) = CheckSum(SubSeq(bytes, 7, Len(bytes)))

Key == 77

(* A packet whose head is the hole of its header sent: Encode, then Pack. *)
Seal(p, far) ==
    /\ sealed[p] = << >> /\ Len(items[p]) > 1 /\ items[p][1][1] = "hole" /\ Len(items[p][1][2]) >= 6
    /\ LET b    == memory[held[p]]
           sent == Pack(Encode(b.content, Key), far)
       IN  memory' = [memory EXCEPT ![held[p]] = Over(Resized(b, Len(sent), TRUE), 0, sent)]
    /\ sealed' = [sealed EXCEPT ![p] = far]
    /\ UNCHANGED <<pool, held, items>>

Received == {item[2] : item \in {i \in Kept : i[1] = "raw"}}
Words    == {item[2] : item \in {i \in Kept : i[1] = "word" /\ Len(i[2]) = 4}}

Next ==
    \E p \in Names :
        \/ \E item \in Kept : Write(p, item)
        \/ \E word \in Words : Fill(p, word)
        \/ \E bytes \in Received : Receive(p, bytes)
        \/ Clip(p)
        \/ \E old \in BOOLEAN : Clear(p, old)
        \/ Truncate(p)
        \/ \E q \in Names : Swap(p, q)
        \/ \E far \in FarIds : Seal(p, far)

(* --------------------------------- properties ---------------------------------- *)
Held == {p \in Names : held[p] # 0}

(* A window never passes its memory, and the pool has a buffer to lend. *)
TypeOK ==
    /\ Len(pool) > 0 /\ \A i \in DOMAIN pool : pool[i] \in Alive
    /\ \A id \in Alive : Len(memory[id].content) <= memory[id].capacity
    /\ \A p \in Names : held[p] \in Alive \union {0} /\ (held[p] = 0 => items[p] = << >> /\ sealed[p] = << >>)

(* What a packet's items give when a reader reads them one after the other. *)
ReadAll(p, bytes) ==
    FoldLeft(LAMBDA r, item :
                 LET g == Get(item, r.rest)
                 IN  [right |-> r.right /\ (item[1] = "hole" \/ g.value = item[2]), rest |-> g.rest],
             [right |-> TRUE, rest |-> bytes], items[p])

(* Each number comes back from each of its writings (the short ones up to 2^29 - 1). *)
NumbersComeBack ==
    \A n \in Numbers :
        /\ ReadEncoded(Encoded(n)) = [value |-> n, rest |-> << >>]
        /\ ReadGroups(LongValue(n), 8) = [value |-> n, rest |-> << >>]
        /\ n < 2 ^ 29 => ReadGroups(Value(n), 3) = [value |-> n, rest |-> << >>]

(* A buffer serves one packet, or waits in the pool once, empty and whole, and its  *)
(* window ends where its memory does; a packet gives back the items written in it   *)
(* and nothing more, whatever was written, cut, clipped, grown or held before by     *)
(* its buffer; and a sealed packet names its receiver before it is deciphered,       *)
(* passes its checksum, gives its items back and, with any byte after the checksum   *)
(* altered, is refused. Numbers read back as well.                                    *)
PacketsSound ==
    /\ Cardinality(Alive) = 1 => NumbersComeBack
    /\ \A p, q \in Held : p # q => held[p] # held[q]
    /\ \A i, j \in DOMAIN pool : i # j => pool[i] # pool[j]
    /\ Alive = {held[p] : p \in Held} \union {pool[i] : i \in DOMAIN pool}
    /\ \A i \in DOMAIN pool :
          /\ \A p \in Held : held[p] # pool[i]
          /\ memory[pool[i]].content = << >> /\ memory[pool[i]].offset = 0
    /\ \A id \in Alive : memory[id].offset + memory[id].capacity = memory[id].size
    /\ \A p \in Names :
          LET bytes == IF held[p] = 0 THEN << >> ELSE memory[held[p]].content
              plain == Deciphered(bytes, Key)
              read  == ReadAll(p, IF sealed[p] = << >> THEN bytes ELSE plain)
          IN  /\ read.right
              /\ sealed[p] = << >> => read.rest = << >>
              /\ sealed[p] # << >> =>
                    /\ Unpack(bytes) = sealed[p] /\ ReadCRC(plain)
                    /\ Len(bytes) % 16 = 4 /\ \A i \in DOMAIN read.rest : read.rest[i] = 255
                    /\ \A i \in 7..Len(plain) : ~ReadCRC([plain EXCEPT ![i] = (@ + 1) % 256])
=============================================================================
