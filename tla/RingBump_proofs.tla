-------------------------- MODULE RingBump_proofs --------------------------
(***************************************************************************)
(* Proofs about RingBump, for every block size, lifetime and request.      *)
(***************************************************************************)
EXTENDS RingBump, TLAPS

(* Rounding up stays in the naturals and never rounds down.                *)
LEMMA AlignUp ==
  ASSUME NEW x \in Nat, NEW a \in Nat \ {0}
  PROVE  align(x, a) \in Nat /\ align(x, a) >= x
<1> DEFINE y == x + a - 1
           q == y \div a
           r == y % a
<1>1. y = a * q + r /\ q \in Int /\ r \in 0 .. (a - 1)
  OBVIOUS
<1>2. align(x, a) = q * a
  BY DEF align
<1> HIDE DEF q, r
<1>3. q * a = a * q /\ a * q \in Int
  BY <1>1
<1>4. a * q = x + a - 1 - r
  BY <1>1, <1>3
<1> QED BY <1>1, <1>2, <1>3, <1>4

(* What dropping the oldest blocks leaves in the queue.                    *)
LEMMA DropEffect ==
  ASSUME fifo \in Seq(Block), NEW n \in 0 .. Len(fifo)
  PROVE  /\ Drop(n) \in Seq(Block)
         /\ Len(Drop(n)) = Len(fifo) - n
         /\ \A i \in 1 .. (Len(fifo) - n) : Drop(n)[i] = fifo[i + n]
BY DEF Drop

(* The blocks kept by free_blocks are those behind the ones it pops; only  *)
(* the age of the first of them may change, and the popped ones were last  *)
(* used by chunks that coherent_id covers.                                 *)
LEMMA FreeEffect ==
  ASSUME TypeOK, NEW c \in Nat, free_blocks(c)
  PROVE  /\ fifo' \in Seq(Block) /\ blocks' = blocks
         /\ \E n \in 0 .. Len(fifo) :
              /\ \A i \in 1 .. n : fifo[i].last_used_seq_id <= c
              /\ Len(fifo') = Len(fifo) - n
              /\ \A i \in 1 .. Len(fifo') :
                   /\ fifo'[i].id = fifo[i + n].id
                   /\ fifo'[i].allocated_size = fifo[i + n].allocated_size
                   /\ fifo'[i].total_size = fifo[i + n].total_size
                   /\ fifo'[i].last_used_seq_id = fifo[i + n].last_used_seq_id
<1>1. PICK n \in 0 .. Len(fifo) :
        /\ \A i \in 1 .. n : Freed(fifo[i], c)
        /\ fifo' = IF n < Len(fifo) /\ Complete(fifo[n + 1], c)
                   THEN [Drop(n) EXCEPT ![1].inc_time_to_live = @ + 1]
                   ELSE Drop(n)
        /\ blocks' = blocks
  BY DEF free_blocks
<1>2. /\ Drop(n) \in Seq(Block) /\ Len(Drop(n)) = Len(fifo) - n
      /\ \A i \in 1 .. (Len(fifo) - n) : Drop(n)[i] = fifo[i + n]
  BY DropEffect DEF TypeOK
<1>3. \A i \in 1 .. n : fifo[i].last_used_seq_id <= c
  BY <1>1 DEF Freed, Complete
<1> DEFINE d == Drop(n)
<1> HIDE DEF d
<1>4. CASE n < Len(fifo) /\ Complete(fifo[n + 1], c)
  <2>1. /\ d \in Seq(Block) /\ Len(d) > 0
        /\ fifo' = [d EXCEPT ![1] = [d[1] EXCEPT !.inc_time_to_live = @ + 1]]
    BY <1>1, <1>2, <1>4 DEF d, TypeOK
  <2> DEFINE b == [d[1] EXCEPT !.inc_time_to_live = @ + 1]
  <2>2. /\ b \in Block /\ b.id = d[1].id
        /\ b.allocated_size = d[1].allocated_size
        /\ b.total_size = d[1].total_size
        /\ b.last_used_seq_id = d[1].last_used_seq_id
    <3>1. d[1] \in Block
      BY <2>1
    <3> QED BY <3>1 DEF Block
  <2> HIDE DEF b
  <2>3. fifo' = [d EXCEPT ![1] = b]
    BY <2>1 DEF b
  <2>4. /\ fifo' \in Seq(Block) /\ Len(fifo') = Len(d)
        /\ \A i \in 1 .. Len(d) : fifo'[i] = IF i = 1 THEN b ELSE d[i]
    BY <2>1, <2>2, <2>3
  <2>5. \A i \in 1 .. Len(d) : d[i] = fifo[i + n]
    BY <1>2 DEF d
  <2>6. \A i \in 1 .. Len(fifo') :
          /\ fifo'[i].id = fifo[i + n].id
          /\ fifo'[i].allocated_size = fifo[i + n].allocated_size
          /\ fifo'[i].total_size = fifo[i + n].total_size
          /\ fifo'[i].last_used_seq_id = fifo[i + n].last_used_seq_id
    <3> SUFFICES ASSUME NEW i \in 1 .. Len(d)
                 PROVE  /\ fifo'[i].id = d[i].id
                        /\ fifo'[i].allocated_size = d[i].allocated_size
                        /\ fifo'[i].total_size = d[i].total_size
                        /\ fifo'[i].last_used_seq_id = d[i].last_used_seq_id
      BY <2>4, <2>5
    <3>1. CASE i = 1
      BY <3>1, <2>2, <2>4
    <3>2. CASE i # 1
      BY <3>2, <2>4
    <3> QED BY <3>1, <3>2
  <2>7. Len(fifo') = Len(fifo) - n
    BY <2>4, <1>2 DEF d
  <2> QED BY <1>1, <1>3, <2>4, <2>6, <2>7
<1>5. CASE ~(n < Len(fifo) /\ Complete(fifo[n + 1], c))
  <2>1. fifo' = d
    BY <1>1, <1>5 DEF d
  <2> QED BY <1>1, <1>2, <1>3, <2>1 DEF d
<1> QED BY <1>4, <1>5

(* Trimming keeps every piece of an incomplete chunk.                      *)
LEMMA FreePreserves ==
  ASSUME IInv, NEW c \in Nat, free_blocks(c), current' = current,
         coherent' = coherent, live' \subseteq live, \A p \in live' : p.seq > c
  PROVE  BlocksOK' /\ FrontIsOldest' /\ PiecesOK' /\ fifo' \in Seq(Block)
<1>1. PICK n \in 0 .. Len(fifo) :
        /\ \A i \in 1 .. n : fifo[i].last_used_seq_id <= c
        /\ Len(fifo') = Len(fifo) - n
        /\ \A i \in 1 .. Len(fifo') :
             /\ fifo'[i].id = fifo[i + n].id
             /\ fifo'[i].allocated_size = fifo[i + n].allocated_size
             /\ fifo'[i].total_size = fifo[i + n].total_size
             /\ fifo'[i].last_used_seq_id = fifo[i + n].last_used_seq_id
  BY FreeEffect DEF IInv
<1>2. fifo' \in Seq(Block) /\ blocks' = blocks
  BY FreeEffect DEF IInv
<1>3. /\ fifo \in Seq(Block) /\ Len(fifo) \in Nat /\ Len(fifo') \in Nat
      /\ \A i \in 1 .. Len(fifo') : i + n \in 1 .. Len(fifo)
  BY <1>1, <1>2 DEF IInv, TypeOK
<1>4. BlocksOK'
  <2>1. \A i \in 1 .. Len(fifo') :
          /\ fifo'[i].id <= blocks' /\ fifo'[i].last_used_seq_id <= current'
          /\ fifo'[i].allocated_size <= fifo'[i].total_size
    BY <1>1, <1>2, <1>3 DEF IInv, BlocksOK
  <2>2. \A i, j \in 1 .. Len(fifo') : fifo'[i].id = fifo'[j].id => i = j
    BY <1>1, <1>3, SMTT(20) DEF IInv, BlocksOK
  <2> QED BY <2>1, <2>2 DEF BlocksOK
<1>5. FrontIsOldest'
  BY <1>1, <1>3 DEF IInv, FrontIsOldest
<1>6. ASSUME NEW p \in live'
      PROVE  p.seq > coherent' /\ \E i \in 1 .. Len(fifo') : Within(p, fifo'[i])
  <2>1. PICK j \in 1 .. Len(fifo) : Within(p, fifo[j])
    BY <1>6 DEF IInv, PiecesOK
  <2>2. p.seq > c /\ p.seq \in Nat /\ fifo[j].last_used_seq_id \in Nat
    <3>1. fifo[j] \in Block /\ p \in Piece
      BY <1>3, <1>6 DEF IInv, TypeOK
    <3>2. p.seq > c
      BY <1>6
    <3> QED BY <3>1, <3>2 DEF Piece, Block
  <2>3. j - n \in 1 .. Len(fifo') /\ (j - n) + n = j
    <3>1. j > n
      BY <1>1, <2>1, <2>2 DEF Within
    <3> QED BY <3>1, <1>1, <1>3
  <2>4. Within(p, fifo'[j - n])
    BY <1>1, <2>1, <2>3 DEF Within
  <2> QED BY <1>6, <2>3, <2>4 DEF IInv, PiecesOK
<1>7. PiecesOK'
  BY <1>6 DEF IInv, PiecesOK, Overlap
<1> QED BY <1>2, <1>4, <1>5, <1>7

(* The queue after an allocation that does not extend the newest block:    *)
(* k blocks are gone from the front, none of them with a piece in use, and *)
(* a block that holds only the new piece is at the back.                   *)
LEMMA PushPreserves ==
  ASSUME IInv, current' = current, coherent' = coherent, blocks' \in Nat,
         blocks' >= blocks,
         NEW k \in 0 .. Len(fifo), NEW b \in Block, NEW p \in Piece,
         fifo' \in Seq(Block), Len(fifo') = Len(fifo) - k + 1,
         \A i \in 1 .. (Len(fifo) - k) : fifo'[i] = fifo[i + k],
         fifo'[Len(fifo')] = b,
         b.id <= blocks', b.last_used_seq_id = current,
         b.allocated_size <= b.total_size,
         \A i \in 1 .. (Len(fifo) - k) : fifo[i + k].id # b.id,
         \A i \in 1 .. k : fifo[i].last_used_seq_id <= coherent,
         \A q \in live : q.block # b.id,
         live' = live \cup {p}, Within(p, b), p.seq = current
  PROVE  BlocksOK' /\ FrontIsOldest' /\ PiecesOK'
<1> DEFINE m == Len(fifo')
<1>1. /\ fifo \in Seq(Block) /\ Len(fifo) \in Nat /\ m \in Nat /\ m = Len(fifo) - k + 1
      /\ current \in Nat /\ coherent \in Nat /\ blocks \in Nat
      /\ coherent < current
      /\ \A i \in 1 .. (m - 1) : i + k \in 1 .. Len(fifo)
      /\ \A i \in 1 .. (m - 1) : fifo'[i] = fifo[i + k]
      /\ fifo'[m] = b
  BY DEF IInv, TypeOK, ClockOK
<1>2. \A i \in 1 .. Len(fifo) :
        /\ fifo[i].id \in Nat /\ fifo[i].last_used_seq_id \in Nat
        /\ fifo[i].id <= blocks /\ fifo[i].last_used_seq_id <= current
        /\ fifo[i].allocated_size <= fifo[i].total_size
  <2>1. \A i \in 1 .. Len(fifo) : fifo[i] \in Block
    BY <1>1
  <2> QED BY <2>1 DEF IInv, BlocksOK, Block
<1>a. m \in Nat /\ m - 1 = Len(fifo) - k
  BY <1>1
<1> HIDE DEF m
<1>3. \A i \in 1 .. m :
        /\ fifo'[i].id <= blocks' /\ fifo'[i].last_used_seq_id <= current
        /\ fifo'[i].allocated_size <= fifo'[i].total_size
  <2> SUFFICES ASSUME NEW i \in 1 .. m
               PROVE  /\ fifo'[i].id <= blocks' /\ fifo'[i].last_used_seq_id <= current
                      /\ fifo'[i].allocated_size <= fifo'[i].total_size
    OBVIOUS
  <2>1. CASE i = m
    BY <2>1, <1>1
  <2>2. CASE i # m
    <3>1. i \in 1 .. (m - 1)
      BY <2>2, <1>1
    <3>2. fifo'[i] = fifo[i + k] /\ i + k \in 1 .. Len(fifo)
      BY <3>1, <1>1
    <3>3. fifo[i + k].id <= blocks /\ fifo[i + k].id \in Nat
      BY <3>2, <1>2
    <3> QED BY <1>1, <1>2, <3>2, <3>3
  <2> QED BY <2>1, <2>2
<1>4. ASSUME NEW i \in 1 .. m, NEW j \in 1 .. m, fifo'[i].id = fifo'[j].id
      PROVE  i = j
  <2>1. CASE i # m /\ j # m
    <3>1. i \in 1 .. (m - 1) /\ j \in 1 .. (m - 1)
      BY <1>a, <2>1
    <3>2. /\ i + k \in 1 .. Len(fifo) /\ j + k \in 1 .. Len(fifo)
          /\ fifo'[i] = fifo[i + k] /\ fifo'[j] = fifo[j + k]
      BY <1>1, <3>1
    <3>3. i + k = j + k
      BY <1>4, <3>2 DEF IInv, BlocksOK
    <3> QED BY <3>3
  <2>2. CASE i = m /\ j # m
    <3>1. j \in 1 .. (m - 1) /\ j \in 1 .. (Len(fifo) - k)
      BY <1>1, <2>2
    <3>2. fifo'[j].id # b.id /\ fifo'[i].id = b.id
      BY <1>1, <2>2, <3>1
    <3> QED BY <1>4, <3>2
  <2>3. CASE i # m /\ j = m
    <3>1. i \in 1 .. (m - 1) /\ i \in 1 .. (Len(fifo) - k)
      BY <1>a, <2>3
    <3>2. fifo'[i].id # b.id /\ fifo'[j].id = b.id
      BY <1>1, <2>3, <3>1
    <3> QED BY <1>4, <3>2
  <2>4. CASE i = m /\ j = m
    BY <2>4
  <2> QED BY <2>1, <2>2, <2>3, <2>4
<1>5. ASSUME NEW i \in 1 .. m, NEW j \in 1 .. m, i <= j
      PROVE  fifo'[i].last_used_seq_id <= fifo'[j].last_used_seq_id
  <2>1. CASE j = m
    BY <1>1, <1>3, <2>1
  <2>2. CASE j # m
    <3>1. i + k \in 1 .. Len(fifo) /\ j + k \in 1 .. Len(fifo) /\ i + k <= j + k
          /\ fifo'[i] = fifo[i + k] /\ fifo'[j] = fifo[j + k]
      BY <1>1, <1>5, <2>2
    <3> QED BY <3>1 DEF IInv, FrontIsOldest
  <2> QED BY <2>1, <2>2
<1>6. ASSUME NEW q \in live'
      PROVE  q.seq > coherent /\ \E i \in 1 .. m : Within(q, fifo'[i])
  <2>1. CASE q = p
    BY <2>1, <1>1
  <2>2. CASE q \in live
    <3>1. PICK j \in 1 .. Len(fifo) : Within(q, fifo[j])
      BY <2>2 DEF IInv, PiecesOK
    <3>2. q.seq > coherent /\ q.seq \in Nat
      BY <2>2 DEF IInv, PiecesOK, TypeOK, Piece
    <3>3. j > k
      BY <1>1, <1>2, <3>1, <3>2 DEF Within
    <3>4. j - k \in 1 .. (m - 1) /\ (j - k) + k = j
      BY <1>1, <3>3
    <3>5. fifo'[j - k] = fifo[j]
      BY <1>1, <3>4
    <3> QED BY <3>1, <3>2, <3>4, <3>5, <1>1
  <2> QED BY <2>1, <2>2
<1>7. ASSUME NEW q \in live', NEW r \in live', q # r
      PROVE  ~Overlap(q, r)
  <2>1. CASE q \in live /\ r \in live
    BY <2>1, <1>7 DEF IInv, PiecesOK
  <2>2. CASE q = p \/ r = p
    BY <2>2, <1>7 DEF Overlap, Within
  <2> QED BY <2>1, <2>2
<1>8. BlocksOK' /\ FrontIsOldest'
  BY <1>3, <1>4, <1>5 DEF BlocksOK, FrontIsOldest, m
<1>9. PiecesOK'
  BY <1>6, <1>7 DEF PiecesOK, Overlap, Within, m
<1> QED BY <1>8, <1>9

(* What suballocate does to a block, and the piece it returns.             *)
LEMMA BumpEffect ==
  ASSUME NEW b \in Block, NEW seq \in Nat, NEW size \in Sizes, NEW al \in Alignments
  PROVE  LET c == Bumped(b, seq, size, al)
             p == Cut(b, seq, size, al)
         IN  /\ c \in Block /\ c.id = b.id /\ c.total_size = b.total_size
             /\ c.last_used_seq_id = seq
             /\ c.allocated_size = align(b.allocated_size, al) + size
             /\ c.allocated_size >= b.allocated_size
             /\ p \in Piece /\ p.block = b.id /\ p.seq = seq
             /\ p.offset = align(b.allocated_size, al)
             /\ p.offset >= b.allocated_size
             /\ Within(p, c)
<1> DEFINE o == align(b.allocated_size, al)
<1>1. size \in Nat /\ al \in Nat \ {0} /\ b.allocated_size \in Nat
  BY RingBumpAssumption DEF Block
<1>2. o \in Nat /\ o >= b.allocated_size
  BY <1>1, AlignUp
<1>3. /\ Bumped(b, seq, size, al)
           = [b EXCEPT !.last_used_seq_id = seq, !.allocated_size = o + size]
      /\ Cut(b, seq, size, al)
           = [block |-> b.id, offset |-> o, size |-> size, seq |-> seq]
  BY DEF Bumped, Cut
<1> HIDE DEF o
<1>4. o + size \in Nat /\ o + size >= b.allocated_size
  BY <1>1, <1>2
<1> DEFINE c == [b EXCEPT !.last_used_seq_id = seq, !.allocated_size = o + size]
           p == [block |-> b.id, offset |-> o, size |-> size, seq |-> seq]
<1>5. /\ c \in Block /\ c.id = b.id /\ c.total_size = b.total_size
      /\ c.last_used_seq_id = seq /\ c.allocated_size = o + size
  BY <1>4 DEF Block
<1>6. /\ p \in Piece /\ p.block = b.id /\ p.seq = seq /\ p.offset = o /\ p.size = size
  BY <1>1, <1>2 DEF Block, Piece
<1> HIDE DEF c, p
<1>7. Within(p, c)
  BY <1>4, <1>5, <1>6 DEF Within
<1>8. c = Bumped(b, seq, size, al) /\ p = Cut(b, seq, size, al)
  BY <1>3 DEF c, p
<1>9. o = align(b.allocated_size, al)
  BY DEF o
<1> QED BY <1>2, <1>4, <1>5, <1>6, <1>7, <1>8, <1>9

(* The newest block has room: no piece is disturbed by filling it further. *)
LEMMA LatestPreserves ==
  ASSUME IInv, current' = current, coherent' = coherent,
         NEW size \in Sizes, NEW al \in Alignments,
         AllocateInLatest(current, size, al)
  PROVE  /\ BlocksOK' /\ FrontIsOldest' /\ PiecesOK'
         /\ fifo' \in Seq(Block) /\ live' \subseteq Piece /\ blocks' = blocks
<1> DEFINE n == Len(fifo)
           b == fifo[n]
           c == Bumped(b, current, size, al)
           p == Cut(b, current, size, al)
<1>1. /\ fifo \in Seq(Block) /\ n \in Nat /\ n > 0 /\ b \in Block /\ current \in Nat
      /\ blocks' = blocks /\ coherent < current /\ coherent \in Nat /\ live \subseteq Piece
      /\ \A i \in 1 .. n : fifo[i] \in Block
  BY DEF AllocateInLatest, IInv, TypeOK, ClockOK
<1>2. /\ c \in Block /\ c.id = b.id /\ c.total_size = b.total_size
      /\ c.last_used_seq_id = current
      /\ c.allocated_size = align(b.allocated_size, al) + size
      /\ c.allocated_size >= b.allocated_size
      /\ p \in Piece /\ p.block = b.id /\ p.seq = current
      /\ p.offset >= b.allocated_size
      /\ Within(p, c)
  BY <1>1, BumpEffect
<1>3. c.allocated_size <= c.total_size
  BY <1>2 DEF AllocateInLatest, Fits
<1>4. fifo' = [fifo EXCEPT ![n] = c] /\ live' = live \cup {p}
  BY DEF AllocateInLatest
<1> HIDE DEF c, p
<1>5. /\ fifo' \in Seq(Block) /\ Len(fifo') = n
      /\ \A i \in 1 .. n : fifo'[i] = IF i = n THEN c ELSE fifo[i]
  BY <1>1, <1>2, <1>4
<1>6. \A i \in 1 .. n :
        /\ fifo[i].id \in Nat /\ fifo[i].last_used_seq_id \in Nat
        /\ fifo[i].allocated_size \in Nat
        /\ fifo[i].id <= blocks /\ fifo[i].last_used_seq_id <= current
        /\ fifo[i].allocated_size <= fifo[i].total_size
  BY <1>1 DEF IInv, BlocksOK, Block
<1>7. b = fifo[n] /\ n \in 1 .. n
  BY <1>1
<1>8. Len(fifo) = n
  OBVIOUS
<1> HIDE DEF b, n
<1>9. BlocksOK'
  <2>1. \A i \in 1 .. n :
          /\ fifo'[i].id <= blocks /\ fifo'[i].last_used_seq_id <= current
          /\ fifo'[i].allocated_size <= fifo'[i].total_size
    <3> SUFFICES ASSUME NEW i \in 1 .. n
                 PROVE  /\ fifo'[i].id <= blocks /\ fifo'[i].last_used_seq_id <= current
                        /\ fifo'[i].allocated_size <= fifo'[i].total_size
      OBVIOUS
    <3>1. CASE i = n
      <4>1. fifo'[i] = c
        BY <1>5, <3>1
      <4>2. c.id <= blocks
        BY <1>2, <1>6, <1>7
      <4> QED BY <1>1, <1>2, <1>3, <4>1, <4>2
    <3>2. CASE i # n
      BY <1>5, <1>6, <3>2
    <3> QED BY <3>1, <3>2
  <2>2. \A i \in 1 .. n : fifo'[i].id = fifo[i].id
    BY <1>2, <1>5, <1>7
  <2>3. \A i, j \in 1 .. n : fifo[i].id = fifo[j].id => i = j
    BY <1>8 DEF IInv, BlocksOK
  <2> QED BY <1>1, <1>5, <2>1, <2>2, <2>3 DEF BlocksOK
<1>10. FrontIsOldest'
  <2>1. ASSUME NEW i \in 1 .. n, NEW j \in 1 .. n, i <= j
        PROVE  fifo'[i].last_used_seq_id <= fifo'[j].last_used_seq_id
    <3>1. CASE j = n
      BY <3>1, <1>1, <1>2, <1>5, <1>6
    <3>2. CASE j # n
      <4>1. i # n
        BY <2>1, <3>2, <1>1
      <4>2. fifo'[i] = fifo[i] /\ fifo'[j] = fifo[j]
        BY <3>2, <4>1, <1>5
      <4> QED BY <2>1, <4>2, <1>8 DEF IInv, FrontIsOldest
    <3> QED BY <3>1, <3>2
  <2> QED BY <1>5, <2>1 DEF FrontIsOldest
<1>11. ASSUME NEW q \in live
       PROVE  /\ q.seq > coherent
              /\ \E i \in 1 .. n : Within(q, fifo'[i])
              /\ q.block = b.id => q.offset + q.size <= b.allocated_size
  <2>1. PICK j \in 1 .. n : Within(q, fifo[j])
    BY <1>8, <1>11 DEF IInv, PiecesOK
  <2>2. q.seq > coherent
    BY <1>11 DEF IInv, PiecesOK
  <2>3. q.seq \in Nat /\ q.offset \in Nat /\ q.size \in Nat
    BY <1>1, <1>11 DEF Piece
  <2>4. CASE j = n
    <3>1. /\ b.id = q.block /\ q.offset + q.size <= b.allocated_size
          /\ q.seq <= b.last_used_seq_id /\ b.last_used_seq_id <= current
          /\ b.last_used_seq_id \in Nat /\ b.allocated_size \in Nat
      BY <2>1, <2>4, <1>6, <1>7 DEF Within
    <3>2. c.allocated_size \in Nat
      BY <1>2 DEF Block
    <3>3. Within(q, c)
      BY <1>1, <1>2, <2>3, <3>1, <3>2 DEF Within
    <3> QED BY <2>2, <3>1, <3>3, <1>5, <1>7
  <2>5. CASE j # n
    <3>1. fifo'[j] = fifo[j]
      BY <2>5, <1>5
    <3>2. fifo[j].id # fifo[n].id
      BY <2>5, <1>7, <1>8 DEF IInv, BlocksOK
    <3> QED BY <2>1, <2>2, <3>1, <3>2, <1>7 DEF Within
  <2> QED BY <2>4, <2>5
<1>12. ASSUME NEW q \in live
       PROVE  ~Overlap(p, q) /\ ~Overlap(q, p)
  <2>1. q.block = b.id => q.offset + q.size <= b.allocated_size
    BY <1>11
  <2>2. q.offset \in Nat /\ q.size \in Nat
    BY <1>1 DEF Piece
  <2>3. p.offset \in Nat /\ p.size \in Nat /\ b.allocated_size \in Nat
    BY <1>1, <1>2 DEF Piece, Block
  <2> QED BY <1>2, <2>1, <2>2, <2>3 DEF Overlap
<1>13. PiecesOK'
  <2>1. \A q \in live' : q.seq > coherent /\ \E i \in 1 .. n : Within(q, fifo'[i])
    BY <1>1, <1>2, <1>4, <1>5, <1>7, <1>11
  <2>2. \A q, r \in live' : q # r => ~Overlap(q, r)
    BY <1>4, <1>12 DEF IInv, PiecesOK
  <2> QED BY <1>5, <2>1, <2>2 DEF PiecesOK, Overlap, Within
<1> QED BY <1>1, <1>2, <1>4, <1>5, <1>9, <1>10, <1>13

(* The oldest block is reused, or a new one is created.                    *)
LEMMA ReusePreserves ==
  ASSUME IInv, current' = current, coherent' = coherent,
         NEW size \in Sizes, NEW al \in Alignments,
         NEW n \in 0 .. Len(fifo), Discards(n, seen), Reusable(n, seen, size),
         AllocateByReuse(n, current, size, al)
  PROVE  /\ BlocksOK' /\ FrontIsOldest' /\ PiecesOK'
         /\ fifo' \in Seq(Block) /\ live' \subseteq Piece /\ blocks' = blocks
<1> DEFINE b == [fifo[n + 1] EXCEPT !.allocated_size = 0, !.inc_time_to_live = 0]
           c == Bumped(b, current, size, al)
           p == Cut(b, current, size, al)
           d == Drop(n + 1)
<1>1. /\ fifo \in Seq(Block) /\ n + 1 \in 1 .. Len(fifo) /\ fifo[n + 1] \in Block
      /\ current \in Nat /\ live \subseteq Piece /\ blocks \in Nat
      /\ coherent \in Nat /\ seen \in Nat /\ seen <= coherent /\ size <= BlockSize
  BY DEF IInv, TypeOK, ClockOK, Reusable
<1>2. b \in Block /\ b.id = fifo[n + 1].id /\ b.allocated_size = 0
      /\ b.total_size = fifo[n + 1].total_size
  BY <1>1 DEF Block
<1>3. fifo' = Append(d, c) /\ live' = live \cup {p} /\ blocks' = blocks
  BY DEF AllocateByReuse
<1>4. fifo[n + 1].total_size = BlockSize
  BY <1>1 DEF Discards, Discarded, Reusable, AdHoc
<1>5. Fits(b, size, al)
  <2>1. align(0, al) = 0
    <3>1. al \in Nat \ {0}
      BY RingBumpAssumption
    <3>2. (0 + al - 1) \div al = 0
      BY <3>1
    <3> QED BY <3>1, <3>2 DEF align
  <2>2. size \in Nat
    BY RingBumpAssumption
  <2> QED BY <1>1, <1>2, <1>4, <2>1, <2>2 DEF Fits
<1> HIDE DEF b
<1>6. /\ c \in Block /\ c.id = b.id /\ c.total_size = b.total_size
      /\ c.last_used_seq_id = current
      /\ c.allocated_size = align(b.allocated_size, al) + size
      /\ p \in Piece /\ p.block = b.id /\ p.seq = current /\ Within(p, c)
  <2>1. b \in Block /\ current \in Nat /\ size \in Sizes /\ al \in Alignments
    BY <1>1, <1>2
  <2> QED BY ONLY <2>1, BumpEffect
<1>7. c.allocated_size <= c.total_size
  BY <1>5, <1>6 DEF Fits
<1>8. /\ d \in Seq(Block) /\ Len(d) = Len(fifo) - (n + 1)
      /\ \A i \in 1 .. (Len(fifo) - (n + 1)) : d[i] = fifo[i + (n + 1)]
  BY <1>1, DropEffect
<1> HIDE DEF c, p, d
<1>9. /\ fifo' \in Seq(Block) /\ Len(fifo') = Len(fifo) - (n + 1) + 1
      /\ \A i \in 1 .. (Len(fifo) - (n + 1)) : fifo'[i] = fifo[i + (n + 1)]
      /\ fifo'[Len(fifo')] = c
  BY <1>1, <1>3, <1>6, <1>8
<1>10. \A i \in 1 .. (n + 1) : fifo[i].last_used_seq_id <= coherent
  <2> SUFFICES ASSUME NEW i \in 1 .. (n + 1) PROVE fifo[i].last_used_seq_id <= coherent
    OBVIOUS
  <2>1. fifo[i].last_used_seq_id < seen
    <3>1. CASE i = n + 1
      BY <3>1 DEF Reusable, Reclaimable
    <3>2. CASE i # n + 1
      BY <3>2 DEF Discards, Discarded, Reclaimable
    <3> QED BY <3>1, <3>2
  <2>2. fifo[i] \in Block
    BY <1>1
  <2>3. fifo[i].last_used_seq_id \in Nat
    BY <2>2 DEF Block
  <2> QED BY <1>1, <2>1, <2>3
<1>11. \A i \in 1 .. (Len(fifo) - (n + 1)) : fifo[i + (n + 1)].id # c.id
  <2> SUFFICES ASSUME NEW i \in 1 .. (Len(fifo) - (n + 1)),
                      fifo[i + (n + 1)].id = fifo[n + 1].id
               PROVE  FALSE
    BY <1>2, <1>6
  <2>1. i + (n + 1) \in 1 .. Len(fifo) /\ i + (n + 1) # n + 1
    BY <1>1
  <2> QED BY <1>1, <2>1 DEF IInv, BlocksOK
<1>12. ASSUME NEW q \in live PROVE q.block # c.id
  <2>1. PICK j \in 1 .. Len(fifo) : Within(q, fifo[j])
    BY <1>12 DEF IInv, PiecesOK
  <2>2. q.seq > coherent /\ q.seq \in Nat
    BY <1>1, <1>12 DEF IInv, PiecesOK, Piece
  <2>3. fifo[j].last_used_seq_id \in Nat
    <3>1. fifo[j] \in Block
      BY <1>1
    <3> QED BY <3>1 DEF Block
  <2>4. fifo[j].last_used_seq_id > coherent
    <3>1. q.seq <= fifo[j].last_used_seq_id
      BY <2>1 DEF Within
    <3> QED BY <1>1, <2>2, <2>3, <3>1
  <2>5. j # n + 1
    <3>1. n + 1 \in 1 .. (n + 1)
      BY <1>1
    <3>2. fifo[n + 1].last_used_seq_id <= coherent
      BY <1>10, <3>1
    <3> QED BY <1>1, <2>3, <2>4, <3>2
  <2>6. fifo[j].id # fifo[n + 1].id
    BY <1>1, <2>5 DEF IInv, BlocksOK
  <2> QED BY <1>2, <1>6, <2>1, <2>6 DEF Within
<1>13. c.id <= blocks'
  BY <1>1, <1>2, <1>3, <1>6 DEF IInv, BlocksOK
<1>14. BlocksOK' /\ FrontIsOldest' /\ PiecesOK'
  <2>1. n + 1 \in 0 .. Len(fifo) /\ blocks' \in Nat /\ blocks' >= blocks
    BY <1>1, <1>3
  <2> QED BY <1>3, <1>6, <1>7, <1>9, <1>10, <1>11, <1>12, <1>13, <2>1, PushPreserves
<1> QED BY <1>1, <1>3, <1>6, <1>9, <1>14

LEMMA NewPreserves ==
  ASSUME IInv, current' = current, coherent' = coherent,
         NEW size \in Sizes, NEW al \in Alignments,
         NEW n \in 0 .. Len(fifo), Discards(n, seen),
         AllocateBlock(n, current, size, al)
  PROVE  /\ BlocksOK' /\ FrontIsOldest' /\ PiecesOK'
         /\ fifo' \in Seq(Block) /\ live' \subseteq Piece /\ blocks' \in Nat
<1> DEFINE t == IF size > BlockSize THEN size ELSE BlockSize
           b == [id |-> blocks + 1, allocated_size |-> 0, total_size |-> t,
                 last_used_seq_id |-> current, inc_time_to_live |-> 0]
           c == Bumped(b, current, size, al)
           p == Cut(b, current, size, al)
           d == Drop(n)
<1>1. /\ fifo \in Seq(Block) /\ Len(fifo) \in Nat
      /\ current \in Nat /\ live \subseteq Piece /\ blocks \in Nat
      /\ coherent \in Nat /\ seen \in Nat /\ seen <= coherent
      /\ size \in Nat /\ t \in Nat /\ size <= t /\ al \in Nat \ {0}
  BY RingBumpAssumption DEF IInv, TypeOK, ClockOK
<1>2. fifo' = Append(d, c) /\ live' = live \cup {p} /\ blocks' = blocks + 1
  BY DEF AllocateBlock
<1> HIDE DEF t
<1>3. b \in Block /\ b.id = blocks + 1 /\ b.allocated_size = 0 /\ b.total_size = t
  BY <1>1 DEF Block
<1>4. align(0, al) = 0
  <2>1. (0 + al - 1) \div al = 0
    BY <1>1
  <2> QED BY <1>1, <2>1 DEF align
<1> HIDE DEF b
<1>5. /\ c \in Block /\ c.id = b.id /\ c.total_size = b.total_size
      /\ c.last_used_seq_id = current
      /\ c.allocated_size = align(b.allocated_size, al) + size
      /\ p \in Piece /\ p.block = b.id /\ p.seq = current /\ Within(p, c)
  <2>1. b \in Block /\ current \in Nat
    BY <1>1, <1>3
  <2> QED BY <2>1, BumpEffect
<1>6. c.allocated_size <= c.total_size
  BY <1>1, <1>3, <1>4, <1>5
<1>7. /\ d \in Seq(Block) /\ Len(d) = Len(fifo) - n
      /\ \A i \in 1 .. (Len(fifo) - n) : d[i] = fifo[i + n]
  BY <1>1, DropEffect
<1> HIDE DEF c, p, d
<1>8. /\ fifo' \in Seq(Block) /\ Len(fifo') = Len(fifo) - n + 1
      /\ \A i \in 1 .. (Len(fifo) - n) : fifo'[i] = fifo[i + n]
      /\ fifo'[Len(fifo')] = c
  BY <1>1, <1>2, <1>5, <1>7
<1>9. \A i \in 1 .. n : fifo[i].last_used_seq_id <= coherent
  <2> SUFFICES ASSUME NEW i \in 1 .. n PROVE fifo[i].last_used_seq_id <= coherent
    OBVIOUS
  <2>1. fifo[i].last_used_seq_id < seen
    BY DEF Discards, Discarded, Reclaimable
  <2>2. fifo[i] \in Block
    BY <1>1
  <2>3. fifo[i].last_used_seq_id \in Nat
    BY <2>2 DEF Block
  <2> QED BY <1>1, <2>1, <2>3
<1>10. \A i \in 1 .. Len(fifo) : fifo[i].id \in Nat /\ fifo[i].id <= blocks
  <2>1. \A i \in 1 .. Len(fifo) : fifo[i] \in Block
    BY <1>1
  <2> QED BY <2>1 DEF IInv, BlocksOK, Block
<1>11. \A i \in 1 .. (Len(fifo) - n) : fifo[i + n].id # c.id
  <2> SUFFICES ASSUME NEW i \in 1 .. (Len(fifo) - n) PROVE fifo[i + n].id # c.id
    OBVIOUS
  <2>1. i + n \in 1 .. Len(fifo)
    BY <1>1
  <2> QED BY <1>1, <1>3, <1>5, <1>10, <2>1
<1>12. ASSUME NEW q \in live PROVE q.block # c.id
  <2>1. PICK j \in 1 .. Len(fifo) : Within(q, fifo[j])
    BY <1>12 DEF IInv, PiecesOK
  <2> QED BY <1>1, <1>3, <1>5, <1>10, <2>1 DEF Within
<1>13. c.id <= blocks' /\ blocks' \in Nat /\ blocks' >= blocks
  BY <1>1, <1>2, <1>3, <1>5
<1>14. BlocksOK' /\ FrontIsOldest' /\ PiecesOK'
  BY <1>2, <1>5, <1>6, <1>8, <1>9, <1>11, <1>12, <1>13, PushPreserves
<1> QED BY <1>1, <1>2, <1>5, <1>8, <1>13, <1>14

(* allocate, with a coherent value that may be stale, keeps the invariant. *)
LEMMA AllocatePreserves ==
  ASSUME IInv, current' = current, coherent' = coherent,
         NEW size \in Sizes, NEW al \in Alignments, allocate(current, seen, size, al)
  PROVE  /\ BlocksOK' /\ FrontIsOldest' /\ PiecesOK'
         /\ fifo' \in Seq(Block) /\ live' \subseteq Piece /\ blocks' \in Nat
<1>1. CASE AllocateInLatest(current, size, al)
  BY <1>1, LatestPreserves DEF IInv, TypeOK
<1>2. ASSUME NEW n \in 0 .. Len(fifo), Discards(n, seen),
             Reusable(n, seen, size), AllocateByReuse(n, current, size, al)
      PROVE  /\ BlocksOK' /\ FrontIsOldest' /\ PiecesOK'
             /\ fifo' \in Seq(Block) /\ live' \subseteq Piece /\ blocks' \in Nat
  BY <1>2, ReusePreserves DEF IInv, TypeOK
<1>3. ASSUME NEW n \in 0 .. Len(fifo), Discards(n, seen),
             AllocateBlock(n, current, size, al)
      PROVE  /\ BlocksOK' /\ FrontIsOldest' /\ PiecesOK'
             /\ fifo' \in Seq(Block) /\ live' \subseteq Piece /\ blocks' \in Nat
  BY <1>3, NewPreserves
<1> QED BY <1>1, <1>2, <1>3 DEF allocate

(* The invariant covers every piece in use.                                *)
LEMMA InvCoversLive == IInv => NoLiveReuse
<1> SUFFICES ASSUME IInv, NEW p \in live
             PROVE  \E i \in 1 .. Len(fifo) :
                      fifo[i].id = p.block /\ p.offset + p.size <= fifo[i].total_size
  BY DEF NoLiveReuse, IInv, PiecesOK
<1>1. PICK i \in 1 .. Len(fifo) : Within(p, fifo[i])
  BY DEF IInv, PiecesOK
<1>2. fifo[i] \in Block /\ p \in Piece /\ fifo[i].allocated_size <= fifo[i].total_size
  BY DEF IInv, TypeOK, BlocksOK
<1>3. p.offset + p.size <= fifo[i].total_size
  BY <1>1, <1>2 DEF Within, Block, Piece
<1> QED BY <1>1, <1>3 DEF Within

-----------------------------------------------------------------------------
(* Every behaviour of the allocator and its users keeps the invariant: the *)
(* bookkeeping of last_used_seq_id, under the interleavings of a stale     *)
(* coherent value with the trims, covers every piece still in use.         *)
THEOREM Invariance == Spec => []IInv
<1>1. Init => IInv
  <2> SUFFICES ASSUME Init PROVE IInv
    OBVIOUS
  <2>1. fifo = <<>> /\ live = {} /\ Len(fifo) = 0
    BY DEF Init
  <2>2. TypeOK /\ ClockOK
    <3>1. fifo \in Seq(Block) /\ live \subseteq Piece
      BY <2>1
    <3>2. /\ blocks \in Nat /\ current \in Nat /\ coherent \in Nat /\ seen \in Nat
          /\ ClockOK
      BY DEF Init, ClockOK
    <3>3. /\ role \in {"finish", "commit", "never", "deferred"} /\ trimming \in BOOLEAN
          /\ pc \in {"idle", "allocate", "committed", "trim"}
      BY Zenon DEF Init
    <3> QED BY <3>1, <3>2, <3>3, Zenon DEF TypeOK
  <2>3. BlocksOK /\ FrontIsOldest /\ PiecesOK
    BY <2>1 DEF BlocksOK, FrontIsOldest, PiecesOK
  <2> QED BY <2>2, <2>3 DEF IInv
<1>2. IInv /\ [Next]_vars => IInv'
  <2> SUFFICES ASSUME IInv, [Next]_vars PROVE IInv'
    OBVIOUS
  <2>1. CASE ReadCoherent
    BY <2>1 DEF ReadCoherent, IInv, TypeOK, ClockOK, BlocksOK, FrontIsOldest,
                PiecesOK, Within, Overlap
  <2>2. CASE Allocate
    <3>1. PICK size \in Sizes, al \in Alignments : allocate(current, seen, size, al)
      BY <2>2 DEF Allocate
    <3>2. current' = current /\ coherent' = coherent
      BY <2>2 DEF Allocate
    <3>3. /\ BlocksOK' /\ FrontIsOldest' /\ PiecesOK'
          /\ fifo' \in Seq(Block) /\ live' \subseteq Piece /\ blocks' \in Nat
      BY <3>1, <3>2, AllocatePreserves
    <3> QED BY <2>2, <3>3 DEF Allocate, IInv, TypeOK, ClockOK
  <2>3. CASE NextChunk
    <3>1. \A i \in 1 .. Len(fifo) : fifo[i].last_used_seq_id \in Nat
      <4>1. \A i \in 1 .. Len(fifo) : fifo[i] \in Block
        BY DEF IInv, TypeOK
      <4> QED BY <4>1 DEF Block
    <3>2. TypeOK' /\ ClockOK'
      BY <2>3 DEF NextChunk, IInv, TypeOK, ClockOK
    <3>3. BlocksOK'
      BY <2>3, <3>1 DEF NextChunk, IInv, TypeOK, BlocksOK
    <3> QED BY <2>3, <3>2, <3>3
            DEF NextChunk, IInv, FrontIsOldest, PiecesOK, Within, Overlap
  <2>4. CASE ReadCoherentToTrim
    BY <2>4 DEF ReadCoherentToTrim, IInv, TypeOK, ClockOK, BlocksOK, FrontIsOldest,
                PiecesOK, Within, Overlap
  <2>5. CASE CommitTrim
    <3>1. seen \in Nat /\ \A p \in live : p.seq > seen
      BY DEF IInv, TypeOK, ClockOK, PiecesOK, Piece
    <3>2. BlocksOK' /\ FrontIsOldest' /\ PiecesOK' /\ fifo' \in Seq(Block) /\ blocks' = blocks
      BY <2>5, <3>1, FreePreserves, FreeEffect DEF CommitTrim, IInv
    <3> QED BY <2>5, <3>2 DEF CommitTrim, IInv, TypeOK, ClockOK
  <2>6. CASE ResetList
    <3>1. AllOnes \in Nat /\ live' = {} /\ free_blocks(AllOnes)
          /\ current' = current /\ coherent' = coherent
      BY <2>6, RingBumpAssumption DEF ResetList
    <3>2. BlocksOK' /\ FrontIsOldest' /\ PiecesOK' /\ fifo' \in Seq(Block) /\ blocks' = blocks
      BY <3>1, FreePreserves, FreeEffect DEF IInv
    <3> QED BY <2>6, <3>2 DEF ResetList, IInv, TypeOK, ClockOK
  <2>7. CASE Signal
    <3>1. TypeOK' /\ ClockOK'
      BY <2>7 DEF Signal, IInv, TypeOK, ClockOK
    <3>2. PiecesOK'
      BY <2>7 DEF Signal, IInv, PiecesOK, Within, Overlap
    <3> QED BY <2>7, <3>1, <3>2 DEF Signal, IInv, BlocksOK, FrontIsOldest
  <2>8. CASE FinishTrim
    <3>1. coherent \in Nat /\ \A p \in live : p.seq > coherent
      BY DEF IInv, TypeOK, PiecesOK
    <3>2. BlocksOK' /\ FrontIsOldest' /\ PiecesOK' /\ fifo' \in Seq(Block) /\ blocks' = blocks
      BY <2>8, <3>1, FreePreserves, FreeEffect DEF FinishTrim, IInv
    <3> QED BY <2>8, <3>2 DEF FinishTrim, IInv, TypeOK, ClockOK
  <2>9. CASE UNCHANGED vars
    BY <2>9 DEF vars, IInv, TypeOK, ClockOK, BlocksOK, FrontIsOldest,
                PiecesOK, Within, Overlap
  <2> QED BY <2>1, <2>2, <2>3, <2>4, <2>5, <2>6, <2>7, <2>8, <2>9 DEF Next
<1> QED BY <1>1, <1>2, PTL DEF Spec

(* No memory an incomplete chunk still uses is freed, refilled or handed   *)
(* out twice by RingBumpState.                                             *)
THEOREM LiveSafety == Spec => []NoLiveReuse
BY InvCoversLive, Invariance, PTL

(* The front of the queue is the block that was used longest ago, so       *)
(* looking at the front only never overlooks a reclaimable block behind it.*)
THEOREM FrontOrder == Spec => []FrontIsOldest
BY Invariance, PTL DEF IInv

=============================================================================
