------------------------- MODULE OutputQueue_proofs -------------------------
(***************************************************************************)
(* Proofs about OutputQueue, for every capacity, every length of the read  *)
(* buffer and of lwIP's pbufs, every send buffer and both kinds of queue.  *)
(***************************************************************************)
EXTENDS OutputQueue, TLAPS

-----------------------------------------------------------------------------
(***************************************************************************)
(* The inductive invariant                                                 *)
(***************************************************************************)

\* A chain of pbufs lwIP could have built: each pbuf has a length, a total
\* length that covers the pbufs behind it, and continues its predecessor.
WellFormed(chain) ==
    LET n == Len(chain)
    IN  \A i \in 1..n :
          /\ chain[i].len > 0
          /\ i = n => chain[i].tot = chain[i].len
          /\ i < n => /\ chain[i].tot = chain[i].len + chain[i+1].tot
                      /\ chain[i+1].first = chain[i].first + chain[i].len

\* A buffer that holds the bytes of the stream from position n on.
BufferAt(b, n) ==
    /\ b \in Seq(Pbuf)
    /\ b # <<>>
    /\ WellFormed(b)
    /\ b[1].first = n
    /\ b[Len(b)].first + b[Len(b)].len = n + b[1].tot

\* A queue that holds the bytes of the stream after position s and before
\* position n.
QueueAt(x, s, n) ==
    /\ x \in Queue
    /\ WellFormed(x.chain)
    /\ x.chain = <<>> => x.offset = 0 /\ s = n - 1
    /\ x.chain # <<>> =>
          /\ x.offset < x.chain[1].len
          /\ x.chain[1].first + x.offset = s + 1
          /\ x.chain[Len(x.chain)].first + x.chain[Len(x.chain)].len = n

\* Each kind of queue only takes its own steps, and a forward queue, filled by
\* PortForwarder::recv alone, never holds more than its capacity.
KindInv ==
    /\ kind = "forward" => /\ size(q) <= Capacity
                           /\ refused = <<>>
                           /\ retry = NoBlock
                           /\ pc # "socket"
    /\ kind = "reply" => pc # "tcp"

IInv ==
    /\ TypeOK
    /\ QueueAt(q, sent, next)
    /\ KindInv
    /\ refused # <<>> => BufferAt(refused, next)
    /\ RetrySameBlock

-----------------------------------------------------------------------------
(***************************************************************************)
(* What the operations of the queue do                                     *)
(***************************************************************************)

\* The fields of a pbuf, and the update of tot_len in pbuf_chain.
LEMMA PbufLemma ==
    ASSUME NEW p \in Pbuf, NEW t \in Nat
    PROVE  /\ p.first \in Nat /\ p.len \in Nat /\ p.tot \in Nat
           /\ [p EXCEPT !.tot = @ + t] \in Pbuf
           /\ [p EXCEPT !.tot = @ + t].first = p.first
           /\ [p EXCEPT !.tot = @ + t].len = p.len
           /\ [p EXCEPT !.tot = @ + t].tot = p.tot + t
  BY DEF Pbuf

\* The pbufs of a sequence and their fields.
LEMMA SeqLemma ==
    ASSUME NEW c \in Seq(Pbuf)
    PROVE  /\ Len(c) \in Nat
           /\ c # <<>> => Len(c) > 0
           /\ \A i \in 1..Len(c) :
                /\ c[i] \in Pbuf
                /\ c[i].first \in Nat /\ c[i].len \in Nat /\ c[i].tot \in Nat
<1>1. Len(c) \in Nat /\ (c # <<>> => Len(c) > 0)
  OBVIOUS
<1>2. \A i \in 1..Len(c) : c[i] \in Pbuf
  OBVIOUS
<1> QED
  BY <1>1, <1>2, PbufLemma

\* pbuf_chain keeps every pbuf, in order, and only adds to the total lengths of
\* the first chain.
LEMMA ChainLemma ==
    ASSUME NEW c \in Seq(Pbuf), NEW b \in Seq(Pbuf), b # <<>>
    PROVE  /\ pbuf_chain(c, b) \in Seq(Pbuf)
           /\ Len(pbuf_chain(c, b)) = Len(c) + Len(b)
           /\ \A i \in 1..Len(c) :
                /\ pbuf_chain(c, b)[i].first = c[i].first
                /\ pbuf_chain(c, b)[i].len = c[i].len
                /\ pbuf_chain(c, b)[i].tot = c[i].tot + b[1].tot
           /\ \A i \in 1..Len(b) : pbuf_chain(c, b)[Len(c) + i] = b[i]
<1> DEFINE h == [i \in 1..Len(c) |-> [c[i] EXCEPT !.tot = @ + b[1].tot]]
<1>1. b[1].tot \in Nat /\ \A i \in 1..Len(c) : c[i] \in Pbuf
  <2>1. 1 \in 1..Len(b)
    BY SeqLemma
  <2> QED
    BY <2>1, SeqLemma
<1>2. \A i \in 1..Len(c) :
          /\ h[i] \in Pbuf
          /\ h[i].first = c[i].first
          /\ h[i].len = c[i].len
          /\ h[i].tot = c[i].tot + b[1].tot
  BY <1>1, PbufLemma
<1>3. h \in Seq(Pbuf) /\ Len(h) = Len(c)
  <2>1. Len(c) \in Nat
    OBVIOUS
  <2>2. h \in [1..Len(c) -> Pbuf]
    BY <1>2
  <2> QED
    BY <2>1, <2>2
<1> HIDE DEF h
<1>4. /\ h \o b \in Seq(Pbuf)
      /\ Len(h \o b) = Len(c) + Len(b)
      /\ \A i \in 1..Len(c) : (h \o b)[i] = h[i]
      /\ \A i \in 1..Len(b) : (h \o b)[Len(c) + i] = b[i]
  BY <1>3
<1>5. pbuf_chain(c, b) = h \o b
  BY DEF pbuf_chain, h
<1> QED
  BY <1>2, <1>4, <1>5

\* Chaining two well-formed chains that follow one another in the stream gives
\* a well-formed chain: no total length is left behind.
LEMMA ChainWellFormed ==
    ASSUME NEW c \in Seq(Pbuf), c # <<>>, WellFormed(c),
           NEW b \in Seq(Pbuf), b # <<>>, WellFormed(b),
           b[1].first = c[Len(c)].first + c[Len(c)].len
    PROVE  WellFormed(pbuf_chain(c, b))
<1> DEFINE r == pbuf_chain(c, b)
<1>1. /\ r \in Seq(Pbuf)
      /\ Len(r) = Len(c) + Len(b)
      /\ \A i \in 1..Len(c) : /\ r[i].first = c[i].first
                              /\ r[i].len = c[i].len
                              /\ r[i].tot = c[i].tot + b[1].tot
      /\ \A i \in 1..Len(b) : r[Len(c) + i] = b[i]
  BY ChainLemma
<1> HIDE DEF r
<1>2. /\ \A i \in 1..Len(c) : c[i].first \in Nat /\ c[i].len \in Nat /\ c[i].tot \in Nat
      /\ \A i \in 1..Len(b) : b[i].first \in Nat /\ b[i].len \in Nat /\ b[i].tot \in Nat
      /\ Len(c) \in Nat \ {0} /\ Len(b) \in Nat \ {0}
  BY SeqLemma
<1>3. ASSUME NEW i \in 1..Len(r)
      PROVE  /\ r[i].len > 0
             /\ i = Len(r) => r[i].tot = r[i].len
             /\ i < Len(r) => /\ r[i].tot = r[i].len + r[i+1].tot
                               /\ r[i+1].first = r[i].first + r[i].len
  <2>1. CASE i < Len(c)
    <3>1. i \in 1..Len(c) /\ i + 1 \in 1..Len(c) /\ i # Len(r)
      BY <1>1, <1>2, <2>1
    <3>2. /\ c[i].len > 0
          /\ c[i].tot = c[i].len + c[i+1].tot
          /\ c[i+1].first = c[i].first + c[i].len
      BY <2>1, <3>1 DEF WellFormed
    <3>3. /\ b[1].tot \in Nat
          /\ c[i].len \in Nat /\ c[i].tot \in Nat /\ c[i+1].tot \in Nat
      BY <1>2, <3>1
    <3>4. /\ r[i].first = c[i].first /\ r[i].len = c[i].len
          /\ r[i].tot = c[i].tot + b[1].tot
          /\ r[i+1].first = c[i+1].first
          /\ r[i+1].tot = c[i+1].tot + b[1].tot
      BY <1>1, <3>1
    <3>5. r[i].tot = r[i].len + r[i+1].tot
      BY <3>2, <3>3, <3>4
    <3> QED
      BY <3>1, <3>2, <3>4, <3>5
  <2>2. CASE i = Len(c)
    <3>1. r[i+1] = b[1]
      BY <1>1, <1>2, <2>2
    <3> QED
      BY <1>1, <1>2, <2>2, <3>1 DEF WellFormed
  <2>3. CASE i > Len(c)
    <3>1. PICK j \in 1..Len(b) : i = Len(c) + j
      <4>1. i - Len(c) \in 1..Len(b) /\ i = Len(c) + (i - Len(c))
        BY <1>1, <1>2, <2>3
      <4> QED
        BY <4>1
    <3>2. r[i] = b[j] /\ (j < Len(b) => r[i+1] = b[j+1])
      <4>1. j < Len(b) => j + 1 \in 1..Len(b)
        BY <1>2
      <4>2. j < Len(b) => r[Len(c) + (j + 1)] = b[j+1]
        BY <1>1, <4>1
      <4>3. i + 1 = Len(c) + (j + 1)
        BY <1>2, <3>1
      <4> QED
        BY <1>1, <3>1, <4>2, <4>3
    <3>3. (i = Len(r) => j = Len(b)) /\ (i < Len(r) => j < Len(b))
      <4>1. Len(r) = Len(c) + Len(b) /\ Len(c) \in Nat /\ Len(b) \in Nat
        BY <1>1, <1>2
      <4> QED
        BY <3>1, <4>1
    <3>4. /\ b[j].len > 0
          /\ j = Len(b) => b[j].tot = b[j].len
          /\ j < Len(b) => /\ b[j].tot = b[j].len + b[j+1].tot
                           /\ b[j+1].first = b[j].first + b[j].len
      BY DEF WellFormed
    <3> QED
      BY <3>2, <3>3, <3>4
  <2> QED
    BY <1>1, <1>2, <2>1, <2>2, <2>3
<1>4. WellFormed(r)
  BY <1>3 DEF WellFormed
<1> QED
  BY <1>4 DEF r

\* push() of the next bytes of the stream extends the queue at its end and
\* leaves its read position alone.
LEMMA PushLemma ==
    ASSUME NEW x, NEW s \in Nat, NEW n \in Nat \ {0}, QueueAt(x, s, n),
           NEW b, BufferAt(b, n)
    PROVE  /\ QueueAt(push(x, b), s, n + b[1].tot)
           /\ push(x, b).chain # <<>>
           /\ size(push(x, b)) = size(x) + b[1].tot
           /\ b[1].tot \in Nat \ {0}
           /\ x.chain # <<>> => /\ push(x, b).offset = x.offset
                               /\ push(x, b).chain[1].first = x.chain[1].first
                               /\ push(x, b).chain[1].len = x.chain[1].len
<1>1. /\ x \in Queue /\ x.chain \in Seq(Pbuf) /\ x.offset \in Nat
      /\ b \in Seq(Pbuf) /\ b # <<>> /\ Len(b) \in Nat \ {0}
      /\ Len(x.chain) \in Nat
  <2>1. x \in Queue /\ b \in Seq(Pbuf) /\ b # <<>>
    BY DEF QueueAt, BufferAt
  <2>2. x.chain \in Seq(Pbuf) /\ x.offset \in Nat
    BY <2>1 DEF Queue
  <2> QED
    BY <2>1, <2>2, SeqLemma
<1>2. /\ 1 \in 1..Len(b) /\ Len(b) \in 1..Len(b)
      /\ b[1].len \in Nat /\ b[1].tot \in Nat
  BY <1>1, SeqLemma
<1>3. b[1].tot > 0
  <2>1. WellFormed(b)
    BY DEF BufferAt
  <2>2. CASE Len(b) = 1
    BY <1>2, <2>1, <2>2 DEF WellFormed
  <2>3. CASE Len(b) > 1
    <3>1. 2 \in 1..Len(b) /\ b[2].tot \in Nat
      BY <1>1, <2>3, SeqLemma
    <3>2. b[1].len > 0 /\ b[1].tot = b[1].len + b[2].tot
      BY <1>2, <2>1, <2>3 DEF WellFormed
    <3> QED
      BY <1>2, <3>1, <3>2
  <2>4. Len(b) = 1 \/ Len(b) > 1
    <3>1. \A i \in Nat \ {0} : i = 1 \/ i > 1
      OBVIOUS
    <3> QED
      BY <1>1, <3>1
  <2> QED
    BY <2>2, <2>3, <2>4
<1>4. CASE x.chain = <<>>
  <2>1. push(x, b) = [chain |-> b, offset |-> 0]
    BY <1>4 DEF push, is_empty
  <2>2. push(x, b).chain = b /\ push(x, b).offset = 0 /\ push(x, b) \in Queue
    BY <1>1, <2>1 DEF Queue
  <2>3. s = n - 1 /\ size(x) = 0
    BY <1>4 DEF QueueAt, size, is_empty
  <2>4. b[1].len > 0
    BY <1>2 DEF BufferAt, WellFormed
  <2>5. QueueAt(push(x, b), s, n + b[1].tot)
    BY <1>1, <1>2, <2>2, <2>3, <2>4 DEF QueueAt, BufferAt
  <2>6. size(push(x, b)) = b[1].tot
    BY <1>1, <2>2 DEF size, is_empty
  <2> QED
    BY <1>1, <1>2, <1>3, <1>4, <2>2, <2>3, <2>5, <2>6
<1>5. CASE x.chain # <<>>
  <2> DEFINE r == pbuf_chain(x.chain, b)
             l == Len(x.chain)
             m == Len(b)
  <2>1. push(x, b).chain = r /\ push(x, b).offset = x.offset
    <3>1. push(x, b) = [x EXCEPT !.chain = r]
      BY <1>5 DEF push, is_empty
    <3> QED
      BY <1>1, <3>1 DEF Queue
  <2>2. /\ r \in Seq(Pbuf) /\ Len(r) = l + m
        /\ \A i \in 1..l : /\ r[i].first = x.chain[i].first
                           /\ r[i].len = x.chain[i].len
                           /\ r[i].tot = x.chain[i].tot + b[1].tot
        /\ \A i \in 1..m : r[l + i] = b[i]
    BY <1>1, ChainLemma
  <2>3. push(x, b) \in Queue
    <3>1. push(x, b) = [x EXCEPT !.chain = r]
      BY <1>5 DEF push, is_empty
    <3> QED
      BY <1>1, <2>2, <3>1 DEF Queue
  <2>4. WellFormed(r)
    <3>1. /\ WellFormed(x.chain) /\ WellFormed(b)
          /\ b[1].first = x.chain[l].first + x.chain[l].len
      BY <1>5 DEF QueueAt, BufferAt
    <3> QED
      BY <1>1, <1>5, <3>1, ChainWellFormed
  <2> HIDE DEF r
  <2>5. l \in Nat \ {0} /\ m \in Nat \ {0} /\ r # <<>> /\ 1 \in 1..l
    BY <1>1, <1>5, <2>2, SeqLemma
  <2>6. r[1].first = x.chain[1].first /\ r[1].len = x.chain[1].len
        /\ r[1].tot = x.chain[1].tot + b[1].tot
    BY <2>2, <2>5
  <2>7. r[Len(r)] = b[m]
    BY <1>2, <2>2
  <2>8. QueueAt(push(x, b), s, n + b[1].tot)
    <3>1. /\ x.offset < x.chain[1].len
          /\ x.chain[1].first + x.offset = s + 1
      BY <1>5 DEF QueueAt
    <3>2. b[m].first + b[m].len = n + b[1].tot
      BY DEF BufferAt
    <3> QED
      BY <2>1, <2>3, <2>4, <2>5, <2>6, <2>7, <3>1, <3>2 DEF QueueAt
  <2>9. size(push(x, b)) = size(x) + b[1].tot
    BY <1>5, <2>1, <2>5, <2>6 DEF size, is_empty
  <2> QED
    BY <1>2, <1>3, <2>1, <2>5, <2>6, <2>8, <2>9
<1> QED
  BY <1>4, <1>5

\* move() over k bytes of the block at the read position is accepted and
\* advances the read position by k, into the next pbuf if need be.
LEMMA MoveLemma ==
    ASSUME NEW x, NEW s \in Nat, NEW n \in Nat \ {0}, QueueAt(x, s, n),
           x.chain # <<>>, NEW k \in Nat \ {0}, k <= available(x)
    PROVE  /\ can_move(x, k)
           /\ QueueAt(move(x, k), s + k, n)
           /\ size(move(x, k)) <= size(x)
<1> DEFINE c == x.chain
           l == Len(c)
<1>1. /\ x \in Queue /\ c \in Seq(Pbuf) /\ x.offset \in Nat
      /\ l \in Nat \ {0} /\ 1 \in 1..l /\ l \in 1..l
      /\ c[1].first \in Nat /\ c[1].len \in Nat /\ c[1].tot \in Nat
      /\ c[l].first \in Nat /\ c[l].len \in Nat
  <2>1. x \in Queue
    BY DEF QueueAt
  <2>2. c \in Seq(Pbuf) /\ x.offset \in Nat
    BY <2>1 DEF Queue
  <2>3. l \in Nat \ {0}
    BY <2>2, SeqLemma
  <2>4. 1 \in 1..l /\ l \in 1..l
    BY <2>3
  <2> QED
    BY <2>1, <2>2, <2>3, <2>4, SeqLemma
<1>2. /\ WellFormed(c)
      /\ x.offset < c[1].len
      /\ c[1].first + x.offset = s + 1
      /\ c[l].first + c[l].len = n
  BY DEF QueueAt
<1>3. x.offset + k <= c[1].len
  BY <1>1 DEF available
<1>7. /\ x.offset \in Nat /\ c[1].first \in Nat /\ c[1].len \in Nat
      /\ c[1].tot \in Nat /\ c[1].first + x.offset = s + 1
  BY <1>1, <1>2
<1>4. can_move(x, k)
  BY <1>3 DEF can_move, is_empty
<1>5. CASE x.offset + k = c[1].len
  <2>1. move(x, k) = [chain |-> Tail(c), offset |-> 0]
    BY <1>5 DEF move, pop
  <2> DEFINE t == Tail(c)
  <2>2. /\ t \in Seq(Pbuf) /\ Len(t) = l - 1
        /\ \A i \in 1..Len(t) : t[i] = c[i+1]
    BY <1>1
  <2>3. move(x, k).chain = t /\ move(x, k).offset = 0 /\ move(x, k) \in Queue
    BY <2>1, <2>2 DEF Queue
  <2> HIDE DEF t
  <2>4. WellFormed(t)
    <3>1. ASSUME NEW i \in 1..Len(t)
          PROVE  /\ t[i].len > 0
                 /\ i = Len(t) => t[i].tot = t[i].len
                 /\ i < Len(t) => /\ t[i].tot = t[i].len + t[i+1].tot
                                   /\ t[i+1].first = t[i].first + t[i].len
      <4>1. i + 1 \in 1..l /\ (i = Len(t) => i + 1 = l)
            /\ (i < Len(t) => i + 1 < l /\ i + 1 \in 1..Len(t))
        BY <1>1, <2>2
      <4>2. t[i] = c[i+1] /\ (i < Len(t) => t[i+1] = c[(i+1)+1])
        BY <2>2, <4>1
      <4>3. /\ c[i+1].len > 0
            /\ i + 1 = l => c[i+1].tot = c[i+1].len
            /\ i + 1 < l => /\ c[i+1].tot = c[i+1].len + c[(i+1)+1].tot
                            /\ c[(i+1)+1].first = c[i+1].first + c[i+1].len
        BY <1>2, <4>1 DEF WellFormed
      <4> QED
        BY <4>1, <4>2, <4>3
    <3> QED
      BY <3>1 DEF WellFormed
  <2>5. CASE l = 1
    <3>1. t = <<>>
      BY <2>2, <2>5
    <3>2. s + k = n - 1
      <4>1. c[1].first + c[1].len = n
        BY <1>2, <2>5
      <4> HIDE DEF c
      <4> QED
        BY <1>5, <1>7, <4>1
    <3>3. size(move(x, k)) = 0 /\ size(x) = c[1].tot
      BY <2>3, <3>1 DEF size, is_empty
    <3> QED
      BY <1>1, <1>4, <2>3, <2>4, <3>1, <3>2, <3>3 DEF QueueAt
  <2>6. CASE l > 1
    <3>1. 1 \in 1..Len(t) /\ Len(t) \in 1..Len(t) /\ t # <<>> /\ 2 \in 1..l
      BY <1>1, <2>2, <2>6
    <3>2. t[1] = c[2] /\ t[Len(t)] = c[l]
      <4>1. Len(t) + 1 = l
        BY <1>1, <2>2
      <4> QED
        BY <2>2, <3>1, <4>1
    <3>3. /\ c[1].tot = c[1].len + c[2].tot
          /\ c[2].first = c[1].first + c[1].len
          /\ c[2].len > 0
      <4>1. 1 + 1 = 2
        OBVIOUS
      <4> QED
        BY <1>1, <1>2, <2>6, <3>1, <4>1 DEF WellFormed
    <3>4. c[2].tot \in Nat /\ c[2].first \in Nat
      BY <1>1, <3>1, SeqLemma
    <3>5. t[1].first + 0 = s + k + 1
      <4>1. t[1].first = c[1].first + c[1].len
        BY <3>2, <3>3
      <4>2. \A first, offset, len \in Nat :
               offset + k = len /\ first + offset = s + 1 => first + len + 0 = s + k + 1
        OBVIOUS
      <4>3. c[1].first + c[1].len + 0 = s + k + 1
        BY <1>5, <1>7, <4>2
      <4> QED
        BY <4>1, <4>3
    <3>6. size(move(x, k)) = c[2].tot /\ size(x) = c[1].tot
      BY <2>3, <3>1, <3>2 DEF size, is_empty
    <3>7. QueueAt(move(x, k), s + k, n)
      BY <1>2, <2>3, <2>4, <3>1, <3>2, <3>3, <3>5 DEF QueueAt
    <3>8. c[2].tot <= c[1].tot
      <4> HIDE DEF c
      <4> QED
        BY <1>7, <3>3, <3>4
    <3> QED
      BY <1>4, <3>6, <3>7, <3>8
  <2>7. l = 1 \/ l > 1
    <3>1. l \in Nat \ {0}
      BY <1>1
    <3> HIDE DEF l
    <3> QED
      BY <3>1
  <2> QED
    BY <2>5, <2>6, <2>7
<1>6. CASE x.offset + k # c[1].len
  <2>1. move(x, k) = [x EXCEPT !.offset = @ + k]
    BY <1>6 DEF move
  <2>2. /\ move(x, k).chain = c /\ move(x, k).offset = x.offset + k
        /\ move(x, k) \in Queue
    <3>1. x \in [chain : Seq(Pbuf), offset : Nat] /\ x.offset + k \in Nat
      BY <1>1 DEF Queue
    <3> QED
      BY <2>1, <3>1 DEF Queue
  <2>3. size(move(x, k)) = size(x) /\ size(x) = c[1].tot
    BY <2>2 DEF size, is_empty
  <2>4. x.offset + k < c[1].len /\ c[1].first + (x.offset + k) = s + k + 1
    <3> HIDE DEF c
    <3>1. x.offset + k < c[1].len
      BY <1>3, <1>6, <1>7
    <3>2. c[1].first + (x.offset + k) = s + k + 1
      <4>1. \A f, o \in Nat : f + o = s + 1 => f + (o + k) = s + k + 1
        OBVIOUS
      <4> QED
        BY <1>7, <4>1
    <3> QED
      BY <3>1, <3>2
  <2>5. QueueAt(move(x, k), s + k, n)
    BY <1>2, <2>2, <2>4 DEF QueueAt
  <2> QED
    BY <1>1, <1>4, <2>3, <2>5
<1> QED
  BY <1>5, <1>6

\* The block at the read position of a queue is never empty and never longer
\* than was asked for.
LEMMA BlockLemma ==
    ASSUME NEW x, NEW s \in Nat, NEW n \in Nat \ {0}, QueueAt(x, s, n),
           x.chain # <<>>, NEW k \in Nat \ {0}
    PROVE  /\ available(x) \in Nat \ {0}
           /\ get_cblock(x, k).first = s + 1
           /\ get_cblock(x, k).len \in 1..k
           /\ get_cblock(x, k).len <= available(x)
           /\ get_cblock(x, available(x)).first = x.chain[1].first + x.offset
           /\ get_cblock(x, available(x)).len = available(x)
<1>1. x.chain \in Seq(Pbuf) /\ x.offset \in Nat
  BY DEF QueueAt, Queue
<1>2. x.chain[1].len \in Nat /\ x.chain[1].first \in Nat
  <2>1. 1 \in 1..Len(x.chain)
    BY <1>1, SeqLemma
  <2> QED
    BY <1>1, <2>1, SeqLemma
<1>3. x.offset < x.chain[1].len /\ x.chain[1].first + x.offset = s + 1
  BY DEF QueueAt
<1>4. available(x) \in Nat \ {0}
  <2>1. \A a, o \in Nat : o < a => a - o \in Nat \ {0}
    OBVIOUS
  <2> QED
    BY <1>1, <1>2, <1>3, <2>1 DEF available
<1>5. /\ get_cblock(x, k).first = s + 1
      /\ get_cblock(x, k).len = IF k < available(x) THEN k ELSE available(x)
      /\ get_cblock(x, available(x)).first = x.chain[1].first + x.offset
      /\ get_cblock(x, available(x)).len = available(x)
  BY <1>3 DEF get_cblock
<1>6. \A a \in Nat \ {0} :
        /\ (IF k < a THEN k ELSE a) \in 1..k
        /\ (IF k < a THEN k ELSE a) <= a
  OBVIOUS
<1> QED
  BY <1>4, <1>5, <1>6

\* size() is a number of bytes.
LEMMA SizeLemma ==
    ASSUME NEW x \in Queue
    PROVE  size(x) \in Nat
<1>1. x.chain \in Seq(Pbuf)
  BY DEF Queue
<1>2. CASE x.chain = <<>>
  BY <1>2 DEF size, is_empty
<1>3. CASE x.chain # <<>>
  <2>1. 1 \in 1..Len(x.chain)
    BY <1>1, <1>3, SeqLemma
  <2> QED
    BY <1>1, <1>3, <2>1, SeqLemma DEF size, is_empty
<1> QED
  BY <1>2, <1>3

\* What PortForwarder::recv reads are the next bytes of the stream.
LEMMA ReadBufferLemma ==
    ASSUME next \in Nat \ {0}, NEW n \in Nat \ {0}
    PROVE  BufferAt(ReadBuffer(n), next) /\ ReadBuffer(n)[1].tot = n
<1> DEFINE p == [first |-> next, len |-> n, tot |-> n,
                 push |-> n # available_space]
<1>1. p \in Pbuf
  BY DEF Pbuf
<1>2. p.first = next /\ p.len = n /\ p.tot = n
  OBVIOUS
<1>3. ReadBuffer(n) = <<p>>
  BY DEF ReadBuffer
<1> HIDE DEF p
<1>4. <<p>> \in Seq(Pbuf) /\ Len(<<p>>) = 1 /\ <<p>>[1] = p /\ <<p>> # <<>>
  BY <1>1
<1>5. WellFormed(<<p>>)
  BY <1>2, <1>4 DEF WellFormed
<1> QED
  BY <1>2, <1>3, <1>4, <1>5 DEF BufferAt

\* So are the pbufs lwIP hands to tcp_recv_cb, alone or in a chain of two.
LEMMA BuffersLemma ==
    ASSUME next \in Nat \ {0}, NEW b \in Buffers
    PROVE  BufferAt(b, next)
<1>1. CASE \E a \in 1..MaxPbuf :
             b = <<[first |-> next, len |-> a, tot |-> a, push |-> FALSE]>>
  <2>1. PICK a \in 1..MaxPbuf :
             b = <<[first |-> next, len |-> a, tot |-> a, push |-> FALSE]>>
    BY <1>1
  <2> DEFINE p == [first |-> next, len |-> a, tot |-> a, push |-> FALSE]
  <2>2. p \in Pbuf /\ a > 0
    BY OutputQueueAssumption DEF Pbuf
  <2>3. p.first = next /\ p.len = a /\ p.tot = a /\ b = <<p>>
    BY <2>1
  <2> HIDE DEF p
  <2>4. b \in Seq(Pbuf) /\ Len(b) = 1 /\ b[1] = p /\ b # <<>>
    BY <2>2, <2>3
  <2>5. WellFormed(b)
    BY <2>2, <2>3, <2>4 DEF WellFormed
  <2> QED
    BY <2>3, <2>4, <2>5 DEF BufferAt
<1>2. CASE \E a, c \in 1..MaxPbuf :
             b = <<[first |-> next, len |-> a, tot |-> a + c, push |-> FALSE],
                   [first |-> next + a, len |-> c, tot |-> c, push |-> FALSE]>>
  <2>1. PICK a \in 1..MaxPbuf, c \in 1..MaxPbuf :
             b = <<[first |-> next, len |-> a, tot |-> a + c, push |-> FALSE],
                   [first |-> next + a, len |-> c, tot |-> c, push |-> FALSE]>>
    BY <1>2
  <2> DEFINE p == [first |-> next, len |-> a, tot |-> a + c, push |-> FALSE]
             r == [first |-> next + a, len |-> c, tot |-> c, push |-> FALSE]
  <2>2. p \in Pbuf /\ r \in Pbuf /\ a > 0 /\ c > 0 /\ a \in Nat /\ c \in Nat
    BY OutputQueueAssumption DEF Pbuf
  <2>3. /\ p.first = next /\ p.len = a /\ p.tot = a + c
        /\ r.first = next + a /\ r.len = c /\ r.tot = c
        /\ b = <<p, r>>
    BY <2>1
  <2> HIDE DEF p, r
  <2>4. /\ b \in Seq(Pbuf) /\ Len(b) = 2 /\ b # <<>>
        /\ b[1] = p /\ b[2] = r /\ 1 + 1 = 2
    BY <2>2, <2>3
  <2>5. WellFormed(b)
    <3>1. \A i \in 1..2 : i = 1 \/ i = 2
      OBVIOUS
    <3> QED
      BY <2>2, <2>3, <2>4, <3>1 DEF WellFormed
  <2>6. (next + a) + c = next + (a + c)
    BY <2>2
  <2> QED
    BY <2>3, <2>4, <2>5, <2>6 DEF BufferAt
<1> QED
  BY <1>1, <1>2 DEF Buffers

\* The unsigned subtraction of remaining_space() is exact when it does not wrap.
LEMMA ModLemma ==
    ASSUME NEW v \in Nat, NEW m \in Nat, v < m
    PROVE  v % m = v
  BY SMT

\* A forward queue accepts what PortForwarder::recv reads, up to its capacity.
LEMMA RecvFits ==
    ASSUME IInv, kind = "forward", NEW n \in 1..MaxRead, n <= available_space
    PROVE  can_push(q, ReadBuffer(n)) /\ size(q) + n <= Capacity
<1>1. n \in Nat \ {0} /\ MaxRead \in Nat
  BY OutputQueueAssumption, SMT
<1>7. Capacity \in Nat
  BY CapacityAssumption, SMT
<1>2. size(q) \in Nat /\ size(q) <= Capacity
  BY SizeLemma DEF IInv, TypeOK, KindInv
<1>3. remaining_space(q) = Capacity - size(q)
  <2>1. Capacity - size(q) \in Nat /\ Capacity - size(q) < 65536
    <3>1. \A c, z \in Nat : z <= c /\ c <= 65535 => c - z \in Nat /\ c - z < 65536
      BY SMT
    <3>2. Capacity <= 65535
      BY CapacityAssumption, SMT
    <3> QED
      BY <1>2, <1>7, <3>1, <3>2, SMT
  <2>2. 65536 \in Nat
    BY SMT
  <2>3. SizeMod = 65536
    BY SMT DEF SizeMod
  <2> QED
    BY <2>1, <2>2, <2>3, ModLemma, SMT DEF remaining_space
<1>4. n <= Capacity - size(q)
  <2>1. \A z \in Int : n <= (IF MaxRead < z THEN MaxRead ELSE z) => n <= z
    BY <1>1
  <2>2. Capacity - size(q) \in Int
    BY <1>2, <1>7
  <2> QED
    BY <1>3, <2>1, <2>2 DEF available_space
<1>5. ReadBuffer(n)[1].tot = n
  BY <1>1, ReadBufferLemma DEF IInv, TypeOK
<1>6. size(q) + n <= Capacity /\ Capacity - size(q) # 0
  <2>1. \A z \in Nat : n <= Capacity - z => z + n <= Capacity /\ Capacity - z # 0
    BY <1>1, <1>7
  <2> QED
    BY <1>2, <1>4, <2>1
<1> QED
  BY <1>1, <1>3, <1>5, <1>6 DEF can_push, is_full

-----------------------------------------------------------------------------
(***************************************************************************)
(* The invariant is inductive                                              *)
(***************************************************************************)
\* The capacity of a queue is a natural number.
LEMMA CapacityNat == Capacity \in Nat /\ 0 <= Capacity
  BY CapacityAssumption, SMT

\* The constructor of OutputQueue establishes the invariant.
LEMMA InitInv == Init => IInv
<1> SUFFICES ASSUME Init PROVE IInv
  OBVIOUS
<1>1. EmptyQueue \in Queue /\ EmptyQueue.chain = <<>> /\ EmptyQueue.offset = 0
  BY DEF EmptyQueue, Queue
<1>2. NoBlock \in [first : Nat, len : Nat]
  BY DEF NoBlock
<1>3. TypeOK
  BY <1>1, <1>2, OutputQueueAssumption DEF Init, TypeOK
<1>4. WellFormed(<<>>) /\ QueueAt(q, sent, next)
  BY <1>1 DEF Init, QueueAt, WellFormed
<1>5. KindInv
  <2>1. size(q) = 0
    BY <1>1 DEF Init, size, is_empty
  <2> QED
    BY <2>1, CapacityNat DEF Init, KindInv
<1> QED
  BY <1>3, <1>4, <1>5 DEF Init, IInv, RetrySameBlock

\* The type of the queue and of the block at its read position.
LEMMA InvFacts ==
    ASSUME IInv
    PROVE  /\ QueueAt(q, sent, next) /\ q \in Queue
           /\ next \in Nat \ {0} /\ sent \in Nat /\ size(q) \in Nat
           /\ SndBuf \in Nat /\ sndbuf \in 0..SndBuf /\ written \in Nat
  BY SizeLemma, OutputQueueAssumption DEF IInv, TypeOK

\* A step that leaves the queue and its ghosts alone keeps what is said of them.
LEMMA SameQueue ==
    ASSUME IInv, TypeOK', KindInv', UNCHANGED <<q, next, sent, refused, retry>>
    PROVE  IInv'
<1>1. QueueAt(q, sent, next)'
  BY DEF IInv, QueueAt
<1>2. RetrySameBlock'
  BY DEF IInv, RetrySameBlock, HeadBlock
<1>3. (refused # <<>> => BufferAt(refused, next))'
  BY DEF IInv
<1> QED
  BY <1>1, <1>2, <1>3 DEF IInv

\* A buffer that is accepted.
LEMMA AcceptInv ==
    ASSUME IInv, NEW b, BufferAt(b, next),
           q' = push(q, b), next' = next + b[1].tot, refused' = <<>>,
           UNCHANGED <<kind, sent, pc, retry, sndbuf, written>>,
           kind = "forward" => size(q) + b[1].tot <= Capacity
    PROVE  IInv'
<1>1. /\ QueueAt(q', sent, next + b[1].tot)
      /\ q'.chain # <<>>
      /\ size(q') = size(q) + b[1].tot
      /\ b[1].tot \in Nat \ {0}
      /\ q.chain # <<>> => /\ q'.offset = q.offset
                          /\ q'.chain[1].first = q.chain[1].first
                          /\ q'.chain[1].len = q.chain[1].len
  BY InvFacts, PushLemma
<1>2. QueueAt(q, sent, next)' /\ q' \in Queue
  BY <1>1 DEF QueueAt
<1>3. next' \in Nat \ {0}
  BY <1>1, InvFacts
<1>4. TypeOK'
  BY <1>2, <1>3 DEF IInv, TypeOK
<1>5. KindInv'
  BY <1>1 DEF IInv, KindInv, size, is_empty
<1>6. RetrySameBlock'
  <2>1. CASE retry = NoBlock
    BY <2>1 DEF RetrySameBlock
  <2>2. CASE retry # NoBlock
    <3>1. q.chain # <<>> /\ HeadBlock.first = retry.first /\ HeadBlock.len = retry.len
      BY <2>2 DEF IInv, RetrySameBlock, is_empty
    <3>2. /\ HeadBlock.first = q.chain[1].first + q.offset
          /\ HeadBlock.len = q.chain[1].len - q.offset
      BY DEF HeadBlock, get_cblock, available
    <3>3. /\ HeadBlock'.first = q'.chain[1].first + q'.offset
          /\ HeadBlock'.len = q'.chain[1].len - q'.offset
      BY DEF HeadBlock, get_cblock, available
    <3> QED
      BY <1>1, <3>1, <3>2, <3>3 DEF RetrySameBlock, is_empty
  <2> QED
    BY <2>1, <2>2
<1> QED
  BY <1>2, <1>4, <1>5, <1>6 DEF IInv

\* Bytes that leave: the queue moves over k bytes of its first pbuf.
LEMMA MoveInv ==
    ASSUME IInv, q.chain # <<>>, NEW k \in Nat \ {0}, k <= available(q),
           q' = move(q, k), sent' = sent + k, written' \in Nat,
           sndbuf' \in 0..SndBuf, retry' = NoBlock,
           UNCHANGED <<kind, next, refused, pc>>
    PROVE  IInv'
<1>1. QueueAt(q', sent + k, next) /\ size(q') <= size(q) /\ q' \in Queue
  <2>1. QueueAt(q', sent + k, next) /\ size(q') <= size(q)
    BY InvFacts, MoveLemma
  <2> QED
    BY <2>1 DEF QueueAt
<1>2. sent' \in Nat /\ size(q') \in Nat /\ Capacity \in Nat
  BY <1>1, CapacityNat, InvFacts, SizeLemma
<1>3. QueueAt(q, sent, next)'
  BY <1>1
<1>4. TypeOK'
  <2>1. NoBlock \in [first : Nat, len : Nat]
    BY DEF NoBlock
  <2> QED
    BY <1>1, <1>2, <2>1 DEF IInv, TypeOK
<1>5. KindInv'
  <2>1. size(q)' = size(q')
    BY DEF size, is_empty
  <2>2. size(q) <= Capacity => size(q') <= Capacity
    BY <1>1, <1>2, InvFacts
  <2> QED
    BY <2>1, <2>2 DEF IInv, KindInv
<1> QED
  BY <1>3, <1>4, <1>5 DEF IInv, RetrySameBlock

\* PortForwarder::recv keeps the invariant: its push() is never refused.
LEMMA RecvInv ==
    ASSUME IInv, NEW n \in 1..MaxRead, Recv(n)
    PROVE  IInv'
<1>1. n \in Nat \ {0}
  BY OutputQueueAssumption
<1>2. BufferAt(ReadBuffer(n), next) /\ ReadBuffer(n)[1].tot = n
  BY <1>1, InvFacts, ReadBufferLemma
<1>3. can_push(q, ReadBuffer(n)) /\ size(q) + n <= Capacity
  BY RecvFits DEF Recv
<1>4. q' = push(q, ReadBuffer(n)) /\ pc' = pc /\ next' = next + n /\ refused' = <<>>
  BY <1>3 DEF Recv, IInv, KindInv
<1> QED
  BY <1>2, <1>3, <1>4, AcceptInv DEF Recv

\* tcp_recv_cb with new data keeps the invariant, accepted or refused.
LEMMA DeliverInv ==
    ASSUME IInv, NEW b \in Buffers, Deliver(b)
    PROVE  IInv'
<1>1. BufferAt(b, next)
  BY InvFacts, BuffersLemma
<1>2. CASE can_push(q, b)
  BY <1>1, <1>2, AcceptInv DEF Deliver, Accept
<1>3. CASE ~can_push(q, b)
  <2>1. refused' = b /\ UNCHANGED <<kind, q, next, sent, pc, retry, sndbuf, written>>
        /\ kind = "reply"
    BY <1>3 DEF Deliver
  <2>2. TypeOK'
    BY <1>1, <2>1 DEF IInv, TypeOK, BufferAt
  <2>3. KindInv'
    BY <2>1 DEF IInv, KindInv
  <2>4. RetrySameBlock' /\ QueueAt(q, sent, next)'
    BY <2>1 DEF IInv, RetrySameBlock, HeadBlock
  <2> QED
    BY <1>1, <2>1, <2>2, <2>3, <2>4 DEF IInv
<1> QED
  BY <1>2, <1>3

\* tcp_recv_cb with refused data keeps the invariant.
LEMMA RedeliverInv ==
    ASSUME IInv, Redeliver
    PROVE  IInv'
<1>1. BufferAt(refused, next) /\ kind # "forward"
  BY DEF IInv, Redeliver, KindInv
<1> QED
  BY <1>1, AcceptInv DEF Redeliver, Accept

\* PBufQueue::clear keeps the invariant.
LEMMA ClearInv ==
    ASSUME IInv, Clear
    PROVE  IInv'
<1>1. /\ q'.chain = <<>> /\ q'.offset = 0 /\ q' \in Queue
  BY DEF Clear, clear, EmptyQueue, Queue
<1>2. sent' = next' - 1 /\ sent' \in Nat /\ next' = next /\ refused' = refused
      /\ retry' = NoBlock /\ pc' = "idle" /\ sndbuf' = sndbuf /\ written' = written
      /\ kind' = kind
  BY InvFacts DEF Clear
<1>3. QueueAt(q, sent, next)'
  BY <1>1, <1>2 DEF QueueAt, WellFormed
<1>4. TypeOK'
  <2>1. NoBlock \in [first : Nat, len : Nat]
    BY DEF NoBlock
  <2> QED
    BY <1>1, <1>2, <2>1 DEF IInv, TypeOK
<1>5. KindInv'
  <2>1. size(q') = 0 /\ size(q)' = size(q')
    BY <1>1 DEF size, is_empty
  <2> QED
    BY <1>2, <2>1, CapacityNat DEF IInv, KindInv
<1> QED
  BY <1>2, <1>3, <1>4, <1>5 DEF IInv, RetrySameBlock

\* A write, partial or not, to the local socket keeps the invariant.
LEMMA SocketSendOkInv ==
    ASSUME IInv, NEW n \in 1..MaxPbuf, SocketSendOk(n)
    PROVE  IInv'
<1>1. n \in Nat \ {0} /\ q.chain # <<>>
  BY OutputQueueAssumption DEF SocketSendOk, is_empty
<1>2. /\ available(q) \in Nat \ {0}
      /\ HeadBlock.first = sent + 1
      /\ HeadBlock.len = available(q)
  <2>1. available(q) \in Nat \ {0}
    BY <1>1, InvFacts, BlockLemma
  <2> QED
    BY <1>1, <2>1, InvFacts, BlockLemma DEF HeadBlock
<1>3. n <= available(q) /\ can_move(q, n)
  BY <1>1, <1>2, InvFacts, MoveLemma DEF SocketSendOk
<1>4. sent' = sent + n /\ written' \in Nat
  BY <1>1, <1>2, <1>3, InvFacts DEF SocketSendOk
<1>5. q' = move(q, n) /\ retry' = NoBlock /\ UNCHANGED <<kind, next, refused, pc, sndbuf>>
  BY <1>3 DEF SocketSendOk
<1> QED
  BY <1>1, <1>3, <1>4, <1>5, InvFacts, MoveInv

\* NETCTX_SND_RETRY keeps the invariant: the queue stays where it is.
LEMMA SocketSendRetryInv ==
    ASSUME IInv, SocketSendRetry
    PROVE  IInv'
<1>1. /\ q.chain # <<>>
      /\ retry' = [first |-> HeadBlock.first, len |-> HeadBlock.len]
      /\ pc' = "idle"
      /\ UNCHANGED <<kind, q, next, sent, refused, sndbuf, written>>
  BY DEF SocketSendRetry, is_empty
<1>2. available(q) \in Nat \ {0} /\ 1 \in Nat \ {0}
  BY <1>1, InvFacts, BlockLemma
<1>3. HeadBlock.first = sent + 1 /\ HeadBlock.len = available(q)
  BY <1>1, <1>2, InvFacts, BlockLemma DEF HeadBlock
<1>4. retry' \in [first : Nat, len : Nat]
  BY <1>1, <1>2, <1>3, InvFacts
<1>5. TypeOK'
  BY <1>1, <1>4 DEF IInv, TypeOK
<1>6. KindInv'
  BY <1>1 DEF IInv, TypeOK, KindInv, SocketSendRetry
<1>7. RetrySameBlock'
  BY <1>1 DEF RetrySameBlock, HeadBlock, is_empty
<1>8. QueueAt(q, sent, next)' /\ (refused # <<>> => BufferAt(refused, next))'
  BY <1>1 DEF IInv
<1> QED
  BY <1>5, <1>6, <1>7, <1>8 DEF IInv

\* One iteration of OutputQueue::write(tcp_pcb) keeps the invariant.
LEMMA TcpWriteOkInv ==
    ASSUME IInv, TcpWriteOk
    PROVE  IInv'
<1> DEFINE b == get_cblock(q, sndbuf)
<1>1. q.chain # <<>> /\ pc = "tcp" /\ sndbuf > 0 /\ sndbuf \in Nat \ {0}
  BY InvFacts DEF TcpWriteOk, is_empty
<1>2. /\ available(q) \in Nat \ {0}
      /\ b.first = sent + 1
      /\ b.len \in 1..sndbuf
      /\ b.len <= available(q)
  BY <1>1, InvFacts, BlockLemma
<1> HIDE DEF b
<1>3. b.len \in Nat \ {0}
  BY <1>1, <1>2
<1>4. can_move(q, b.len)
  BY <1>1, <1>2, <1>3, InvFacts, MoveLemma
<1>5. /\ q' = move(q, b.len) /\ sent' = b.first + b.len - 1
      /\ written' = written + b.len /\ pc' = pc
      /\ sndbuf' = sndbuf - b.len /\ UNCHANGED <<kind, next, refused, retry>>
  BY <1>1, <1>4 DEF TcpWriteOk, b
<1>6. sent' = sent + b.len /\ written' \in Nat
  BY <1>2, <1>3, <1>5, InvFacts
<1>7. sndbuf' \in 0..SndBuf
  <2>1. \A k, f, t \in Nat : k <= f /\ f <= t => f - k \in 0..t
    OBVIOUS
  <2>2. b.len \in Nat /\ b.len <= sndbuf /\ sndbuf \in Nat /\ sndbuf <= SndBuf
    BY <1>1, <1>2, InvFacts
  <2> QED
    BY <1>5, <2>1, <2>2, InvFacts
<1>8. retry' = NoBlock
  BY <1>1, <1>5 DEF IInv, TypeOK, KindInv
<1> QED
  BY <1>1, <1>2, <1>3, <1>5, <1>6, <1>7, <1>8, MoveInv

\* The steps that only change pc, written or the send buffer.
LEMMA ControlInv ==
    ASSUME IInv,
           \/ RecvFails \/ WriteSocket \/ SocketSendError \/ SocketWriteReturns
           \/ WriteTcp \/ TcpWriteError \/ TcpWriteReturns
           \/ \E n \in 1..SndBuf : TcpAcked(n)
    PROVE  IInv'
<1>1. UNCHANGED <<kind, q, next, sent, refused, retry>>
  BY DEF RecvFails, WriteSocket, SocketSendError, SocketWriteReturns, WriteTcp,
         TcpWriteError, TcpWriteReturns, TcpAcked
<1>2. written' \in Nat /\ sndbuf' \in 0..SndBuf
  BY InvFacts DEF RecvFails, WriteSocket, SocketSendError, SocketWriteReturns, WriteTcp,
         TcpWriteError, TcpWriteReturns, TcpAcked
<1>3. /\ pc' \in {"idle", "socket", "tcp", "failed"}
      /\ kind = "forward" => pc' # "socket"
      /\ kind = "reply" => pc' # "tcp"
  BY DEF RecvFails, WriteSocket, SocketSendError, SocketWriteReturns, WriteTcp,
         TcpWriteError, TcpWriteReturns, TcpAcked, IInv, KindInv
<1>4. TypeOK'
  BY <1>1, <1>2, <1>3 DEF IInv, TypeOK
<1>5. KindInv'
  BY <1>1, <1>3 DEF IInv, KindInv
<1> QED
  BY <1>1, <1>4, <1>5, SameQueue

\* Every step keeps the invariant.
LEMMA NextInv == IInv /\ [Next]_vars => IInv'
<1> SUFFICES ASSUME IInv, [Next]_vars PROVE IInv'
  OBVIOUS
<1>1. CASE UNCHANGED vars
  <2>1. TypeOK' /\ KindInv' /\ UNCHANGED <<q, next, sent, refused, retry>>
    BY <1>1 DEF vars, IInv, TypeOK, KindInv
  <2> QED
    BY <2>1, SameQueue
<1>2. CASE \E n \in 1..MaxRead : Recv(n)
  BY <1>2, RecvInv
<1>3. CASE \E b \in Buffers : Deliver(b)
  BY <1>3, DeliverInv
<1>4. CASE Redeliver
  BY <1>4, RedeliverInv
<1>5. CASE Clear
  BY <1>5, ClearInv
<1>6. CASE \E n \in 1..MaxPbuf : SocketSendOk(n)
  BY <1>6, SocketSendOkInv
<1>7. CASE SocketSendRetry
  BY <1>7, SocketSendRetryInv
<1>8. CASE TcpWriteOk
  BY <1>8, TcpWriteOkInv
<1>9. CASE \/ RecvFails \/ WriteSocket \/ SocketSendError \/ SocketWriteReturns
           \/ WriteTcp \/ TcpWriteError \/ TcpWriteReturns
           \/ \E n \in 1..SndBuf : TcpAcked(n)
  BY <1>9, ControlInv
<1> QED
  BY <1>1, <1>2, <1>3, <1>4, <1>5, <1>6, <1>7, <1>8, <1>9 DEF Next

-----------------------------------------------------------------------------
(***************************************************************************)
(* The theorems                                                            *)
(***************************************************************************)

\* The inductive invariant holds in every behaviour of the queue.
THEOREM QueueInvariant == Spec => []IInv
  BY InitInv, NextInv, PTL DEF Spec

\* The variables keep their types: in particular the offset and the free send
\* buffer, both results of subtractions, never become negative.
THEOREM TypeCorrect == Spec => []TypeOK
<1>1. IInv => TypeOK
  BY DEF IInv
<1> QED
  BY <1>1, QueueInvariant, PTL

\* Bytes leave an output queue in the order in which PortForwarder::recv or
\* tcp_recv_cb put them in, none lost, none twice, whatever the capacities,
\* partial writes, retries and errors.
THEOREM OrderPreserved == Spec => []BytesInOrder
<1>1. IInv => BytesInOrder
  <2> SUFFICES ASSUME IInv PROVE BytesInOrder
    OBVIOUS
  <2>1. CASE q.chain = <<>>
    BY <2>1 DEF IInv, QueueAt, BytesInOrder, is_empty
  <2>2. CASE q.chain # <<>>
    <3>1. q.chain \in Seq(Pbuf)
      BY InvFacts DEF Queue
    <3>2. Len(q.chain) \in Nat
      BY <3>1
    <3>3. \A i \in 1..Len(q.chain)-1 : i \in 1..Len(q.chain) /\ i < Len(q.chain)
      BY <3>2
    <3>4. \A i \in 1..Len(q.chain)-1 :
             q.chain[i+1].first = q.chain[i].first + q.chain[i].len
      BY <3>3 DEF IInv, QueueAt, WellFormed
    <3> QED
      BY <2>2, <3>4 DEF IInv, QueueAt, BytesInOrder, is_empty
  <2> QED
    BY <2>1, <2>2
<1> QED
  BY <1>1, QueueInvariant, PTL

\* The total length kept in each pbuf of the chain is exact, so that size() and
\* the capacity test of push() speak of what is really queued.
THEOREM TotalsExact == Spec => []TotLenExact
<1>1. IInv => TotLenExact
  <2> SUFFICES ASSUME IInv PROVE TotLenExact
    OBVIOUS
  <2>1. q.chain \in Seq(Pbuf) /\ q.offset \in Nat
    BY InvFacts DEF Queue
  <2>2. /\ Len(q.chain) \in Nat
        /\ q.chain = <<>> <=> Len(q.chain) = 0
        /\ \A i \in 1..Len(q.chain) : q.chain[i].len \in Nat
    BY <2>1, SeqLemma
  <2>3. \A i \in 1..Len(q.chain) :
           /\ q.chain[i].len > 0
           /\ q.chain[i].tot = q.chain[i].len +
                 (IF i = Len(q.chain) THEN 0 ELSE q.chain[i+1].tot)
    BY <2>2 DEF IInv, QueueAt, WellFormed
  <2>4. q.offset < (IF Len(q.chain) = 0 THEN 1 ELSE q.chain[1].len)
    BY <2>2 DEF IInv, QueueAt
  <2> QED
    BY <2>3, <2>4 DEF TotLenExact
<1> QED
  BY <1>1, QueueInvariant, PTL

\* PortForwarder::recv never finds the forward queue too full for what it read.
THEOREM ReadFits == Spec => []RecvAlwaysFits
<1>1. IInv => RecvAlwaysFits
  BY RecvFits DEF RecvAlwaysFits
<1> QED
  BY <1>1, QueueInvariant, PTL

\* After NETCTX_SND_RETRY the same block is presented again, as TLS requires.
THEOREM RetryIsStable == Spec => []RetrySameBlock
<1>1. IInv => RetrySameBlock
  BY DEF IInv
<1> QED
  BY <1>1, QueueInvariant, PTL

-----------------------------------------------------------------------------
(***************************************************************************)
(* How far a queue goes beyond its capacity                                *)
(***************************************************************************)

\* OverrunBounded is kept by push() only if the buffer that is redelivered is
\* one lwIP could have delivered.
OverrunInv ==
    /\ OverrunBounded
    /\ refused # <<>> => refused[1].tot <= LongestBuffer

\* No pbuf or chain of pbufs of lwIP is longer than the longest buffer.
LEMMA BufferLength ==
    ASSUME NEW b \in Buffers
    PROVE  b # <<>> /\ b[1].tot <= LongestBuffer
<1>1. MaxPbuf \in Nat \ {0}
  BY OutputQueueAssumption
<1>2. CASE \E a \in 1..MaxPbuf :
             b = <<[first |-> next, len |-> a, tot |-> a, push |-> FALSE]>>
  BY <1>1, <1>2 DEF LongestBuffer
<1>3. CASE \E a, c \in 1..MaxPbuf :
             b = <<[first |-> next, len |-> a, tot |-> a + c, push |-> FALSE],
                   [first |-> next + a, len |-> c, tot |-> c, push |-> FALSE]>>
  <2>1. PICK a \in 1..MaxPbuf, c \in 1..MaxPbuf :
             b = <<[first |-> next, len |-> a, tot |-> a + c, push |-> FALSE],
                   [first |-> next + a, len |-> c, tot |-> c, push |-> FALSE]>>
    BY <1>3
  <2>2. b # <<>> /\ b[1].tot = a + c
    BY <2>1
  <2> QED
    BY <1>1, <2>2 DEF LongestBuffer
<1> QED
  BY <1>2, <1>3 DEF Buffers

\* A buffer of lwIP that push() accepts takes the queue no further: it enters
\* an empty queue, or one that stays within its capacity.
LEMMA AcceptOverrun ==
    ASSUME IInv, NEW b, BufferAt(b, next), b[1].tot <= LongestBuffer,
           can_push(q, b), q' = push(q, b)
    PROVE  OverrunBounded'
<1>1. size(q') = size(q) + b[1].tot /\ b[1].tot \in Nat
  BY InvFacts, PushLemma
<1>2. size(q)' = size(q')
  BY DEF size, is_empty
<1>3. Capacity \in Nat /\ LongestBuffer \in Nat
  BY CapacityNat, OutputQueueAssumption DEF LongestBuffer
<1>4. size(q) = 0 \/ size(q) + b[1].tot <= Capacity
  BY DEF can_push, size
<1> QED
  BY <1>1, <1>2, <1>3, <1>4, InvFacts DEF OverrunBounded, LongestBuffer

\* A queue that has not grown, or that is within its capacity.
LEMMA ShrinkOverrun ==
    ASSUME IInv, OverrunBounded, size(q)' \in Nat,
           size(q)' <= size(q) \/ size(q)' <= Capacity
    PROVE  OverrunBounded'
<1>1. Capacity \in Nat /\ LongestBuffer \in Nat /\ size(q) \in Nat
  BY CapacityNat, InvFacts, OutputQueueAssumption DEF LongestBuffer
<1> QED
  BY <1>1 DEF OverrunBounded, LongestBuffer

\* Every step keeps the bound.
LEMMA OverrunStep == IInv /\ OverrunInv /\ [Next]_vars => OverrunInv'
<1> SUFFICES ASSUME IInv, OverrunInv, [Next]_vars PROVE OverrunInv'
  OBVIOUS
<1>1. IInv' /\ size(q)' \in Nat
  <2>1. IInv'
    BY NextInv
  <2>2. q' \in Queue
    BY <2>1 DEF IInv, TypeOK
  <2>3. size(q') \in Nat
    BY <2>2, SizeLemma
  <2> QED
    BY <2>1, <2>3 DEF size, is_empty
<1>2. CASE \E n \in 1..MaxRead : Recv(n)
  <2>1. size(q)' <= Capacity /\ refused' = <<>>
    BY <1>1, <1>2 DEF Recv, IInv, KindInv
  <2> QED
    BY <1>1, <2>1, ShrinkOverrun DEF OverrunInv
<1>3. CASE \E b \in Buffers : Deliver(b)
  <2>1. PICK b \in Buffers : Deliver(b)
    BY <1>3
  <2>2. BufferAt(b, next) /\ b # <<>> /\ b[1].tot <= LongestBuffer
    BY InvFacts, BuffersLemma, BufferLength
  <2>3. CASE can_push(q, b)
    <3>1. q' = push(q, b) /\ refused' = <<>>
      BY <2>1, <2>3 DEF Deliver, Accept
    <3> QED
      BY <2>2, <2>3, <3>1, AcceptOverrun DEF OverrunInv
  <2>4. CASE ~can_push(q, b)
    <3>1. q' = q /\ refused' = b
      BY <2>1, <2>4 DEF Deliver
    <3> QED
      BY <2>2, <3>1 DEF OverrunInv, OverrunBounded, LongestBuffer
  <2> QED
    BY <2>3, <2>4
<1>4. CASE Redeliver
  <2>1. /\ refused # <<>> /\ can_push(q, refused)
        /\ q' = push(q, refused) /\ refused' = <<>>
    BY <1>4 DEF Redeliver, Accept
  <2>2. BufferAt(refused, next) /\ refused[1].tot <= LongestBuffer
    BY <2>1 DEF IInv, OverrunInv
  <2> QED
    BY <2>1, <2>2, AcceptOverrun DEF OverrunInv
<1>5. CASE Clear
  <2>1. size(q)' = 0 /\ refused' = refused
    BY <1>5 DEF Clear, clear, EmptyQueue, size, is_empty
  <2>2. size(q)' <= size(q)
    BY <2>1, InvFacts
  <2> QED
    BY <1>1, <2>1, <2>2, ShrinkOverrun DEF OverrunInv, LongestBuffer
<1>6. CASE \E n \in 1..MaxPbuf : SocketSendOk(n)
  <2>1. PICK n \in 1..MaxPbuf : SocketSendOk(n)
    BY <1>6
  <2>2. n \in Nat \ {0} /\ q.chain # <<>> /\ refused' = refused
    BY <2>1, OutputQueueAssumption DEF SocketSendOk, is_empty
  <2>3. n <= available(q)
    BY <2>1, <2>2, InvFacts, BlockLemma DEF SocketSendOk, HeadBlock
  <2>4. can_move(q, n) /\ size(move(q, n)) <= size(q)
    BY <2>2, <2>3, InvFacts, MoveLemma
  <2>5. size(q)' <= size(q)
    BY <2>1, <2>4 DEF SocketSendOk, size, is_empty
  <2> QED
    BY <1>1, <2>2, <2>5, ShrinkOverrun DEF OverrunInv, LongestBuffer
<1>7. CASE TcpWriteOk
  <2>1. kind' = "forward"
    BY <1>7 DEF TcpWriteOk, IInv, TypeOK, KindInv
  <2>2. size(q)' <= Capacity /\ refused' = <<>>
    BY <1>1, <2>1 DEF IInv, KindInv
  <2> QED
    BY <1>1, <2>2, ShrinkOverrun DEF OverrunInv
<1>8. CASE UNCHANGED <<q, refused>>
  BY <1>8 DEF OverrunInv, OverrunBounded, LongestBuffer, size, is_empty
<1>9. CASE SocketSendRetry
  BY <1>8, <1>9 DEF SocketSendRetry
<1>10. CASE \/ RecvFails \/ WriteSocket \/ SocketSendError \/ SocketWriteReturns
            \/ WriteTcp \/ TcpWriteError \/ TcpWriteReturns
            \/ \E n \in 1..SndBuf : TcpAcked(n)
  BY <1>8, <1>10 DEF RecvFails, WriteSocket, SocketSendError, SocketWriteReturns,
         WriteTcp, TcpWriteError, TcpWriteReturns, TcpAcked
<1>11. CASE UNCHANGED vars
  BY <1>8, <1>11 DEF vars
<1> QED
  BY <1>2, <1>3, <1>4, <1>5, <1>6, <1>7, <1>9, <1>10, <1>11 DEF Next

\* What remote hosts send cannot pile up in a reply queue: it never holds more
\* than its capacity, or than the one buffer that entered it when it was empty,
\* although is_full() is wrong as soon as remaining_space() has wrapped.
THEOREM OverrunLimited == Spec => []OverrunBounded
<1>1. Init => OverrunInv
  <2>1. Capacity \in Nat /\ LongestBuffer \in Nat
    BY CapacityNat, OutputQueueAssumption DEF LongestBuffer
  <2> QED
    BY <2>1 DEF Init, OverrunInv, OverrunBounded, LongestBuffer, size, is_empty,
           EmptyQueue
<1>2. OverrunInv => OverrunBounded
  BY DEF OverrunInv
<1> QED
  BY <1>1, <1>2, OverrunStep, QueueInvariant, PTL DEF Spec
=============================================================================
