---------------------------- MODULE RamdiskProof ----------------------------
(***************************************************************************)
(* The RAM disk for every number of sectors and every request that the     *)
(* block layer may send: types, what a failed load leaves behind, and,     *)
(* with the default logical_block_size, that it implements RamdiskSpec.    *)
(***************************************************************************)
EXTENDS Ramdisk, TLAPS

\* A record with the fields of a request.
IsRequest(r) == r = Request(r.fs, r.write, r.pos, r.segs, r.buf)

\* The request in hand has segments that are not served: they lie within the
\* capacity, and its buffer reaches to their end.
InHand ==
  /\ cur.write \in BOOLEAN /\ cur.segs \in Segments
  /\ cur.pos \in Nat /\ cur.pos + Length(cur.segs) <= NSECTORS
  /\ \E from \in 0 .. cur.pos :
       cur.buf \in [from .. cur.pos + Length(cur.segs) - 1 -> Plain]

\* All of its buffer is served.
Through ==
  /\ cur.pos \in 0 .. NSECTORS
  /\ DOMAIN cur.buf \subseteq 0 .. NSECTORS - 1
  /\ \A s \in DOMAIN cur.buf : s < cur.pos

\* What sbd_request has in hand, by where it stands.
CurSane ==
  /\ IsRequest(cur)
  /\ InHand \/ Through
  /\ pc = "serve" /\ cur.fs => InHand
  /\ pc \in {"idle", "fetch"} => Through

\* What waits came from the block layer; nothing waits for an unloaded module.
QueueSane ==
  /\ queue \in Seq(Requests \cup {NonFs})
  /\ ~loaded => queue = <<>> /\ pc = "idle"

\* The inductive invariant.
IInv == TypeOK /\ LeaksKnown /\ CurSane /\ QueueSane
-----------------------------------------------------------------------------
(* Requests. *)

\* The one or two segments of a request.
LEMMA SegmentFacts ==
  ASSUME NEW segs \in Segments
  PROVE  /\ Head(segs) \in 1 .. NSECTORS
         /\ \/ Len(segs) = 1 /\ Tail(segs) = <<>> /\ Length(segs) = Head(segs)
            \/ /\ Len(segs) = 2 /\ Tail(segs) \in Segments
               /\ Length(Tail(segs)) \in 1 .. NSECTORS
               /\ Length(segs) = Head(segs) + Length(Tail(segs))
<1>1. CASE \E n \in 1 .. NSECTORS : segs = <<n>>
  BY <1>1 DEF Segments, Length, Capacity
<1>2. CASE \E n, m \in 1 .. NSECTORS : segs = <<n, m>>
  <2>1. PICK n \in 1 .. NSECTORS, m \in 1 .. NSECTORS : segs = <<n, m>>
    BY <1>2
  <2>2. Len(segs) = 2 /\ segs[1] = n /\ segs[2] = m /\ Head(segs) = n /\ Tail(segs) = <<m>>
    BY <2>1
  <2>3. Length(segs) = n + m
    <3>1. Length(segs) = segs[1] + segs[2]
      BY ONLY <2>2 DEF Length
    <3> QED BY <2>2, <3>1
  <2>4. Length(<<m>>) = m
    BY DEF Length
  <2>5. <<m>> \in Segments
    BY DEF Segments, Capacity
  <2> QED BY <2>1, <2>2, <2>3, <2>4, <2>5
<1> QED BY <1>1, <1>2 DEF Segments, Capacity

\* A request has some sectors.
LEMMA LengthNat ==
  ASSUME NEW segs \in Segments
  PROVE  Length(segs) \in Nat \ {0}
<1>1. CASE \E n \in 1 .. NSECTORS : segs = <<n>>
  BY <1>1, RamdiskAssumption DEF Length
<1>2. CASE \E n, m \in 1 .. NSECTORS : segs = <<n, m>>
  <2>1. PICK n \in 1 .. NSECTORS, m \in 1 .. NSECTORS : segs = <<n, m>>
    BY <1>2
  <2>2. Len(segs) = 2 /\ segs[1] = n /\ segs[2] = m
    BY <2>1
  <2>3. Length(segs) = n + m
    BY <2>2 DEF Length
  <2> QED BY <2>3, RamdiskAssumption
<1> QED BY <1>1, <1>2 DEF Segments, Capacity

\* A request that comes from the file system can be taken in hand.
LEMMA RequestFacts ==
  ASSUME NEW r \in Requests
  PROVE  /\ IsRequest(r) /\ r.fs = TRUE /\ r.write \in BOOLEAN
         /\ r.segs \in Segments /\ r.pos \in Nat
         /\ r.pos + Length(r.segs) <= NSECTORS
         /\ r.buf \in [r.pos .. r.pos + Length(r.segs) - 1 -> Plain]
<1>1. PICK p \in 0 .. NSECTORS - 1 :
        r \in UNION {RequestsFor(p, segs) : segs \in Sendable(p)}
  BY DEF Requests, Capacity
<1>2. PICK segs \in Sendable(p) : r \in RequestsFor(p, segs)
  BY <1>1
<1>3. segs \in Segments /\ p + Length(segs) <= NSECTORS
  BY DEF Sendable, Capacity
<1>4. /\ r = [fs |-> r.fs, write |-> r.write, pos |-> r.pos, segs |-> r.segs, buf |-> r.buf]
      /\ r.fs = TRUE /\ r.write \in BOOLEAN /\ r.pos = p /\ r.segs = segs
      /\ r.buf \in [p .. p + Length(segs) - 1 -> Plain]
  BY <1>2 DEF RequestsFor
<1> QED BY <1>3, <1>4 DEF IsRequest, Request

\* The request that is not the file system's, and the one before any other,
\* have no buffer.
LEMMA NoBuffer ==
  ASSUME NEW r \in {NonFs, NoRequest}
  PROVE  /\ IsRequest(r) /\ r.fs = FALSE /\ r.write = FALSE /\ r.pos = 0
         /\ r.buf = <<>> /\ DOMAIN r.buf = {}
BY DEF NonFs, NoRequest, Request, IsRequest

\* The next segment lies in the disk, whatever the block size.
LEMMA NextSegment ==
  ASSUME InHand
  PROVE  /\ Head(cur.segs) \in 1 .. NSECTORS
         /\ cur.pos + Head(cur.segs) <= cur.pos + Length(cur.segs)
         /\ cur.pos \in Nat /\ cur.pos + Head(cur.segs) <= NSECTORS
         /\ Offset \in Nat /\ Nbytes \in Nat /\ Size \in Nat
         /\ ~BeyondEnd /\ Head(cur.segs) <= Nbytes
<1> DEFINE n == Head(cur.segs)
           q == cur.pos
<1>1. /\ n \in 1 .. NSECTORS /\ q \in Nat /\ q + n <= q + Length(cur.segs)
      /\ q + n <= NSECTORS
  BY SegmentFacts, RamdiskAssumption DEF InHand
<1>2. NSECTORS \in Nat /\ LBS \in Nat \ {0}
  BY RamdiskAssumption
<1>3. Offset = q * LBS /\ Nbytes = n * LBS /\ Size = NSECTORS * LBS
  BY DEF Offset, Nbytes, Size
<1> HIDE DEF n, q
<1>4. /\ q * LBS \in Nat /\ n * LBS \in Nat /\ NSECTORS * LBS \in Nat
      /\ n <= n * LBS /\ q * LBS + n * LBS <= NSECTORS * LBS
  <2>1. q * LBS + n * LBS = (q + n) * LBS
    BY <1>1, <1>2
  <2>2. (q + n) * LBS <= NSECTORS * LBS
    BY <1>1, <1>2
  <2> QED BY <1>1, <1>2, <2>1, <2>2
<1>5. ~BeyondEnd
  BY <1>3, <1>4 DEF BeyondEnd
<1> QED BY <1>1, <1>3, <1>4, <1>5 DEF n, q
-----------------------------------------------------------------------------
(* The steps. *)

\* The invariant holds at first.
LEMMA InitIInv == Init => IInv
<1> SUFFICES ASSUME Init PROVE IInv
  OBVIOUS
<1>1. /\ loaded = FALSE /\ param \in Majors /\ held = {} /\ leaked = {}
      /\ data \in [Cells -> {Encrypt(p) : p \in Plain}]
      /\ queue = <<>> /\ pc = "idle" /\ cur = NoRequest
  BY DEF Init
<1>2. Through /\ IsRequest(cur)
  BY <1>1, NoBuffer, RamdiskAssumption DEF Through
<1>3. TypeOK
  <2>1. Len(queue) <= QUEUE_MAX
    BY <1>1, RamdiskAssumption
  <2>2. held \subseteq Resources /\ leaked \subseteq Resources
    BY <1>1
  <2> QED BY <1>1, <1>2, <2>1, <2>2 DEF TypeOK, Through
<1>4. CurSane /\ QueueSane /\ LeaksKnown
  BY <1>1, <1>2 DEF CurSane, QueueSane, LeaksKnown
<1> QED BY <1>1, <1>3, <1>4 DEF IInv

\* A step that leaves the request in hand alone.
LEMMA SameRequest ==
  ASSUME IInv, cur' = cur,
         pc' = "serve" /\ cur.fs => pc = "serve",
         pc' \in {"idle", "fetch"} => pc \in {"idle", "fetch"}
  PROVE  CurSane'
<1>1. InHand' <=> InHand
  BY DEF InHand
<1>2. Through' <=> Through
  BY DEF Through
<1> QED BY <1>1, <1>2 DEF IInv, CurSane

\* Loading fails: the resources that the error path forgets are left behind.
LEMMA FailsIInv ==
  ASSUME IInv, NEW failed \in Resources \ {"cipher"}, InitFails(failed)
  PROVE  IInv'
<1>1. PICK c \in CipherOrError :
        leaked' = leaked \cup c \cup (InitGot(failed) \ InitUndo(failed))
  BY DEF InitFails
<1>2. UNCHANGED <<loaded, param, held, data, queue, pc, cur>>
  BY DEF InitFails
<1>3. InitGot(failed) \ InitUndo(failed)
        \subseteq {"queue"} \cup IF param = 0 THEN {} ELSE {"major"}
  <2>1. failed = "data" \/ failed = "queue" \/ failed = "major" \/ failed = "disk"
    BY DEF Resources
  <2>2. CASE failed = "data"
    BY <2>2 DEF InitGot, InitUndo
  <2>3. CASE failed = "queue"
    BY <2>3 DEF InitGot, InitUndo
  <2>4. CASE failed = "major"
    BY <2>4 DEF InitGot, InitUndo
  <2>5. CASE failed = "disk"
    BY <2>5 DEF InitGot, InitUndo
  <2> QED BY <2>1, <2>2, <2>3, <2>4, <2>5
<1>4. LeaksKnown'
  BY <1>1, <1>2, <1>3 DEF IInv, LeaksKnown, CipherOrError
<1>5. TypeOK'
  <2>1. leaked' \subseteq Resources
    BY <1>4 DEF LeaksKnown, Resources
  <2> QED BY <1>2, <2>1 DEF IInv, TypeOK
<1>6. CurSane' /\ QueueSane'
  BY <1>2, SameRequest DEF IInv, QueueSane
<1> QED BY <1>2, <1>4, <1>5, <1>6 DEF IInv

\* Loading succeeds.
LEMMA OkIInv ==
  ASSUME IInv, InitOk
  PROVE  IInv'
<1>1. /\ ~loaded /\ loaded' = TRUE /\ held' \subseteq Resources
      /\ data' \in [Cells -> {Encrypt(p) : p \in Plain}]
      /\ pc' = "idle" /\ cur' = NoRequest
      /\ UNCHANGED <<param, leaked, queue>>
  BY DEF InitOk, CipherOrError, Resources
<1>2. Through' /\ IsRequest(cur')
  BY <1>1, NoBuffer, RamdiskAssumption DEF Through
<1>3. TypeOK'
  BY <1>1, <1>2 DEF IInv, TypeOK, Through
<1>4. CurSane' /\ QueueSane' /\ LeaksKnown'
  BY <1>1, <1>2 DEF IInv, CurSane, QueueSane, LeaksKnown
<1> QED BY <1>1, <1>3, <1>4 DEF IInv

\* Unloading: a major number that was given as a parameter stays registered.
LEMMA ExitIInv ==
  ASSUME IInv, sbd_exit
  PROVE  IInv'
<1>1. /\ pc = "idle" /\ queue = <<>> /\ pc' \in {"idle", "oops"}
      /\ loaded' \in BOOLEAN /\ (~loaded' => pc' = "idle")
      /\ held' \subseteq held
      /\ leaked' \subseteq leaked \cup IF param = 0 THEN {} ELSE {"major"}
      /\ UNCHANGED <<param, data, queue, cur>>
  BY DEF sbd_exit, IInv, TypeOK
<1>2. LeaksKnown'
  BY <1>1 DEF IInv, LeaksKnown
<1>3. TypeOK'
  <2>1. leaked' \subseteq Resources
    BY <1>2 DEF LeaksKnown, Resources
  <2>2. held' \subseteq Resources
    BY <1>1 DEF IInv, TypeOK
  <2> QED BY <1>1, <2>1, <2>2 DEF IInv, TypeOK
<1>4. CurSane'
  BY <1>1, SameRequest
<1>5. QueueSane'
  BY <1>1 DEF IInv, QueueSane
<1> QED BY <1>1, <1>2, <1>3, <1>4, <1>5 DEF IInv

\* A request arrives.
LEMMA SubmitIInv ==
  ASSUME IInv, NEW r \in Requests \cup {NonFs}, Submit(r)
  PROVE  IInv'
<1>1. /\ loaded /\ Len(queue) < QUEUE_MAX /\ queue' = Append(queue, r)
      /\ UNCHANGED <<module, data, pc, cur>>
  BY DEF Submit
<1>2. /\ queue \in Seq(Requests \cup {NonFs})
      /\ queue' \in Seq(Requests \cup {NonFs}) /\ Len(queue') = Len(queue) + 1
  BY <1>1 DEF IInv, QueueSane
<1>3. Len(queue') <= QUEUE_MAX
  BY <1>1, <1>2, RamdiskAssumption
<1>4. TypeOK' /\ LeaksKnown'
  BY <1>1, <1>3 DEF IInv, TypeOK, LeaksKnown, module
<1>5. CurSane' /\ QueueSane'
  BY <1>1, <1>2, SameRequest DEF QueueSane, module
<1> QED BY <1>1, <1>4, <1>5 DEF IInv

\* blk_fetch_request takes the next request in hand.
LEMMA FetchIInv ==
  ASSUME IInv, Fetch
  PROVE  IInv'
<1> DEFINE r == Head(queue)
<1>1. /\ queue # <<>> /\ cur' = r /\ queue' = Tail(queue) /\ pc' = "serve"
      /\ UNCHANGED <<module, data>>
  BY DEF Fetch
<1>2. /\ r \in Requests \cup {NonFs} /\ queue' \in Seq(Requests \cup {NonFs})
      /\ Len(queue') = Len(queue) - 1 /\ Len(queue) \in Nat
  BY <1>1 DEF IInv, QueueSane
<1> HIDE DEF r
<1>3. loaded' /\ loaded
  BY <1>1 DEF IInv, QueueSane, TypeOK, module
<1>4. CASE r \in Requests
  <2>1. InHand' /\ IsRequest(cur')
    <3>1. r.pos \in 0 .. r.pos
      <4>1. r.pos \in Nat
        BY <1>4, RequestFacts, Zenon
      <4> QED BY <4>1
    <3>2. InHand'
      BY <1>1, <1>4, <3>1, RequestFacts DEF InHand
    <3> QED BY <1>1, <1>4, <3>2, RequestFacts
  <2>2. DOMAIN cur'.buf \subseteq 0 .. NSECTORS - 1 /\ cur'.pos \in 0 .. NSECTORS
    <3>1. r.pos \in Nat /\ r.pos + Length(r.segs) <= NSECTORS /\ Length(r.segs) \in Nat
      <4>1. r.segs \in Segments
        BY <1>4, RequestFacts, Zenon
      <4>2. Length(r.segs) \in Nat
        BY <4>1, LengthNat
      <4> QED BY <1>4, <4>2, RequestFacts, Zenon
    <3>2. DOMAIN r.buf = r.pos .. r.pos + Length(r.segs) - 1
      BY <1>4, RequestFacts
    <3> QED BY <1>1, <3>1, <3>2, RamdiskAssumption
  <2>3. TypeOK' /\ LeaksKnown'
    BY <1>1, <1>2, <2>2, RamdiskAssumption DEF IInv, TypeOK, LeaksKnown, module
  <2>4. CurSane' /\ QueueSane'
    BY <1>1, <1>2, <1>3, <2>1 DEF CurSane, QueueSane
  <2> QED BY <1>1, <2>3, <2>4 DEF IInv
<1>5. CASE r = NonFs
  <2>1. Through' /\ IsRequest(cur') /\ ~cur'.fs
    <3>1. IsRequest(r) /\ r.fs = FALSE /\ r.pos = 0 /\ DOMAIN r.buf = {}
      BY <1>5, NoBuffer
    <3>2. Through'
      BY <1>1, <3>1, RamdiskAssumption DEF Through
    <3> QED BY <1>1, <3>1, <3>2
  <2>2. TypeOK' /\ LeaksKnown'
    BY <1>1, <1>2, <2>1, RamdiskAssumption DEF IInv, TypeOK, LeaksKnown, module, Through
  <2>3. CurSane' /\ QueueSane'
    BY <1>1, <1>2, <1>3, <2>1 DEF CurSane, QueueSane
  <2> QED BY <1>1, <2>2, <2>3 DEF IInv
<1> QED BY <1>2, <1>4, <1>5

\* Steps of the loop that touch neither request nor data.
LEMMA LoopIInv ==
  ASSUME IInv, FetchNone \/ SkipNonFs \/ EndAgain \/ NoCipher
  PROVE  IInv'
<1>1. /\ UNCHANGED <<module, data, queue, cur>>
      /\ \/ pc = "fetch" /\ pc' = "idle"
         \/ pc \in {"serve", "ended"} /\ pc' \in {"ended", "oops"}
  BY DEF FetchNone, SkipNonFs, EndAgain, NoCipher
<1>2. CurSane'
  BY <1>1, SameRequest
<1>3. TypeOK' /\ LeaksKnown'
  BY <1>1 DEF IInv, TypeOK, LeaksKnown, module
<1>4. QueueSane'
  BY <1>1 DEF IInv, QueueSane, module
<1> QED BY <1>1, <1>2, <1>3, <1>4 DEF IInv

\* What one segment does, whatever the block size: it moves on by the
\* segment's length, and the buffer stays one of plain sectors.
LEMMA ServeFacts ==
  ASSUME IInv, Serve
  PROVE  /\ InHand /\ cur'.fs = cur.fs /\ cur'.write = cur.write
         /\ cur'.pos = cur.pos + Head(cur.segs) /\ cur'.segs = Tail(cur.segs)
         /\ cur'.buf = IF cur.write THEN cur.buf ELSE Read
         /\ IsRequest(cur')
         /\ \A from \in 0 .. cur.pos :
              cur.buf \in [from .. cur.pos + Length(cur.segs) - 1 -> Plain]
                => cur'.buf \in [from .. cur.pos + Length(cur.segs) - 1 -> Plain]
         /\ data' \in [Cells -> {Encrypt(p) : p \in Plain}]
<1>1. InHand /\ IsRequest(cur)
  BY DEF Serve, IInv, CurSane
<1>2. /\ Head(cur.segs) \in 1 .. NSECTORS
      /\ cur.pos \in Nat /\ cur.pos + Head(cur.segs) <= cur.pos + Length(cur.segs)
      /\ Offset \in Nat /\ Nbytes \in Nat /\ Size \in Nat
      /\ ~BeyondEnd /\ Head(cur.segs) <= Nbytes
  BY <1>1, NextSegment
<1>3. cur' = [cur EXCEPT !.pos = @ + Head(cur.segs), !.segs = Tail(@),
                         !.buf = IF cur.write THEN cur.buf ELSE Read]
  BY <1>2 DEF Serve
<1>4. /\ cur'.fs = cur.fs /\ cur'.write = cur.write
      /\ cur'.pos = cur.pos + Head(cur.segs) /\ cur'.segs = Tail(cur.segs)
      /\ cur'.buf = IF cur.write THEN cur.buf ELSE Read
      /\ IsRequest(cur')
  BY <1>1, <1>3 DEF IsRequest, Request
<1>5. \A s \in Segment : Offset + s - cur.pos \in Cells
  BY <1>2 DEF Segment, BeyondEnd, Cells
<1>6. data \in [Cells -> {Encrypt(p) : p \in Plain}]
  BY DEF IInv, TypeOK
<1>7. \A c \in Cells : Decrypt(data[c]) \in Plain
  BY <1>6 DEF Encrypt, Decrypt
<1>8. ASSUME NEW from \in 0 .. cur.pos,
             cur.buf \in [from .. cur.pos + Length(cur.segs) - 1 -> Plain]
      PROVE  cur'.buf \in [from .. cur.pos + Length(cur.segs) - 1 -> Plain]
  BY <1>4, <1>5, <1>7, <1>8 DEF Read
<1>9. data' \in [Cells -> {Encrypt(p) : p \in Plain}]
  <2>1. CASE ~cur.write
    BY <1>6, <2>1 DEF Serve
  <2>2. CASE cur.write
    <3>1. PICK junk \in [Offset .. Offset + Nbytes - 1 -> Plain] : data' = Written(junk)
      BY <1>2, <2>2 DEF Serve
    <3>2. PICK from \in 0 .. cur.pos :
            cur.buf \in [from .. cur.pos + Length(cur.segs) - 1 -> Plain]
      BY <1>1 DEF InHand
    <3>3. \A s \in Segment : cur.buf[s] \in Plain
      <4>1. Segment \subseteq from .. cur.pos + Length(cur.segs) - 1
        <5>1. Length(cur.segs) \in Nat
          BY <1>1, LengthNat DEF InHand
        <5> QED BY <1>2, <3>2, <5>1 DEF Segment
      <4> QED BY <3>2, <4>1
    <3> QED BY <1>6, <3>1, <3>3 DEF Written
  <2> QED BY <1>1, <2>1, <2>2 DEF InHand
<1> QED BY <1>1, <1>4, <1>8, <1>9

\* A segment is served.
LEMMA ServeIInv ==
  ASSUME IInv, Serve
  PROVE  IInv'
<1>1. /\ InHand /\ cur'.fs = cur.fs /\ cur'.write = cur.write
      /\ cur'.pos = cur.pos + Head(cur.segs) /\ cur'.segs = Tail(cur.segs)
      /\ IsRequest(cur')
      /\ data' \in [Cells -> {Encrypt(p) : p \in Plain}]
  BY ServeFacts
<1>2. /\ Head(cur.segs) \in 1 .. NSECTORS /\ cur.pos \in Nat
      /\ cur.pos + Head(cur.segs) <= NSECTORS
  BY <1>1, NextSegment
<1>3. PICK from \in 0 .. cur.pos :
        cur'.buf \in [from .. cur.pos + Length(cur.segs) - 1 -> Plain]
  BY <1>1, ServeFacts DEF InHand
<1>4. /\ pc = "serve" /\ UNCHANGED <<module, queue>>
      /\ pc' \in {IF Len(cur.segs) = 1 THEN "fetch" ELSE "serve", "oops"}
  BY DEF Serve
<1>5. cur.segs \in Segments /\ cur.pos + Length(cur.segs) <= NSECTORS
  BY <1>1 DEF InHand
<1>6. \/ Len(cur.segs) = 1 /\ Length(cur.segs) = Head(cur.segs)
      \/ /\ Len(cur.segs) = 2 /\ cur'.segs \in Segments
         /\ Length(cur'.segs) \in 1 .. NSECTORS
         /\ Length(cur.segs) = Head(cur.segs) + Length(cur'.segs)
  BY <1>1, <1>5, SegmentFacts
<1>7. CurSane'
  <2>1. CASE Len(cur.segs) = 1
    <3>1. Through'
      BY <1>1, <1>2, <1>3, <1>6, <2>1, RamdiskAssumption DEF Through
    <3> QED BY <1>1, <1>4, <2>1, <3>1 DEF CurSane
  <2>2. CASE Len(cur.segs) # 1
    <3>1. /\ cur'.segs \in Segments /\ cur'.write \in BOOLEAN /\ cur'.pos \in Nat
          /\ cur'.pos + Length(cur'.segs) = cur.pos + Length(cur.segs)
      BY <1>1, <1>2, <1>6, <2>2 DEF InHand
    <3>2. from \in 0 .. cur'.pos
      BY <1>1, <1>2, <1>3
    <3>3. InHand'
      <4>1. cur'.buf \in [from .. cur'.pos + Length(cur'.segs) - 1 -> Plain]
        <5>1. cur'.pos + Length(cur'.segs) - 1 = cur.pos + Length(cur.segs) - 1
          <6>1. Length(cur.segs) \in Nat /\ Length(cur'.segs) \in Nat
            BY <1>5, <3>1, LengthNat
          <6> QED BY <1>2, <3>1, <6>1
        <5> QED BY <1>3, <5>1
      <4> QED BY <1>5, <3>1, <3>2, <4>1 DEF InHand
    <3> QED BY <1>1, <1>4, <2>2, <3>3 DEF CurSane
  <2> QED BY <2>1, <2>2
<1>8. TypeOK' /\ LeaksKnown'
  <2>1. DOMAIN cur'.buf \subseteq 0 .. NSECTORS - 1 /\ cur'.pos \in 0 .. NSECTORS
    BY <1>1, <1>2, <1>3, <1>5, <1>6, RamdiskAssumption
  <2> QED BY <1>1, <1>4, <2>1 DEF IInv, TypeOK, LeaksKnown, module
<1>9. QueueSane'
  BY <1>4 DEF IInv, QueueSane, module
<1> QED BY <1>7, <1>8, <1>9 DEF IInv

\* No step breaks the invariant.
LEMMA NextIInv == IInv /\ [Next]_vars => IInv'
<1> SUFFICES ASSUME IInv, [Next]_vars PROVE IInv'
  OBVIOUS
<1>1. CASE \E failed \in Resources \ {"cipher"} : InitFails(failed)
  BY <1>1, FailsIInv
<1>2. CASE InitOk
  BY <1>2, OkIInv
<1>3. CASE sbd_exit
  BY <1>3, ExitIInv
<1>4. CASE \E r \in Requests \cup {NonFs} : Submit(r)
  BY <1>4, SubmitIInv
<1>5. CASE Loop
  BY <1>5, FetchIInv, LoopIInv, ServeIInv DEF Loop
<1>6. CASE UNCHANGED vars
  <2>1. CurSane'
    BY <1>6, SameRequest DEF vars
  <2> QED BY <1>6, <2>1 DEF vars, module, IInv, TypeOK, LeaksKnown, QueueSane
<1> QED BY <1>1, <1>2, <1>3, <1>4, <1>5, <1>6 DEF Next

\* The invariant holds at all times.
LEMMA Inductive == Spec => []IInv
BY InitIInv, NextIInv, PTL DEF Spec

\* Data, queue and the request in hand keep their types for every block size:
\* __blk_end_request_cur never moves a request past the announced capacity.
THEOREM TypeCorrect == Spec => []TypeOK
<1>1. IInv => TypeOK
  BY DEF IInv
<1> QED BY <1>1, Inductive, PTL

\* However often sbd_init fails, and wherever, only a cipher, a queue and a
\* major number that was given as a parameter are left behind.
THEOREM LeaksBounded == Spec => []LeaksKnown
<1>1. IInv => LeaksKnown
  BY DEF IInv
<1> QED BY <1>1, Inductive, PTL
-----------------------------------------------------------------------------
(* With the default block size the module implements RamdiskSpec.  Loading  *)
(* it attaches the disk, fetching a request begins an operation, serving a  *)
(* segment moves some sectors, and nothing else touches disk or operation.  *)

\* The plain sectors, and the operation that the request in hand is.
Plaintext == [s \in 0 .. NSECTORS - 1 |-> Decrypt(data[s])]
Operation == [write |-> cur.write, at |-> cur.pos, buf |-> cur.buf]

\* The abstract disk's steps, with the state of the RAM disk put in.
LEMMA DiskState ==
  /\ Disk!Left = {s \in DOMAIN cur.buf : s >= cur.pos}
  /\ Disk!Attach <=> /\ Disk!Left = {} /\ Plaintext' \in Disk!Disks
                     /\ Operation' = Disk!NoOp
  /\ Disk!Begin <=>
       /\ Disk!Left = {} /\ Plaintext' = Plaintext
       /\ \/ Operation' = Disk!NoOp
          \/ /\ Operation' \in Disk!Ops
             /\ Operation'.at \in DOMAIN Operation'.buf
             /\ \A s \in DOMAIN Operation'.buf : s >= Operation'.at
  /\ UNCHANGED Disk!dvars <=> Plaintext' = Plaintext /\ Operation' = Operation
BY DEF Disk!Left, Disk!Attach, Disk!Begin, Disk!dvars, Plaintext, Operation

\* The cells of a disk of single sectors, and what they hold in plain.
LEMMA PlainSectors ==
  ASSUME LBS = 1, IInv
  PROVE  /\ Cells = 0 .. NSECTORS - 1
         /\ \A s \in 0 .. NSECTORS - 1 : Decrypt(data[s]) \in Plain
         /\ Plaintext \in Disk!Disks
<1>1. Cells = 0 .. NSECTORS - 1
  BY RamdiskAssumption DEF Cells, Size
<1>2. \A s \in 0 .. NSECTORS - 1 : Decrypt(data[s]) \in Plain
  BY <1>1 DEF IInv, TypeOK, Encrypt, Decrypt
<1> QED BY <1>1, <1>2 DEF Plaintext, Disk!Disks, Disk!Sectors

\* Between two requests nothing is left of an operation.
LEMMA NothingLeft ==
  ASSUME IInv, pc \in {"idle", "fetch"}
  PROVE  Disk!Left = {}
<1>1. /\ cur.pos \in 0 .. NSECTORS /\ DOMAIN cur.buf \subseteq 0 .. NSECTORS - 1
      /\ \A s \in DOMAIN cur.buf : s < cur.pos
  BY DEF IInv, CurSane, Through
<1> QED BY <1>1, DiskState, RamdiskAssumption

\* Steps that leave data and request alone are none of the disk.
LEMMA SameDisk ==
  ASSUME data' = data, cur' = cur
  PROVE  UNCHANGED Disk!dvars
BY DEF Disk!dvars

\* The abstract operation before any request.
LEMMA NoOperation ==
  ASSUME cur.write = FALSE, cur.pos = 0, cur.buf = <<>>
  PROVE  Operation = Disk!NoOp
BY DEF Operation, Disk!NoOp

\* Loading the module attaches a disk.
LEMMA InitOkAttaches ==
  ASSUME LBS = 1, IInv, InitOk
  PROVE  Disk!Attach
<1>1. /\ ~loaded /\ cur' = NoRequest
      /\ data' \in [Cells -> {Encrypt(p) : p \in Plain}]
  BY DEF InitOk
<1>2. Disk!Left = {}
  BY <1>1, NothingLeft DEF IInv, QueueSane
<1>3. Plaintext' \in Disk!Disks
  <2>1. Cells = 0 .. NSECTORS - 1
    BY PlainSectors
  <2>2. \A s \in 0 .. NSECTORS - 1 : Decrypt(data'[s]) \in Plain
    BY <1>1, <2>1 DEF Encrypt, Decrypt
  <2> QED BY <2>2 DEF Plaintext, Disk!Disks, Disk!Sectors
<1>4. Operation' = Disk!NoOp
  BY <1>1 DEF Operation, Disk!NoOp, NoRequest, Request
<1> QED BY <1>2, <1>3, <1>4, DiskState

\* Fetching a request begins an operation; one that is not the file system's
\* is no operation.
LEMMA FetchBegins ==
  ASSUME IInv, Fetch
  PROVE  Disk!Begin
<1>1. /\ pc \in {"idle", "fetch"} /\ queue # <<>>
      /\ cur' = Head(queue) /\ data' = data
  BY DEF Fetch, MayFetch
<1>2. Disk!Left = {} /\ Plaintext' = Plaintext
  BY <1>1, NothingLeft DEF Plaintext
<1>3. cur' \in Requests \cup {NonFs}
  BY <1>1 DEF IInv, QueueSane
<1>4. CASE cur' = NonFs
  <2>1. Operation' = Disk!NoOp
    BY <1>4 DEF Operation, Disk!NoOp, NonFs, Request
  <2> QED BY <1>2, <2>1, DiskState
<1>5. CASE cur' \in Requests
  <2> DEFINE p == cur'.pos
             e == p + Length(cur'.segs) - 1
  <2>1. /\ cur'.write \in BOOLEAN /\ cur'.segs \in Segments /\ p \in Nat
        /\ p + Length(cur'.segs) <= NSECTORS
        /\ cur'.buf \in [p .. e -> Plain]
    BY <1>5, RequestFacts
  <2>2. Length(cur'.segs) \in Nat \ {0}
    BY <2>1, LengthNat
  <2>3. /\ p \in Disk!Sectors /\ e \in Disk!Sectors /\ p \in 0 .. NSECTORS
        /\ p \in p .. e /\ \A s \in p .. e : s >= p
    BY <2>1, <2>2, RamdiskAssumption DEF Disk!Sectors
  <2> HIDE DEF p, e
  <2>4. cur'.buf \in UNION {UNION {[from .. to -> Plain] : to \in Disk!Sectors} :
                              from \in Disk!Sectors}
    BY <2>1, <2>3
  <2>5. Operation' = [write |-> cur'.write, at |-> p, buf |-> cur'.buf]
    BY DEF Operation, p
  <2>6. Operation' \in Disk!Ops
    BY <2>1, <2>3, <2>4, <2>5 DEF Disk!Ops
  <2>7. /\ Operation'.at \in DOMAIN Operation'.buf
        /\ \A s \in DOMAIN Operation'.buf : s >= Operation'.at
    BY <2>1, <2>3, <2>5
  <2> QED BY <1>2, <2>6, <2>7, DiskState
<1> QED BY <1>3, <1>4, <1>5

\* Serving a segment moves its sectors, between the places they have on disk
\* and in the buffer, and through the cipher.
LEMMA ServeMoves ==
  ASSUME LBS = 1, IInv, Serve
  PROVE  Disk!Move
<1> DEFINE n == Head(cur.segs)
           now == cur.pos .. cur.pos + n - 1
<1>1. /\ InHand /\ cur'.write = cur.write /\ cur'.pos = cur.pos + n
      /\ cur'.buf = IF cur.write THEN cur.buf ELSE Read
  BY ServeFacts
<1>2. /\ n \in 1 .. NSECTORS /\ cur.pos \in Nat /\ cur.pos + n <= NSECTORS
      /\ cur.pos + n <= cur.pos + Length(cur.segs) /\ ~BeyondEnd
  BY <1>1, NextSegment
<1>3. Offset = cur.pos /\ Nbytes = n /\ Segment = now
  BY <1>2, RamdiskAssumption DEF Offset, Nbytes, Segment
<1> HIDE DEF n
<1>4. now \subseteq 0 .. NSECTORS - 1
  BY <1>2, RamdiskAssumption
<1>5. now \subseteq DOMAIN cur.buf
  <2>1. PICK from \in 0 .. cur.pos :
          cur.buf \in [from .. cur.pos + Length(cur.segs) - 1 -> Plain]
    BY <1>1 DEF InHand
  <2>2. Length(cur.segs) \in Nat
    BY <1>1, LengthNat DEF InHand
  <2>3. now \subseteq from .. cur.pos + Length(cur.segs) - 1
    BY <1>2, <2>2, RamdiskAssumption
  <2> QED BY <2>1, <2>3
<1>6. now \subseteq Disk!Left
  BY <1>2, <1>5, DiskState, RamdiskAssumption
<1>7. Plaintext' = [s \in Disk!Sectors |->
                      IF cur.write /\ s \in now THEN cur.buf[s] ELSE Plaintext[s]]
  <2>1. CASE ~cur.write
    BY <2>1 DEF Serve, Plaintext, Disk!Sectors
  <2>2. CASE cur.write
    <3>1. PICK junk \in [Offset .. Offset + Nbytes - 1 -> Plain] : data' = Written(junk)
      BY <1>2, <2>2 DEF Serve
    <3>2. ASSUME NEW s \in 0 .. NSECTORS - 1
          PROVE  data'[s] = IF s \in now THEN Encrypt(cur.buf[s]) ELSE data[s]
      <4>1. s \in Cells /\ cur.pos + s - Offset = s
        BY <1>2, <1>3, PlainSectors, RamdiskAssumption
      <4> QED BY <1>3, <3>1, <4>1 DEF Written
    <3>3. ASSUME NEW s \in 0 .. NSECTORS - 1
          PROVE  Decrypt(data'[s]) = IF s \in now THEN cur.buf[s] ELSE Plaintext[s]
      <4>1. CASE s \in now
        <5>1. Decrypt(Encrypt(cur.buf[s])) = cur.buf[s]
          BY DEF Encrypt, Decrypt
        <5> QED BY <3>2, <4>1, <5>1
      <4>2. CASE s \notin now
        BY <3>2, <4>2 DEF Plaintext
      <4> QED BY <4>1, <4>2
    <3> QED BY <2>2, <3>3 DEF Plaintext, Disk!Sectors
  <2> QED BY <1>1, <2>1, <2>2 DEF InHand
<1>8. cur'.buf = [s \in DOMAIN cur.buf |->
                    IF ~cur.write /\ s \in now THEN Plaintext[s] ELSE cur.buf[s]]
  <2>1. CASE cur.write
    <3>1. cur.buf = [s \in DOMAIN cur.buf |-> cur.buf[s]]
      BY <1>1 DEF InHand
    <3> QED BY <1>1, <2>1, <3>1
  <2>2. CASE ~cur.write
    <3>1. ASSUME NEW s \in now
          PROVE  Decrypt(data[Offset + s - cur.pos]) = Plaintext[s]
      <4>1. Offset + s - cur.pos = s
        BY <1>2, <1>3, RamdiskAssumption
      <4> QED BY <1>4, <4>1 DEF Plaintext
    <3> QED BY <1>1, <1>3, <2>2, <3>1 DEF Read
  <2> QED BY <1>1, <2>1, <2>2 DEF InHand
<1> DEFINE buf == [s \in DOMAIN cur.buf |->
                     IF ~cur.write /\ s \in now THEN Plaintext[s] ELSE cur.buf[s]]
<1>9. Operation' = [write |-> cur.write, at |-> cur.pos + n, buf |-> buf]
  BY <1>1, <1>8 DEF Operation
<1>10. /\ Operation.write = cur.write /\ Operation.at = cur.pos
       /\ Operation.buf = cur.buf
  BY DEF Operation
<1>11. [Operation EXCEPT !.at = Operation.at + n, !.buf = buf]
         = [write |-> cur.write, at |-> cur.pos + n, buf |-> buf]
  <2> HIDE DEF buf
  <2>1. [Operation EXCEPT !.at = cur.pos + n]
          = [write |-> cur.write, at |-> cur.pos + n, buf |-> cur.buf]
    BY DEF Operation
  <2>2. [[write |-> cur.write, at |-> cur.pos + n, buf |-> cur.buf] EXCEPT !.buf = buf]
          = [write |-> cur.write, at |-> cur.pos + n, buf |-> buf]
    OBVIOUS
  <2>3. [Operation EXCEPT !.at = Operation.at + n, !.buf = buf]
          = [[Operation EXCEPT !.at = cur.pos + n] EXCEPT !.buf = buf]
    BY <1>10
  <2> QED BY <2>1, <2>2, <2>3
<1>12. [Operation EXCEPT
          !.at = @ + n,
          !.buf = [s \in DOMAIN @ |->
                     IF ~Operation.write /\ s \in now THEN Plaintext[s] ELSE @[s]]]
       = [Operation EXCEPT !.at = Operation.at + n, !.buf = buf]
  BY <1>10
<1>13. Disk!Move <=>
         \E k \in 1 .. NSECTORS :
           LET seg == Operation.at .. Operation.at + k - 1 IN
           /\ seg \subseteq Disk!Left
           /\ Plaintext' = [s \in Disk!Sectors |->
                  IF Operation.write /\ s \in seg THEN Operation.buf[s] ELSE Plaintext[s]]
           /\ Operation' = [Operation EXCEPT
                  !.at = @ + k,
                  !.buf = [s \in DOMAIN @ |->
                    IF ~Operation.write /\ s \in seg THEN Plaintext[s] ELSE @[s]]]
  BY DEF Disk!Move, Plaintext, Operation
<1>14. Operation.at .. Operation.at + n - 1 = now
  BY <1>10
<1>15. /\ now \subseteq Disk!Left
       /\ Plaintext' = [s \in Disk!Sectors |->
              IF Operation.write /\ s \in now THEN Operation.buf[s] ELSE Plaintext[s]]
       /\ Operation' = [Operation EXCEPT
              !.at = @ + n,
              !.buf = [s \in DOMAIN @ |->
                IF ~Operation.write /\ s \in now THEN Plaintext[s] ELSE @[s]]]
  BY <1>6, <1>7, <1>9, <1>10, <1>11, <1>12
<1> HIDE DEF now
<1> QED BY <1>2, <1>13, <1>14, <1>15

\* Every step of the module is a step of the disk, or none.
LEMMA NextDisk ==
  ASSUME LBS = 1, IInv, [Next]_vars
  PROVE  [Disk!Attach \/ Disk!Begin \/ Disk!Move]_Disk!dvars
<1>1. CASE \E failed \in Resources \ {"cipher"} : InitFails(failed)
  BY <1>1, SameDisk DEF InitFails
<1>2. CASE InitOk
  BY <1>2, InitOkAttaches
<1>3. CASE sbd_exit
  BY <1>3, SameDisk DEF sbd_exit
<1>4. CASE \E r \in Requests \cup {NonFs} : Submit(r)
  BY <1>4, SameDisk DEF Submit
<1>5. CASE Fetch
  BY <1>5, FetchBegins
<1>6. CASE FetchNone \/ SkipNonFs \/ EndAgain \/ NoCipher
  BY <1>6, SameDisk DEF FetchNone, SkipNonFs, EndAgain, NoCipher
<1>7. CASE Serve
  BY <1>7, ServeMoves
<1>8. CASE UNCHANGED vars
  BY <1>8, SameDisk DEF vars
<1> QED BY <1>1, <1>2, <1>3, <1>4, <1>5, <1>6, <1>7, <1>8 DEF Next, Loop

\* Whatever requests come and however they are split, the module is a disk of
\* plain sectors: each reads as it was last written.
THEOREM Implements == ASSUME LBS = 1 PROVE Spec => DiskSpec
<1>1. Init => Plaintext \in Disk!Disks /\ Operation = Disk!NoOp
  <2> SUFFICES ASSUME Init PROVE Plaintext \in Disk!Disks /\ Operation = Disk!NoOp
    OBVIOUS
  <2>1. Plaintext \in Disk!Disks
    BY InitIInv, PlainSectors
  <2>2. Operation = Disk!NoOp
    BY NoOperation DEF Init, NoRequest, Request
  <2> QED BY <2>1, <2>2
<1>2. IInv /\ [Next]_vars => [Disk!Attach \/ Disk!Begin \/ Disk!Move]_Disk!dvars
  BY NextDisk
<1> QED BY <1>1, <1>2, Inductive, PTL DEF Spec, DiskSpec, Disk!Spec, Plaintext, Operation
=============================================================================
