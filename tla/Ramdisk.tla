------------------------------ MODULE Ramdisk ------------------------------
(***************************************************************************)
(* The encrypting RAM disk of assignments/a3/ramdisk.c: loading the module *)
(* with every way it can fail, unloading it, and the request loop, which   *)
(* the block layer calls with the queue's lock held.  The unit is the      *)
(* kernel's sector of 512 bytes; sbd.c is the same driver without cipher.  *)
(***************************************************************************)
EXTENDS Integers, Sequences, FiniteSets

CONSTANTS NSECTORS,    \* the parameter nsectors
          LBS,         \* logical_block_size, in sectors: 1 by default
          Plain,       \* what a sector can hold
          Majors,      \* values of the parameter major_num, 0 among them
          QUEUE_MAX    \* bound: requests that wait in the queue

\* nsectors * logical_block_size is a product of ints: it must not overflow.
ASSUME RamdiskAssumption ==
  /\ NSECTORS \in Nat \ {0} /\ LBS \in Nat \ {0} /\ QUEUE_MAX \in Nat \ {0}
  /\ Majors \subseteq Nat

Resources == {"cipher", "data", "queue", "major", "disk"}

VARIABLES loaded,      \* the module is in the kernel
          param,       \* major_num as it was given
          held,        \* resources the loaded module has
          leaked,      \* resources that earlier loads left behind
          data,        \* Device.data
          queue,       \* requests that wait
          pc, cur      \* where sbd_request stands, and its req
module == <<loaded, param, held, leaked>>
vars == <<module, data, queue, pc, cur>>

Size   == NSECTORS * LBS             \* Device.size
Cells  == 0 .. Size - 1

\* Mutant: the capacity is given in the disk's own blocks, one too many.
Capacity_bug == NSECTORS + 1

Capacity == NSECTORS                 \* set_capacity

\* External: the cipher, a bijection between sectors and what is stored.  The
\* result of crypto_cipher_setkey is not looked at: key_len, 8, is no length of
\* an AES key, so the key is refused and the cipher works without it, which
\* leaves it a bijection.
Encrypt(p) == [cipher |-> p]
Decrypt(c) == c.cipher

\* External: what the block layer sends.  A request has segments of whole
\* blocks and a buffer for the sectors from pos on, inside the capacity.
Request(fs, write, pos, segs, buf) ==
  [fs |-> fs, write |-> write, pos |-> pos, segs |-> segs, buf |-> buf]

NoRequest == Request(FALSE, FALSE, 0, <<>>, <<>>)

Segments == {<<n>> : n \in 1 .. Capacity} \cup ((1 .. Capacity) \X (1 .. Capacity))
Length(segs) == IF Len(segs) = 1 THEN segs[1] ELSE segs[1] + segs[2]

Sendable(p) == {s \in Segments : /\ p + Length(s) <= Capacity
                                 /\ p % LBS = 0
                                 /\ \A i \in DOMAIN s : s[i] % LBS = 0}

RequestsFor(p, segs) ==
  [fs : {TRUE}, write : BOOLEAN, pos : {p}, segs : {segs},
   buf : [p .. p + Length(segs) - 1 -> Plain]]

Requests ==
  UNION {UNION {RequestsFor(p, segs) : segs \in Sendable(p)} : p \in 0 .. Capacity - 1}

Init ==
  /\ loaded = FALSE /\ param \in Majors
  /\ held = {} /\ leaked = {}
  /\ data \in [Cells -> {Encrypt(p) : p \in Plain}]
  /\ queue = <<>>
  /\ pc = "idle" /\ cur = NoRequest
-----------------------------------------------------------------------------
(* sbd_init and sbd_exit. *)

\* Mutant: the error path forgets vfree.
InitUndo_bug(failed) == IF failed = "disk" /\ param = 0 THEN {"major"} ELSE {}

\* What the labels out and out_unregister give back.  A failure of vmalloc
\* returns at once.  register_blkdev returns 0 for a major that was asked for,
\* so that unregister_blkdev is later called with 0.
InitUndo(failed) ==
  CASE failed = "data" -> {}
    [] failed \in {"queue", "major"} -> {"data"}
    [] failed = "disk" -> {"data"} \cup IF param = 0 THEN {"major"} ELSE {}

\* What was acquired when a step fails.
InitGot(failed) ==
  CASE failed = "data" -> {}
    [] failed = "queue" -> {"data"}
    [] failed = "major" -> {"data", "queue"}
    [] failed = "disk" -> {"data", "queue", "major"}

\* The cipher may be an error pointer, which is not checked.
CipherOrError == {{"cipher"}, {}}

InitFails(failed) ==
  /\ ~loaded
  /\ \E c \in CipherOrError :
       leaked' = leaked \cup c \cup (InitGot(failed) \ InitUndo(failed))
  /\ UNCHANGED <<loaded, param, held, data, queue, pc, cur>>

\* vmalloc leaves the memory as it is.
InitOk ==
  /\ ~loaded
  /\ loaded' = TRUE
  /\ \E c \in CipherOrError : held' = c \cup (Resources \ {"cipher"})
  /\ data' \in [Cells -> {Encrypt(p) : p \in Plain}]
  /\ pc' = "idle" /\ cur' = NoRequest
  /\ UNCHANGED <<param, leaked, queue>>

\* The module is only unloaded when nobody uses the disk.  Freeing an error
\* pointer is an oops.
sbd_exit ==
  /\ loaded
  /\ pc = "idle" /\ queue = <<>>
  /\ IF "cipher" \in held
     THEN /\ loaded' = FALSE
          /\ leaked' = leaked \cup IF param = 0 THEN {} ELSE {"major"}
          /\ held' = {}
          /\ UNCHANGED pc
     ELSE /\ pc' = "oops"
          /\ UNCHANGED <<loaded, leaked, held>>
  /\ UNCHANGED <<param, data, queue, cur>>
-----------------------------------------------------------------------------
(* sbd_request. *)

\* External: requests arrive while the queue's lock is free.
Submit(r) ==
  /\ loaded
  /\ pc = "idle"
  /\ Len(queue) < QUEUE_MAX
  /\ queue' = Append(queue, r)
  /\ UNCHANGED <<module, data, pc, cur>>

\* Mutant: after a finished request the loop does not fetch the next one.
MayFetch_bug == pc = "idle"

MayFetch == pc \in {"idle", "fetch"}

\* blk_fetch_request, at the start and after every finished request.
Fetch ==
  /\ MayFetch
  /\ queue # <<>>
  /\ cur' = Head(queue)
  /\ queue' = Tail(queue)
  /\ pc' = "serve"
  /\ UNCHANGED <<module, data>>

FetchNone ==
  /\ pc = "fetch"
  /\ queue = <<>>
  /\ pc' = "idle"
  /\ UNCHANGED <<module, data, queue, cur>>

\* A request that is not the file system's is ended, and the loop goes on with
\* it: it ends it again and again, or finds its memory reused.
SkipNonFs ==
  /\ pc = "serve" /\ ~cur.fs
  /\ pc' = "ended"
  /\ UNCHANGED <<module, data, queue, cur>>

EndAgain ==
  /\ pc = "ended"
  /\ pc' \in {"ended", "oops"}
  /\ UNCHANGED <<module, data, queue, cur>>

\* Setting the key of an error pointer.
NoCipher ==
  /\ pc = "serve" /\ cur.fs
  /\ "cipher" \notin held
  /\ pc' = "oops"
  /\ UNCHANGED <<module, data, queue, cur>>

\* The part of the disk that sbd_transfer works on, and the segment's sectors.
Offset  == cur.pos * LBS
Nbytes  == Head(cur.segs) * LBS
Segment == cur.pos .. cur.pos + Head(cur.segs) - 1

BeyondEnd == Offset + Nbytes > Size

\* Mutant: a later segment is written from the start of the request's buffer.
Written_bug(junk) ==
  [c \in Cells |->
     IF c \in Offset .. Offset + Nbytes - 1
     THEN Encrypt(cur.buf[CHOOSE s \in DOMAIN cur.buf :
                            \A r \in DOMAIN cur.buf : s <= r])
     ELSE data[c]]

\* The disk when the segment was encrypted to it.  With LBS > 1 that goes on
\* behind the segment, where memory may hold anything (junk).
Written(junk) ==
  [c \in Cells |->
     LET s == cur.pos + c - Offset IN
     CASE c \notin Offset .. Offset + Nbytes - 1 -> data[c]
       [] s \in Segment -> Encrypt(cur.buf[s])
       [] OTHER -> Encrypt(junk[c])]

\* The buffer when the segment was decrypted from the disk.
Read == [s \in DOMAIN cur.buf |->
           IF s \in Segment THEN Decrypt(data[Offset + s - cur.pos])
                            ELSE cur.buf[s]]

\* With LBS > 1 a read goes on behind the segment's part of the buffer: what it
\* overwrites there may bring the kernel down, at once or never.
Overwrites == ~cur.write /\ ~BeyondEnd /\ Nbytes > Head(cur.segs)

\* sbd_transfer, which leaves out a segment beyond the end without an error,
\* and __blk_end_request_cur, which goes to the next segment if there is one.
Serve ==
  LET read == IF cur.write \/ BeyondEnd THEN cur.buf ELSE Read IN
  /\ pc = "serve" /\ cur.fs
  /\ "cipher" \in held
  /\ IF cur.write /\ ~BeyondEnd
     THEN \E junk \in [Offset .. Offset + Nbytes - 1 -> Plain] : data' = Written(junk)
     ELSE UNCHANGED data
  /\ cur' = [cur EXCEPT !.pos = @ + Head(cur.segs), !.segs = Tail(@), !.buf = read]
  /\ pc' \in {IF Len(cur.segs) = 1 THEN "fetch" ELSE "serve"}
              \cup {p \in {"oops"} : Overwrites}
  /\ UNCHANGED <<module, queue>>
-----------------------------------------------------------------------------
NonFs == Request(FALSE, FALSE, 0, <<1>>, <<>>)

Loop == Fetch \/ FetchNone \/ SkipNonFs \/ EndAgain \/ NoCipher \/ Serve

Next ==
  \/ \E failed \in Resources \ {"cipher"} : InitFails(failed)
  \/ InitOk \/ sbd_exit
  \/ \E r \in Requests \cup {NonFs} : Submit(r)
  \/ Loop

\* The block layer calls sbd_request when requests wait, and the loop runs.
Spec == Init /\ [][Next]_vars /\ WF_vars(Loop)
-----------------------------------------------------------------------------
(* Properties. *)

TypeOK ==
  /\ loaded \in BOOLEAN /\ param \in Majors
  /\ held \subseteq Resources /\ leaked \subseteq Resources
  /\ data \in [Cells -> {Encrypt(p) : p \in Plain}]
  /\ Len(queue) <= QUEUE_MAX
  /\ pc \in {"idle", "fetch", "serve", "ended", "oops"}
  /\ cur.pos \in 0 .. NSECTORS
  /\ DOMAIN cur.buf \subseteq 0 .. NSECTORS - 1

\* With the default block size the module is, through cipher, offsets and
\* segments, a disk: every sector reads as it was last written, whichever
\* requests wrote and read it and however they were split, and no other sector
\* or buffer changes.
Disk == INSTANCE RamdiskSpec WITH
  disk <- [s \in 0 .. NSECTORS - 1 |-> Decrypt(data[s])],
  op   <- [write |-> cur.write, at |-> cur.pos, buf |-> cur.buf]
DiskSpec == Disk!Spec

\* Whichever step of sbd_init fails and however often, nothing that others can
\* reach stays behind: no disk and no data, a major number only if it was
\* given as a parameter; a cipher or a queue does.
LeaksKnown ==
  leaked \subseteq {"cipher", "queue"} \cup IF param = 0 THEN {} ELSE {"major"}

\* Requests that wait are all served, unless a request that is not the file
\* system's is met (ramdisk.c:102) or the cipher is missing.
Served == (queue # <<>>) ~> ((queue = <<>> /\ pc = "idle") \/ pc \in {"ended", "oops"})

\* "Skip non-CMD request" (ramdisk.c:101): a request that is not the file
\* system's is skipped, and the loop comes to its end.  The code fails it: it
\* continues without fetching, with the request that it has just ended.
SkipsOn == (pc = "ended") ~> (pc = "idle")
=============================================================================
