---------------------------- MODULE RamdiskText ----------------------------
(***************************************************************************)
(* The RAM disk together with a record of what was written to it through   *)
(* the device since it was loaded, for what its readers get to see.        *)
(***************************************************************************)
EXTENDS Ramdisk, TLC

VARIABLE written   \* the sectors written since sbd_init, and with what

textvars == <<vars, written>>

\* A fresh disk has nothing on it that anybody wrote; a segment that is served
\* writes its sectors.
Watch ==
  written' = CASE loaded' # loaded -> <<>>
               [] pc = "serve" /\ cur' # cur /\ cur.write /\ ~BeyondEnd ->
                    [s \in Segment |-> cur.buf[s]] @@ written
               [] OTHER -> written

TextNext == Next /\ Watch

TextSpec == Init /\ written = <<>> /\ [][TextNext]_textvars
-----------------------------------------------------------------------------
(* What the repository says of reads, and the code does not do. *)

\* A read is through, and gave its caller the sectors of its buffer.
ReadDone == pc = "fetch" /\ cur.fs /\ ~cur.write

\* "Try to search for 'Testing homework 3!' on /dev/sbd0. Nothing should appear."
\* (a3/test.sh:19): no read of the device yields what was written to it.  The
\* code fails it: sbd_transfer decrypts for whoever reads, a reader of /dev/sbd0
\* as well as the file system mounted from it.
TextHidden ==
  ReadDone => \A s \in DOMAIN cur.buf \cap DOMAIN written :
                cur.buf[s] # written[s]

\* "We can tweak our hardware sector size, but the kernel talks to us in terms
\* of small sectors, always." (ramdisk.c:40): with any logical_block_size a
\* sector reads as it was written.  The code fails it: it multiplies small
\* sectors with the size of large ones, so that a sector's place on the disk
\* depends on where the segment that holds it begins.
ReadsBack ==
  ReadDone => \A s \in DOMAIN cur.buf \cap DOMAIN written :
                cur.buf[s] = written[s]
=============================================================================
