---------------------------- MODULE RamdiskSpec ----------------------------
(***************************************************************************)
(* What the RAM disk of assignments/a3 promises: a disk of plain sectors.  *)
(* An operation goes through the sectors of its buffer, in order and some  *)
(* at a time, copying them to the disk or from it.  It promises that to    *)
(* every reader of the device: the file system mounted from it, and anyone *)
(* who opens /dev/sbd0, of whom a3/test.sh:19 and 27 say otherwise (see    *)
(* TextHidden in module RamdiskText).                                      *)
(***************************************************************************)
EXTENDS Integers

CONSTANTS NSECTORS, Plain

VARIABLES disk,   \* what is on every sector
          op      \* the operation: its direction, its next sector, its buffer
dvars == <<disk, op>>

Sectors == 0 .. NSECTORS - 1
Disks   == [Sectors -> Plain]
Ops     == [write : BOOLEAN, at : 0 .. NSECTORS,
            buf : UNION {UNION {[from .. to -> Plain] : to \in Sectors} : from \in Sectors}]
NoOp    == [write |-> FALSE, at |-> 0, buf |-> <<>>]

\* The sectors of the buffer that are not served yet.
Left == {s \in DOMAIN op.buf : s >= op.at}

\* A device that is attached has anything on it.
Attach ==
  /\ Left = {}
  /\ disk' \in Disks
  /\ op' = NoOp

\* The next operation starts when the last one is through.
Begin ==
  /\ Left = {}
  /\ \/ op' = NoOp
     \/ /\ op' \in Ops
        /\ op'.at \in DOMAIN op'.buf
        /\ \A s \in DOMAIN op'.buf : s >= op'.at
  /\ UNCHANGED disk

Move ==
  \E n \in 1 .. NSECTORS :
    LET now == op.at .. op.at + n - 1 IN
    /\ now \subseteq Left
    /\ disk' = [s \in Sectors |->
                  IF op.write /\ s \in now THEN op.buf[s] ELSE disk[s]]
    /\ op' = [op EXCEPT !.at = @ + n,
                        !.buf = [s \in DOMAIN @ |->
                          IF ~op.write /\ s \in now THEN disk[s] ELSE @[s]]]

Spec == disk \in Disks /\ op = NoOp /\ [][Attach \/ Begin \/ Move]_dvars
=============================================================================
