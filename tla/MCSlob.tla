------------------------------- MODULE MCSlob -------------------------------
EXTENDS SlobStat
\* Pages of four units (eight bytes).  With the header of two bytes kmalloc
\* asks for two units (medium list) and four (large list, the page is full at
\* once); seven and nine bytes are one and two frames, outside the heap.  The caches' objects
\* have one unit (small list) and, with the RCU footer, three (large list).
MCKmallocSizes == {1, 5, 7, 9}
MCCaches == {[size |-> 2, align |-> 0, rcu |-> FALSE],
             [size |-> 3, align |-> 2, rcu |-> TRUE]}

\* One- and two-unit objects of one list, for the run about the page search.
FitCaches == {[size |-> 2, align |-> 0, rcu |-> FALSE],
              [size |-> 4, align |-> 0, rcu |-> FALSE]}

Symmetry == Permutations(Frames) \cup Permutations(Threads)
=============================================================================
