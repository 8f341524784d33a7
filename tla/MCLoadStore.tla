----------------------------- MODULE MCLoadStore -----------------------------
(***************************************************************************)
(* Bytes of one bit, words of four, pages of four bytes: the emulator's    *)
(* list of spaces with its gaps, and without them, so that an access over  *)
(* the end of a memory meets another memory or the device.                 *)
(***************************************************************************)
EXTENDS LoadStore

WithGaps == <<[kind |-> "memory", base |-> 12, size |-> 4], [kind |-> "memory", base |-> 4, size |-> 4],
              [kind |-> "uart", base |-> 8, size |-> 3]>>
SideBySide == <<[kind |-> "memory", base |-> 8, size |-> 4], [kind |-> "memory", base |-> 4, size |-> 4],
                [kind |-> "uart", base |-> 12, size |-> 3]>>

BothMachines == {WithGaps, SideBySide}

\* One that moves memory to devices and holes, and one that maps two pages to
\* a frame.
TwoMaps == {[p \in Page |-> (p + 2) % 4], [p \in Page |-> 1 + (p % 2)]}

\* Zero, which the cache takes for no address; the two ends of a page, whose
\* offsets differ in every bit, and from the second of which words cross into
\* the next page; and an address that wraps to the middle of the first.
SomeAddresses == {<<2, -2>>, <<8, 0>>, <<8, 3>>, <<15, 3>>}

=============================================================================
