-------------------------------- MODULE Hart --------------------------------
(***************************************************************************)
(* A hart that executes one instruction after the other, and how stale the *)
(* instructions may be. A stay is the time between two changes of mode or  *)
(* of satp (or two calls of CPU.run). A page is visited when the stay has  *)
(* fetched from it.                                                        *)
(*                                                                         *)
(* A store to a page that the stay has not visited takes effect on all of  *)
(* the page at once; in a visited page the words overwritten may still be  *)
(* executed, in this stay and after it, until a store from a stay that has *)
(* not visited the page. FENCE.I is none of this: it does nothing.         *)
(***************************************************************************)
EXTENDS Integers

CONSTANTS PageLen, Pages, Storable, Vectors, Programs

VARIABLES
  mem, pc,
  old,              \* overwritten words of each cell that may still be executed
  visited,          \* pages the stay has fetched from
  switched,         \* the stay is over
  status            \* "on" or "crashed"

vars == <<mem, pc, old, visited, switched, status>>

Cell == 0 .. PageLen * Pages - 1
PageOf(c) == c \div PageLen

Init ==
  /\ mem \in Programs /\ pc = 0 /\ status = "on" /\ switched = TRUE
  /\ old = [c \in Cell |-> {}] /\ visited = {}

Forgets == \A c \in Cell : old'[c] \subseteq old[c]

InStay == IF switched THEN {} ELSE visited

\* The next instructions are fetched.
Look ==
  /\ status = "on" /\ pc \in Cell /\ Forgets
  /\ visited' = InStay \cup {PageOf(pc)} /\ ~switched' /\ UNCHANGED <<mem, pc, status>>

EndStay == switched' /\ Forgets /\ UNCHANGED <<mem, pc, visited, status>>

\* An interrupt, or a page fault of the fetch or of a store. It may take the
\* hart back to the mode of the stay that was over.
Interrupt ==
  /\ status = "on" /\ pc' \in Vectors /\ Forgets
  /\ visited' \in {visited, InStay} /\ UNCHANGED <<mem, status>>

Reads(word) ==
  /\ status = "on" /\ ~switched /\ pc \in Cell /\ PageOf(pc) \in visited
  /\ word = mem[pc] \/ word \in old[pc]

Operate ==
  /\ Reads("op") \/ Reads("alt")
  /\ pc' = pc + 1 /\ Forgets /\ UNCHANGED <<mem, visited, switched, status>>

Jump ==
  /\ Reads("jump") /\ pc' \in 0 .. PageLen * Pages
  /\ Forgets /\ UNCHANGED <<mem, visited, status>>

Store(c, word) ==
  /\ Reads("store") /\ pc' = pc + 1
  /\ mem' = [mem EXCEPT ![c] = word]
  /\ \A d \in Cell :
       old'[d] \subseteq IF PageOf(d) = PageOf(c) /\ PageOf(c) \notin visited THEN {}
                         ELSE IF d = c THEN old[d] \cup {mem[d]} ELSE old[d]
  /\ UNCHANGED <<visited, switched, status>>

\* EBREAK, an access where there is no memory, a fetch from there, or an
\* undecodable word before the next jump of the page.
Crash ==
  /\ status = "on" /\ status' = "crashed" /\ Forgets /\ UNCHANGED <<mem, pc>>
  /\ \/ (Reads("ebreak") \/ Reads("store")) /\ UNCHANGED <<visited, switched>>
     \/ pc \notin Cell /\ visited' = InStay /\ ~switched'
     \/ /\ visited' = InStay \cup {PageOf(pc)} /\ ~switched'
        /\ \E c \in Cell :
             /\ c >= pc /\ PageOf(c) = PageOf(pc) /\ mem[c] = "bad"
             /\ \A d \in pc .. c - 1 : mem[d] # "jump"

Restart == status = "crashed" /\ status' = "on" /\ Forgets /\ UNCHANGED <<mem, pc, visited, switched>>

Next ==
  \/ Look \/ EndStay \/ Interrupt \/ Operate \/ Jump \/ Crash \/ Restart
  \/ \E c \in Cell, word \in Storable : Store(c, word)

Spec == Init /\ [][Next]_vars

=============================================================================
