------------------------------ MODULE Channel ------------------------------
(***************************************************************************)
(* What a serial line promises: messages that are sent in turn are got in  *)
(* turn and once, none is got that was not sent, and messages are lost     *)
(* only where Cap others are under way or, on a leaky line, one at a time. *)
(* Uart implements it in each direction.                                   *)
(***************************************************************************)
EXTENDS Naturals, Sequences, FiniteSets

CONSTANTS
  Message, Receiver,
  InTurn,  \* pairs of messages of which the second may be got after the first
  Cap,     \* messages that the line holds
  Leaky    \* whether it also loses some

VARIABLES
  sent, transit, \* messages that were sent, and that are under way
  got            \* what each receiver got

vars == <<sent, transit, got>>

Init == sent = {} /\ transit = {} /\ got = [r \in Receiver |-> <<>>]

Full(line) == Cardinality(line) >= Cap

Send(m) ==
  /\ m \notin sent /\ \A x \in sent : <<x, m>> \in InTurn
  /\ sent' = sent \cup {m}
  /\ transit' = transit \cup {m} \/ (Full(transit) /\ UNCHANGED transit)
  /\ UNCHANGED got

Deliver(r, m) ==
  /\ m \in transit /\ \A i \in DOMAIN got[r] : <<got[r][i], m>> \in InTurn
  /\ got' = [got EXCEPT ![r] = Append(got[r], m)]
  /\ transit' = transit \ {m}
  /\ UNCHANGED sent

Overrun ==
  /\ transit' \in SUBSET transit /\ Full(transit')
  /\ UNCHANGED <<sent, got>>

Leak(m) ==
  /\ Leaky /\ transit' = transit \ {m}
  /\ UNCHANGED <<sent, got>>

Next ==
  \/ \E m \in Message : Send(m)
  \/ \E m \in transit : Leak(m) \/ \E r \in Receiver : Deliver(r, m)
  \/ Overrun

Spec == Init /\ [][Next]_vars

=============================================================================
