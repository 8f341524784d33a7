----------------------------- MODULE FlatMemory -----------------------------
(***************************************************************************)
(* The memory a program is promised: bytes at physical addresses, reached  *)
(* through the page tables in force. LoadStore implements it.              *)
(*                                                                         *)
(* Promised are accesses inside a page, by addresses that are words: each  *)
(* byte goes through the tables. Of the others only this is promised: they *)
(* reach the bytes side by side from the first one on, none outside the    *)
(* memory that one lies in.                                                *)
(***************************************************************************)
EXTENDS Word, SequencesExt

CONSTANTS PageSize, ByteBits, Maps, None

VARIABLES
  map, spaces, bytes, \* page tables, what is where, the memory's bytes
  last, up

vars == <<map, spaces, bytes, last, up>>

Here(p) == {s \in Range(spaces) : s.base <= p /\ p < s.base + s.size}
At(p) == CHOOSE s \in Here(p) : TRUE
Kind(p) == IF Here(p) = {} THEN "none" ELSE At(p).kind

\* Bytes from p to the end of its space.
Rest(p) == At(p).base + At(p).size - p

Init ==
  /\ map = None /\ up = "running"
  /\ bytes = [p \in {q \in Words : Kind(q) = "memory"} |-> 0]

\* An address past the last word is that of the word it wraps to, when the
\* tables are on.
Real(v) ==
  IF map = None THEN v ELSE map[(v % Mod) \div PageSize] * PageSize + (v % PageSize)

Promised(addr, length) ==
  addr \in Words /\ (addr % PageSize) + length <= PageSize

\* Physical addresses of the access, in order.
Spot(addr, length) ==
  IF Promised(addr, length) THEN [k \in 1 .. length |-> Real(addr + k - 1)]
  ELSE LET p == Real(addr)
           reach == IF Kind(p) = "memory" /\ Rest(p) < length THEN Rest(p) ELSE length
       IN  [k \in 1 .. reach |-> p + k - 1]

LengthOf(op) ==
  CASE op \in {"LB", "LBU", "SB"} -> 1
    [] op \in {"LH", "LHU", "SH"} -> 2
    [] op \in {"LW", "SW"} -> XLEN \div ByteBits
    [] op = "CBO.ZERO" -> PageSize

\* Byte k of a word, counted from the least significant.
ByteOf(word, k) == (word \div 2^(ByteBits * (k - 1))) % 2^ByteBits

\* The word has these bytes, and above them zeros, or ones if negative.
Shows(word, data, negative) ==
  \A k \in 1 .. XLEN \div ByteBits :
    ByteOf(word, k) = IF k \in DOMAIN data THEN data[k] ELSE IF negative THEN 2^ByteBits - 1 ELSE 0

TopBit(data) == data[Len(data)] >= 2^(ByteBits - 1)

Reads(op, spot, data) ==
  /\ Shows(last'.got, data, op \in {"LB", "LH"} /\ TopBit(data))
  /\ UNCHANGED <<bytes, up>>

Load(op, spot) ==
  \/ /\ Kind(spot[1]) = "memory"
     /\ Reads(op, spot, [k \in DOMAIN spot |-> bytes[spot[k]]])
     /\ last'.io = <<>>
  \/ /\ Kind(spot[1]) = "uart"
     /\ Len(last'.io) = Len(spot)
     /\ \A k \in DOMAIN spot : last'.io[k][1] = "read" /\ last'.io[k][2] = spot[k]
     /\ Reads(op, spot, [k \in DOMAIN spot |-> last'.io[k][3]])
  \/ /\ Kind(spot[1]) = "none"
     /\ up' = "InvalidAddress" /\ UNCHANGED bytes

Store(op, spot, value) ==
  LET Put(k) == IF op = "CBO.ZERO" THEN 0 ELSE ByteOf(value, k)
  IN  \/ /\ Kind(spot[1]) = "memory" /\ Len(spot) = LengthOf(op)
         /\ \A p \in DOMAIN bytes :
              bytes'[p] = IF \E k \in DOMAIN spot : spot[k] = p
                          THEN Put(CHOOSE k \in DOMAIN spot : spot[k] = p) ELSE bytes[p]
         /\ UNCHANGED up
      \/ /\ Kind(spot[1]) = "memory" /\ Len(spot) < LengthOf(op)
         /\ up' = "ValueError" /\ UNCHANGED bytes
      \/ /\ Kind(spot[1]) = "uart"
         /\ last'.io = [k \in DOMAIN spot |-> <<"write", spot[k], Put(k)>>]
         /\ UNCHANGED <<bytes, up>>
      \/ /\ Kind(spot[1]) = "none"
         /\ up' = "InvalidAddress" /\ UNCHANGED bytes

SetMap == map' \in Maps \cup {None} /\ last'.op = "none" /\ UNCHANGED <<spaces, bytes, up>>

Next ==
  /\ up = "running"
  /\ \/ SetMap
     \/ /\ last'.op # "none" /\ UNCHANGED <<map, spaces>>
        /\ LET op == last'.op
               spot == Spot(last'.addr, LengthOf(op))
           IN  IF op \in {"LB", "LBU", "LH", "LHU", "LW"} THEN Load(op, spot)
                                                           ELSE Store(op, spot, last'.value)

Spec == Init /\ [][Next]_vars

=============================================================================
