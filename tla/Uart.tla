-------------------------------- MODULE Uart --------------------------------
(***************************************************************************)
(* The UART as the threads around it see it (peripheral.UART_8250): the    *)
(* CPU thread in read_byte and write_byte, one _socket_handler thread for  *)
(* each connection, two bounded queues, one threading.Event, and the       *)
(* client_id counter by which a newer connection retires an older one.     *)
(*                                                                         *)
(* A step is one operation on shared state. `client_id += 1' is a load and *)
(* a store; queue and event operations are atomic (they hold a lock). The  *)
(* characters the CPU writes are numbered, and so are those each client    *)
(* types.                                                                  *)
(***************************************************************************)
EXTENDS Naturals, FiniteSets, SequencesExt

CONSTANTS
  Client,
  OutCap, InCap,    \* room in write_queue and read_queue, 10240 in the code
  MaxHandled,       \* characters a handler reads or writes in a turn, 1024 in the code
  Writes,           \* characters of the CPU that are told apart, the first it writes
  Reads,            \* where read_byte goes on: "reading" for the data register, "run" for others
  Keys,             \* bound on the characters a client types
  None

ASSUME UartConstants ==
  /\ OutCap \in Nat \ {0} /\ InCap \in Nat \ {0} /\ MaxHandled \in Nat \ {0}
  /\ Writes \in Nat /\ Keys \in Nat /\ Reads \subseteq {"run", "reading"}
  /\ IsFiniteSet(Client) /\ None \notin Nat

VARIABLES
  cpu,              \* where the CPU's thread is in __init__, read_byte or write_byte
  write_queue, read_queue,
  rw_event,         \* the flag of the Event
  client_id,
  pc,               \* where each handler is in _socket_handler
  loaded,           \* its temporary in client_id += 1, until it has registered
  my_client_id,
  chunk,            \* characters received and not yet queued
  sent,             \* its loop counter, 0 outside the loop
  hand,             \* character taken from write_queue and not yet sent
  socket,           \* typed by the client and not yet received
  alive,            \* the client has not closed its end
  \* Auxiliary.
  written,          \* characters the CPU has offered so far
  typed,            \* characters each client has typed so far
  received,         \* what each client has got
  consumed,         \* what the CPU has read
  overlap           \* two registrations have overlapped

queues == <<write_queue, read_queue>>
regs == <<client_id, loaded, my_client_id, overlap>>
io == <<chunk, sent, hand, socket, alive>>
history == <<written, typed, received, consumed>>
vars == <<cpu, queues, rw_event, pc, regs, io, history>>

Registering == {"load", "store", "read_id"}
Serving == {"check", "recv", "put", "write", "get", "send", "idle", "wait", "blocked", "clear"}

Init ==
  /\ cpu = "building" /\ write_queue = <<>> /\ read_queue = <<>>
  /\ rw_event = FALSE /\ client_id = None
  /\ pc = [c \in Client |-> "absent"]
  /\ loaded = [c \in Client |-> None] /\ my_client_id = [c \in Client |-> None]
  /\ chunk = [c \in Client |-> <<>>] /\ sent = [c \in Client |-> 0]
  /\ hand = [c \in Client |-> None] /\ socket = [c \in Client |-> <<>>]
  /\ alive = [c \in Client |-> FALSE]
  /\ written = 0 /\ typed = [c \in Client |-> 0]
  /\ received = [c \in Client |-> <<>>] /\ consumed = <<>>
  /\ overlap = FALSE

Goto(c, l) == pc' = [pc EXCEPT ![c] = l]

\* Event.set wakes every waiter that is blocked, whatever becomes of the flag.
Set ==
  /\ rw_event' = TRUE
  /\ pc' = [c \in Client |-> IF pc[c] = "blocked" THEN "clear" ELSE pc[c]]

(***************************************************************************)
(* The CPU thread.                                                         *)
(***************************************************************************)

\* The server is already running when __init__ comes to its last line.
SetId ==
  /\ cpu = "building" /\ cpu' = "run" /\ client_id' = 0
  /\ UNCHANGED <<queues, rw_event, pc, loaded, my_client_id, overlap, io, history>>

\* Mutant: a full queue makes room by dropping its oldest character.
WritePutOldest ==
  /\ cpu = "run" /\ written < Writes
  /\ written' = written + 1 /\ cpu' = "written"
  /\ write_queue' = Append(IF Len(write_queue) < OutCap THEN write_queue ELSE Tail(write_queue), written + 1)
  /\ UNCHANGED <<read_queue, rw_event, pc, regs, io, typed, received, consumed>>

\* write_byte: put_nowait, then set; a full queue drops the character.
Offer(char) ==
  /\ cpu = "run"
  /\ IF Len(write_queue) < OutCap
     THEN write_queue' = Append(write_queue, char) /\ cpu' = "written"
     ELSE UNCHANGED <<write_queue, cpu>>
  /\ UNCHANGED <<read_queue, rw_event, pc, regs, io, typed, received, consumed>>

WritePut ==
  /\ written < Writes /\ written' = written + 1
  /\ Offer(written + 1)

\* The guest writes on, for ever if it likes: characters that are no longer
\* told apart and that history leaves out.
Unnumbered == Writes + 1

WriteOn ==
  /\ written = Writes /\ UNCHANGED written
  /\ Offer(Unnumbered)

WriteSet ==
  /\ cpu = "written" /\ cpu' = "run" /\ Set
  /\ UNCHANGED <<queues, regs, io, history>>

\* read_byte: set, then for the data register the size and the character.
ReadSet(l) ==
  /\ cpu = "run" /\ cpu' = l /\ Set
  /\ UNCHANGED <<queues, regs, io, history>>

ReadCheck ==
  /\ cpu = "reading"
  /\ cpu' = IF read_queue # <<>> THEN "taking" ELSE "run"
  /\ UNCHANGED <<queues, rw_event, pc, regs, io, history>>

ReadTake ==
  /\ cpu = "taking" /\ cpu' = "run"
  /\ IF read_queue # <<>>
     THEN read_queue' = Tail(read_queue) /\ consumed' = Append(consumed, Head(read_queue))
     ELSE UNCHANGED <<read_queue, consumed>>
  /\ UNCHANGED <<write_queue, rw_event, pc, regs, io, written, typed, received>>

(***************************************************************************)
(* The clients.                                                            *)
(***************************************************************************)

\* The server accepts the connection and starts a handler.
Connect(c) ==
  /\ pc[c] = "absent" /\ Goto(c, "load")
  /\ alive' = [alive EXCEPT ![c] = TRUE]
  /\ overlap' = (overlap \/ \E d \in Client : pc[d] \in Registering)
  /\ UNCHANGED <<cpu, queues, rw_event, client_id, loaded, my_client_id,
                 chunk, sent, hand, socket, history>>

Type(c) ==
  /\ alive[c] /\ typed[c] < Keys
  /\ typed' = [typed EXCEPT ![c] = typed[c] + 1]
  /\ socket' = [socket EXCEPT ![c] = Append(socket[c], <<c, typed[c] + 1>>)]
  /\ UNCHANGED <<cpu, queues, rw_event, pc, regs, chunk, sent, hand, alive,
                 written, received, consumed>>

Close(c) ==
  /\ alive[c] /\ alive' = [alive EXCEPT ![c] = FALSE]
  /\ UNCHANGED <<cpu, queues, rw_event, pc, regs, chunk, sent, hand, socket, history>>

(***************************************************************************)
(* The handler thread of client c.                                         *)
(***************************************************************************)

\* Until __init__ has set it the attribute is missing, and the thread ends.
NoId(c) ==
  /\ pc[c] = "load" /\ client_id = None /\ Goto(c, "dead")
  /\ UNCHANGED <<cpu, queues, rw_event, regs, io, history>>

LoadId(c) ==
  /\ pc[c] = "load" /\ client_id # None /\ Goto(c, "store")
  /\ loaded' = [loaded EXCEPT ![c] = client_id]
  /\ UNCHANGED <<cpu, queues, rw_event, client_id, my_client_id, overlap, io, history>>

\* Mutant: the counter is not incremented.
StoreIdSame(c) ==
  /\ pc[c] = "store" /\ Goto(c, "read_id")
  /\ client_id' = loaded[c]
  /\ UNCHANGED <<cpu, queues, rw_event, loaded, my_client_id, overlap, io, history>>

StoreId(c) ==
  /\ pc[c] = "store" /\ Goto(c, "read_id")
  /\ client_id' = loaded[c] + 1
  /\ UNCHANGED <<cpu, queues, rw_event, loaded, my_client_id, overlap, io, history>>

\* Mutant: the handler's id is computed from the value it loaded.
ReadIdLoaded(c) ==
  /\ pc[c] = "read_id" /\ Goto(c, "check")
  /\ my_client_id' = [my_client_id EXCEPT ![c] = loaded[c]]
  /\ loaded' = [loaded EXCEPT ![c] = None]
  /\ UNCHANGED <<cpu, queues, rw_event, client_id, overlap, io, history>>

ReadId(c) ==
  /\ pc[c] = "read_id" /\ Goto(c, "check")
  /\ my_client_id' = [my_client_id EXCEPT ![c] = client_id]
  /\ loaded' = [loaded EXCEPT ![c] = None]
  /\ UNCHANGED <<cpu, queues, rw_event, client_id, overlap, io, history>>

Current(c) == my_client_id[c] = client_id

\* A handler whose id is no longer the counter returns.
Check(c) ==
  /\ pc[c] = "check"
  /\ Goto(c, IF Current(c) THEN "recv" ELSE "retired")
  /\ UNCHANGED <<cpu, queues, rw_event, regs, io, history>>

\* recv: what was typed, a time-out, or end of file, which is not looked at.
Recv(c) ==
  /\ pc[c] = "recv"
  /\ \E n \in 0..MaxHandled :
       /\ n <= Len(socket[c]) /\ (n = 0 => socket[c] = <<>>)
       /\ chunk' = [chunk EXCEPT ![c] = SubSeq(socket[c], 1, n)]
       /\ socket' = [socket EXCEPT ![c] = SubSeq(socket[c], n + 1, Len(socket[c]))]
  /\ Goto(c, "put")
  /\ UNCHANGED <<cpu, queues, rw_event, regs, sent, hand, alive, history>>

\* Mutant: the character that found no room is tried last.
PutRotates(c) ==
  /\ pc[c] = "put" /\ chunk[c] # <<>>
  /\ IF Len(read_queue) < InCap
     THEN /\ read_queue' = Append(read_queue, Head(chunk[c]))
          /\ chunk' = [chunk EXCEPT ![c] = Tail(chunk[c])]
     ELSE /\ chunk' = [chunk EXCEPT ![c] = Append(Tail(chunk[c]), Head(chunk[c]))]
          /\ UNCHANGED read_queue
  /\ UNCHANGED <<cpu, write_queue, rw_event, pc, regs, sent, hand, socket, alive, history>>

\* Mutant: the last place of the queue is not used.
PutShort(c) ==
  /\ pc[c] = "put" /\ chunk[c] # <<>>
  /\ IF Len(read_queue) + 1 < InCap
     THEN /\ read_queue' = Append(read_queue, Head(chunk[c]))
          /\ chunk' = [chunk EXCEPT ![c] = Tail(chunk[c])]
     ELSE chunk' = [chunk EXCEPT ![c] = <<>>] /\ UNCHANGED read_queue
  /\ UNCHANGED <<cpu, write_queue, rw_event, pc, regs, sent, hand, socket, alive, history>>

\* put_nowait for each; a full queue drops the rest of the chunk.
Put(c) ==
  /\ pc[c] = "put" /\ chunk[c] # <<>>
  /\ IF Len(read_queue) < InCap
     THEN /\ read_queue' = Append(read_queue, Head(chunk[c]))
          /\ chunk' = [chunk EXCEPT ![c] = Tail(chunk[c])]
     ELSE chunk' = [chunk EXCEPT ![c] = <<>>] /\ UNCHANGED read_queue
  /\ UNCHANGED <<cpu, write_queue, rw_event, pc, regs, sent, hand, socket, alive, history>>

PutDone(c) ==
  /\ pc[c] = "put" /\ chunk[c] = <<>> /\ Goto(c, "write")
  /\ sent' = [sent EXCEPT ![c] = 0]
  /\ UNCHANGED <<cpu, queues, rw_event, regs, chunk, hand, socket, alive, history>>

\* Mutant: one character more than a turn allows.
WriteCheckOver(c) ==
  /\ pc[c] = "write"
  /\ \/ sent[c] <= MaxHandled /\ write_queue # <<>> /\ Goto(c, "get") /\ UNCHANGED sent
     \/ ~(sent[c] <= MaxHandled /\ write_queue # <<>>) /\ Goto(c, "idle") /\ sent' = [sent EXCEPT ![c] = 0]
  /\ UNCHANGED <<cpu, queues, rw_event, regs, chunk, hand, socket, alive, history>>

GoOn(c) == sent[c] < MaxHandled /\ write_queue # <<>>

WriteCheck(c) ==
  /\ pc[c] = "write"
  /\ \/ GoOn(c) /\ Goto(c, "get") /\ UNCHANGED sent
     \/ ~GoOn(c) /\ Goto(c, "idle") /\ sent' = [sent EXCEPT ![c] = 0]
  /\ UNCHANGED <<cpu, queues, rw_event, regs, chunk, hand, socket, alive, history>>

\* Another handler may have emptied the queue since (queue.Empty).
Get(c) ==
  /\ pc[c] = "get"
  /\ IF write_queue # <<>>
     THEN /\ hand' = [hand EXCEPT ![c] = Head(write_queue)]
          /\ write_queue' = Tail(write_queue) /\ Goto(c, "send")
     ELSE Goto(c, "write") /\ UNCHANGED <<hand, write_queue>>
  /\ UNCHANGED <<cpu, read_queue, rw_event, regs, chunk, sent, socket, alive, history>>

\* The character reaches a client that is there to receive it.
Send(c) ==
  /\ pc[c] = "send" /\ Goto(c, "write")
  /\ received' = IF alive[c] /\ hand[c] # Unnumbered
                 THEN [received EXCEPT ![c] = Append(received[c], hand[c])]
                 ELSE received
  /\ sent' = [sent EXCEPT ![c] = sent[c] + 1]
  /\ hand' = [hand EXCEPT ![c] = None]
  /\ UNCHANGED <<cpu, queues, rw_event, regs, chunk, socket, alive, written, typed, consumed>>

\* Mutant: the character goes back to the end of the queue.
SendTimeoutRequeues(c) ==
  /\ pc[c] = "send" /\ Goto(c, "write")
  /\ hand' = [hand EXCEPT ![c] = None]
  /\ write_queue' = Append(write_queue, hand[c])
  /\ UNCHANGED <<cpu, read_queue, rw_event, regs, chunk, sent, socket, alive, history>>

\* The character in hand is lost and not counted.
SendTimeout(c) ==
  /\ pc[c] = "send" /\ Goto(c, "write")
  /\ hand' = [hand EXCEPT ![c] = None]
  /\ UNCHANGED <<cpu, queues, rw_event, regs, chunk, sent, socket, alive, history>>

\* The other end is closed: recv or send raises and the thread ends.
Die(c) ==
  /\ pc[c] \in {"recv", "send"} /\ ~alive[c] /\ Goto(c, "dead")
  /\ hand' = [hand EXCEPT ![c] = None]
  /\ UNCHANGED <<cpu, queues, rw_event, regs, chunk, sent, socket, alive, history>>

IdleCheck(c) ==
  /\ pc[c] = "idle"
  /\ Goto(c, IF write_queue = <<>> THEN "wait" ELSE "check")
  /\ UNCHANGED <<cpu, queues, rw_event, regs, io, history>>

\* Mutant: a condition variable, with no memory of an earlier set.
WaitForgetful(c) ==
  /\ pc[c] = "wait" /\ Goto(c, "blocked")
  /\ UNCHANGED <<cpu, queues, rw_event, regs, io, history>>

\* Event.wait: at once when the flag is set, otherwise until woken.
Wait(c) ==
  /\ pc[c] = "wait" /\ Goto(c, IF rw_event THEN "clear" ELSE "blocked")
  /\ UNCHANGED <<cpu, queues, rw_event, regs, io, history>>

\* Mutant: no time-out.
WaitForever(c) == FALSE

\* Two seconds.
WaitTimeout(c) ==
  /\ pc[c] = "blocked" /\ Goto(c, "clear")
  /\ UNCHANGED <<cpu, queues, rw_event, regs, io, history>>

\* Mutant: the handler goes straight back to its queues.
ClearSkips(c) ==
  /\ pc[c] = "clear" /\ Goto(c, "recv") /\ rw_event' = FALSE
  /\ UNCHANGED <<cpu, queues, regs, io, history>>

Clear(c) ==
  /\ pc[c] = "clear" /\ Goto(c, "check") /\ rw_event' = FALSE
  /\ UNCHANGED <<cpu, queues, regs, io, history>>

Handler(c) ==
  \/ NoId(c) \/ LoadId(c) \/ StoreId(c) \/ ReadId(c) \/ Check(c)
  \/ Recv(c) \/ Put(c) \/ PutDone(c)
  \/ WriteCheck(c) \/ Get(c) \/ Send(c) \/ SendTimeout(c) \/ Die(c)
  \/ IdleCheck(c) \/ Wait(c) \/ WaitTimeout(c) \/ Clear(c)

CpuThread ==
  \/ SetId \/ WritePut \/ WriteSet
  \/ (\E l \in Reads : ReadSet(l)) \/ ReadCheck \/ ReadTake

Next == CpuThread \/ \E c \in Client : Connect(c) \/ Type(c) \/ Close(c) \/ Handler(c)

\* What no state or step may do is broken, if ever, after finitely many
\* characters: Spec stops at Writes of them, whatever their number.
Spec == Init /\ [][Next]_vars

\* For what must happen the guest may go on for ever. Every handler thread is
\* scheduled and its time-outs expire; the CPU leaves write_byte. Nothing is
\* assumed of the guest or of the clients.
FairSpec ==
  /\ Init /\ [][Next \/ WriteOn]_vars
  /\ WF_vars(WriteSet) /\ \A c \in Client : WF_vars(Handler(c))

-----------------------------------------------------------------------------

\* The type invariant of the UART and its threads.
TypeOK ==
  /\ cpu \in {"building", "run", "written", "reading", "taking"}
  /\ write_queue \in Seq(1..Unnumbered) /\ Len(write_queue) <= OutCap
  /\ read_queue \in Seq(Client \X (1..Keys)) /\ Len(read_queue) <= InCap
  /\ rw_event \in BOOLEAN /\ client_id \in 0..Cardinality(Client) \cup {None}
  /\ pc \in [Client -> Registering \cup Serving \cup {"absent", "retired", "dead"}]
  /\ loaded \in [Client -> 0..Cardinality(Client) \cup {None}]
  /\ my_client_id \in [Client -> 0..Cardinality(Client) \cup {None}]
  /\ sent \in [Client -> 0..MaxHandled] /\ hand \in [Client -> 1..Unnumbered \cup {None}]
  /\ \A c \in Client : chunk[c] \in Seq({c} \X (1..Keys)) /\ Len(chunk[c]) <= MaxHandled
  /\ alive \in [Client -> BOOLEAN] /\ overlap \in BOOLEAN

\* Of two characters the first was written first, or the second is not told apart.
Increasing(s) == \A i, j \in 1..Len(s) : i < j => s[i] < s[j] \/ s[j] = Unnumbered

InHand(c) == IF hand[c] = None THEN <<>> ELSE <<hand[c]>>

\* However many handlers share write_queue, each client gets characters in
\* the order the guest wrote them, and no character goes out twice.
OutputOnceInOrder ==
  /\ \A c \in Client : Increasing(received[c] \o InHand(c) \o write_queue)
  /\ \A c, d \in Client : c # d =>
       ToSet(received[c] \o InHand(c)) \cap ToSet(received[d] \o InHand(d)) \subseteq {Unnumbered}

\* Of two characters of a client the one typed first comes first.
InOrder(s) == \A i, j \in 1..Len(s) : i < j /\ s[i][1] = s[j][1] => s[i][2] < s[j][2]

\* What a client types reaches the guest in order and once, with gaps where
\* the queue was full, whatever other handlers queue in between.
InputOnceInOrder ==
  \A c \in Client : InOrder(consumed \o read_queue \o chunk[c] \o socket[c])

-----------------------------------------------------------------------------
(* Each direction is a serial line, which Channel describes.               *)

Less == {e \in Nat \X Nat : e[1] < e[2]}

Char == Client \X (1..Keys)

Later == {e \in Char \X Char : e[1][1] = e[2][1] => e[1][2] < e[2][2]}

\* Characters under way, and characters typed.
Outgoing == (ToSet(write_queue) \cup {hand[c] : c \in Client}) \ {None, Unnumbered}
Incoming == ToSet(read_queue) \cup UNION {ToSet(chunk[c]) \cup ToSet(socket[c]) : c \in Client}
Typed == {x \in Char : x[2] <= typed[x[1]]}

\* From the CPU to the clients. A handler may lose the character in hand.
Output == INSTANCE Channel WITH
  Message <- 1..Writes, Receiver <- Client, InTurn <- Less, Cap <- OutCap, Leaky <- TRUE,
  sent <- 1..written, transit <- Outgoing, got <- received

\* From the clients to the CPU.
Input == INSTANCE Channel WITH
  Message <- Char, Receiver <- {"guest"}, InTurn <- Later, Cap <- InCap, Leaky <- FALSE,
  sent <- Typed, transit <- Incoming, got <- [r \in {"guest"} |-> consumed]

\* However handlers share, retire and die, the guest's output is a line that
\* loses characters under way one at a time, and at the door only when OutCap
\* are under way. (OutputOnceInOrder says which are under way to whom.)
OutputIsChannel == Output!Spec

\* What clients type is lost only while InCap characters wait for the guest,
\* but for what an ended handler leaves in its socket.
InputIsChannel == Input!Spec

-----------------------------------------------------------------------------

Serves(c) == pc[c] \in Serving /\ Current(c)

Settled == \A c \in Client : pc[c] \notin Registering

\* Once every connection has registered, one is current (it may have lost
\* its socket): neither the races on client_id nor clients that came before
\* it was set leave the UART without owner.
OneIsCurrent ==
  Settled /\ (\E c \in Client : my_client_id[c] # None) =>
    \E c \in Client : pc[c] \in Serving \cup {"dead"} /\ Current(c)

\* Connections that register one after another leave a single one current.
\* When two registrations overlap both may stay, and share the output.
AtMostOneServes == ~overlap => \A c, d \in Client : Serves(c) /\ Serves(d) => c = d

\* A lone handler is never asleep over a character: the CPU is about to set
\* the event. (A second handler may consume the event; see OutputDrains.)
NoLostWakeup ==
  \A c \in Client :
    pc[c] = "blocked" /\ (\A d \in Client \ {c} : pc[d] = "absent") =>
      write_queue = <<>> \/ cpu = "written"

\* As long as some current handler lives, a character the guest wrote leaves
\* the queue, however much the guest writes after it: the two second time-out
\* makes up for a wake-up another handler consumed.
OutputDrains ==
  \A n \in 1..Writes :
    (\E c \in Client : Serves(c)) /\ n \in ToSet(write_queue) ~>
      n \notin ToSet(write_queue) \/ ~\E c \in Client : Serves(c)

\* A turn of the write loop that `sent' does not count: the send timed out, or
\* another handler had emptied the queue.
Uncounted(c) == SendTimeout(c) \/ (Get(c) /\ write_queue = <<>>)

\* A superseded handler notices and ends, however much the guest writes. Only
\* turns that are not counted keep it, since they do not bring the loop to its
\* end: while the guest writes on, a handler whose client does not read, or
\* that always comes after the other, may stay in it for ever.
SupersededRetires ==
  \A c \in Client :
    \/ []<><<Uncounted(c)>>_vars
    \/ pc[c] \in Serving /\ ~Current(c) ~> pc[c] \in {"retired", "dead"} \/ Current(c)

=============================================================================
