----------------------------- MODULE GdbPackets -----------------------------
(***************************************************************************)
(* The connection of the GDB stub to its host over a pseudo-terminal:      *)
(* lm32gdb_process_gdb() with the commands it serves, byte by byte.        *)
(*                                                                         *)
(* A byte is two digits; a digit's character is the digit.  Addresses and  *)
(* counts have one digit, where the program takes as many as come.  The    *)
(* host is a GDB that waits for the answer to a command before it sends    *)
(* the next, and acknowledges the answer; it may go away at any moment,    *)
(* even in the middle of a packet.                                         *)
(*                                                                         *)
(* No name is one of DebugSession's, the other side of the stub: what is   *)
(* proved of the two is proved in one module, GdbStub_proofs.              *)
(***************************************************************************)
EXTENDS Naturals, Sequences, SequencesExt

CONSTANTS
    Address,  \* addresses of memory, 0 .. n
    Reg,      \* numbers of registers, 0 .. n
    HostByte, \* bytes the host writes to memory
    MaxData,  \* how many of them at a time, and how many it reads
    RegValue, \* and to registers
    Junk,     \* what ipbyte may hold when a read has failed
    BufSize,  \* IP_BUFFER_SIZE
    None

Base == 8
Byte == 0 .. Base * Base - 1

SOP   == 8    \* GDB_SOP_CHAR, '$'
EOP   == 9    \* GDB_EOP_CHAR, '#'
DELIM == 10   \* GDB_MEM_DELIM_CHAR, ':'
ESC   == 11   \* GDB_BIN_ESC, '}'
COMMA == 12   \* or '='
ACK   == 13   \* GDB_ACK_CHAR, '+'

m == 16
M == 17
X == 18
g == 19
G == 20
P == 21
D == 22
k == 23
q == 24       \* a command the stub does not know

Flip(b) == (b + 32) % (Base * Base)   \* XOR with GDB_BIN_XOR_VAL

OK == <<"OK">>
Listing == <<"registers">>   \* the values of all registers
Nothing == <<>>

\* What lm32gdb_write_mem() still has to do; got: the first of two characters.
Job == [binary : BOOLEAN, addr : Address, left : 1 .. MaxData, got : Seq(Byte)]

VARIABLES
    asked,      \* the command the host waits for the answer to, or None
    wire, back, \* bytes and answers under way to the stub and to the host
    up,         \* the host is there
    active, ip_buf,
    job,        \* of lm32gdb_write_mem(), or None
    over,       \* lm32gdb_process_gdb() has returned
    mem, regs,
    heard,      \* the last answer the host has had
    meant       \* history: the registers by the commands it was answered

line == <<wire, back, up>>
stub == <<active, ip_buf, job, over>>
host == <<asked, heard, meant>>
packetVars == <<line, stub, host, mem, regs>>

-----------------------------------------------------------------------------
(* The host's packets *)

Request ==
    {c \in [op : {M, X}, addr : Address, n : 0 .. MaxData, data : BoundedSeq(HostByte, MaxData)] :
        c.n = Len(c.data) /\ (c.n > 0 => c.addr + c.n - 1 \in Address)}
    \cup {c \in [op : {m}, addr : Address, n : 1 .. MaxData, data : {<<>>}] :
            c.addr + c.n - 1 \in Address}
    \cup [op : {P}, addr : Reg, n : {1}, data : [1 .. 1 -> RegValue]]
    \cup [op : {G}, addr : {0}, n : {0}, data : {[r \in 1 .. Cardinality(Reg) |-> d] : d \in RegValue}]
    \cup [op : {q}, addr : {0}, n : {0, BufSize}, data : {<<>>}]
    \cup [op : {g, D, k}, addr : {0}, n : {0}, data : {<<>>}]

\* A digit is enough for an address, a register and a count; the buffer holds the
\* part of a write command before its data.
ASSUME PacketAssumption ==
    /\ \E n \in 0 .. Base - 1 : Address = 0 .. n
    /\ \E n \in 0 .. Base - 1 : Reg = 0 .. n
    /\ HostByte \subseteq Byte /\ RegValue \subseteq Byte /\ Junk \subseteq Byte
    /\ MaxData \in 1 .. Base - 1
    /\ BufSize \in Nat /\ BufSize > 4
    /\ None \notin Request /\ None \notin Job

Hex(d) == FlattenSeq([i \in DOMAIN d |-> <<d[i] \div Base, d[i] % Base>>])

Escaped(d) ==
    LET Form(b) == IF b \in {SOP, EOP, ESC} THEN <<ESC, Flip(b)>> ELSE <<b>>
    IN  FlattenSeq([i \in DOMAIN d |-> Form(d[i])])

Body(c) ==
    CASE c.op = m -> <<m, c.addr, COMMA, c.n>>
      [] c.op = M -> <<M, c.addr, COMMA, c.n, DELIM>> \o Hex(c.data)
      [] c.op = X -> <<X, c.addr, COMMA, c.n, DELIM>> \o Escaped(c.data)
      [] c.op = P -> <<P, c.addr, COMMA>> \o Hex(c.data)
      [] c.op = G -> <<G>> \o Hex(c.data)
      [] c.op = q -> <<q, DELIM>> \o [i \in 1 .. c.n |-> 0]
      [] OTHER    -> <<c.op>>

\* The stub never looks at the digits of the checksum.
Packet(c) == <<SOP>> \o Body(c) \o <<EOP, 0, 0>>

Ask(c) ==
    /\ up /\ ~over /\ asked = None
    /\ asked' = c /\ heard' = Nothing
    /\ wire' = wire \o Packet(c)
    /\ UNCHANGED <<back, up, stub, meant, mem, regs>>

\* What the register commands that were answered amount to.
Meant(c) ==
    CASE c.op = P -> [meant EXCEPT ![c.addr] = c.data[1]]
      [] c.op = G -> [r \in Reg |-> c.data[r + 1]]
      [] OTHER    -> meant

\* The acknowledgement, then the answer.
Hear ==
    /\ up /\ Len(back) = 2
    /\ heard' = back[2]
    /\ back' = <<>>
    /\ wire' = wire \o <<ACK>>
    /\ meant' = Meant(asked)
    /\ asked' = None
    /\ UNCHANGED <<up, stub, mem, regs>>

\* What was sent may get through in part.
Lose ==
    /\ up /\ up' = FALSE
    /\ \E n \in 0 .. Len(wire) : wire' = SubSeq(wire, 1, n)
    /\ back' = <<>>
    /\ UNCHANGED <<stub, host, mem, regs>>

-----------------------------------------------------------------------------
(* The commands.  An answer is written, or the write fails and the stub     *)
(* returns; once the host has gone either may happen.                       *)

Writes == IF up THEN {TRUE} ELSE BOOLEAN
Sent(s) == IF up THEN s ELSE <<>>

\* s: what has been written to the host for this packet so far.
Finish(s, detached) ==
    /\ \E written \in Writes : over' = (detached \/ ~written)
    /\ back' = Sent(back \o s)
    /\ job' = None

Contents(a, n) == [i \in 1 .. n |-> mem[a + i - 1]]

\* lm32gdb_set_regs(): every register is given the characters at even places of
\* the first eight of the command, whose letter is the first of them; the loop
\* for one register is empty.
Set(cmd) == IF cmd[1] = G THEN [r \in Reg |-> cmd[1]] ELSE regs

\* lm32gdb_write_mem() up to its loop
Work(cmd) == [binary |-> cmd[1] = X, addr |-> cmd[2], left |-> cmd[4], got |-> <<>>]

\* lm32gdb_proc_gdb_cmd(), after the acknowledgement s
Process(cmd, s) ==
    \/ /\ cmd[1] = m
       /\ Finish(Append(s, Contents(cmd[2], cmd[4])), FALSE) /\ UNCHANGED regs
    \/ /\ cmd[1] \in {M, X} /\ cmd[4] > 0
       /\ job' = Work(cmd) /\ back' = Sent(back \o s) /\ UNCHANGED <<over, regs>>
    \/ /\ cmd[1] \in {M, X} /\ cmd[4] = 0
       /\ Finish(Append(s, OK), FALSE) /\ UNCHANGED regs
    \/ /\ cmd[1] \in {P, G}
       /\ Finish(Append(s, OK), FALSE) /\ regs' = Set(cmd)
    \/ /\ cmd[1] = g
       /\ Finish(Append(s, Listing), FALSE) /\ UNCHANGED regs
    \/ /\ cmd[1] = D
       /\ Finish(Append(s, OK), TRUE) /\ UNCHANGED regs
    \/ /\ cmd[1] = k
       /\ Finish(s, TRUE) /\ UNCHANGED regs
    \/ /\ cmd[1] \notin {m, M, X, P, G, g, D, k}
       /\ Finish(Append(s, Nothing), FALSE) /\ UNCHANGED regs

-----------------------------------------------------------------------------
(* lm32gdb_process_gdb(): one byte *)

\* Without a look at the length.
EndsAnyLength(b) == b = EOP \/ (b = DELIM /\ ip_buf # <<>> /\ ip_buf[1] \in {X, M})

\* A packet's first character is a letter, never a delimiter.
Ends(b) ==
    \/ b = EOP
    \/ Len(ip_buf) = BufSize - 1
    \/ (b = DELIM /\ ip_buf # <<>> /\ ip_buf[1] \in {X, M})

NotAcknowledged == ~up /\ over' = TRUE /\ UNCHANGED <<back, job, regs>>

EndPacket(b) ==
    /\ active /\ Ends(b)
    /\ active' = FALSE /\ ip_buf' = <<>>
    /\ UNCHANGED mem
    /\ \/ Process(ip_buf, <<ACK>>)
       \/ NotAcknowledged

StartPacket(b) ==
    /\ ~active /\ b = SOP
    /\ active' = TRUE
    /\ UNCHANGED <<ip_buf, job, over, back, mem, regs>>

Collect(b) ==
    /\ active /\ ~Ends(b)
    /\ ip_buf' = Append(ip_buf, b)
    /\ UNCHANGED <<active, job, over, back, mem, regs>>

Ignore(b) == ~active /\ b # SOP /\ UNCHANGED <<stub, back, mem, regs>>

\* Binary data taken as it comes.
HalfUnescaped(b) == job.got = <<>> /\ ~job.binary

\* Is b the first of two characters that make one byte?
Half(b) == job.got = <<>> /\ (job.binary => b = ESC)

Value(b) ==
    IF job.got = <<>> THEN b
    ELSE IF job.binary THEN Flip(b)
    ELSE (job.got[1] * Base + b) % (Base * Base)

\* One byte of the data of a write; io_status_ok is true from the start and only
\* ever ORed with, so that a byte not read is like one read.
Datum(b) ==
    IF Half(b)
    THEN /\ job' = [job EXCEPT !.got = <<b>>]
         /\ UNCHANGED <<active, ip_buf, over, back, mem, regs>>
    ELSE /\ mem' = [mem EXCEPT ![job.addr] = Value(b)]
         /\ IF job.left = 1 THEN Finish(<<OK>>, FALSE)
            ELSE /\ job' = [job EXCEPT !.addr = @ + 1, !.left = @ - 1, !.got = <<>>]
                 /\ UNCHANGED <<over, back>>
         /\ UNCHANGED <<active, ip_buf, regs>>

Read ==
    /\ ~over /\ wire # <<>>
    /\ wire' = Tail(wire)
    /\ LET b == Head(wire)
       IN  IF job # None THEN Datum(b)
           ELSE EndPacket(b) \/ StartPacket(b) \/ Collect(b) \/ Ignore(b)
    /\ UNCHANGED <<up, host>>

\* No end of the main loop: what recv() makes of a closed TCP connection.
ReadFailsUnnoticed ==
    /\ ~over /\ wire = <<>> /\ ~up
    /\ IF job # None THEN \E b \in Junk : Datum(b)
       ELSE UNCHANGED <<stub, back, mem, regs>>
    /\ UNCHANGED <<wire, up, host>>

\* lm32gdb_read() returns false: in the main loop that is the end.
ReadFails ==
    /\ ~over /\ wire = <<>> /\ ~up
    /\ IF job # None THEN \E b \in Junk : Datum(b)
       ELSE over' = TRUE /\ UNCHANGED <<active, ip_buf, job, back, mem, regs>>
    /\ UNCHANGED <<wire, up, host>>

Returned == over /\ UNCHANGED packetVars

PacketInit ==
    /\ asked = None /\ heard = Nothing
    /\ wire = <<>> /\ back = <<>> /\ up = TRUE
    /\ active = FALSE /\ ip_buf = <<>> /\ job = None /\ over = FALSE
    /\ mem = [x \in Address |-> 0]
    /\ regs = [r \in Reg |-> 0] /\ meant = regs

PacketNext == (\E c \in Request : Ask(c)) \/ Hear \/ Lose \/ Read \/ ReadFails \/ Returned

\* The stub reads on; the host, as long as it is there, listens.
PacketSpec ==
    /\ PacketInit /\ [][PacketNext]_packetVars
    /\ WF_packetVars(Read \/ ReadFails) /\ WF_packetVars(Hear)

-----------------------------------------------------------------------------
(* Types of the line, of the stub and of what it serves.                    *)
PacketTypeOK ==
    /\ asked \in Request \cup {None}
    /\ wire \in Seq(Byte) /\ Len(back) <= 2
    /\ up \in BOOLEAN /\ active \in BOOLEAN /\ over \in BOOLEAN
    /\ ip_buf \in Seq(Byte) /\ Len(ip_buf) < BufSize
    /\ \/ job = None
       \/ job \in Job
    /\ mem \in [Address -> Byte]
    /\ DOMAIN regs = Reg /\ DOMAIN meant = Reg

(* Bytes that look like packet characters, an escape, a packet too long, a  *)
(* delimiter in an unknown command: whatever the host sends, the stub stays *)
(* in step, so that every command is applied once, in order, before its     *)
(* answer, which is its own; in the end each is answered.  A line lost in   *)
(* the middle of a write damages nothing beyond the range of that write.    *)
Remote ==
    INSTANCE RemoteMemory WITH
        Command <- Request,
        memory <- mem, answer <- heard, closed <- ~up,
        Writing <- {M, X}, Reading <- {m}, Killing <- {k}, Empty <- Nothing,
        Replies <- [op \in {M, X, P, G, D, g, q} |->
                       CASE op = g -> Listing [] op = q -> Nothing [] OTHER -> OK]
ServesAsAsked == Remote!Spec

(* The session comes to an end when its host has gone, in whatever state    *)
(* that leaves the stub, and when the host asks for it.                     *)
SessionEnds == (~up \/ (asked # None /\ asked.op \in {D, k})) ~> over

(* "If the command is 'P', a register number is extracted, and that         *)
(* register is updated with the command data", lm32gdb_set_registers():     *)
(* registers hold what the commands answered OK have set.                   *)
RegistersAsSet == asked = None => regs = meant
=============================================================================
