--------------------------- MODULE LnxUart_proofs ---------------------------
(***************************************************************************)
(* Theorems about LnxUart, for any keyboard, any terminate string whose    *)
(* first character does not occur in it again, any speed of the line and   *)
(* any distance between polls.                                             *)
(***************************************************************************)
EXTENDS LnxUart, TLAPS

-----------------------------------------------------------------------------
(* The strengthening: what each part of the UART has to know of another *)

(* The driver and the handler are never both at work, and what the driver   *)
(* has seen in LSR, or the handler finds in IIR, is still so.  Only between *)
(* serving a cause and acknowledging it may IIR name one that is gone, and  *)
(* until the next poll after that, when IP does not ask for the handler.    *)
Settled == guest = "served" \/ (guest = "idle" /\ ~ip)

CausesHold ==
    /\ guest \in {"outbyte", "inbyte"} => polled
    /\ guest \in {"entered", "served"} => ~polled
    /\ guest = "outbyte" => "THRR" \in lsr
    /\ guest = "inbyte" => "DR" \in lsr
    /\ ~polled /\ iir = "RDR" /\ "DR" \notin lsr => Settled
    /\ ~polled /\ iir = "EMP" /\ "THRR" \notin lsr => Settled

(* No transmission is timed while the line is free, and none is thought     *)
(* longer than it is.                                                       *)
FrameInv ==
    /\ "THRR" \in lsr => start = NotStarted
    /\ start # NotStarted => frame >= start + cycle \/ frame = TicksPerBit

(* The last k characters of s are the first k of the terminate string. *)
EndsWith(s, k) == k <= Len(s) /\ \A i \in 1 .. k : s[Len(s) - k + i] = Exit[i]

(* As many characters are matched as possible. *)
LongestMatch ==
    /\ EndsWith(heard, term_idx)
    /\ \A k \in term_idx + 1 .. Len(Exit) : ~EndsWith(heard, k)

(* TypeOK in two halves: the Boolean variables, and the others. *)
Flags ==
    /\ done \in BOOLEAN /\ (done <=> term_idx = Len(Exit))
    /\ ip \in BOOLEAN /\ polled \in BOOLEAN

Values ==
    /\ lsr \subseteq LsrBit /\ ier \subseteq IerBit
    /\ iir \in {"NONE", "ERR", "RDR", "EMP"}
    /\ start \in {NotStarted} \cup 0 .. TicksPerBit - 1
    /\ term_idx \in 0 .. Len(Exit)
    /\ cycle \in 0 .. MaxGap
    /\ guest \in {"idle", "outbyte", "inbyte", "entered", "served"}
    /\ heard \in Seq(Char) /\ Len(heard) <= Len(Exit)
    /\ frame \in 0 .. TicksPerBit
    /\ event \in {"none", "overrun", "misread"}

UartInv == TypeOK /\ ReadOnce /\ CausesHold /\ FrameInv /\ LongestMatch

(* The two halves are the whole. *)
LEMMA TypeHalves == (TypeOK <=> Flags /\ Values) /\ (TypeOK' <=> Flags' /\ Values')
<1>1. TypeOK <=> Flags /\ Values
  BY Zenon DEF TypeOK, Flags, Values
<1>2. TypeOK' <=> Flags' /\ Values'
  BY Zenon DEF TypeOK, Flags, Values
<1> QED
  BY <1>1, <1>2

-----------------------------------------------------------------------------
(* The matcher *)

(* The history keeps at most as many characters as the string has, the      *)
(* newest of them last.                                                     *)
LEMMA HeardLater ==
    ASSUME NEW s \in Seq(Char), Len(s) <= Len(Exit), NEW c \in Char,
           NEW t, t = LastOf(Append(s, c))
    PROVE  /\ t \in Seq(Char) /\ Len(t) <= Len(Exit) /\ Len(t) > 0
           /\ Len(t) = Len(s) + 1 \/ (Len(t) = Len(s) /\ Len(s) = Len(Exit))
           /\ t[Len(t)] = c
           /\ \A j \in 1 .. Len(t) - 1 : t[j] = s[j + (Len(s) + 1 - Len(t))]
<1> DEFINE a == Append(s, c)
<1>1. /\ a \in Seq(Char) /\ Len(a) = Len(s) + 1 /\ Len(s) \in Nat /\ a # <<>>
      /\ a[Len(s) + 1] = c /\ \A j \in 1 .. Len(s) : a[j] = s[j]
  OBVIOUS
<1>2. Exit \in Seq(Char) /\ Len(Exit) \in Nat /\ Len(Exit) > 1
  BY UartAssumption
<1> HIDE DEF a
<1>3. CASE Len(a) > Len(Exit)
  <2>1. /\ Tail(a) \in Seq(Char) /\ Len(Tail(a)) = Len(s)
        /\ \A j \in 1 .. Len(s) : Tail(a)[j] = a[j + 1]
    BY <1>1
  <2>2. t = Tail(a) /\ Len(s) = Len(Exit)
    BY <1>1, <1>2, <1>3 DEF LastOf, a
  <2>3. Len(t) = Len(s) /\ Len(t) > 0 /\ t[Len(t)] = c
    BY <1>1, <1>2, <2>1, <2>2
  <2>4. \A j \in 1 .. Len(t) - 1 : t[j] = s[j + 1] /\ Len(s) + 1 - Len(t) = 1
    BY <1>1, <2>1, <2>2, <2>3
  <2> QED
    BY <1>1, <1>2, <2>1, <2>2, <2>3, <2>4
<1>4. CASE ~(Len(a) > Len(Exit))
  <2>1. t = a
    BY <1>4 DEF LastOf, a
  <2> QED
    BY <1>1, <1>2, <1>4, <2>1
<1> QED
  BY <1>3, <1>4

(* A character lengthens exactly the matches that it continues. *)
LEMMA MatchGrows ==
    ASSUME NEW s \in Seq(Char), Len(s) <= Len(Exit), NEW c \in Char, NEW k \in 1 .. Len(Exit)
    PROVE  EndsWith(LastOf(Append(s, c)), k) <=> EndsWith(s, k - 1) /\ c = Exit[k]
<1> DEFINE t == LastOf(Append(s, c))
<1>1. /\ t \in Seq(Char) /\ Len(t) <= Len(Exit) /\ Len(t) > 0
      /\ Len(t) = Len(s) + 1 \/ (Len(t) = Len(s) /\ Len(s) = Len(Exit))
      /\ t[Len(t)] = c
      /\ \A j \in 1 .. Len(t) - 1 : t[j] = s[j + (Len(s) + 1 - Len(t))]
  BY HeardLater
<1>2. Len(Exit) \in Nat /\ Len(s) \in Nat /\ Len(t) \in Nat /\ k \in Nat
  BY <1>1, UartAssumption
<1> HIDE DEF t
<1>3. k <= Len(t) <=> k - 1 <= Len(s)
  BY <1>1, <1>2
<1>4. ASSUME k <= Len(t), NEW i \in 1 .. k - 1
      PROVE  t[Len(t) - k + i] = s[Len(s) - (k - 1) + i]
  <2>1. Len(t) - k + i \in 1 .. Len(t) - 1
    BY <1>2, <1>4
  <2>2. Len(t) - k + i + (Len(s) + 1 - Len(t)) = Len(s) - (k - 1) + i
    BY <1>2
  <2> QED
    BY <1>1, <2>1, <2>2
<1>5. k <= Len(t) => Len(t) - k + k = Len(t) /\ 1 .. k = (1 .. k - 1) \cup {k}
  BY <1>2
<1>6. ASSUME k <= Len(t)
      PROVE  (\A i \in 1 .. k : t[Len(t) - k + i] = Exit[i])
                 <=> (\A i \in 1 .. k - 1 : s[Len(s) - (k - 1) + i] = Exit[i]) /\ c = Exit[k]
  BY <1>1, <1>4, <1>5, <1>6
<1> QED
  BY <1>3, <1>6 DEF EndsWith, t

(* Of two matches, the shorter would begin inside the longer one, where the *)
(* string's first character does not occur.                                 *)
LEMMA NoShorterMatch ==
    ASSUME NEW s \in Seq(Char), NEW k \in 1 .. Len(Exit), NEW j \in 1 .. k - 1, EndsWith(s, k)
    PROVE  ~EndsWith(s, j)
<1>1. Len(s) \in Nat /\ Len(Exit) \in Nat /\ k \in Nat /\ j \in Nat
  BY UartAssumption
<1>2. SUFFICES ASSUME EndsWith(s, j) PROVE FALSE
  OBVIOUS
<1>3. s[Len(s) - j + 1] = Exit[1]
  BY <1>1, <1>2 DEF EndsWith
<1>4. k - j + 1 \in 1 .. k /\ Len(s) - k + (k - j + 1) = Len(s) - j + 1
  BY <1>1
<1>5. s[Len(s) - k + (k - j + 1)] = Exit[k - j + 1]
  BY <1>4 DEF EndsWith
<1>6. k - j + 1 \in 2 .. Len(Exit)
  BY <1>1
<1> QED
  BY <1>3, <1>4, <1>5, <1>6, UartAssumption

(* The matcher of lm32_uart_tick() finds the longest match again: the case  *)
(* a unit test would reach last is a character that breaks a match.         *)
LEMMA InputMatches ==
    ASSUME TypeOK, ~done, LongestMatch, NEW c \in Char, Input(c)
    PROVE  LongestMatch'
<1>1. /\ heard \in Seq(Char) /\ Len(heard) <= Len(Exit)
      /\ term_idx \in 0 .. Len(Exit) - 1 /\ Len(Exit) \in Nat /\ Len(Exit) > 1
  BY UartAssumption DEF TypeOK
<1>2. term_idx' = Matched(c) /\ heard' = LastOf(Append(heard, c))
  BY DEF Input
<1>3. \A k \in 1 .. Len(Exit) : EndsWith(heard', k) <=> EndsWith(heard, k - 1) /\ c = Exit[k]
  BY <1>1, <1>2, MatchGrows
<1>4. EndsWith(heard, 0) /\ EndsWith(heard', 0)
  <2>1. heard' \in Seq(Char)
    BY <1>1, <1>2, HeardLater DEF LastOf
  <2> QED
    BY <1>1, <2>1 DEF EndsWith
<1>5. EndsWith(heard, term_idx) /\ \A k \in term_idx + 1 .. Len(Exit) : ~EndsWith(heard, k)
  BY DEF LongestMatch
<1>6. LongestMatch' <=> /\ EndsWith(heard', term_idx')
                       /\ \A k \in term_idx' + 1 .. Len(Exit) : ~EndsWith(heard', k)
  BY DEF LongestMatch, EndsWith
<1>7. CASE c = Exit[term_idx + 1]
  <2>1. term_idx' = term_idx + 1 /\ term_idx + 1 \in 1 .. Len(Exit)
    BY <1>1, <1>2, <1>7 DEF Matched
  <2>2. EndsWith(heard', term_idx + 1)
    BY <1>1, <1>3, <1>5, <1>7, <2>1
  <2>3. ASSUME NEW k \in term_idx + 2 .. Len(Exit) PROVE ~EndsWith(heard', k)
    <3>1. k \in 1 .. Len(Exit) /\ k - 1 \in term_idx + 1 .. Len(Exit)
      BY <1>1
    <3> QED
      BY <1>3, <1>5, <3>1
  <2> QED
    BY <1>1, <2>1, <2>2, <2>3, <1>6
<1>8. CASE c # Exit[term_idx + 1] /\ c = Exit[1]
  <2>1. term_idx' = 1 /\ 1 \in 1 .. Len(Exit)
    BY <1>1, <1>2, <1>8 DEF Matched
  <2>2. EndsWith(heard', 1)
    BY <1>3, <1>4, <1>8, <2>1
  <2>3. ASSUME NEW k \in 2 .. Len(Exit) PROVE ~EndsWith(heard', k)
    BY <1>1, <1>3, <1>8, UartAssumption
  <2> QED
    BY <2>1, <2>2, <2>3, <1>6
<1>9. CASE c # Exit[term_idx + 1] /\ c # Exit[1]
  <2>1. term_idx' = 0
    BY <1>2, <1>9 DEF Matched
  <2>2. ASSUME NEW k \in 1 .. Len(Exit), EndsWith(heard', k) PROVE FALSE
    <3>1. EndsWith(heard, k - 1) /\ c = Exit[k]
      BY <1>3, <2>2
    <3>2. k # 1 /\ k - 1 # term_idx
      BY <1>1, <1>9, <3>1
    <3>3. k - 1 \in 1 .. term_idx - 1 /\ term_idx \in 1 .. Len(Exit)
      BY <1>1, <1>5, <3>1, <3>2
    <3> QED
      BY <1>1, <1>5, <3>1, <3>3, NoShorterMatch
  <2> QED
    BY <1>4, <2>1, <2>2, <1>6
<1> QED
  BY <1>7, <1>8, <1>9

-----------------------------------------------------------------------------
(* The inductive invariant *)

(* The UART starts free, with nothing typed. *)
LEMMA InitInv == Init => UartInv
<1> SUFFICES ASSUME Init PROVE UartInv
  OBVIOUS
<1>1. Len(Exit) \in Nat /\ Len(Exit) > 1
  BY UartAssumption
<1>2. heard = <<>> /\ Len(heard) = 0 /\ heard \in Seq(Char) /\ term_idx = 0
  BY DEF Init
<1>3. TypeOK
  <2>1. Values
    BY <1>1, <1>2, UartAssumption DEF Init, Values, LsrBit, NotStarted, MaxGap
  <2>2. term_idx # Len(Exit)
    BY <1>1, <1>2
  <2>3. Flags
    BY <2>2, Zenon DEF Init, Flags
  <2> QED
    BY <2>1, <2>3, TypeHalves
<1>4. ReadOnce /\ CausesHold /\ FrameInv
  BY DEF Init, ReadOnce, CausesHold, FrameInv, Settled
<1>5. LongestMatch
  BY <1>1, <1>2 DEF LongestMatch, EndsWith
<1> QED
  BY <1>3, <1>4, <1>5 DEF UartInv

(* How a poll finds the transmission: free, or timed from the first poll    *)
(* that found it begun.                                                     *)
LEMMA AgeIsNat ==
    ASSUME TypeOK
    PROVE  Age \in Nat /\ (start # NotStarted => Age = start + cycle)
BY UartAssumption DEF TypeOK, Age, NotStarted, MaxGap

(* A poll. *)
LEMMA TickInv ==
    ASSUME UartInv, NEW c \in Char \cup {NoKey}, Tick(c)
    PROVE  UartInv'
<1> USE DEF UartInv
<1>1. TicksPerBit \in Nat \ {0} /\ Granularity \in Nat \ {0} /\ MaxCycles \in Nat \ {0}
  BY UartAssumption
<1>2. lsr \subseteq lsr' /\ lsr' \subseteq LsrBit
  BY DEF Tick, TypeOK, LsrBit
<1>3. /\ iir' \in {"NONE", "ERR", "RDR", "EMP"}
      /\ iir' = "RDR" => "DR" \in lsr'
      /\ iir' = "EMP" => "THRR" \in lsr'
  BY DEF Tick, Cause
<1>4. start' \in {NotStarted} \cup 0 .. TicksPerBit - 1
  <2>1. CASE Sent
    BY <2>1 DEF Tick, Started
  <2>2. CASE ~Sent
    <3>1. start' = Age /\ ~(Age >= TicksPerBit)
      BY <2>2 DEF Tick, Started, Sent
    <3> QED
      BY <1>1, <3>1, AgeIsNat
  <2> QED
    BY <2>1, <2>2
<1>5. /\ event' \in {"none", "overrun"}
      /\ term_idx' \in 0 .. Len(Exit) /\ done' \in BOOLEAN /\ (done' <=> term_idx' = Len(Exit))
      /\ heard' \in Seq(Char) /\ Len(heard') <= Len(Exit)
      /\ LongestMatch'
  <2>1. CASE c = NoKey /\ NoInput
    BY <2>1 DEF NoInput, TypeOK, LongestMatch, EndsWith
  <2>2. CASE c \in Char /\ Input(c)
    <3>1. Len(Exit) \in Nat /\ Len(Exit) > 1 /\ term_idx \in 0 .. Len(Exit) - 1
      BY UartAssumption DEF TypeOK, Tick
    <3>2. term_idx' \in 0 .. Len(Exit) /\ (done' <=> term_idx' = Len(Exit)) /\ done' \in BOOLEAN
      <4>1. term_idx' \in 0 .. Len(Exit)
        BY <2>2, <3>1 DEF Input, Matched
      <4>2. done' = (term_idx' = Len(Exit))
        BY <2>2 DEF Input
      <4> QED
        BY <4>1, <4>2, Zenon
    <3>3. heard' \in Seq(Char) /\ Len(heard') <= Len(Exit)
      BY <2>2, HeardLater DEF Input, TypeOK
    <3>4. LongestMatch'
      BY <2>2, InputMatches DEF Tick
    <3>5. event' \in {"none", "overrun"}
      BY <2>2 DEF Input
    <3> QED
      BY <3>2, <3>3, <3>4, <3>5
  <2> QED
    BY <2>1, <2>2 DEF Tick
<1>6. TypeOK'
  <2>1. Values'
    BY <1>1, <1>2, <1>3, <1>4, <1>5 DEF Tick, TypeOK, Values, MaxGap
  <2>2. ip' \in BOOLEAN /\ polled' \in BOOLEAN
    BY Zenon DEF Tick, TypeOK
  <2>3. Flags'
    BY <1>5, <2>2, Zenon DEF Flags
  <2> QED
    BY <2>1, <2>3, TypeHalves
<1>7. ReadOnce'
  BY <1>5 DEF ReadOnce
<1>8. CausesHold'
  BY <1>2, <1>3 DEF Tick, CausesHold
<1>9. FrameInv'
  <2>1. cycle' = 0 /\ frame' = frame /\ frame \in 0 .. TicksPerBit
    BY DEF Tick, TypeOK
  <2>2. CASE Sent
    BY <2>2 DEF Tick, Started, FrameInv
  <2>3. CASE ~Sent
    <3>1. start' = Age /\ Age \in Nat /\ ~(Age >= TicksPerBit)
      BY <2>3, AgeIsNat DEF Tick, Started, Sent
    <3>2. Sending
      <4>1. CASE start = NotStarted
        BY <3>1, <4>1, <1>1 DEF Age
      <4>2. CASE start # NotStarted
        BY <4>2 DEF FrameInv, Sending
      <4> QED
        BY <4>1, <4>2
    <3>3. "THRR" \notin lsr'
      BY <2>3, <3>2 DEF Tick, Sending
    <3>4. frame >= Age \/ frame = TicksPerBit
      BY <2>1, <3>1, <3>2, AgeIsNat DEF Age, FrameInv, NotStarted, TypeOK
    <3> QED
      BY <2>1, <3>1, <3>3, <3>4 DEF FrameInv
  <2> QED
    BY <2>2, <2>3
<1> QED
  BY <1>5, <1>6, <1>7, <1>8, <1>9

(* What every instruction leaves as it must be, whatever it does to the     *)
(* registers: the count of cycles and the matcher.                          *)
LEMMA SpendsInv ==
    ASSUME UartInv, NEW k \in 1 .. MaxCycles, Spends(k)
    PROVE  /\ cycle' \in 0 .. MaxGap /\ cycle' = cycle + k
           /\ Later(k) \in 0 .. TicksPerBit
           /\ Later(k) = TicksPerBit \/ Later(k) = frame + k
           /\ UNCHANGED <<term_idx, done, polled, heard>>
           /\ LongestMatch'
<1>1. UNCHANGED <<term_idx, done, polled, heard>> /\ cycle' = cycle + k /\ cycle < Granularity
  BY DEF Spends
<1>2. LongestMatch'
  BY <1>1 DEF UartInv, LongestMatch, EndsWith
<1> QED
  BY <1>1, <1>2, UartAssumption DEF UartInv, TypeOK, Later, MaxGap

(* An instruction that neither sends nor receives a character; it may       *)
(* change the enables, acknowledge, or begin a driver's loop.               *)
LEMMA QuietInv ==
    ASSUME UartInv, NEW k \in 1 .. MaxCycles, Spends(k), Quietly(k),
           UNCHANGED <<lsr, iir, start>>, ier' \subseteq IerBit, ip' \in BOOLEAN,
           guest' \in {"idle", "outbyte", "inbyte", "entered", "served"}, CausesHold'
    PROVE  UartInv'
<1> USE DEF UartInv
<1>1. TypeOK'
  <2>1. Values'
    BY SpendsInv DEF TypeOK, Values, Quietly
  <2>2. Flags'
    BY SpendsInv, Zenon DEF TypeOK, Flags
  <2> QED
    BY <2>1, <2>2, TypeHalves
<1>2. ReadOnce'
  BY DEF ReadOnce, Quietly
<1>3. FrameInv'
  BY SpendsInv DEF FrameInv, Quietly, TypeOK, NotStarted
<1> QED
  BY <1>1, <1>2, <1>3, SpendsInv

(* A character is sent only when the line is free, so that no transmission  *)
(* is being timed.                                                          *)
LEMMA SendInv ==
    ASSUME UartInv, NEW k \in 1 .. MaxCycles, Spends(k), SendByte(k), "THRR" \in lsr,
           UNCHANGED ip, guest' \in {"idle", "served"}, CausesHold'
    PROVE  UartInv'
<1> USE DEF UartInv
<1>1. 0 \in 0 .. TicksPerBit
  BY UartAssumption
<1>2. TypeOK'
  <2>1. Values'
    BY <1>1, SpendsInv DEF TypeOK, Values, SendByte
  <2>2. Flags'
    BY SpendsInv, Zenon DEF TypeOK, Flags
  <2> QED
    BY <2>1, <2>2, TypeHalves
<1>3. ReadOnce'
  BY DEF ReadOnce, SendByte
<1>4. FrameInv'
  BY DEF FrameInv, SendByte
<1> QED
  BY <1>2, <1>3, <1>4, SpendsInv

(* A character is read only when there is one. *)
LEMMA ReceiveInv ==
    ASSUME UartInv, NEW k \in 1 .. MaxCycles, Spends(k), ReceiveByte(k), "DR" \in lsr,
           UNCHANGED ip, guest' \in {"idle", "served"}, CausesHold'
    PROVE  UartInv'
<1> USE DEF UartInv
<1>1. event' = "none"
  BY DEF ReceiveByte
<1>2. TypeOK'
  <2>1. Values'
    BY <1>1, SpendsInv DEF TypeOK, Values, ReceiveByte
  <2>2. Flags'
    BY SpendsInv, Zenon DEF TypeOK, Flags
  <2> QED
    BY <2>1, <2>2, TypeHalves
<1>3. ReadOnce'
  BY <1>1 DEF ReadOnce
<1>4. FrameInv'
  BY SpendsInv DEF FrameInv, ReceiveByte, TypeOK, NotStarted
<1> QED
  BY <1>2, <1>3, <1>4, SpendsInv

(* An instruction of the guest: one case for each. *)
LEMMA InstructionInv ==
    ASSUME UartInv, NEW k \in 1 .. MaxCycles,
           \/ Compute(k)
           \/ \E bits \in SUBSET IerBit : WriteIer(k, bits)
           \/ SeeReady(k, "THRR", "outbyte") \/ OutByte(k)
           \/ SeeReady(k, "DR", "inbyte") \/ InByte(k)
           \/ Serve(k) \/ Acknowledge(k)
    PROVE  UartInv'
<1>0. TypeOK /\ CausesHold
  BY DEF UartInv
<1>1. CASE Compute(k)
  BY <1>0, <1>1, QuietInv DEF Compute, TypeOK, CausesHold, Settled, regs, Spends
<1>2. ASSUME NEW bits \in SUBSET IerBit, WriteIer(k, bits) PROVE UartInv'
  BY <1>0, <1>2, QuietInv DEF WriteIer, TypeOK, CausesHold, Settled, Spends
<1>3. CASE SeeReady(k, "THRR", "outbyte")
  BY <1>0, <1>3, QuietInv DEF SeeReady, TypeOK, CausesHold, Settled, regs, Spends
<1>4. CASE OutByte(k)
  BY <1>0, <1>4, SendInv DEF OutByte, SendByte, TypeOK, CausesHold, Settled, Spends
<1>5. CASE SeeReady(k, "DR", "inbyte")
  BY <1>0, <1>5, QuietInv DEF SeeReady, TypeOK, CausesHold, Settled, regs, Spends
<1>6. CASE InByte(k)
  BY <1>0, <1>6, ReceiveInv DEF InByte, ReceiveByte, TypeOK, CausesHold, Settled, Spends
<1>7. CASE Serve(k)
  <2>1. ~polled /\ guest' = "served" /\ UNCHANGED <<polled, ip>> /\ CausesHold'
    BY <1>0, <1>7 DEF Serve, CausesHold, Settled, Spends
  <2>2. CASE iir = "RDR" /\ ReceiveByte(k)
    BY <1>0, <1>7, <2>1, <2>2, ReceiveInv DEF Serve, CausesHold, Settled
  <2>3. CASE iir = "EMP" /\ SendByte(k)
    BY <1>0, <1>7, <2>1, <2>3, SendInv DEF Serve, CausesHold, Settled
  <2>4. CASE Quietly(k) /\ ier' \subseteq ier /\ UNCHANGED <<lsr, iir, start>>
    BY <1>0, <1>7, <2>1, <2>4, QuietInv DEF Serve, TypeOK
  <2> QED
    BY <1>7, <2>2, <2>3, <2>4 DEF Serve, regs
<1>8. CASE Acknowledge(k)
  BY <1>0, <1>8, QuietInv DEF Acknowledge, TypeOK, CausesHold, Settled, regs, Spends
<1> QED
  BY <1>1, <1>2, <1>3, <1>4, <1>5, <1>6, <1>7, <1>8

(* Entering the handler: IP asks for it, so IIR is not left over. *)
LEMMA TakeInterruptInv == UartInv /\ TakeInterrupt => UartInv'
<1> SUFFICES ASSUME UartInv, TakeInterrupt PROVE UartInv'
  OBVIOUS
<1> USE DEF UartInv
<1>1. UNCHANGED <<lsr, ier, iir, start, term_idx, done, ip, cycle, polled, heard, frame>>
  BY DEF TakeInterrupt, regs
<1>2. TypeOK'
  BY <1>1 DEF TypeOK, TakeInterrupt
<1>3. ReadOnce' /\ CausesHold' /\ FrameInv'
  BY <1>1 DEF TakeInterrupt, ReadOnce, CausesHold, FrameInv, Settled
<1>4. LongestMatch'
  BY <1>1 DEF LongestMatch, EndsWith
<1> QED
  BY <1>2, <1>3, <1>4

(* Every step keeps the invariant. *)
LEMMA NextInv == UartInv /\ [Next]_vars => UartInv'
<1> SUFFICES ASSUME UartInv, [Next]_vars PROVE UartInv'
  OBVIOUS
<1>1. CASE Ticks
  BY <1>1, TickInv DEF Ticks
<1>2. CASE Instruction
  BY <1>2, InstructionInv DEF Instruction
<1>3. CASE TakeInterrupt
  BY <1>3, TakeInterruptInv
<1>4. CASE UNCHANGED vars
  BY <1>4 DEF vars, UartInv, TypeOK, ReadOnce, CausesHold, FrameInv, Settled, LongestMatch, EndsWith
<1> QED
  BY <1>1, <1>2, <1>3, <1>4 DEF Next, Stopped

(* It always holds. *)
LEMMA SpecInv == Spec => []UartInv
BY InitInv, NextInv, PTL DEF Spec

-----------------------------------------------------------------------------
(* The theorems *)

(* Types, for every terminate string and speed of the line. *)
THEOREM UartTypes == Spec => []TypeOK
<1>1. UartInv => TypeOK
  BY DEF UartInv
<1> QED
  BY <1>1, SpecInv, PTL

(* No character is read twice, neither by the polling driver nor by the     *)
(* handler, wherever the polls fall.                                        *)
THEOREM NothingReadTwice == Spec => []ReadOnce
<1>1. UartInv => ReadOnce
  BY DEF UartInv
<1> QED
  BY <1>1, SpecInv, PTL

(* The simulator ends exactly on the terminate string.  The assumption on   *)
(* its first character is what makes a matcher without a table of failures  *)
(* enough.                                                                  *)
THEOREM EndsOnExitOnly == Spec => []TerminateExact
<1>1. ASSUME UartInv PROVE TerminateExact
  <2>1. /\ heard \in Seq(Char) /\ Len(heard) <= Len(Exit) /\ Exit \in Seq(Char)
        /\ Len(Exit) \in Nat /\ Len(Exit) > 1 /\ term_idx \in 0 .. Len(Exit)
        /\ (done <=> term_idx = Len(Exit)) /\ done \in BOOLEAN
    BY <1>1, UartAssumption DEF UartInv, TypeOK
  <2>2. CASE done
    <3>1. EndsWith(heard, Len(Exit))
      BY <1>1, <2>1, <2>2 DEF UartInv, LongestMatch
    <3>2. Len(heard) = Len(Exit) /\ \A i \in 1 .. Len(Exit) : heard[i] = Exit[i]
      BY <2>1, <3>1 DEF EndsWith
    <3> QED
      BY <2>1, <2>2, <3>2 DEF TerminateExact
  <2>3. CASE heard = Exit
    <3>1. EndsWith(heard, Len(Exit))
      BY <2>1, <2>3 DEF EndsWith
    <3>2. Len(Exit) \notin term_idx + 1 .. Len(Exit)
      BY <1>1, <3>1 DEF UartInv, LongestMatch
    <3> QED
      BY <2>1, <2>3, <3>2 DEF TerminateExact
  <2> QED
    BY <2>1, <2>2, <2>3 DEF TerminateExact
<1> QED
  BY <1>1, SpecInv, PTL

(* A character stays on the line for as long as its bits take. *)
THEOREM LineHasItsTime == Spec => FullFrame
<1>1. ASSUME UartInv, [Next]_vars PROVE [Sending /\ "THRR" \in lsr' => frame >= TicksPerBit]_vars
  <2>1. SUFFICES ASSUME Sending, "THRR" \in lsr' PROVE frame >= TicksPerBit
    OBVIOUS
  <2>2. PICK c \in Char \cup {NoKey} : Tick(c)
    BY <1>1, <2>1 DEF Next, Ticks, Instruction, Compute, WriteIer, SeeReady, OutByte, InByte,
        Serve, Acknowledge, SendByte, ReceiveByte, TakeInterrupt, Stopped, Sending, regs, vars
  <2>3. Sent
    BY <2>1, <2>2 DEF Tick, Sending
  <2>4. TypeOK /\ FrameInv
    BY <1>1 DEF UartInv
  <2>5. start # NotStarted /\ Age = start + cycle
    BY <2>1, <2>3, <2>4, UartAssumption DEF Sent, Age
  <2> QED
    BY <2>3, <2>4, <2>5, UartAssumption DEF Sent, FrameInv, TypeOK
<1> QED
  BY <1>1, SpecInv, PTL DEF Spec, FullFrame
=============================================================================
