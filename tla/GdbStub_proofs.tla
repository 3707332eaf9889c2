---------------------------- MODULE GdbStub_proofs ----------------------------
(***************************************************************************)
(* Theorems about the GDB stub.  First about DebugSession, the commands it *)
(* carries out and the processor it runs: for any number of debug          *)
(* registers, any code and any data.  Then about GdbPackets, its           *)
(* connection to the host: for any memory and registers, any buffer, any   *)
(* data and counts that a packet can carry.                                *)
(***************************************************************************)
EXTENDS DebugSession, GdbPackets, FiniteSetTheorems, SequenceTheorems,
        WellFoundedInduction, TLAPS

-----------------------------------------------------------------------------
(* DebugSession: registers in use *)

(* The registers that hold a breakpoint, or a watchpoint of one kind.       *)
BreaksAt(a) == {i \in Slots : bp[i] = a}
WatchesAt(x) == {i \in Slots : dc[i] = x[1] /\ wp[i] = x[2]}

(* Sets of registers are finite, so they can be counted. *)
LEMMA SlotsFinite == \A S \in SUBSET Slots : IsFiniteSet(S) /\ Cardinality(S) \in Nat
<1>1. IsFiniteSet(Slots)
  BY FS_Interval, SessionAssumption DEF Slots
<1> QED
  BY <1>1, FS_Subset, FS_CardinalityType

(* The search for a register yields one of those it looks among. *)
LEMMA LowestIsMember == \A S : Lowest(S) \subseteq S
BY DEF Lowest

-----------------------------------------------------------------------------
(* What each command does to the number of registers in use *)

(* Z1 arms one more register for its address, and none for another. *)
LEMMA SetHwBpCounts ==
    ASSUME TypeOK, NEW a \in Code, SetHwBp(a)
    PROVE  \A b \in Code :
              Cardinality(BreaksAt(b)') = Cardinality(BreaksAt(b)) + (IF b = a THEN 1 ELSE 0)
<1>1. PICK i \in Lowest(FreeBreaks) : bp' = [bp EXCEPT ![i] = a]
  BY DEF SetHwBp
<1>2. i \in Slots /\ bp[i] = Off
  BY <1>1, LowestIsMember DEF FreeBreaks
<1>3. Off \notin Code
  BY SessionAssumption
<1>4. ASSUME NEW b \in Code
      PROVE  BreaksAt(b)' = IF b = a THEN BreaksAt(b) \cup {i} ELSE BreaksAt(b)
  BY <1>1, <1>2, <1>3, SMTT(30) DEF BreaksAt, TypeOK
<1>5. ASSUME NEW b \in Code
      PROVE  i \notin BreaksAt(b) /\ IsFiniteSet(BreaksAt(b)) /\ Cardinality(BreaksAt(b)) \in Nat
  BY <1>2, <1>3, SlotsFinite DEF BreaksAt
<1> QED
  BY <1>4, <1>5, FS_AddElement

(* z1 frees one register of its address, which was armed, and no other. *)
LEMMA ClearHwBpCounts ==
    ASSUME TypeOK, NEW a \in Code, ClearHwBp(a)
    PROVE  /\ Cardinality(BreaksAt(a)) > 0
           /\ \A b \in Code :
                 Cardinality(BreaksAt(b)') = Cardinality(BreaksAt(b)) - (IF b = a THEN 1 ELSE 0)
<1>1. PICK i \in Lowest(BreaksAt(a)) : bp' = [bp EXCEPT ![i] = Off]
  BY DEF ClearHwBp, BreaksAt
<1>2. i \in Slots /\ bp[i] = a /\ i \in BreaksAt(a)
  BY <1>1, LowestIsMember DEF BreaksAt
<1>3. Off \notin Code
  BY SessionAssumption
<1>4. ASSUME NEW b \in Code
      PROVE  BreaksAt(b)' = IF b = a THEN BreaksAt(b) \ {i} ELSE BreaksAt(b)
  BY <1>1, <1>2, <1>3, SMTT(30) DEF BreaksAt, TypeOK
<1>5. ASSUME NEW b \in Code
      PROVE  IsFiniteSet(BreaksAt(b)) /\ Cardinality(BreaksAt(b)) \in Nat
  BY SlotsFinite DEF BreaksAt
<1>6. Cardinality(BreaksAt(a)) # 0
  BY <1>2, <1>5, FS_EmptySet
<1> QED
  BY <1>2, <1>4, <1>5, <1>6, FS_RemoveElement

(* A watchpoint watches for some access. *)
LEMMA KindIsSome == \A kind \in Kind : kind # {} /\ kind \subseteq Access
BY DEF Kind

(* Z2, Z3 and Z4 take one more comparator for their kind and address. *)
LEMMA SetHwWpCounts ==
    ASSUME TypeOK, NEW kind \in Kind, NEW a \in Data, SetHwWp(kind, a)
    PROVE  \A x \in Kind \X Data :
              Cardinality(WatchesAt(x)')
                  = Cardinality(WatchesAt(x)) + (IF x = <<kind, a>> THEN 1 ELSE 0)
<1>1. PICK i \in Lowest({j \in Slots : dc[j] = {}}) :
          dc' = [dc EXCEPT ![i] = kind] /\ wp' = [wp EXCEPT ![i] = a]
  BY DEF SetHwWp
<1>2. i \in Slots /\ dc[i] = {}
  BY <1>1, LowestIsMember
<1>3. ASSUME NEW x \in Kind \X Data
      PROVE  WatchesAt(x)' = IF x = <<kind, a>> THEN WatchesAt(x) \cup {i} ELSE WatchesAt(x)
  <2>1. x[1] # {} /\ x = <<x[1], x[2]>>
    BY KindIsSome
  <2>2. \A j \in Slots : dc'[j] = (IF j = i THEN kind ELSE dc[j]) /\ wp'[j] = (IF j = i THEN a ELSE wp[j])
    BY <1>1, <1>2 DEF TypeOK
  <2>3. WatchesAt(x)' = {j \in Slots : dc'[j] = x[1] /\ wp'[j] = x[2]}
    BY DEF WatchesAt
  <2> QED
    BY <1>2, <2>1, <2>2, <2>3 DEF WatchesAt
<1>4. ASSUME NEW x \in Kind \X Data
      PROVE  i \notin WatchesAt(x) /\ IsFiniteSet(WatchesAt(x)) /\ Cardinality(WatchesAt(x)) \in Nat
  <2>1. x[1] # {}
    BY KindIsSome
  <2> QED
    BY <1>2, <2>1, SlotsFinite DEF WatchesAt
<1> QED
  BY <1>3, <1>4, FS_AddElement

(* z2, z3 and z4 free one comparator of their kind and address, if they     *)
(* find one at all.                                                         *)
LEMMA ClearHwWpCounts ==
    ASSUME TypeOK, NEW kind \in Kind, NEW a \in Data, ClearHwWp(kind, a)
    PROVE  /\ Cardinality(WatchesAt(<<kind, a>>)) > 0
           /\ \A x \in Kind \X Data :
                 Cardinality(WatchesAt(x)')
                     = Cardinality(WatchesAt(x)) - (IF x = <<kind, a>> THEN 1 ELSE 0)
<1>1. PICK i \in Lowest(FoundWatches(kind, a)) : dc' = [dc EXCEPT ![i] = {}]
  BY DEF ClearHwWp
<1>2. i \in Slots /\ dc[i] = kind /\ wp[i] = a /\ wp' = wp
  BY <1>1, LowestIsMember DEF FoundWatches, ClearHwWp
<1>3. ASSUME NEW x \in Kind \X Data
      PROVE  WatchesAt(x)' = IF x = <<kind, a>> THEN WatchesAt(x) \ {i} ELSE WatchesAt(x)
  <2>1. x[1] # {} /\ x = <<x[1], x[2]>>
    BY KindIsSome
  <2>2. \A j \in Slots : dc'[j] = (IF j = i THEN {} ELSE dc[j])
    BY <1>1, <1>2 DEF TypeOK
  <2>3. WatchesAt(x)' = {j \in Slots : dc'[j] = x[1] /\ wp[j] = x[2]}
    BY <1>2 DEF WatchesAt
  <2> QED
    BY <1>2, <2>1, <2>2, <2>3 DEF WatchesAt
<1>4. ASSUME NEW x \in Kind \X Data
      PROVE  IsFiniteSet(WatchesAt(x)) /\ Cardinality(WatchesAt(x)) \in Nat
  BY SlotsFinite DEF WatchesAt
<1>5. i \in WatchesAt(<<kind, a>>)
  BY <1>2 DEF WatchesAt
<1>6. Cardinality(WatchesAt(<<kind, a>>)) # 0
  BY <1>4, <1>5, FS_EmptySet
<1> QED
  BY <1>3, <1>4, <1>5, <1>6, FS_RemoveElement

-----------------------------------------------------------------------------
(* The inductive invariant: the types need the ledger to agree with the     *)
(* registers, as only then is nothing cleared that was not set.             *)
SessionInv == TypeOK /\ ArmedAsAgreed

(* The ledger in terms of the sets that are counted. *)
LEMMA LedgerByCounts ==
    /\ BreaksArmed <=> \A a \in Code : breaks[a] = Cardinality(BreaksAt(a))
    /\ WatchesArmed <=> \A x \in Kind \X Data : watches[x] = Cardinality(WatchesAt(x))
BY DEF BreaksArmed, WatchesArmed, BreaksAt, WatchesAt

(* At first nothing is armed and nothing agreed. *)
LEMMA InitInv == Init => SessionInv
<1> SUFFICES ASSUME Init PROVE SessionInv
  OBVIOUS
<1>1. TypeOK
  BY SessionAssumption DEF Init, TypeOK
<1>2. BreaksArmed
  <2>1. ASSUME NEW a \in Code PROVE BreaksAt(a) = {}
    BY SessionAssumption DEF Init, BreaksAt
  <2> QED
    BY <2>1, LedgerByCounts, FS_EmptySet DEF Init
<1>3. WatchesArmed
  <2>1. ASSUME NEW x \in Kind \X Data PROVE WatchesAt(x) = {}
    <3>1. x[1] # {}
      BY KindIsSome
    <3> QED
      BY <3>1 DEF Init, WatchesAt
  <2> QED
    BY <2>1, LedgerByCounts, FS_EmptySet DEF Init
<1> QED
  BY <1>1, <1>2, <1>3 DEF SessionInv, ArmedAsAgreed

(* Setting a breakpoint keeps ledger and registers in step ... *)
LEMMA SetHwBpInv ==
    ASSUME SessionInv, NEW a \in Code, SetHwBp(a)
    PROVE  SessionInv'
<1>1. TypeOK /\ BreaksArmed /\ WatchesArmed
  BY DEF SessionInv, ArmedAsAgreed
<1>2. bp' \in [Slots -> Code \cup {Off}]
  <2>1. PICK i \in Lowest(FreeBreaks) : bp' = [bp EXCEPT ![i] = a]
    BY DEF SetHwBp
  <2> QED
    BY <1>1, <2>1 DEF TypeOK
<1>3. TypeOK'
  BY <1>1, <1>2 DEF TypeOK, SetHwBp
<1>4. BreaksArmed'
  <2>1. ASSUME NEW b \in Code PROVE breaks'[b] = Cardinality(BreaksAt(b)')
    <3>1. breaks'[b] = breaks[b] + (IF b = a THEN 1 ELSE 0)
      BY <1>1 DEF SetHwBp, TypeOK
    <3> QED
      BY <1>1, <3>1, SetHwBpCounts, LedgerByCounts
  <2> QED
    BY <2>1 DEF BreaksArmed, BreaksAt
<1>5. WatchesArmed'
  BY <1>1 DEF WatchesArmed, SetHwBp
<1> QED
  BY <1>3, <1>4, <1>5 DEF SessionInv, ArmedAsAgreed

(* ... clearing one too, and the ledger does not fall below zero ... *)
LEMMA ClearHwBpInv ==
    ASSUME SessionInv, NEW a \in Code, ClearHwBp(a)
    PROVE  SessionInv'
<1>1. TypeOK /\ BreaksArmed /\ WatchesArmed
  BY DEF SessionInv, ArmedAsAgreed
<1>2. bp' \in [Slots -> Code \cup {Off}]
  <2>1. PICK i \in Lowest({j \in Slots : bp[j] = a}) : bp' = [bp EXCEPT ![i] = Off]
    BY DEF ClearHwBp
  <2> QED
    BY <1>1, <2>1 DEF TypeOK
<1>3. breaks[a] \in Nat /\ breaks[a] > 0
  BY <1>1, ClearHwBpCounts, LedgerByCounts DEF TypeOK
<1>4. breaks' \in [Code -> Nat]
  <2>1. breaks' = [breaks EXCEPT ![a] = breaks[a] - 1]
    BY DEF ClearHwBp
  <2>2. breaks[a] - 1 \in Nat
    BY <1>3
  <2> QED
    BY <1>1, <2>1, <2>2 DEF TypeOK
<1>5. TypeOK'
  BY <1>1, <1>2, <1>4 DEF TypeOK, ClearHwBp
<1>6. BreaksArmed'
  <2>1. ASSUME NEW b \in Code PROVE breaks'[b] = Cardinality(BreaksAt(b)')
    <3>1. breaks'[b] = breaks[b] - (IF b = a THEN 1 ELSE 0)
      BY <1>1 DEF ClearHwBp, TypeOK
    <3> QED
      BY <1>1, <3>1, ClearHwBpCounts, LedgerByCounts
  <2> QED
    BY <2>1 DEF BreaksArmed, BreaksAt
<1>7. WatchesArmed'
  BY <1>1 DEF WatchesArmed, ClearHwBp
<1> QED
  BY <1>5, <1>6, <1>7 DEF SessionInv, ArmedAsAgreed

(* ... and so does setting a watchpoint ... *)
LEMMA SetHwWpInv ==
    ASSUME SessionInv, NEW kind \in Kind, NEW a \in Data, SetHwWp(kind, a)
    PROVE  SessionInv'
<1>1. TypeOK /\ BreaksArmed /\ WatchesArmed
  BY DEF SessionInv, ArmedAsAgreed
<1>2. dc' \in [Slots -> SUBSET Access] /\ wp' \in [Slots -> Data]
  <2>1. PICK i \in Lowest({j \in Slots : dc[j] = {}}) :
            dc' = [dc EXCEPT ![i] = kind] /\ wp' = [wp EXCEPT ![i] = a]
    BY DEF SetHwWp
  <2>2. kind \in SUBSET Access
    BY KindIsSome
  <2> QED
    BY <1>1, <2>1, <2>2 DEF TypeOK
<1>3. watches' = [watches EXCEPT ![<<kind, a>>] = @ + 1]
  BY DEF SetHwWp
<1>4. watches' \in [Kind \X Data -> Nat]
  BY <1>1, <1>3 DEF TypeOK
<1>5. TypeOK'
  BY <1>1, <1>2, <1>4 DEF TypeOK, SetHwWp
<1>6. WatchesArmed'
  <2>1. ASSUME NEW x \in Kind \X Data PROVE watches'[x] = Cardinality(WatchesAt(x)')
    <3>1. watches'[x] = watches[x] + (IF x = <<kind, a>> THEN 1 ELSE 0)
      BY <1>1, <1>3 DEF TypeOK
    <3> QED
      BY <1>1, <3>1, SetHwWpCounts, LedgerByCounts
  <2> QED
    BY <2>1 DEF WatchesArmed, WatchesAt
<1>7. BreaksArmed'
  BY <1>1 DEF BreaksArmed, SetHwWp
<1> QED
  BY <1>5, <1>6, <1>7 DEF SessionInv, ArmedAsAgreed

(* ... and clearing one. *)
LEMMA ClearHwWpInv ==
    ASSUME SessionInv, NEW kind \in Kind, NEW a \in Data, ClearHwWp(kind, a)
    PROVE  SessionInv'
<1>1. TypeOK /\ BreaksArmed /\ WatchesArmed
  BY DEF SessionInv, ArmedAsAgreed
<1>2. dc' \in [Slots -> SUBSET Access]
  <2>1. PICK i \in Lowest(FoundWatches(kind, a)) : dc' = [dc EXCEPT ![i] = {}]
    BY DEF ClearHwWp
  <2> QED
    BY <1>1, <2>1 DEF TypeOK
<1>3. watches' = [watches EXCEPT ![<<kind, a>>] = @ - 1]
  BY DEF ClearHwWp
<1>4. <<kind, a>> \in Kind \X Data /\ watches[<<kind, a>>] \in Nat /\ watches[<<kind, a>>] > 0
  <2>1. <<kind, a>> \in Kind \X Data
    OBVIOUS
  <2>2. watches[<<kind, a>>] = Cardinality(WatchesAt(<<kind, a>>))
    BY <1>1, <2>1, LedgerByCounts
  <2>3. Cardinality(WatchesAt(<<kind, a>>)) > 0
    BY <1>1, ClearHwWpCounts
  <2> QED
    BY <1>1, <2>1, <2>2, <2>3 DEF TypeOK
<1>5. watches' \in [Kind \X Data -> Nat]
  <2>1. watches[<<kind, a>>] - 1 \in Nat
    BY <1>4
  <2> QED
    BY <1>1, <1>3, <2>1 DEF TypeOK
<1>6. TypeOK'
  BY <1>1, <1>2, <1>5 DEF TypeOK, ClearHwWp
<1>7. WatchesArmed'
  <2>1. ASSUME NEW x \in Kind \X Data PROVE watches'[x] = Cardinality(WatchesAt(x)')
    <3>1. watches'[x] = watches[x] - (IF x = <<kind, a>> THEN 1 ELSE 0)
      BY <1>1, <1>3 DEF TypeOK
    <3> QED
      BY <1>1, <3>1, ClearHwWpCounts, LedgerByCounts
  <2> QED
    BY <2>1 DEF WatchesArmed, WatchesAt
<1>8. BreaksArmed'
  BY <1>1 DEF BreaksArmed, ClearHwWp
<1> QED
  BY <1>6, <1>7, <1>8 DEF SessionInv, ArmedAsAgreed

(* Nothing but these four commands touches the registers or the ledger.     *)
LEMMA LedgerKept ==
    ASSUME ArmedAsAgreed, UNCHANGED <<registers, ledger>>
    PROVE  ArmedAsAgreed'
BY DEF ArmedAsAgreed, BreaksArmed, WatchesArmed, registers, ledger

(* A comparison with the watchpoints flags nothing but a watchpoint. *)
LEMMA HitType == \A op, a : Hit(op, a) \subseteq ExcId /\ Hit(op, a) \subseteq DebugExc
BY DEF Hit, ExcId, DebugExc

(* The commands on memory, registers and the run leave the ledger alone. *)
LEMMA OtherCommandInv ==
    ASSUME SessionInv, NEW x \in Data, NEW a \in Code, NEW how \in {"continue", "step"},
           ReadMem(x) \/ WriteMem(x) \/ SetRegs(a) \/ Resume(how, a) \/ Detach
    PROVE  SessionInv'
<1>1. TypeOK /\ ArmedAsAgreed
  BY DEF SessionInv
<1>2. UNCHANGED <<registers, ledger>>
  BY DEF ReadMem, WriteMem, SetRegs, Resume, Detach
<1>3. flags' \subseteq ExcId
  BY <1>1, HitType DEF TypeOK, ExcId, ReadMem, WriteMem, SetRegs, Resume, Detach
<1>4. /\ pc' \in Code /\ mode' \in {"stopped", "continue", "step", "over"}
      /\ left' \subseteq DebugExc /\ reason' \in {"none", "SIGTRAP", "SIGTERM", "SIGFPE", "SIGSEGV"}
  BY <1>1, HitType DEF TypeOK, ReadMem, WriteMem, SetRegs, Resume, Detach
<1>5. TypeOK'
  BY <1>1, <1>2, <1>3, <1>4 DEF TypeOK, registers, ledger
<1> QED
  BY <1>1, <1>2, <1>5, LedgerKept DEF SessionInv

(* An instruction is fetched from where the guest has code. *)
LEMMA ReachedType == TypeOK => Reached \subseteq Code
BY DEF TypeOK, Reached

(* Dispatch and fetch flag nothing but exceptions. *)
LEMMA FlagTypes ==
    ASSUME TypeOK, NEW a
    PROVE  Dispatched(a) \subseteq ExcId /\ Fetched(a) \subseteq ExcId
BY HitType DEF TypeOK, Dispatched, Fetched, ExcId

(* What an iteration of the run loop is, whatever the instruction.          *)
LEMMA ExecuteIs ==
    ASSUME TypeOK, Execute
    PROVE  \E f \in SUBSET ExcId, next \in Code : \E status \in {Status(f), "LOCK"} :
              Executed(f, next, status)
<1>1. PICK a \in Code :
          Plain(a) \/ LoadStore(a) \/ Raise(a) \/ Fault(a) \/ FetchFails(a) \/ Lock(a)
  BY ReachedType DEF Execute
<1>2. CASE Plain(a)
  BY <1>2, FlagTypes DEF Plain, Completes
<1>3. CASE LoadStore(a)
  <2>1. PICK op \in Access, x \in Data :
            Continues(Fetched(a) \cup (IF x \in Bad THEN {DBUSERROR} ELSE Hit(op, x)), a)
    BY <1>3 DEF LoadStore
  <2>2. Fetched(a) \cup (IF x \in Bad THEN {DBUSERROR} ELSE Hit(op, x)) \in SUBSET ExcId
    BY FlagTypes, HitType DEF ExcId
  <2> QED
    BY <2>1, <2>2 DEF Continues, Completes
<1>4. CASE Raise(a)
  <2>1. PICK id \in {SYSCALL, BREAKPOINT} : Completes(Fetched(a) \cup {id}, a)
    BY <1>4 DEF Raise
  <2>2. Fetched(a) \cup {id} \in SUBSET ExcId
    BY FlagTypes DEF ExcId
  <2> QED
    BY <2>1, <2>2 DEF Completes
<1>5. CASE Fault(a)
  <2>1. PICK id \in {DIVZERO, IBUSERROR} : Continues(Fetched(a) \cup {id}, a)
    BY <1>5 DEF Fault
  <2>2. Fetched(a) \cup {id} \in SUBSET ExcId
    BY FlagTypes DEF ExcId
  <2> QED
    BY <2>1, <2>2 DEF Continues, Completes
<1>6. CASE FetchFails(a)
  <2>1. Dispatched(a) \cup {IBUSERROR} \in SUBSET ExcId
    BY FlagTypes DEF ExcId
  <2> QED
    BY <1>6, <2>1 DEF FetchFails, Continues, Completes
<1>7. CASE Lock(a)
  BY <1>7, FlagTypes DEF Lock
<1> QED
  BY <1>1, <1>2, <1>3, <1>4, <1>5, <1>6, <1>7

(* So does the run loop, whatever it executes. *)
LEMMA ExecuteInv == ASSUME SessionInv, Execute PROVE SessionInv'
<1>1. TypeOK /\ ArmedAsAgreed
  BY DEF SessionInv
<1>2. PICK f \in SUBSET ExcId, next \in Code : \E status \in {Status(f), "LOCK"} :
          Executed(f, next, status)
  BY <1>1, ExecuteIs
<1>3. PICK status : Executed(f, next, status)
  BY <1>2
<1>4. flags' \subseteq ExcId /\ pc' \in Code /\ left' \subseteq DebugExc
  BY <1>2, <1>3 DEF Executed, Hidden, DebugExc
<1>5. /\ mode' \in {"stopped", "continue", "step", "over"}
      /\ reason' \in {"none", "SIGTRAP", "SIGTERM", "SIGFPE", "SIGSEGV"}
  BY <1>1, <1>3 DEF Executed, Signal, TypeOK
<1>6. UNCHANGED <<registers, ledger>>
  BY <1>3 DEF Executed
<1>7. TypeOK'
  BY <1>1, <1>4, <1>5, <1>6 DEF TypeOK, registers, ledger
<1> QED
  BY <1>1, <1>6, <1>7, LedgerKept DEF SessionInv

(* The invariant is inductive. *)
LEMMA NextInv == ASSUME SessionInv, [Next]_vars PROVE SessionInv'
<1>1. CASE Command
  <2>1. ASSUME NEW a \in Code, SetHwBp(a) \/ ClearHwBp(a) PROVE SessionInv'
    BY <2>1, SetHwBpInv, ClearHwBpInv
  <2>2. ASSUME NEW kind \in Kind, NEW a \in Data, SetHwWp(kind, a) \/ ClearHwWp(kind, a) PROVE SessionInv'
    BY <2>2, SetHwWpInv, ClearHwWpInv
  <2>3. pc \in Code /\ 0 \in Data
    BY SessionAssumption DEF SessionInv, TypeOK
  <2>4. ASSUME NEW a \in Data, ReadMem(a) \/ WriteMem(a) PROVE SessionInv'
    BY <2>3, <2>4, OtherCommandInv
  <2>5. ASSUME NEW a \in Code, SetRegs(a) PROVE SessionInv'
    BY <2>3, <2>5, OtherCommandInv
  <2>6. ASSUME NEW how \in {"continue", "step"}, NEW a \in Code, Resume(how, a) PROVE SessionInv'
    BY <2>3, <2>6, OtherCommandInv
  <2>7. ASSUME Detach PROVE SessionInv'
    BY <2>3, <2>7, OtherCommandInv
  <2> QED
    BY <1>1, <2>1, <2>2, <2>3, <2>4, <2>5, <2>6, <2>7 DEF Command
<1>2. CASE Execute
  BY <1>2, ExecuteInv
<1>3. CASE Over \/ UNCHANGED vars
  BY <1>3 DEF Over, vars, registers, ledger, SessionInv, TypeOK, ArmedAsAgreed,
     BreaksArmed, WatchesArmed
<1> QED
  BY <1>1, <1>2, <1>3 DEF Next

(* The invariant holds in every session. *)
LEMMA Invariant == Spec => []SessionInv
BY InitInv, NextInv, PTL DEF Spec

(* The state of a session has its types; that the ledger never goes below   *)
(* zero says that no z command frees a register nobody has asked for.       *)
THEOREM SessionTypeCorrect == Spec => []TypeOK
BY Invariant, PTL DEF SessionInv

(* Whatever the commands and however many registers: an address is armed as *)
(* often as the host has been told.                                         *)
THEOREM ArmedIsAgreed == Spec => []ArmedAsAgreed
BY Invariant, PTL DEF SessionInv

-----------------------------------------------------------------------------

(* What is flagged of break- and watchpoints was hidden from the host: by   *)
(* the last stop, or by its own accesses since.                             *)
LeftInv == flags \cap DebugExc \subseteq left

(* The break conditions and what the stub clears go together: of the break- *)
(* and watchpoints flagged, only those hidden by the stop remain.           *)
LEMMA OnlyHiddenRemains ==
    ASSUME NEW f, NEW status \in {Status(f), "LOCK"}
    PROVE  (f \ Cleared(status)) \cap DebugExc \subseteq Hidden(status)
<1>1. CASE status = "LOCK"
  BY <1>1 DEF Hidden
<1>2. CASE status # "LOCK" /\ BREAKPOINT \in f
  <2>1. status = "HW_BREAKPOINT"
    BY <1>2 DEF Status
  <2>2. Cleared(status) = {BREAKPOINT} /\ Hidden(status) = {WATCHPOINT}
    BY <2>1 DEF Cleared, Hidden
  <2> QED
    BY <2>2 DEF DebugExc
<1>3. CASE status # "LOCK" /\ BREAKPOINT \notin f /\ WATCHPOINT \in f
  <2>1. status = "HW_WATCHPOINT"
    BY <1>3 DEF Status
  <2>2. Cleared(status) = {WATCHPOINT}
    BY <2>1 DEF Cleared
  <2> QED
    BY <1>3, <2>2 DEF DebugExc
<1>4. CASE BREAKPOINT \notin f /\ WATCHPOINT \notin f
  BY <1>4 DEF DebugExc
<1> QED
  BY <1>1, <1>2, <1>3, <1>4

(* Every step keeps it, whether the host or the guest takes it.             *)
LEMMA LeftStep ==
    ASSUME SessionInv, LeftInv, [Next]_vars
    PROVE  LeftInv'
<1>1. CASE Command
  <2>1. CASE \E x \in Data : ReadMem(x) \/ WriteMem(x)
    <3>1. PICK x \in Data : ReadMem(x) \/ WriteMem(x)
      BY <2>1
    <3>2. DBUSERROR \notin DebugExc
      BY DEF DBUSERROR, DebugExc, BREAKPOINT, WATCHPOINT
    <3> QED
      BY <3>1, <3>2 DEF LeftInv, ReadMem, WriteMem
  <2>2. CASE ~ \E x \in Data : ReadMem(x) \/ WriteMem(x)
    <3>1. UNCHANGED <<flags, left>>
      BY <1>1, <2>2 DEF Command, SetHwBp, ClearHwBp, SetHwWp, ClearHwWp, SetRegs, Resume, Detach
    <3> QED
      BY <3>1 DEF LeftInv
  <2> QED
    BY <2>1, <2>2
<1>2. CASE Execute
  <2>1. PICK f \in SUBSET ExcId, next \in Code : \E status \in {Status(f), "LOCK"} :
            Executed(f, next, status)
    BY <1>2, ExecuteIs DEF SessionInv
  <2>2. PICK status \in {Status(f), "LOCK"} : Executed(f, next, status)
    BY <2>1
  <2>3. flags' = f \ Cleared(status) /\ left' = Hidden(status)
    BY <2>2 DEF Executed
  <2> QED
    BY <2>3, OnlyHiddenRemains DEF LeftInv
<1>3. CASE Over \/ UNCHANGED vars
  BY <1>3 DEF Over, vars, LeftInv
<1> QED
  BY <1>1, <1>2, <1>3 DEF Next

(* The guest's handler is entered for no break- or watchpoint but those     *)
(* that a stop for another reason, or the host's own access, has hidden.    *)
THEOREM TakesOnlyLeft == Spec => GuestTakesOnlyLeft
<1>1. Init => LeftInv
  BY DEF Init, LeftInv
<1>2. SessionInv /\ LeftInv /\ [Next]_vars => LeftInv'
  BY LeftStep
<1>3. Spec => []LeftInv
  BY <1>1, <1>2, Invariant, PTL DEF Spec
<1>4. LeftInv /\ [Next]_vars => [Execute => Lowest(flags) \cap DebugExc \subseteq left]_vars
  BY LowestIsMember DEF LeftInv
<1> QED
  BY <1>3, <1>4, PTL DEF Spec, GuestTakesOnlyLeft

(* A run that ends with SIGSEGV or SIGFPE has its fault flagged, and the    *)
(* stub clears nothing of it.                                               *)
LEMMA StatusOfSignal ==
    ASSUME NEW f, NEW status \in {Status(f), "LOCK"}
    PROVE  /\ Signal(status) = "SIGSEGV" => f \cap BusError # {} /\ Cleared(status) = {}
           /\ Signal(status) = "SIGFPE" => DIVZERO \in f /\ Cleared(status) = {}
BY DEF Status, Signal, Cleared

(* A fault reported is a fault pending, whatever the host does meanwhile.   *)
THEOREM FaultStaysPending == Spec => []FaultPending
<1>1. Init => FaultPending
  BY DEF Init, FaultPending
<1>2. ASSUME SessionInv, FaultPending, [Next]_vars PROVE FaultPending'
  <2>1. CASE Command
    <3>1. mode = "stopped"
      BY <2>1 DEF Command
    <3>2. mode' # "stopped" \/ (reason' = reason /\ flags \subseteq flags')
      BY <2>1 DEF Command, SetHwBp, ClearHwBp, SetHwWp, ClearHwWp, ReadMem, WriteMem,
         SetRegs, Resume, Detach
    <3> QED
      BY <1>2, <3>1, <3>2 DEF FaultPending
  <2>2. CASE Execute
    <3>1. PICK f \in SUBSET ExcId, next \in Code : \E status \in {Status(f), "LOCK"} :
              Executed(f, next, status)
      BY <1>2, <2>2, ExecuteIs DEF SessionInv
    <3>2. PICK status \in {Status(f), "LOCK"} : Executed(f, next, status)
      BY <3>1
    <3>3. mode # "stopped"
      BY <2>2 DEF Execute
    <3>4. CASE status = "NONE"
      BY <3>2, <3>3, <3>4 DEF Executed, FaultPending
    <3>5. CASE status # "NONE"
      BY <3>2, <3>5, StatusOfSignal DEF Executed, FaultPending
    <3> QED
      BY <3>4, <3>5
  <2>3. CASE Over \/ UNCHANGED vars
    BY <1>2, <2>3 DEF Over, vars, FaultPending
  <2> QED
    BY <1>2, <2>1, <2>2, <2>3 DEF Next
<1> QED
  BY <1>1, <1>2, Invariant, PTL DEF Spec

-----------------------------------------------------------------------------
(* Sequences of sequences *)

(* A set of numbers that is not empty has a least one.                      *)
LEMMA NatMin ==
    ASSUME NEW T, T \subseteq Nat, T # {}
    PROVE  \E x \in T : \A y \in T : x <= y
<1> DEFINE R == {ss \in Nat \X Nat : ss[1] < ss[2]}
<1>1. IsWellFoundedOn(R, Nat)
  BY NatLessThanWellFounded DEF OpToRel
<1>2. PICK x \in T : \A y \in T : <<y, x>> \notin R
  BY <1>1, WFMin
<1>3. ASSUME NEW y \in T, y < x PROVE FALSE
  <2>1. <<y, x>> \in Nat \X Nat /\ <<y, x>>[1] < <<y, x>>[2]
    BY <1>3
  <2> QED BY <1>2, <2>1
<1> QED BY <1>2, <1>3

(* What holds of a and, with i, of i + 1, holds from a on: what is said of  *)
(* a number is a set it is in.                                              *)
LEMMA Induction ==
    ASSUME NEW a \in Nat, NEW n \in Nat, a <= n,
           NEW S, a \in S, \A i \in a .. n - 1 : i \in S => i + 1 \in S
    PROVE  \A i \in a .. n : i \in S
<1> DEFINE T == {i \in a .. n : i \notin S}
<1> SUFFICES ASSUME T # {} PROVE FALSE
  OBVIOUS
<1>0. T \subseteq Nat
  OBVIOUS
<1>1. PICK x \in T : \A y \in T : x <= y
  BY <1>0, NatMin
<1>2. x - 1 \in a .. n - 1
  BY <1>1
<1>3. x - 1 \in S
  BY <1>1, <1>2
<1> QED BY <1>1, <1>2, <1>3

(* FlattenSeq() by its steps: a sequence of prefixes, each the one before   *)
(* with the next sequence appended.                                         *)
LEMMA FlattenDef ==
    ASSUME NEW A, NEW ss \in Seq(Seq(A)), ss # <<>>
    PROVE  \E f \in [1 .. Len(ss) -> Seq(A)] :
              /\ f[1] = ss[1]
              /\ \A i \in 1 .. Len(ss) - 1 : f[i + 1] = f[i] \o ss[i + 1]
              /\ FlattenSeq(ss) = f[Len(ss)]
<1> DEFINE F(n, f) == [i \in 1 .. n |-> IF i = 1 THEN ss[i] ELSE f[i - 1] \o ss[i]]
           Good(n) == \E f \in [1 .. n -> Seq(A)] : f = F(n, f)
<1>0. Len(ss) \in Nat \ {0} /\ \A i \in 1 .. Len(ss) : ss[i] \in Seq(A)
  BY EmptySeq, LenProperties
<1>1. ASSUME NEW n \in 1 .. Len(ss) - 1, Good(n) PROVE Good(n + 1)
  <2>1. PICK f \in [1 .. n -> Seq(A)] : f = F(n, f)
    BY <1>1
  <2> DEFINE e == f[n] \o ss[n + 1]
             h == [i \in 1 .. n + 1 |-> IF i <= n THEN f[i] ELSE e]
  <2>0. f[n] \in Seq(A) /\ ss[n + 1] \in Seq(A)
    BY <1>0
  <2>2. e \in Seq(A)
    BY <2>0, ConcatProperties
  <2>3. \A i \in 1 .. n : f[i] = IF i = 1 THEN ss[i] ELSE f[i - 1] \o ss[i]
    BY <2>1
  <2>4. ASSUME NEW i \in 1 .. n + 1
        PROVE  h[i] = IF i = 1 THEN ss[i] ELSE h[i - 1] \o ss[i]
    <3>1. CASE i <= n
      <4>1. i \in 1 .. n /\ h[i] = f[i]
        BY <3>1
      <4>2. ASSUME i # 1 PROVE h[i - 1] = f[i - 1]
        <5>1. i - 1 \in 1 .. n + 1 /\ i - 1 <= n
          BY <3>1, <4>2
        <5> QED BY <5>1
      <4> HIDE DEF h
      <4> QED BY <2>3, <4>1, <4>2
    <3>2. CASE i = n + 1
      <4>1. n + 1 # 1 /\ (n + 1) - 1 = n /\ n \in 1 .. n + 1 /\ ~(n + 1 <= n)
        OBVIOUS
      <4>2. h[n + 1] = e /\ h[n] = f[n]
        BY <4>1
      <4> QED BY <3>2, <4>1, <4>2
    <3> QED BY <3>1, <3>2
  <2> HIDE DEF e
  <2>5. h \in [1 .. n + 1 -> Seq(A)]
    BY <2>2
  <2> HIDE DEF h
  <2>6. h = F(n + 1, h)
    BY <2>4, <2>5
  <2> QED BY <2>5, <2>6
<1>2. Good(1)
  <2> DEFINE f == [i \in 1 .. 1 |-> ss[1]]
  <2>1. f \in [1 .. 1 -> Seq(A)] /\ f = F(1, f)
    BY <1>0
  <2> QED BY <2>1
<1> HIDE DEF Good
<1>3. Good(Len(ss))
  <2> DEFINE S == {i \in Nat : Good(i)}
  <2>1. 1 \in S
    BY <1>2
  <2>2. ASSUME NEW i \in 1 .. Len(ss) - 1, i \in S PROVE i + 1 \in S
    BY <1>0, <1>1, <2>2
  <2> HIDE DEF S
  <2>3. Len(ss) \in 1 .. Len(ss) /\ 1 <= Len(ss)
    BY <1>0
  <2>4. Len(ss) \in S
    BY <2>1, <2>2, <2>3, <1>0, Induction
  <2> QED BY <2>4 DEF S
<1>4. FlattenSeq(ss) = (CHOOSE f : f = F(Len(ss), f))[Len(ss)]
  BY <1>0 DEF FlattenSeq
<1> DEFINE f == CHOOSE f : f = F(Len(ss), f)
<1>5. f = F(Len(ss), f)
  BY <1>3 DEF Good
<1> HIDE DEF f
<1>6. \A i \in 1 .. Len(ss) : f[i] = IF i = 1 THEN ss[i] ELSE f[i - 1] \o ss[i]
  BY <1>5
<1> DEFINE S == {j \in Nat : f[j] \in Seq(A)}
<1>7. 1 \in S
  BY <1>0, <1>6
<1>8. ASSUME NEW j \in 1 .. Len(ss) - 1, j \in S PROVE j + 1 \in S
  <2>1. j + 1 \in 1 .. Len(ss) /\ j + 1 # 1 /\ (j + 1) - 1 = j /\ j + 1 \in Nat
    BY <1>0
  <2>2. f[j + 1] = f[j] \o ss[j + 1]
    BY <1>6, <2>1
  <2>3. ss[j + 1] \in Seq(A) /\ f[j] \in Seq(A)
    BY <1>0, <1>8, <2>1
  <2>4. f[j + 1] \in Seq(A)
    BY <2>2, <2>3, ConcatProperties
  <2> QED BY <2>1, <2>4
<1> HIDE DEF S
<1>a. 1 \in Nat /\ Len(ss) \in Nat /\ 1 <= Len(ss)
  BY <1>0
<1>9. \A j \in 1 .. Len(ss) : j \in S
  BY <1>a, <1>7, <1>8, Induction
<1>10. f \in [1 .. Len(ss) -> Seq(A)]
  BY <1>5, <1>9 DEF S
<1>b. f[1] = ss[1]
  BY <1>6, <1>a
<1>11. ASSUME NEW i \in 1 .. Len(ss) - 1 PROVE f[i + 1] = f[i] \o ss[i + 1]
  <2>1. i + 1 \in 1 .. Len(ss) /\ i + 1 # 1 /\ (i + 1) - 1 = i
    BY <1>a
  <2> QED BY <1>6, <2>1
<1> HIDE DEF F
<1>12. FlattenSeq(ss) = f[Len(ss)]
  BY <1>4 DEF f
<1> QED
  BY <1>10, <1>11, <1>12, <1>b

(* Sequences of bytes, one after the other, are a sequence of bytes.        *)
LEMMA FlattenType ==
    ASSUME NEW A, NEW ss \in Seq(Seq(A))
    PROVE  FlattenSeq(ss) \in Seq(A)
<1>1. CASE ss = <<>>
  <2>1. FlattenSeq(ss) = <<>>
    BY <1>1 DEF FlattenSeq
  <2> QED BY <2>1, EmptySeq
<1>2. CASE ss # <<>>
  <2>1. Len(ss) \in 1 .. Len(ss)
    BY <1>2, EmptySeq, LenProperties
  <2>2. \E f \in [1 .. Len(ss) -> Seq(A)] : FlattenSeq(ss) = f[Len(ss)]
    BY <1>2, FlattenDef
  <2> QED BY <2>1, <2>2
<1> QED BY <1>1, <1>2

(* t is the sequences ss one after the other, the i-th up to place p[i].    *)
Layout(p, ss, t) ==
    /\ p[0] = 0 /\ p[Len(ss)] = Len(t)
    /\ \A i \in 0 .. Len(ss) - 1 :
          /\ p[i + 1] = p[i] + Len(ss[i + 1])
          /\ \A j \in 1 .. Len(ss[i + 1]) : t[p[i] + j] = ss[i + 1][j]

(* Every sequence of sequences can be found, in its places, in what it is   *)
(* flattened to.                                                            *)
LEMMA FlattenLayout ==
    ASSUME NEW A, NEW ss \in Seq(Seq(A))
    PROVE  \E p \in [0 .. Len(ss) -> 0 .. Len(FlattenSeq(ss))] : Layout(p, ss, FlattenSeq(ss))
<1> DEFINE t == FlattenSeq(ss)
<1>1. t \in Seq(A) /\ Len(t) \in Nat
  BY FlattenType, LenProperties
<1> HIDE DEF t
<1>2. CASE ss = <<>>
  <2> DEFINE p == [i \in 0 .. Len(ss) |-> 0]
  <2>1. t = <<>> /\ Len(ss) = 0 /\ Len(t) = 0
    BY <1>2, EmptySeq DEF FlattenSeq, t
  <2>2. p \in [0 .. Len(ss) -> 0 .. Len(t)] /\ Layout(p, ss, t)
    BY <2>1 DEF Layout
  <2> QED BY <2>2 DEF t
<1>3. CASE ss # <<>>
  <2> DEFINE N == Len(ss)
  <2>0. N \in Nat \ {0} /\ \A i \in 1 .. N : ss[i] \in Seq(A) /\ Len(ss[i]) \in Nat
    BY <1>3, EmptySeq, LenProperties
  <2>1. PICK f \in [1 .. N -> Seq(A)] :
               /\ f[1] = ss[1]
               /\ \A i \in 1 .. N - 1 : f[i + 1] = f[i] \o ss[i + 1]
               /\ t = f[N]
    BY <1>3, FlattenDef DEF t
  <2> HIDE DEF N
  <2>2. \A i \in 1 .. N : f[i] \in Seq(A) /\ Len(f[i]) \in Nat
    BY <2>1, LenProperties
  <2>3. ASSUME NEW i \in 1 .. N - 1
        PROVE  /\ Len(f[i + 1]) = Len(f[i]) + Len(ss[i + 1])
               /\ \A j \in 1 .. Len(f[i]) : f[i + 1][j] = f[i][j]
               /\ \A j \in 1 .. Len(ss[i + 1]) : f[i + 1][Len(f[i]) + j] = ss[i + 1][j]
    <3>0. i \in 1 .. N /\ i + 1 \in 1 .. N
      BY <2>0
    <3>1. f[i] \in Seq(A) /\ Len(f[i]) \in Nat
      BY <2>2, <3>0
    <3>2. ss[i + 1] \in Seq(A) /\ Len(ss[i + 1]) \in Nat
      BY <2>0, <3>0
    <3>3. f[i + 1] = f[i] \o ss[i + 1]
      BY <2>1
    <3> DEFINE u == f[i]
               v == ss[i + 1]
               w == f[i + 1]
    <3>. u \in Seq(A) /\ v \in Seq(A) /\ w = u \o v
      BY <3>1, <3>2, <3>3
    <3> HIDE DEF u, v, w
    <3>4. /\ Len(w) = Len(u) + Len(v)
          /\ \A j \in 1 .. Len(u) + Len(v) : w[j] = IF j <= Len(u) THEN u[j] ELSE v[j - Len(u)]
      BY ConcatProperties
    <3>5. Len(u) \in Nat /\ Len(v) \in Nat
      BY LenProperties
    <3>6. ASSUME NEW j \in 1 .. Len(u) PROVE w[j] = u[j]
      BY <3>4, <3>5
    <3>7. ASSUME NEW j \in 1 .. Len(v) PROVE w[Len(u) + j] = v[j]
      <4>1. Len(u) + j \in 1 .. Len(u) + Len(v) /\ ~(Len(u) + j <= Len(u)) /\ (Len(u) + j) - Len(u) = j
        BY <3>5
      <4> QED BY <3>4, <4>1
    <3> QED BY <3>4, <3>6, <3>7 DEF u, v, w
  <2>4. ASSUME NEW i \in 1 .. N
        PROVE  Len(f[i]) <= Len(t) /\ \A j \in 1 .. Len(f[i]) : t[j] = f[i][j]
    <3> DEFINE S == {h \in Nat : Len(f[i]) <= Len(f[h]) /\ \A j \in 1 .. Len(f[i]) : f[h][j] = f[i][j]}
    <3>1. i \in S
      BY <2>0, <2>2
    <3>2. ASSUME NEW h \in i .. N - 1, h \in S PROVE h + 1 \in S
      <4>1. h \in 1 .. N - 1 /\ h + 1 \in 1 .. N /\ h \in 1 .. N /\ h + 1 \in Nat
        BY <2>0
      <4>2. /\ Len(f[h + 1]) = Len(f[h]) + Len(ss[h + 1])
            /\ \A j \in 1 .. Len(f[h]) : f[h + 1][j] = f[h][j]
        BY <2>3, <4>1
      <4>3. Len(f[h]) \in Nat /\ Len(ss[h + 1]) \in Nat /\ Len(f[i]) \in Nat
        BY <2>0, <2>2, <4>1
      <4> QED BY <3>2, <4>1, <4>2, <4>3
    <3>3. i \in Nat /\ N \in Nat /\ i <= N /\ N \in i .. N
      BY <2>0
    <3> HIDE DEF S
    <3>4. \A h \in i .. N : h \in S
      BY <3>1, <3>2, <3>3, Induction
    <3>5. N \in S
      BY <3>3, <3>4
    <3> QED BY <2>1, <3>5 DEF S
  <2> DEFINE p == [i \in 0 .. N |-> IF i = 0 THEN 0 ELSE Len(f[i])]
  <2>5. p \in [0 .. N -> 0 .. Len(t)]
    BY <1>1, <2>2, <2>4
  <2>6. p[0] = 0 /\ p[N] = Len(t) /\ \A i \in 1 .. N : p[i] = Len(f[i])
    BY <2>0, <2>1
  <2> HIDE DEF p
  <2>7. ASSUME NEW i \in 0 .. N - 1
        PROVE  /\ p[i + 1] = p[i] + Len(ss[i + 1])
               /\ \A j \in 1 .. Len(ss[i + 1]) : t[p[i] + j] = ss[i + 1][j]
    <3>0. i + 1 \in 1 .. N /\ Len(f[i + 1]) \in Nat /\ Len(ss[i + 1]) \in Nat
      BY <2>0, <2>2
    <3>1. CASE i = 0
      <4>1. p[i] = 0 /\ p[i + 1] = Len(f[1]) /\ f[1] = ss[1] /\ i + 1 = 1 /\ 1 \in 1 .. N
        BY <2>1, <2>6, <3>0, <3>1
      <4>2. \A j \in 1 .. Len(ss[1]) : t[j] = ss[1][j]
        BY <2>4, <4>1
      <4>3. \A j \in 1 .. Len(ss[1]) : t[0 + j] = ss[1][j]
        BY <4>2
      <4> QED BY <3>0, <4>1, <4>3
    <3>2. CASE i # 0
      <4>1. i \in 1 .. N - 1 /\ i \in 1 .. N /\ Len(f[i]) \in Nat
        BY <2>0, <2>2, <3>2
      <4>2. p[i + 1] = Len(f[i + 1]) /\ p[i] = Len(f[i])
        BY <2>6, <3>0, <4>1
      <4>3. ASSUME NEW j \in 1 .. Len(ss[i + 1]) PROVE t[p[i] + j] = ss[i + 1][j]
        <5>1. Len(f[i]) + j \in 1 .. Len(f[i + 1])
          <6>1. Len(f[i + 1]) = Len(f[i]) + Len(ss[i + 1])
            BY <2>3, <4>1
          <6> QED BY <3>0, <4>1, <6>1
        <5>2. t[Len(f[i]) + j] = f[i + 1][Len(f[i]) + j]
          BY <2>4, <3>0, <5>1
        <5>3. f[i + 1][Len(f[i]) + j] = ss[i + 1][j]
          BY <2>3, <4>1
        <5> QED BY <4>2, <5>2, <5>3
      <4>4. Len(f[i + 1]) = Len(f[i]) + Len(ss[i + 1])
        BY <2>3, <4>1
      <4> QED BY <4>2, <4>3, <4>4
    <3> QED BY <3>1, <3>2
  <2>8. Layout(p, ss, t)
    BY <2>6, <2>7 DEF Layout, N
  <2> QED BY <2>5, <2>8 DEF N, t
<1> QED BY <1>2, <1>3

-----------------------------------------------------------------------------
(* The characters of packets *)

(* Bytes that do not begin a packet.                                        *)
Payload == Byte \ {SOP}

(* The end of a packet.                                                     *)
Trailer == <<EOP, 0, 0>>

(* A packet without its start.                                              *)
Message(c) == Body(c) \o Trailer

(* The characters of one byte written to memory.                            *)
Form(op, b) ==
    IF op = M THEN <<b \div Base, b % Base>>
    ELSE IF b \in {SOP, EOP, ESC} THEN <<ESC, Flip(b)>> ELSE <<b>>

(* Those of all bytes of a command, one sequence for each.                  *)
Forms(op, d) == [i \in DOMAIN d |-> Form(op, d[i])]

(* And as they are sent.                                                    *)
Text(op, d) == FlattenSeq(Forms(op, d))

(* All letters of commands.                                                 *)
Letters == {m, M, X, g, G, P, D, k, q}

(* No two letters of commands are the same character.                       *)
LEMMA CommandLetters ==
    /\ Letters \subseteq 16 .. 24
    /\ m # M /\ m # X /\ M # X /\ g # m /\ g # M /\ g # X /\ G # m /\ G # M /\ G # X /\ G # g
    /\ P \notin {m, M, X, g, G} /\ D \notin {m, M, X, g, G, P}
    /\ k \notin {m, M, X, g, G, P, D} /\ q \notin {m, M, X, g, G, P, D, k}
BY DEF Letters, m, M, X, g, G, P, D, k, q

(* The constants as numbers.                                                *)
LEMMA Digits ==
    /\ Byte = 0 .. 63 /\ Base = 8 /\ Payload = (0 .. 63) \ {8}
    /\ Address \subseteq 0 .. 7 /\ Reg \subseteq 0 .. 7
    /\ MaxData \in 1 .. 7 /\ 0 .. MaxData \subseteq 0 .. 7 /\ 1 .. MaxData \subseteq 0 .. 7
    /\ HostByte \subseteq Byte /\ RegValue \subseteq Byte /\ Junk \subseteq Byte
    /\ BufSize \in Nat /\ BufSize > 4
BY PacketAssumption DEF Byte, Base, Payload, SOP

(* The sequences of one and of two.                                         *)
LEMMA Pairs == ASSUME NEW S, NEW x \in S, NEW y \in S
    PROVE <<x, y>> \in Seq(S) /\ Len(<<x, y>>) = 2 /\ <<x, y>>[1] = x /\ <<x, y>>[2] = y
          /\ <<x>> \in Seq(S) /\ Len(<<x>>) = 1 /\ <<x>>[1] = x
OBVIOUS

(* What lm32gdb_write_mem() makes of the characters of a byte is the byte,  *)
(* and only an escape tells two characters from one.                        *)
LEMMA Decoding ==
    ASSUME NEW op \in {M, X}, NEW b \in Byte
    PROVE  /\ Form(op, b) \in Seq(Payload) /\ Len(Form(op, b)) \in {1, 2}
           /\ op = M => /\ Len(Form(op, b)) = 2
                        /\ (Form(op, b)[1] * Base + Form(op, b)[2]) % (Base * Base) = b
           /\ op = X /\ Len(Form(op, b)) = 1 => Form(op, b)[1] = b /\ b # ESC
           /\ op = X /\ Len(Form(op, b)) = 2 => Form(op, b)[1] = ESC /\ Flip(Form(op, b)[2]) = b
<1>1. CASE op = M
  <2>1. b \div 8 \in Payload /\ b % 8 \in Payload /\ ((b \div 8) * 8 + (b % 8)) % 64 = b
    BY Digits
  <2>2. Form(op, b) = <<b \div 8, b % 8>>
    BY <1>1, Digits DEF Form
  <2>3. op # X
    BY <1>1, CommandLetters
  <2> QED BY <2>1, <2>2, <2>3, Pairs, Digits
<1>2. CASE op = X /\ b \in {SOP, EOP, ESC}
  <2>1. Flip(b) \in Payload /\ Flip(Flip(b)) = b /\ ESC \in Payload
    BY <1>2, Digits DEF Flip, SOP, EOP, ESC
  <2>2. Form(op, b) = <<ESC, Flip(b)>>
    BY <1>2, CommandLetters DEF Form
  <2>3. op # M
    BY <1>2, CommandLetters
  <2> QED BY <2>1, <2>2, <2>3, Pairs
<1>3. CASE op = X /\ b \notin {SOP, EOP, ESC}
  <2>1. Form(op, b) = <<b>> /\ b \in Payload /\ b # ESC
    BY <1>3, CommandLetters DEF Form, Payload
  <2>3. op # M
    BY <1>3, CommandLetters
  <2> QED BY <2>1, <2>3, Pairs
<1> QED BY <1>1, <1>2, <1>3

(* The text of a write is made of the forms of its bytes, none of which is  *)
(* '$'.                                                                     *)
LEMMA TextFacts ==
    ASSUME NEW op \in {M, X}, NEW d \in Seq(Byte)
    PROVE  /\ Text(op, d) \in Seq(Payload)
           /\ Forms(op, d) \in Seq(Seq(Payload)) /\ Len(Forms(op, d)) = Len(d)
           /\ \A i \in 1 .. Len(d) : Forms(op, d)[i] = Form(op, d[i])
           /\ Text(op, d) = IF op = M THEN Hex(d) ELSE Escaped(d)
<1>1. Len(d) \in Nat /\ DOMAIN d = 1 .. Len(d) /\ \A i \in 1 .. Len(d) : d[i] \in Byte
  BY LenProperties
<1>2. \A i \in 1 .. Len(d) : Form(op, d[i]) \in Seq(Payload)
  BY <1>1, Decoding
<1>3. Forms(op, d) = [i \in 1 .. Len(d) |-> Form(op, d[i])]
  BY <1>1 DEF Forms
<1>4. Forms(op, d) \in Seq(Seq(Payload)) /\ Len(Forms(op, d)) = Len(d)
  BY <1>1, <1>2, <1>3
<1>5. CASE op = M
  <2>1. Forms(op, d) = [i \in DOMAIN d |-> <<d[i] \div Base, d[i] % Base>>]
    BY <1>5 DEF Forms, Form
  <2> QED BY <1>3, <1>4, <1>5, <2>1, FlattenType DEF Text, Hex
<1>6. CASE op = X
  <2>1. Forms(op, d) = [i \in DOMAIN d |-> IF d[i] \in {SOP, EOP, ESC} THEN <<ESC, Flip(d[i])>> ELSE <<d[i]>>]
    BY <1>6, CommandLetters DEF Forms, Form
  <2> QED BY <1>3, <1>4, <1>6, <2>1, FlattenType, CommandLetters DEF Text, Escaped
<1> QED BY <1>5, <1>6

(* What the commands of the host have in common: where they write and how   *)
(* much.                                                                    *)
LEMMA RequestFacts ==
    ASSUME NEW c \in Request
    PROVE  /\ c.op \in Letters
           /\ c.op \in {M, X} => /\ c.addr \in Address /\ c.n \in 0 .. MaxData
                                 /\ c.data \in Seq(Byte) /\ Len(c.data) = c.n
                                 /\ c.n > 0 => c.addr + c.n - 1 \in Address
           /\ c.op = m => c.addr \in Address /\ c.n \in 1 .. MaxData /\ c.addr + c.n - 1 \in Address
           /\ c.op = P => c.addr \in Reg /\ c.data \in Seq(Byte)
           /\ c.op = G => c.data \in Seq(Byte)
           /\ c.op = q => c.n \in Nat
<1>1. CASE c \in [op : {M, X}, addr : Address, n : 0 .. MaxData, data : BoundedSeq(HostByte, MaxData)]
           /\ c.n = Len(c.data) /\ (c.n > 0 => c.addr + c.n - 1 \in Address)
  <2>0. MaxData \in Nat /\ HostByte \subseteq Byte
    BY Digits
  <2>. PICK h \in 0 .. MaxData : c.data \in [1 .. h -> HostByte]
    BY <1>1 DEF BoundedSeq, SeqOf
  <2>1. c.data \in Seq(Byte)
    <3>1. h \in Nat /\ c.data \in [1 .. h -> Byte]
      BY <2>0
    <3> QED BY <3>1
  <2> QED BY <1>1, <2>1, CommandLetters DEF Letters
<1>2. CASE c \in [op : {m}, addr : Address, n : 1 .. MaxData, data : {<<>>}]
           /\ c.addr + c.n - 1 \in Address
  BY <1>2, CommandLetters DEF Letters
<1>3. CASE c \in [op : {P}, addr : Reg, n : {1}, data : [1 .. 1 -> RegValue]]
  <2>0. c.data \in [1 .. 1 -> Byte]
    BY <1>3, Digits
  <2>1. c.data \in Seq(Byte)
    <3>1. 1 \in Nat
      OBVIOUS
    <3> QED BY <2>0, <3>1, SeqDef
  <2> QED BY <1>3, <2>1, CommandLetters DEF Letters
<1>4. CASE c \in [op : {G}, addr : {0}, n : {0}, data : {[r \in 1 .. Cardinality(Reg) |-> d] : d \in RegValue}]
  <2>1. Cardinality(Reg) \in Nat
    <3>1. PICK n \in 0 .. Base - 1 : Reg = 0 .. n
      BY PacketAssumption
    <3>2. IsFiniteSet(0 .. n)
      BY <3>1, FS_Interval DEF Base
    <3> QED BY <3>1, <3>2, FS_CardinalityType
  <2>2. c.data \in Seq(Byte)
    <3> DEFINE h == Cardinality(Reg)
    <3>1. PICK d \in RegValue : c.data = [r \in 1 .. h |-> d]
      BY <1>4
    <3>2. d \in Byte /\ h \in Nat
      BY <2>1, Digits
    <3> HIDE DEF h
    <3> QED BY <3>1, <3>2
  <2> QED BY <1>4, <2>2, CommandLetters DEF Letters
<1>5. CASE c \in [op : {q}, addr : {0}, n : {0, BufSize}, data : {<<>>}]
  BY <1>5, CommandLetters, Digits DEF Letters
<1>6. CASE c \in [op : {g, D, k}, addr : {0}, n : {0}, data : {<<>>}]
  BY <1>6, CommandLetters DEF Letters
<1> QED
  BY <1>1, <1>2, <1>3, <1>4, <1>5, <1>6 DEF Request

(* Places in two sequences one after the other.                             *)
LEMMA Join ==
    ASSUME NEW S, NEW s \in Seq(S), NEW t \in Seq(S)
    PROVE  /\ s \o t \in Seq(S) /\ Len(s) \in Nat /\ Len(t) \in Nat /\ Len(s \o t) = Len(s) + Len(t)
           /\ \A i \in 1 .. Len(s) : (s \o t)[i] = s[i]
           /\ \A i \in 1 .. Len(t) : (s \o t)[Len(s) + i] = t[i]
<1>1. Len(s) \in Nat /\ Len(t) \in Nat
  BY LenProperties
<1>2. /\ s \o t \in Seq(S) /\ Len(s \o t) = Len(s) + Len(t)
      /\ \A i \in 1 .. Len(s) + Len(t) : (s \o t)[i] = IF i <= Len(s) THEN s[i] ELSE t[i - Len(s)]
  BY ConcatProperties
<1>3. ASSUME NEW i \in 1 .. Len(s) PROVE (s \o t)[i] = s[i]
  BY <1>1, <1>2
<1>4. ASSUME NEW i \in 1 .. Len(t) PROVE (s \o t)[Len(s) + i] = t[i]
  <2>1. Len(s) + i \in 1 .. Len(s) + Len(t) /\ ~(Len(s) + i <= Len(s)) /\ (Len(s) + i) - Len(s) = i
    BY <1>1
  <2> QED BY <1>2, <2>1
<1> QED BY <1>1, <1>2, <1>3, <1>4

(* Where the stub looks for it, a packet has its letter, its address, its   *)
(* count and its data; nothing ends it before.                              *)
LEMMA BodyFacts ==
    ASSUME NEW c \in Request
    PROVE  /\ Body(c) \in Seq(Payload) /\ Len(Body(c)) \in Nat /\ Len(Body(c)) >= 1 /\ Body(c)[1] = c.op
           /\ c.op = m => /\ Len(Body(c)) = 4 /\ Body(c)[2] = c.addr /\ Body(c)[4] = c.n
                          /\ \A i \in 1 .. 4 : Body(c)[i] \notin {EOP, DELIM}
           /\ c.op \in {M, X} =>
                 /\ Len(Body(c)) = 5 + Len(Text(c.op, c.data))
                 /\ Body(c)[2] = c.addr /\ Body(c)[4] = c.n /\ Body(c)[5] = DELIM
                 /\ \A i \in 1 .. 4 : Body(c)[i] \notin {EOP, DELIM}
                 /\ \A i \in 1 .. Len(Text(c.op, c.data)) : Body(c)[5 + i] = Text(c.op, c.data)[i]
<1>0. c.op \in Letters /\ c.op \in Payload /\ c.op \notin {EOP, DELIM}
  <2>1. c.op \in Letters
    BY RequestFacts
  <2>2. c.op \in 16 .. 24
    BY <2>1, CommandLetters
  <2> QED BY <2>1, <2>2, Digits DEF EOP, DELIM
<1>m. EOP \in Payload /\ DELIM \in Payload /\ COMMA \in Payload /\ COMMA \notin {EOP, DELIM} /\ 0 \in Payload
      /\ \A d \in 0 .. 7 : d \in Payload /\ d \notin {EOP, DELIM}
  BY Digits DEF EOP, DELIM, COMMA
<1>1. CASE c.op = m
  <2>1. Body(c) = <<m, c.addr, COMMA, c.n>>
    BY <1>1, CommandLetters DEF Body
  <2>2. c.addr \in 0 .. 7 /\ c.n \in 0 .. 7
    <3>1. c.addr \in Address /\ c.n \in 1 .. MaxData
      BY <1>1, RequestFacts
    <3>2. Address \subseteq 0 .. 7 /\ 0 .. MaxData \subseteq 0 .. 7 /\ 1 .. MaxData \subseteq 0 .. 7
      BY Digits
    <3> QED BY <3>1, <3>2
  <2> DEFINE x == c.addr
             y == c.n
  <2>3. <<m, x, COMMA, y>> \in Seq(Payload) /\ Len(<<m, x, COMMA, y>>) = 4
    BY <1>0, <1>m, <1>1, <2>2
  <2> QED BY <1>0, <1>m, <1>1, <2>1, <2>2, <2>3, CommandLetters
<1>2. CASE c.op \in {M, X}
  <2> DEFINE t == Text(c.op, c.data)
             h == <<c.op, c.addr, COMMA, c.n, DELIM>>
  <2>1. Body(c) = h \o t
    BY <1>2, CommandLetters, RequestFacts, TextFacts DEF Body
  <2>2. c.addr \in 0 .. 7 /\ c.n \in 0 .. 7
    <3>1. c.addr \in Address /\ c.n \in 0 .. MaxData
      BY <1>2, RequestFacts
    <3>2. Address \subseteq 0 .. 7 /\ 0 .. MaxData \subseteq 0 .. 7 /\ 1 .. MaxData \subseteq 0 .. 7
      BY Digits
    <3> QED BY <3>1, <3>2
  <2>3. h \in Seq(Payload) /\ Len(h) = 5 /\ h[1] = c.op /\ h[2] = c.addr /\ h[3] = COMMA /\ h[4] = c.n /\ h[5] = DELIM
    BY <1>0, <1>m, <2>2
  <2>4. t \in Seq(Payload)
    BY <1>2, RequestFacts, TextFacts
  <2>5. \A i \in 1 .. 4 : h[i] \notin {EOP, DELIM}
    BY <1>0, <1>m, <2>2
  <2> HIDE DEF h, t
  <2>6. /\ h \o t \in Seq(Payload) /\ Len(t) \in Nat /\ Len(h \o t) = 5 + Len(t)
        /\ \A i \in 1 .. 5 : (h \o t)[i] = h[i]
        /\ \A i \in 1 .. Len(t) : (h \o t)[5 + i] = t[i]
    <3>0. h \in Seq(Payload) /\ t \in Seq(Payload)
      BY <2>3, <2>4
    <3>1. \A i \in 1 .. Len(h) : (h \o t)[i] = h[i]
      BY <3>0, Join
    <3>2. \A i \in 1 .. Len(t) : (h \o t)[Len(h) + i] = t[i]
      BY <3>0, Join
    <3>3. h \o t \in Seq(Payload) /\ Len(t) \in Nat /\ Len(h \o t) = Len(h) + Len(t)
      BY <3>0, Join
    <3> QED BY <2>3, <3>1, <3>2, <3>3
  <2>7. c.op # m
    BY <1>2, CommandLetters
  <2> QED BY <2>1, <2>3, <2>5, <2>6, <2>7 DEF t
<1>3. CASE c.op = P
  <2>1. Body(c) = <<P, c.addr, COMMA>> \o Text(M, c.data)
    BY <1>3, CommandLetters, RequestFacts, TextFacts DEF Body
  <2>2. c.addr \in 0 .. 7 /\ Text(M, c.data) \in Seq(Payload)
    BY <1>3, RequestFacts, TextFacts, Digits
  <2> DEFINE h == <<P, c.addr, COMMA>>
             t == Text(M, c.data)
  <2>3. h \in Seq(Payload) /\ Len(h) = 3 /\ h[1] = P
    BY <1>0, <1>m, <1>3, <2>2
  <2> HIDE DEF h, t
  <2>4. h \o t \in Seq(Payload) /\ Len(t) \in Nat /\ Len(h \o t) = 3 + Len(t) /\ (h \o t)[1] = h[1]
    <3>1. t \in Seq(Payload) /\ 1 \in 1 .. Len(h)
      BY <2>2, <2>3 DEF t
    <3>2. \A i \in 1 .. Len(h) : (h \o t)[i] = h[i]
      BY <2>3, <3>1, Join
    <3>3. h \o t \in Seq(Payload) /\ Len(t) \in Nat /\ Len(h \o t) = Len(h) + Len(t)
      BY <2>3, <3>1, Join
    <3> QED BY <2>3, <3>1, <3>2, <3>3
  <2>5. c.op # m /\ c.op \notin {M, X}
    BY <1>3, CommandLetters
  <2> QED BY <1>3, <2>1, <2>3, <2>4, <2>5 DEF h, t
<1>4. CASE c.op = G
  <2>1. Body(c) = <<G>> \o Text(M, c.data)
    BY <1>4, CommandLetters, RequestFacts, TextFacts DEF Body
  <2>2. Text(M, c.data) \in Seq(Payload)
    BY <1>4, RequestFacts, TextFacts
  <2> DEFINE h == <<G>>
             t == Text(M, c.data)
  <2>3. h \in Seq(Payload) /\ Len(h) = 1 /\ h[1] = G
    BY <1>0, <1>4, Pairs
  <2> HIDE DEF h, t
  <2>4. h \o t \in Seq(Payload) /\ Len(t) \in Nat /\ Len(h \o t) = 1 + Len(t) /\ (h \o t)[1] = h[1]
    <3>1. t \in Seq(Payload) /\ 1 \in 1 .. Len(h)
      BY <2>2, <2>3 DEF t
    <3>2. \A i \in 1 .. Len(h) : (h \o t)[i] = h[i]
      BY <2>3, <3>1, Join
    <3>3. h \o t \in Seq(Payload) /\ Len(t) \in Nat /\ Len(h \o t) = Len(h) + Len(t)
      BY <2>3, <3>1, Join
    <3> QED BY <2>3, <3>1, <3>2, <3>3
  <2>5. c.op # m /\ c.op \notin {M, X}
    BY <1>4, CommandLetters
  <2> QED BY <1>4, <2>1, <2>3, <2>4, <2>5 DEF h, t
<1>5. CASE c.op = q
  <2> DEFINE h == <<q, DELIM>>
             t == [i \in 1 .. c.n |-> 0]
  <2>1. Body(c) = h \o t
    BY <1>5, CommandLetters DEF Body
  <2>2. t \in Seq(Payload)
    BY <1>5, <1>m, RequestFacts
  <2>3. h \in Seq(Payload) /\ Len(h) = 2 /\ h[1] = q
    BY <1>0, <1>m, <1>5, Pairs
  <2> HIDE DEF h, t
  <2>4. h \o t \in Seq(Payload) /\ Len(t) \in Nat /\ Len(h \o t) = 2 + Len(t) /\ (h \o t)[1] = h[1]
    <3>1. t \in Seq(Payload) /\ 1 \in 1 .. Len(h)
      BY <2>2, <2>3
    <3>2. \A i \in 1 .. Len(h) : (h \o t)[i] = h[i]
      BY <2>3, <3>1, Join
    <3>3. h \o t \in Seq(Payload) /\ Len(t) \in Nat /\ Len(h \o t) = Len(h) + Len(t)
      BY <2>3, <3>1, Join
    <3> QED BY <2>3, <3>1, <3>2, <3>3
  <2>5. c.op # m /\ c.op \notin {M, X}
    BY <1>5, CommandLetters
  <2> QED BY <1>5, <2>1, <2>3, <2>4, <2>5
<1>6. CASE c.op \in {g, D, k}
  <2>1. Body(c) = <<c.op>>
    BY <1>6, CommandLetters DEF Body
  <2>2. c.op # m /\ c.op \notin {M, X}
    BY <1>6, CommandLetters
  <2> QED BY <1>0, <2>1, <2>2, Pairs
<1> QED
  BY <1>0, <1>1, <1>2, <1>3, <1>4, <1>5, <1>6 DEF Letters

(* No character of a packet but its first is '$', and the first '#' not     *)
(* before its end.                                                          *)
LEMMA MessageFacts ==
    ASSUME NEW c \in Request
    PROVE  /\ Message(c) \in Seq(Payload) /\ Len(Message(c)) = Len(Body(c)) + 3
           /\ \A i \in 1 .. Len(Body(c)) : Message(c)[i] = Body(c)[i]
           /\ Message(c)[Len(Body(c)) + 1] = EOP
           /\ Packet(c) \in Seq(Byte) /\ Len(Packet(c)) = Len(Message(c)) + 1
           /\ Packet(c)[1] = SOP
           /\ \A i \in 1 .. Len(Message(c)) : Packet(c)[1 + i] = Message(c)[i]
<1> DEFINE b == Body(c)
           t == Trailer
<1>1. b \in Seq(Payload)
  BY BodyFacts
<1>2. t \in Seq(Payload) /\ Len(t) = 3 /\ t[1] = EOP
  <2>1. EOP \in Payload /\ 0 \in Payload
    BY Digits DEF EOP
  <2> QED BY <2>1 DEF Trailer
<1>3. <<SOP>> \in Seq(Byte) /\ Len(<<SOP>>) = 1 /\ <<SOP>>[1] = SOP
  BY Digits, Pairs DEF SOP
<1>p. Message(c) = b \o t /\ Packet(c) = (<<SOP>> \o b) \o t
  BY DEF Message, Packet, Trailer
<1> HIDE DEF b, t
<1>4. /\ b \o t \in Seq(Payload) /\ Len(b) \in Nat /\ Len(b \o t) = Len(b) + 3
      /\ \A i \in 1 .. Len(b) : (b \o t)[i] = b[i]
      /\ \A i \in 1 .. Len(t) : (b \o t)[Len(b) + i] = t[i]
  BY <1>1, <1>2, Join
<1>5. b \o t \in Seq(Byte) /\ b \in Seq(Byte) /\ t \in Seq(Byte)
  <2>1. Payload \subseteq Byte
    BY DEF Payload
  <2> QED BY <1>1, <1>2, <1>4, <2>1, SeqMonotonic
<1>6. (<<SOP>> \o b) \o t = <<SOP>> \o (b \o t)
  BY <1>3, <1>5, ConcatAssociative
<1>7. /\ <<SOP>> \o (b \o t) \in Seq(Byte) /\ Len(<<SOP>> \o (b \o t)) = 1 + Len(b \o t)
      /\ (<<SOP>> \o (b \o t))[1] = SOP
      /\ \A i \in 1 .. Len(b \o t) : (<<SOP>> \o (b \o t))[1 + i] = (b \o t)[i]
  BY <1>3, <1>5, Join
<1>8. (b \o t)[Len(b) + 1] = EOP
  BY <1>2, <1>4
<1> QED
  BY <1>p, <1>4, <1>6, <1>7, <1>8 DEF b

-----------------------------------------------------------------------------
(* The invariant *)

(* From its n-th byte on, what is under way (w) is a beginning of what T    *)
(* has after its h-th; as long as the line is up (u), all of it.            *)
Carries(w, u, n, T, h) ==
    /\ h \in 0 .. Len(T) /\ Len(w) - n <= Len(T) - h
    /\ u => Len(w) - n = Len(T) - h
    /\ \A i \in 1 .. Len(w) - n : w[n + i] = T[h + i]

(* No packet has begun, and no write.                                       *)
Idle == ~active /\ job = None /\ ip_buf = <<>>

(* The stub has answered all, and finds no start of a packet in what is     *)
(* still to come.                                                           *)
Unasked == asked = None /\ Idle /\ back = <<>> /\ wire \in Seq(Payload)

(* The packet is under way, after what the stub will ignore.                *)
Waiting ==
    /\ asked # None /\ Idle /\ back = <<>>
    /\ \E n \in 0 .. Len(wire) :
          (\A i \in 1 .. n : wire[i] # SOP) /\ Carries(wire, up, n, Packet(asked), 0)

(* The buffer is a beginning of the packet, and the rest of it under way;   *)
(* that of a write is never collected past its delimiter.                   *)
Collecting ==
    /\ asked # None /\ active /\ job = None /\ back = <<>>
    /\ Len(ip_buf) <= Len(Body(asked))
    /\ \A i \in 1 .. Len(ip_buf) : ip_buf[i] = Body(asked)[i]
    /\ asked.op \in {M, X} => Len(ip_buf) <= 4
    /\ Carries(wire, up, 0, Message(asked), Len(ip_buf))

(* How many bytes of a write command have been written.                     *)
Done(c) == c.n - job.left

(* They are in memory, and what is under way begins with the next character *)
(* of the next byte.                                                        *)
Progress(c) ==
    /\ \A x \in Address : c.addr <= x /\ x < job.addr => mem[x] = c.data[x - c.addr + 1]
    /\ job.got # <<>> => job.got[1] = Form(c.op, c.data[Done(c) + 1])[1]
    /\ \E p \in [0 .. c.n -> 0 .. Len(Text(c.op, c.data))] :
          /\ Layout(p, Forms(c.op, c.data), Text(c.op, c.data))
          /\ Carries(wire, up, 0, Message(c), 5 + p[Done(c)] + Len(job.got))

(* The loop of lm32gdb_write_mem(): with the line up, on the host's data;   *)
(* when it has been lost, still within the range the host gave.             *)
Writing ==
    /\ asked # None /\ asked.op \in {M, X}
    /\ ~active /\ ip_buf = <<>> /\ back = Sent(<<ACK>>)
    /\ job \in Job /\ job.binary = (asked.op = X)
    /\ asked.addr <= job.addr /\ job.addr + job.left = asked.addr + asked.n
    /\ Len(job.got) <= 1 /\ (job.got # <<>> /\ job.binary => job.got[1] = ESC)
    /\ wire \in Seq(Payload)
    /\ up => Progress(asked)

(* The answer on its way to the host is the one it asked for, or the line   *)
(* was lost.                                                                *)
Answered ==
    /\ asked # None /\ Idle /\ wire \in Seq(Payload)
    /\ ~up => back = <<>>
    /\ up => \/ asked.op = k /\ back = <<ACK>>
             \/ /\ asked.op # k /\ Len(back) = 2
                /\ back[2] = Remote!Expected(asked) /\ Remote!Applied(asked)

(* The inductive invariant: as long as the line is up, the place of the     *)
(* stub in the host's packet is known; once it is lost, what remains of the *)
(* write is.                                                                *)
PacketInv == PacketTypeOK /\ (Unasked \/ Waiting \/ Collecting \/ Writing \/ Answered)

(* No command and no job is None.                                           *)
LEMMA NoneIsOther == None \notin Request /\ None \notin Job
BY PacketAssumption

(* A session begins with nothing asked.                                     *)
LEMMA PacketInitInv == PacketInit => PacketInv
<1> SUFFICES ASSUME PacketInit PROVE PacketInv
  OBVIOUS
<1>1. <<>> \in Seq(Byte) /\ <<>> \in Seq(Payload) /\ Len(<<>>) = 0
  BY EmptySeq
<1>2. mem \in [Address -> Byte]
  BY Digits DEF PacketInit
<1>3. PacketTypeOK
  <2>1. DOMAIN regs = Reg /\ DOMAIN meant = Reg
    BY DEF PacketInit
  <2>2. Len(ip_buf) < BufSize /\ Len(back) <= 2 /\ ip_buf \in Seq(Byte) /\ wire \in Seq(Byte)
    BY <1>1, Digits DEF PacketInit
  <2> QED BY <1>2, <2>1, <2>2 DEF PacketInit, PacketTypeOK
<1>4. Unasked
  BY <1>1 DEF PacketInit, Unasked, Idle
<1> QED BY <1>3, <1>4 DEF PacketInv

(* The host's packet follows nothing but trailing characters of the one     *)
(* before.                                                                  *)
LEMMA AskInv ==
    ASSUME PacketInv, NEW c \in Request, Ask(c)
    PROVE  PacketInv'
<1>1. Unasked /\ up
  BY DEF PacketInv, Ask, Waiting, Collecting, Writing, Answered
<1>2. wire \in Seq(Byte) /\ wire \in Seq(Payload)
  BY <1>1 DEF PacketInv, PacketTypeOK, Unasked
<1> DEFINE T == Packet(c)
<1>3. T \in Seq(Byte)
  BY MessageFacts
<1>4. /\ wire' = wire \o T /\ asked' = c /\ up' = up /\ back' = back
      /\ active' = active /\ job' = job /\ ip_buf' = ip_buf /\ over' = over /\ mem' = mem
      /\ regs' = regs /\ meant' = meant
  BY DEF Ask, stub
<1> HIDE DEF T
<1>5. /\ wire' \in Seq(Byte) /\ Len(wire) \in Nat /\ Len(T) \in Nat /\ Len(wire') = Len(wire) + Len(T)
      /\ \A i \in 1 .. Len(wire) : wire'[i] = wire[i]
      /\ \A i \in 1 .. Len(T) : wire'[Len(wire) + i] = T[i]
  BY <1>2, <1>3, <1>4, Join
<1>6. PacketTypeOK'
  BY <1>4, <1>5 DEF PacketInv, PacketTypeOK
<1>7. Waiting'
  <2>1. \A i \in 1 .. Len(wire) : wire[i] # SOP
    BY <1>2, LenProperties DEF Payload
  <2>2. Len(wire) \in 0 .. Len(wire')
    BY <1>5
  <2>3. Len(wire') - Len(wire) = Len(T) - 0 /\ Len(wire') - Len(wire) = Len(T) /\ 0 \in 0 .. Len(T)
    BY <1>5
  <2>4. \A i \in 1 .. Len(T) : wire'[Len(wire) + i] = T[0 + i]
    BY <1>5
  <2>5. asked' # None
    BY <1>4, NoneIsOther
  <2> DEFINE w == Len(wire)
  <2>6. /\ w \in 0 .. Len(wire') /\ \A i \in 1 .. w : wire'[i] # SOP
        /\ 0 \in 0 .. Len(T) /\ Len(wire') - w <= Len(T) - 0 /\ Len(wire') - w = Len(T) - 0
        /\ \A i \in 1 .. Len(wire') - w : wire'[w + i] = T[0 + i]
    BY <1>5, <2>1, <2>2, <2>3, <2>4
  <2> HIDE DEF w
  <2>7. \E n \in 0 .. Len(wire') : (\A i \in 1 .. n : wire'[i] # SOP) /\ Carries(wire, up, n, Packet(asked), 0)'
    BY <1>4, <2>6 DEF T, Carries
  <2> QED BY <1>1, <1>4, <2>5, <2>7 DEF Waiting, Unasked, Idle
<1> QED BY <1>6, <1>7 DEF PacketInv

(* What the host hears is the answer to what it asked, after all of it was  *)
(* done.                                                                    *)
LEMMA HearFinds ==
    ASSUME PacketInv, Hear
    PROVE  Answered /\ asked.op # k /\ back[2] = Remote!Expected(asked) /\ Remote!Applied(asked)
<1>1. Len(<<>>) = 0 /\ Len(<<ACK>>) = 1
  BY Pairs
<1>2. Answered
  <2>1. ASSUME back = <<>> PROVE FALSE
    BY <1>1, <2>1 DEF Hear
  <2>2. ASSUME Writing PROVE FALSE
    BY <1>1, <2>2 DEF Hear, Writing, Sent
  <2> QED BY <2>1, <2>2 DEF PacketInv, Unasked, Waiting, Collecting
<1> QED BY <1>1, <1>2 DEF Answered, Hear

(* The acknowledgement of an answer starts no packet.                       *)
LEMMA HearInv ==
    ASSUME PacketInv, Hear
    PROVE  PacketInv'
<1>1. Answered
  BY HearFinds
<1>2. ACK \in Payload /\ Payload \subseteq Byte
  BY Digits DEF ACK, Payload
<1>3. wire' \in Seq(Payload) /\ wire' \in Seq(Byte)
  <2>1. wire \in Seq(Payload) /\ <<ACK>> \in Seq(Payload) /\ wire' = wire \o <<ACK>>
    BY <1>1, <1>2, Pairs DEF Answered, Hear
  <2> QED BY <1>2, <2>1, ConcatProperties, SeqMonotonic
<1>4. Unasked'
  BY <1>1, <1>3 DEF Hear, Answered, Unasked, Idle, stub
<1>5. DOMAIN Meant(asked) = Reg
  BY DEF PacketInv, PacketTypeOK, Meant
<1>6. PacketTypeOK'
  BY <1>3, <1>5, EmptySeq DEF PacketInv, PacketTypeOK, Hear, stub
<1> QED BY <1>4, <1>6 DEF PacketInv

(* The first n elements of a sequence.                                      *)
LEMMA Beginning ==
    ASSUME NEW S, NEW s \in Seq(S), NEW n \in 0 .. Len(s)
    PROVE  /\ SubSeq(s, 1, n) \in Seq(S) /\ Len(SubSeq(s, 1, n)) = n
           /\ \A i \in 1 .. n : SubSeq(s, 1, n)[i] = s[i]
<1>1. Len(s) \in Nat /\ \A i \in 1 .. n : s[i] \in S
  BY LenProperties
<1>2. /\ SubSeq(s, 1, n) \in Seq(S)
      /\ Len(SubSeq(s, 1, n)) = IF 1 <= n THEN n - 1 + 1 ELSE 0
      /\ \A i \in 1 .. n - 1 + 1 : SubSeq(s, 1, n)[i] = s[1 + i - 1]
  BY <1>1, SubSeqProperties
<1> QED BY <1>1, <1>2

(* A line lost leaves a beginning of what was under way, and no answer.     *)
LEMMA LoseInv ==
    ASSUME PacketInv, Lose
    PROVE  PacketInv'
<1>1. wire \in Seq(Byte) /\ Len(wire) \in Nat
  BY LenProperties DEF PacketInv, PacketTypeOK
<1>2. PICK n \in 0 .. Len(wire) : wire' = SubSeq(wire, 1, n)
  BY DEF Lose
<1>3. wire' \in Seq(Byte) /\ Len(wire') = n /\ \A i \in 1 .. n : wire'[i] = wire[i]
  BY <1>1, <1>2, Beginning
<1>4. wire \in Seq(Payload) => wire' \in Seq(Payload)
  BY <1>2, Beginning
<1>5. /\ up /\ ~up' /\ up' \in BOOLEAN /\ back' = <<>> /\ asked' = asked /\ active' = active
      /\ job' = job /\ ip_buf' = ip_buf /\ mem' = mem /\ regs' = regs /\ meant' = meant /\ over' = over
  BY DEF Lose, stub, host
<1>6. PacketTypeOK'
  BY <1>3, <1>5, EmptySeq DEF PacketInv, PacketTypeOK
<1>7. CASE Unasked
  BY <1>4, <1>5, <1>6, <1>7 DEF Unasked, Idle, PacketInv
<1>8. CASE Waiting
  <2>1. PICK h \in 0 .. Len(wire) : (\A i \in 1 .. h : wire[i] # SOP) /\ Carries(wire, up, h, Packet(asked), 0)
    BY <1>8 DEF Waiting
  <2> DEFINE T == Packet(asked)
             j == IF h <= n THEN h ELSE n
  <2>2. Len(T) \in Nat
    BY <2>1 DEF Carries
  <2> HIDE DEF T
  <2>3. /\ 0 \in 0 .. Len(T) /\ Len(wire) - h <= Len(T) - 0
        /\ \A i \in 1 .. Len(wire) - h : wire[h + i] = T[0 + i]
    BY <2>1 DEF Carries, T
  <2>4. j \in 0 .. Len(wire') /\ \A i \in 1 .. j : wire'[i] # SOP
    BY <1>1, <1>3, <2>1
  <2>5. Len(wire') - j <= Len(T) - 0
    BY <1>1, <1>3, <2>2, <2>3
  <2>6. ASSUME NEW i \in 1 .. Len(wire') - j PROVE wire'[j + i] = T[0 + i]
    <3>1. h <= n /\ j = h
      BY <1>3, <2>6
    <3>2. i \in 1 .. Len(wire) - h /\ h + i \in 1 .. n
      BY <1>1, <1>3, <3>1
    <3>3. wire[h + i] = T[0 + i]
      BY <2>3, <3>2
    <3> QED BY <1>3, <3>1, <3>2, <3>3
  <2> HIDE DEF j
  <2>7. Carries(wire, up, j, Packet(asked), 0)'
    BY <1>5, <2>3, <2>5, <2>6 DEF Carries, T
  <2>8. \E l \in 0 .. Len(wire') : (\A i \in 1 .. l : wire'[i] # SOP) /\ Carries(wire, up, l, Packet(asked), 0)'
    BY <2>4, <2>7
  <2> QED BY <1>5, <1>6, <1>8, <2>8 DEF Waiting, Idle, PacketInv
<1>9. CASE Collecting
  <2> DEFINE T == Message(asked)
             h == Len(ip_buf)
  <2>1. /\ h \in 0 .. Len(T) /\ Len(wire) - 0 <= Len(T) - h
        /\ \A i \in 1 .. Len(wire) - 0 : wire[0 + i] = T[h + i]
    BY <1>9 DEF Collecting, Carries
  <2>2. Len(T) \in Nat
    <3>1. asked \in Request
      BY <1>9 DEF PacketInv, PacketTypeOK, Collecting
    <3> QED BY <3>1, MessageFacts, LenProperties
  <2> HIDE DEF T, h
  <2>3. h \in 0 .. Len(T) /\ Len(wire') - 0 <= Len(T) - h
    BY <1>1, <1>3, <2>1, <2>2
  <2>4. ASSUME NEW i \in 1 .. Len(wire') - 0 PROVE wire'[0 + i] = T[h + i]
    <3>1. i \in 1 .. n /\ i \in 1 .. Len(wire) - 0 /\ 0 + i = i
      BY <1>1, <1>3
    <3> QED BY <1>3, <2>1, <3>1
  <2>5. Carries(wire, up, 0, Message(asked), Len(ip_buf))'
    BY <1>5, <2>3, <2>4 DEF Carries, T, h
  <2> QED BY <1>5, <1>6, <1>9, <2>5 DEF Collecting, PacketInv
<1>10. CASE Writing
  BY <1>4, <1>5, <1>6, <1>10 DEF Writing, Sent, PacketInv
<1>11. CASE Answered
  BY <1>4, <1>5, <1>6, <1>11 DEF Answered, Idle, PacketInv
<1> QED
  BY <1>7, <1>8, <1>9, <1>10, <1>11 DEF PacketInv

(* The byte read, and the bytes that remain.                                *)
LEMMA FirstByte ==
    ASSUME PacketInv, wire # <<>>, wire' = Tail(wire)
    PROVE  /\ wire \in Seq(Byte) /\ Len(wire) \in Nat /\ Len(wire) > 0
           /\ Head(wire) \in Byte /\ Head(wire) = wire[1]
           /\ wire' \in Seq(Byte) /\ Len(wire') = Len(wire) - 1
           /\ \A i \in 1 .. Len(wire) - 1 : wire'[i] = wire[i + 1]
           /\ wire \in Seq(Payload) => wire' \in Seq(Payload) /\ Head(wire) \in Payload
<1>1. wire \in Seq(Byte)
  BY DEF PacketInv, PacketTypeOK
<1>2. Len(wire) \in Nat \ {0}
  BY <1>1, EmptySeq
<1> QED BY <1>1, <1>2, HeadTailProperties

-----------------------------------------------------------------------------
(* The steps of the stub outside commands *)

(* The program reads byte b, and the host does nothing.                     *)
Quiet(b) == wire # <<>> /\ wire' = Tail(wire) /\ b = Head(wire) /\ UNCHANGED <<up, host>>

(* With no packet begun and none under way, bytes are ignored.              *)
LEMMA IgnoreInv ==
    ASSUME PacketInv, NEW b, Quiet(b), Unasked \/ Answered,
           EndPacket(b) \/ StartPacket(b) \/ Collect(b) \/ Ignore(b)
    PROVE  PacketInv' /\ mem' = mem
<1>1. /\ wire \in Seq(Payload) /\ wire' \in Seq(Payload) /\ wire' \in Seq(Byte) /\ b # SOP
  BY FirstByte DEF Quiet, Unasked, Answered, Payload
<1>2. ~active
  BY DEF Unasked, Answered, Idle
<1>3. Ignore(b)
  BY <1>1, <1>2 DEF EndPacket, StartPacket, Collect
<1>4. /\ up' = up /\ asked' = asked /\ meant' = meant /\ active' = active /\ ip_buf' = ip_buf
      /\ job' = job /\ over' = over /\ back' = back /\ mem' = mem /\ regs' = regs
  BY <1>3 DEF Ignore, Quiet, stub, host
<1>5. PacketTypeOK'
  BY <1>1, <1>4 DEF PacketInv, PacketTypeOK
<1>6. CASE Unasked
  BY <1>1, <1>4, <1>5, <1>6 DEF Unasked, Idle, PacketInv
<1>7. CASE Answered
  <2>1. Remote!Expected(asked)' = Remote!Expected(asked) /\ Remote!Applied(asked)' = Remote!Applied(asked)
    BY <1>4 DEF Remote!Expected, Remote!Applied, Remote!Range, Remote!Written
  <2> QED BY <1>1, <1>4, <1>5, <1>7, <2>1 DEF Answered, Idle, PacketInv
<1> QED BY <1>4, <1>6, <1>7

(* What precedes a packet is ignored, and its start found.                  *)
LEMMA WaitInv ==
    ASSUME PacketInv, NEW b, Quiet(b), Waiting,
           EndPacket(b) \/ StartPacket(b) \/ Collect(b) \/ Ignore(b)
    PROVE  PacketInv' /\ mem' = mem
<1>1. /\ wire \in Seq(Byte) /\ Len(wire) \in Nat /\ Len(wire) > 0 /\ b \in Byte /\ b = wire[1]
      /\ wire' \in Seq(Byte) /\ Len(wire') = Len(wire) - 1
      /\ \A i \in 1 .. Len(wire) - 1 : wire'[i] = wire[i + 1]
  BY FirstByte DEF Quiet
<1>2. ~active /\ asked \in Request
  BY DEF Waiting, Idle, PacketInv, PacketTypeOK
<1>3. PICK n \in 0 .. Len(wire) : (\A i \in 1 .. n : wire[i] # SOP) /\ Carries(wire, up, n, Packet(asked), 0)
  BY DEF Waiting
<1> DEFINE T == Packet(asked)
           U == Message(asked)
<1>4. /\ Len(T) \in Nat /\ Len(U) \in Nat /\ Len(T) = Len(U) + 1 /\ T[1] = SOP
      /\ \A i \in 1 .. Len(U) : T[1 + i] = U[i]
  BY <1>2, MessageFacts, LenProperties
<1> HIDE DEF T, U
<1>5. /\ Len(wire) - n <= Len(T) - 0
      /\ up => Len(wire) - n = Len(T) - 0
      /\ \A i \in 1 .. Len(wire) - n : wire[n + i] = T[0 + i]
  BY <1>3 DEF Carries, T
<1>6. /\ up' = up /\ asked' = asked /\ meant' = meant
  BY DEF Quiet, host
<1>7. CASE b = SOP
  <2>1. n = 0
    <3>1. ASSUME n # 0 PROVE FALSE
      <4>1. 1 \in 1 .. n
        BY <1>1, <3>1
      <4> QED BY <1>1, <1>3, <1>7, <4>1
    <3> QED BY <3>1
  <2>2. StartPacket(b)
    BY <1>2, <1>7 DEF EndPacket, Collect, Ignore
  <2>3. /\ active' = TRUE /\ ip_buf' = ip_buf
        /\ job' = job /\ over' = over /\ back' = back /\ mem' = mem /\ regs' = regs
    BY <2>2 DEF StartPacket
  <2>4. PacketTypeOK'
    BY <1>1, <1>6, <2>3 DEF PacketInv, PacketTypeOK
  <2>5. ip_buf' = <<>> /\ Len(ip_buf') = 0 /\ back' = <<>> /\ job' = None
    BY <2>3, EmptySeq DEF Waiting, Idle
  <2>6. 0 \in 0 .. Len(U) /\ Len(wire') - 0 <= Len(U) - 0 /\ (up => Len(wire') - 0 = Len(U) - 0)
    BY <1>1, <1>4, <1>5, <2>1
  <2>7. ASSUME NEW i \in 1 .. Len(wire') - 0 PROVE wire'[0 + i] = U[0 + i]
    <3>1. i \in 1 .. Len(wire) - 1 /\ i + 1 \in 1 .. Len(wire) - n /\ i \in 1 .. Len(U) /\ 0 + i = i
      BY <1>1, <1>4, <1>5, <2>1
    <3>2. wire'[i] = wire[i + 1]
      BY <1>1, <3>1
    <3>3. wire[0 + (i + 1)] = T[0 + (i + 1)]
      BY <1>5, <2>1, <3>1
    <3>4. 0 + (i + 1) = i + 1 /\ i + 1 = 1 + i
      BY <3>1
    <3>5. T[1 + i] = U[i]
      BY <1>4, <3>1
    <3> QED BY <3>1, <3>2, <3>3, <3>4, <3>5
  <2>8. Carries(wire, up, 0, Message(asked), Len(ip_buf))'
    BY <1>6, <2>5, <2>6, <2>7 DEF Carries, U
  <2>9. Collecting'
    <3>1. Len(Body(asked)) \in Nat
      BY <1>2, BodyFacts
    <3> QED BY <1>6, <2>3, <2>5, <2>8, <3>1 DEF Collecting, Waiting
  <2> QED BY <2>3, <2>4, <2>9 DEF PacketInv
<1>8. CASE b # SOP
  <2>1. n > 0
    <3>1. ASSUME n = 0 PROVE FALSE
      <4>1. wire[0 + 1] = T[0 + 1] /\ 0 + 1 = 1
        BY <1>1, <1>5, <3>1
      <4> QED BY <1>1, <1>4, <1>8, <4>1
    <3> QED BY <1>1, <3>1
  <2>2. Ignore(b)
    BY <1>2, <1>8 DEF EndPacket, Collect, StartPacket
  <2>3. /\ active' = active /\ ip_buf' = ip_buf
        /\ job' = job /\ over' = over /\ back' = back /\ mem' = mem /\ regs' = regs
    BY <2>2 DEF Ignore, stub
  <2>4. PacketTypeOK'
    BY <1>1, <1>6, <2>3 DEF PacketInv, PacketTypeOK
  <2> DEFINE j == n - 1
  <2>5. j \in 0 .. Len(wire') /\ Len(wire') - j = Len(wire) - n
    BY <1>1, <2>1
  <2>6. ASSUME NEW i \in 1 .. j PROVE wire'[i] # SOP
    <3>1. i \in 1 .. Len(wire) - 1 /\ i + 1 \in 1 .. n
      BY <1>1, <2>1
    <3> QED BY <1>1, <1>3, <3>1
  <2>7. ASSUME NEW i \in 1 .. Len(wire') - j PROVE wire'[j + i] = T[0 + i]
    <3>1. j + i \in 1 .. Len(wire) - 1 /\ i \in 1 .. Len(wire) - n /\ (j + i) + 1 = n + i
      <4> DEFINE N == Len(wire)
                 W == Len(wire')
      <4>1. N \in Nat /\ W = N - 1 /\ n \in 0 .. N /\ n > 0 /\ j = n - 1 /\ i \in 1 .. W - j /\ W - j = N - n
        BY <1>1, <2>1, <2>5
      <4> HIDE DEF N, W, j
      <4>2. j + i \in 1 .. N - 1 /\ i \in 1 .. N - n /\ (j + i) + 1 = n + i
        BY <4>1
      <4> QED BY <4>2 DEF N
    <3>2. wire'[j + i] = wire[(j + i) + 1]
      BY <1>1, <3>1
    <3> QED BY <1>5, <3>1, <3>2
  <2> HIDE DEF j
  <2>8. Carries(wire, up, j, Packet(asked), 0)'
    BY <1>4, <1>5, <1>6, <2>5, <2>7 DEF Carries, T
  <2>9. \E l \in 0 .. Len(wire') : (\A i \in 1 .. l : wire'[i] # SOP) /\ Carries(wire, up, l, Packet(asked), 0)'
    BY <2>5, <2>6, <2>8
  <2> QED BY <1>6, <2>3, <2>4, <2>9 DEF Waiting, Idle, PacketInv
<1> QED BY <1>7, <1>8

(* What Carries says is under way is what the stub reads next.              *)
LEMMA NextByte ==
    ASSUME PacketInv, NEW b, Quiet(b),
           NEW T, T \in Seq(Payload), NEW h \in Nat, Carries(wire, up, 0, T, h)
    PROVE  /\ h + 1 \in 1 .. Len(T) /\ b = T[h + 1] /\ b \in Byte /\ b \in Payload
           /\ wire' \in Seq(Byte) /\ wire' \in Seq(Payload)
           /\ Carries(wire', up', 0, T, h + 1)
<1>1. /\ wire \in Seq(Byte) /\ Len(wire) \in Nat /\ Len(wire) > 0 /\ b \in Byte /\ b = wire[1]
      /\ wire' \in Seq(Byte) /\ Len(wire') = Len(wire) - 1
      /\ \A i \in 1 .. Len(wire) - 1 : wire'[i] = wire[i + 1]
  BY FirstByte DEF Quiet
<1>2. Len(T) \in Nat
  BY LenProperties
<1>3. /\ h \in 0 .. Len(T) /\ Len(wire) - 0 <= Len(T) - h
      /\ up => Len(wire) - 0 = Len(T) - h
      /\ \A i \in 1 .. Len(wire) - 0 : wire[0 + i] = T[h + i]
  BY DEF Carries
<1>4. h + 1 \in 1 .. Len(T)
  BY <1>1, <1>2, <1>3
<1>5. b = T[h + 1]
  <2>1. 1 \in 1 .. Len(wire) - 0 /\ 0 + 1 = 1
    BY <1>1
  <2>2. wire[0 + 1] = T[h + 1]
    BY <1>3, <2>1
  <2> QED BY <1>1, <2>1, <2>2
<1>6. /\ h + 1 \in 0 .. Len(T) /\ Len(wire') - 0 <= Len(T) - (h + 1)
      /\ up => Len(wire') - 0 = Len(T) - (h + 1)
  BY <1>1, <1>2, <1>3, <1>4
<1>7. ASSUME NEW i \in 1 .. Len(wire') - 0 PROVE wire'[0 + i] = T[(h + 1) + i] /\ wire'[i] \in Payload
  <2>1. i \in 1 .. Len(wire) - 1 /\ i + 1 \in 1 .. Len(wire) - 0 /\ 0 + i = i /\ 0 + (i + 1) = i + 1
        /\ h + (i + 1) = (h + 1) + i /\ h + (i + 1) \in 1 .. Len(T)
    BY <1>1, <1>2, <1>3
  <2>2. wire'[i] = wire[i + 1] /\ wire[0 + (i + 1)] = T[h + (i + 1)]
    BY <1>1, <1>3, <2>1
  <2>3. T[h + (i + 1)] \in Payload
    BY <2>1
  <2> QED BY <2>1, <2>2, <2>3
<1>8. wire' \in Seq(Payload)
  <2>1. Len(wire') \in Nat /\ wire' \in [1 .. Len(wire') -> Byte] /\ \A i \in 1 .. Len(wire') : wire'[i] \in Payload
    BY <1>1, <1>7
  <2>2. wire' \in [1 .. Len(wire') -> Payload]
    BY <2>1
  <2> QED BY <2>1, <2>2, SeqDef
<1>9. Carries(wire', up', 0, T, h + 1)
  BY <1>6, <1>7 DEF Quiet, Carries
<1>10. T[h + 1] \in Payload
  BY <1>4
<1> QED BY <1>1, <1>4, <1>5, <1>8, <1>9, <1>10

(* The same of the part of a packet before its end.                         *)
LEMMA NextOfMessage ==
    ASSUME PacketInv, NEW b, Quiet(b), Collecting
    PROVE  /\ asked \in Request /\ ip_buf \in Seq(Byte) /\ Len(ip_buf) \in Nat /\ Len(ip_buf) < BufSize
           /\ b \in Byte /\ wire' \in Seq(Byte) /\ Len(ip_buf) + 1 \in 1 .. Len(Message(asked))
           /\ b = Message(asked)[Len(ip_buf) + 1]
           /\ Carries(wire', up', 0, Message(asked), Len(ip_buf) + 1)
           /\ wire' \in Seq(Payload)
<1>1. asked \in Request /\ ip_buf \in Seq(Byte) /\ Len(ip_buf) < BufSize
  BY DEF Collecting, PacketInv, PacketTypeOK
<1>2. Len(ip_buf) \in Nat /\ Message(asked) \in Seq(Payload)
  BY <1>1, MessageFacts, LenProperties
<1>3. Carries(wire, up, 0, Message(asked), Len(ip_buf))
  BY DEF Collecting
<1> QED BY <1>1, <1>2, <1>3, NextByte

(* A byte that does not end the packet is the next of its letter, address,  *)
(* count and data; that of a write is none of its data.                     *)
LEMMA CollectInv ==
    ASSUME PacketInv, NEW b, Quiet(b), Collecting, Collect(b)
    PROVE  PacketInv' /\ mem' = mem
<1>1. /\ asked \in Request /\ ip_buf \in Seq(Byte) /\ Len(ip_buf) \in Nat /\ Len(ip_buf) < BufSize
      /\ b \in Byte /\ wire' \in Seq(Byte) /\ Len(ip_buf) + 1 \in 1 .. Len(Message(asked))
      /\ b = Message(asked)[Len(ip_buf) + 1]
      /\ Carries(wire', up', 0, Message(asked), Len(ip_buf) + 1)
  BY NextOfMessage
<1>2. /\ active /\ ~Ends(b) /\ ip_buf' = Append(ip_buf, b)
      /\ active' = active /\ job' = job /\ over' = over /\ back' = back /\ mem' = mem /\ regs' = regs
      /\ up' = up /\ asked' = asked /\ meant' = meant
  BY DEF Collect, Quiet, host
<1>3. /\ ip_buf' \in Seq(Byte) /\ Len(ip_buf') = Len(ip_buf) + 1
      /\ \A i \in 1 .. Len(ip_buf) : ip_buf'[i] = ip_buf[i]
      /\ ip_buf'[Len(ip_buf) + 1] = b
  BY <1>1, <1>2, AppendProperties
<1> DEFINE h == Len(ip_buf)
           B == Body(asked)
           T == Message(asked)
<1>4. /\ Len(B) \in Nat /\ Len(T) = Len(B) + 3 /\ T[Len(B) + 1] = EOP
      /\ \A i \in 1 .. Len(B) : T[i] = B[i]
  BY <1>1, BodyFacts, MessageFacts
<1>5. h <= Len(B) /\ \A i \in 1 .. h : ip_buf[i] = B[i]
  BY DEF Collecting
<1>6. h # BufSize - 1 /\ b # EOP /\ (b = DELIM /\ ip_buf # <<>> => ip_buf[1] \notin {X, M})
  BY <1>2 DEF Ends
<1>7. asked.op \in {M, X} => B[5] = DELIM /\ B[1] = asked.op /\ Len(B) >= 5
  <2>1. ASSUME asked.op \in {M, X} PROVE B[5] = DELIM /\ B[1] = asked.op /\ Len(B) = 5 + Len(Text(asked.op, asked.data))
    BY <1>1, <2>1, BodyFacts
  <2>2. ASSUME asked.op \in {M, X} PROVE Len(Text(asked.op, asked.data)) \in Nat
    BY <1>1, <2>2, RequestFacts, TextFacts, LenProperties
  <2> QED BY <2>1, <2>2, <1>4
<1>c. asked.op \in {M, X} => h <= 4
  BY DEF Collecting
<1>e. ip_buf = <<>> => h = 0
  BY EmptySeq
<1> HIDE DEF h, B, T
<1>8. h + 1 <= Len(B)
  BY <1>1, <1>4, <1>5, <1>6 DEF h, T
<1>9. b = B[h + 1]
  BY <1>1, <1>4, <1>8 DEF h, T
<1>10. ASSUME asked.op \in {M, X} PROVE h + 1 <= 4
  <2>1. ASSUME h = 4 PROVE FALSE
    <3>1. b = DELIM
      BY <1>7, <1>9, <1>10, <2>1
    <3>2. ip_buf # <<>> /\ ip_buf[1] = asked.op
      BY <1>5, <1>7, <1>10, <1>e, <2>1
    <3> QED BY <1>6, <1>10, <3>1, <3>2
  <2>2. h \in Nat /\ h <= 4
    BY <1>1, <1>10, <1>c DEF h
  <2> QED BY <2>1, <2>2
<1>11. \A i \in 1 .. h + 1 : ip_buf'[i] = B[i]
  BY <1>1, <1>3, <1>5, <1>9 DEF h
<1>12. PacketTypeOK'
  <2>1. Len(ip_buf') < BufSize
    BY <1>1, <1>3, <1>6, Digits DEF h
  <2> QED BY <1>1, <1>2, <1>3, <2>1 DEF PacketInv, PacketTypeOK
<1>13. Collecting'
  BY <1>1, <1>2, <1>3, <1>8, <1>10, <1>11 DEF Collecting, h, B
<1> QED BY <1>2, <1>12, <1>13 DEF PacketInv

(* What has been collected when the packet ends is enough of the command.   *)
LEMMA EndsInTime ==
    ASSUME PacketInv, NEW b, Quiet(b), Collecting, Ends(b)
    PROVE  /\ ip_buf[1] = asked.op
           /\ asked.op = m => ip_buf[2] = asked.addr /\ ip_buf[4] = asked.n
           /\ asked.op \in {M, X} =>
                 /\ ip_buf[2] = asked.addr /\ ip_buf[4] = asked.n
                 /\ Carries(wire', up', 0, Message(asked), 5)
<1>1. /\ asked \in Request /\ ip_buf \in Seq(Byte) /\ Len(ip_buf) \in Nat /\ Len(ip_buf) < BufSize
      /\ Len(ip_buf) + 1 \in 1 .. Len(Message(asked))
      /\ b = Message(asked)[Len(ip_buf) + 1]
      /\ Carries(wire', up', 0, Message(asked), Len(ip_buf) + 1)
  BY NextOfMessage
<1> DEFINE h == Len(ip_buf)
           B == Body(asked)
           T == Message(asked)
<1>2. /\ Len(B) \in Nat /\ Len(B) >= 1 /\ B[1] = asked.op
      /\ \A i \in 1 .. Len(B) : T[i] = B[i]
  BY <1>1, BodyFacts, MessageFacts
<1>3. h <= Len(B) /\ \A i \in 1 .. h : ip_buf[i] = B[i]
  BY DEF Collecting
<1>4. b = EOP \/ h = BufSize - 1 \/ (b = DELIM /\ ip_buf # <<>>)
  BY DEF Ends
<1>e. ip_buf = <<>> <=> h = 0
  BY <1>1, EmptySeq
<1>o. asked.op # EOP
  <2>1. asked.op \in 16 .. 24
    BY <1>1, RequestFacts, CommandLetters
  <2> QED BY <2>1 DEF EOP
<1>5. h >= 1
  <2>1. ASSUME h = 0 PROVE FALSE
    <3>1. b = B[1]
      BY <1>1, <1>2, <2>1
    <3>2. b = EOP
      BY <1>1, <1>4, <1>e, <2>1, Digits
    <3> QED BY <1>2, <1>o, <3>1, <3>2
  <2> QED BY <1>1, <2>1
<1>6. ASSUME asked.op \in {m, M, X}
      PROVE  h >= 4 /\ B[2] = asked.addr /\ B[4] = asked.n
  <2>1. /\ Len(B) >= 4 /\ B[2] = asked.addr /\ B[4] = asked.n
        /\ \A i \in 1 .. 4 : B[i] \notin {EOP, DELIM}
    <3>1. CASE asked.op = m
      BY <1>1, <3>1, BodyFacts
    <3>2. CASE asked.op \in {M, X}
      <4>1. Len(Text(asked.op, asked.data)) \in Nat
        BY <1>1, <3>2, RequestFacts, TextFacts, LenProperties
      <4>2. /\ Len(B) = 5 + Len(Text(asked.op, asked.data)) /\ B[2] = asked.addr /\ B[4] = asked.n
            /\ \A i \in 1 .. 4 : B[i] \notin {EOP, DELIM}
        BY <1>1, <3>2, BodyFacts
      <4> QED BY <4>1, <4>2
    <3> QED BY <1>6, <3>1, <3>2
  <2>2. ASSUME h < 4 PROVE FALSE
    <3>1. h + 1 \in 1 .. 4 /\ h + 1 \in 1 .. Len(B)
      BY <1>1, <1>2, <2>1, <2>2
    <3>2. b = B[h + 1]
      BY <1>1, <1>2, <3>1
    <3>3. h # BufSize - 1
      BY <2>2, Digits
    <3> QED BY <1>4, <2>1, <3>1, <3>2, <3>3
  <2> QED BY <1>1, <2>1, <2>2
<1>7. ip_buf[1] = asked.op
  <2>1. 1 \in 1 .. h
    BY <1>1, <1>5
  <2> QED BY <1>2, <1>3, <2>1
<1>8. ASSUME asked.op \in {m, M, X} PROVE ip_buf[2] = asked.addr /\ ip_buf[4] = asked.n
  <2>1. 2 \in 1 .. h /\ 4 \in 1 .. h
    BY <1>1, <1>6, <1>8
  <2> QED BY <1>3, <1>6, <1>8, <2>1
<1>9. ASSUME asked.op \in {M, X} PROVE Carries(wire', up', 0, Message(asked), 5)
  <2>1. h <= 4 /\ h >= 4
    BY <1>6, <1>9 DEF Collecting
  <2>2. h + 1 = 5
    BY <1>1, <2>1
  <2> QED BY <1>1, <2>2
<1> QED BY <1>7, <1>8, <1>9

-----------------------------------------------------------------------------
(* The end of a packet *)

(* The acknowledgement and then an answer are two things sent.              *)
LEMMA Replying ==
    ASSUME NEW v
    PROVE  /\ Len(<<>> \o Append(<<ACK>>, v)) = 2 /\ (<<>> \o Append(<<ACK>>, v))[2] = v
           /\ Len(<<ACK>> \o <<v>>) = 2 /\ (<<ACK>> \o <<v>>)[2] = v
           /\ <<>> \o <<ACK>> = <<ACK>>
<1> DEFINE S == {ACK, v}
<1>1. <<ACK>> \in Seq(S) /\ Len(<<ACK>>) = 1 /\ <<v>> \in Seq(S) /\ Len(<<v>>) = 1 /\ <<v>>[1] = v /\ v \in S
  BY Pairs
<1> HIDE DEF S
<1>2. Append(<<ACK>>, v) \in Seq(S) /\ Len(Append(<<ACK>>, v)) = 1 + 1 /\ Append(<<ACK>>, v)[1 + 1] = v
  BY <1>1, AppendProperties
<1>3. <<>> \o Append(<<ACK>>, v) = Append(<<ACK>>, v) /\ <<>> \o <<ACK>> = <<ACK>>
  BY <1>1, <1>2, ConcatEmptySeq
<1>4. Len(<<ACK>> \o <<v>>) = 1 + 1 /\ (<<ACK>> \o <<v>>)[1 + 1] = v
  BY <1>1, Join
<1> QED BY <1>2, <1>3, <1>4

(* Types after a step of the stub that leaves no packet begun.              *)
LEMMA NoPacketTypes ==
    ASSUME PacketInv, asked' = asked, up' = up, meant' = meant,
           mem' \in [Address -> Byte], DOMAIN regs' = Reg, wire' \in Seq(Byte),
           active' = FALSE, ip_buf' = <<>>, over' \in BOOLEAN,
           job' = None \/ job' \in Job,
           back' = <<>> \/ Len(back') \in {1, 2}
    PROVE  PacketTypeOK'
<1>1. ip_buf' \in Seq(Byte) /\ Len(ip_buf') = 0
  BY EmptySeq
<1>2. 0 < BufSize /\ 1 <= 2 /\ 2 <= 2 /\ 0 <= 2
  BY Digits
<1>3. Len(ip_buf') < BufSize
  BY <1>1, <1>2
<1>4. Len(back') <= 2
  <2>1. Len(<<>>) = 0
    BY EmptySeq
  <2>2. Len(back') \in {0, 1, 2}
    BY <2>1
  <2> QED BY <1>2, <2>2
<1>5. active' \in BOOLEAN /\ asked' \in Request \cup {None} /\ up' \in BOOLEAN /\ DOMAIN meant' = Reg
  BY DEF PacketInv, PacketTypeOK
<1> QED BY <1>1, <1>3, <1>4, <1>5 DEF PacketTypeOK

(* The state after a packet that ends with an answer.                       *)
LEMMA FinishInv ==
    ASSUME PacketInv, NEW b, Quiet(b), Collecting, NEW s, NEW detached, Finish(s, detached),
           active' = FALSE, ip_buf' = <<>>, mem' = mem, DOMAIN regs' = Reg, detached \in BOOLEAN,
           \/ asked.op = k /\ s = <<ACK>>
           \/ /\ asked.op # k /\ Remote!Applied(asked)
              /\ s = Append(<<ACK>>, Remote!Expected(asked))
    PROVE  PacketInv'
<1>1. asked \in Request /\ wire' \in Seq(Byte) /\ wire' \in Seq(Payload)
  BY NextOfMessage
<1>2. /\ up' = up /\ asked' = asked /\ meant' = meant /\ asked # None /\ back = <<>> /\ up \in BOOLEAN
      /\ job' = None /\ back' = Sent(<<>> \o s) /\ over' \in BOOLEAN
  BY DEF Quiet, host, Collecting, Finish, Writes, PacketInv, PacketTypeOK
<1>3. Len(<<>>) = 0 /\ <<>> \in Seq(Byte) /\ Len(<<ACK>>) = 1
  BY EmptySeq, Pairs
<1>4. Remote!Expected(asked)' = Remote!Expected(asked) /\ Remote!Applied(asked)' = Remote!Applied(asked)
  BY <1>2 DEF Remote!Expected, Remote!Applied, Remote!Range, Remote!Written
<1> DEFINE v == Remote!Expected(asked)
<1> HIDE DEF v
<1>5. /\ ~up => back' = <<>>
      /\ up => \/ asked.op = k /\ back' = <<ACK>>
               \/ asked.op # k /\ Remote!Applied(asked) /\ Len(back') = 2 /\ back'[2] = v
  BY <1>2, Replying DEF Sent, v
<1>6. Answered'
  BY <1>1, <1>2, <1>4, <1>5 DEF Answered, Idle, v
<1>7. PacketTypeOK'
  <2>1. back' = <<>> \/ Len(back') \in {1, 2}
    BY <1>2, <1>3, <1>5
  <2>2. mem' \in [Address -> Byte]
    BY DEF PacketInv, PacketTypeOK
  <2> QED BY <1>1, <1>2, <2>1, <2>2, NoPacketTypes
<1> QED BY <1>6, <1>7 DEF PacketInv

(* The answers by their letters.                                            *)
LEMMA ExpectedOf ==
    ASSUME NEW c \in Request
    PROVE  /\ c.op = m => Remote!Expected(c) = Contents(c.addr, c.n)
           /\ c.op = g => Remote!Expected(c) = Listing
           /\ c.op = q => Remote!Expected(c) = Nothing
           /\ c.op \in {M, X, P, G, D} => Remote!Expected(c) = OK
           /\ c.op \notin {M, X} => Remote!Applied(c)
BY CommandLetters DEF Remote!Expected, Remote!Applied, Contents

(* At the end of a packet its command is carried out, from an address and a *)
(* count that have been collected, or a write begins with the data that     *)
(* follows.                                                                 *)
LEMMA EndInv ==
    ASSUME PacketInv, NEW b, Quiet(b), Collecting, EndPacket(b)
    PROVE  PacketInv' /\ mem' = mem
<1>1. /\ asked \in Request /\ wire' \in Seq(Byte) /\ wire' \in Seq(Payload)
  BY NextOfMessage
<1>2. /\ active' = FALSE /\ ip_buf' = <<>> /\ mem' = mem /\ Ends(b)
      /\ up' = up /\ asked' = asked /\ meant' = meant /\ DOMAIN regs = Reg
      /\ asked # None /\ back = <<>> /\ job = None
  BY DEF EndPacket, Quiet, host, PacketInv, PacketTypeOK, Collecting
<1>3. /\ ip_buf[1] = asked.op /\ asked.op \in Letters
      /\ asked.op = m => ip_buf[2] = asked.addr /\ ip_buf[4] = asked.n
      /\ asked.op \in {M, X} =>
            /\ ip_buf[2] = asked.addr /\ ip_buf[4] = asked.n
            /\ Carries(wire', up', 0, Message(asked), 5)
  BY <1>1, <1>2, EndsInTime, RequestFacts
<1>4. CASE NotAcknowledged
  <2>1. /\ ~up /\ over' = TRUE /\ back' = back /\ job' = job /\ regs' = regs
    BY <1>4 DEF NotAcknowledged
  <2>2. Answered'
    BY <1>1, <1>2, <2>1 DEF Answered, Idle
  <2>3. PacketTypeOK'
    <3>1. mem' \in [Address -> Byte] /\ back' = <<>> /\ over' \in BOOLEAN /\ job' = None /\ DOMAIN regs' = Reg
      BY <1>2, <2>1 DEF PacketInv, PacketTypeOK
    <3> QED BY <1>1, <1>2, <3>1, NoPacketTypes
  <2> QED BY <1>2, <2>2, <2>3 DEF PacketInv
<1>5. CASE asked.op = m /\ Finish(Append(<<ACK>>, Contents(asked.addr, asked.n)), FALSE) /\ UNCHANGED regs
  BY <1>1, <1>2, <1>5, FinishInv, ExpectedOf, CommandLetters
<1>6. CASE asked.op \in {M, X} /\ asked.n = 0 /\ Finish(Append(<<ACK>>, OK), FALSE) /\ UNCHANGED regs
  <2>1. Remote!Applied(asked)
    <3>1. asked.addr \in 0 .. 7 /\ Address \subseteq 0 .. 7
      BY <1>1, <1>6, RequestFacts, Digits
    <3>2. \A x \in 0 .. 7 : ~(asked.addr <= x /\ x < asked.addr + 0)
      BY <3>1
    <3>3. Remote!Range(asked) = {}
      BY <1>6, <3>1, <3>2 DEF Remote!Range
    <3> QED BY <3>3 DEF Remote!Applied
  <2> QED BY <1>1, <1>2, <1>6, <2>1, FinishInv, ExpectedOf, CommandLetters
<1>7. CASE asked.op \in {P, G} /\ Finish(Append(<<ACK>>, OK), FALSE) /\ regs' = Set(ip_buf)
  <2>1. DOMAIN regs' = Reg
    BY <1>2, <1>7 DEF Set
  <2> QED BY <1>1, <1>2, <1>7, <2>1, FinishInv, ExpectedOf, CommandLetters
<1>8. CASE asked.op = g /\ Finish(Append(<<ACK>>, Listing), FALSE) /\ UNCHANGED regs
  BY <1>1, <1>2, <1>8, FinishInv, ExpectedOf, CommandLetters
<1>9. CASE asked.op = D /\ Finish(Append(<<ACK>>, OK), TRUE) /\ UNCHANGED regs
  BY <1>1, <1>2, <1>9, FinishInv, ExpectedOf, CommandLetters
<1>10. CASE asked.op = k /\ Finish(<<ACK>>, TRUE) /\ UNCHANGED regs
  BY <1>1, <1>2, <1>10, FinishInv
<1>11. CASE asked.op = q /\ Finish(Append(<<ACK>>, Nothing), FALSE) /\ UNCHANGED regs
  BY <1>1, <1>2, <1>11, FinishInv, ExpectedOf, CommandLetters
<1>12. CASE /\ asked.op \in {M, X} /\ asked.n > 0
             /\ job' = Work(ip_buf) /\ back' = Sent(back \o <<ACK>>) /\ UNCHANGED <<over, regs>>
  <2>1. /\ asked.addr \in Address /\ asked.n \in 0 .. MaxData /\ asked.n > 0 /\ asked.data \in Seq(Byte)
        /\ Len(asked.data) = asked.n /\ asked.n \in Nat /\ asked.n \in 1 .. MaxData
    <3>1. /\ asked.addr \in Address /\ asked.n \in 0 .. MaxData /\ asked.n > 0 /\ asked.data \in Seq(Byte)
          /\ Len(asked.data) = asked.n
      BY <1>1, <1>12, RequestFacts
    <3> QED BY <3>1, Digits
  <2>2. job' = [binary |-> asked.op = X, addr |-> asked.addr, left |-> asked.n, got |-> <<>>]
    BY <1>3, <1>12 DEF Work
  <2>3. /\ job' \in Job /\ job'.binary = (asked.op = X) /\ job'.addr = asked.addr /\ job'.left = asked.n
        /\ job'.got = <<>>
    BY <2>1, <2>2, EmptySeq DEF Job
  <2>4. back' = Sent(<<ACK>>)' /\ (back' = <<>> \/ Len(back') \in {1, 2})
    BY <1>2, <1>12, Replying, EmptySeq, Pairs DEF Sent
  <2>5. PICK p \in [0 .. asked.n -> 0 .. Len(Text(asked.op, asked.data))] :
               Layout(p, Forms(asked.op, asked.data), Text(asked.op, asked.data))
    <3>1. Forms(asked.op, asked.data) \in Seq(Seq(Payload)) /\ Len(Forms(asked.op, asked.data)) = asked.n
      BY <1>12, <2>1, TextFacts
    <3> QED BY <3>1, FlattenLayout DEF Text
  <2>6. p[0] = 0 /\ asked.n - asked.n = 0 /\ 5 + 0 + 0 = 5 /\ Len(<<>>) = 0
    BY <2>1, <2>5, EmptySeq DEF Layout
  <2>7. Carries(wire', up', 0, Message(asked), 5 + p[asked.n - job'.left] + Len(job'.got))
    BY <1>3, <1>12, <2>3, <2>6
  <2>8. \A x \in Address : asked.addr <= x /\ x < job'.addr => mem'[x] = asked.data[x - asked.addr + 1]
    <3>1. asked.addr \in 0 .. 7 /\ Address \subseteq 0 .. 7
      BY <2>1, Digits
    <3>2. \A x \in 0 .. 7 : ~(asked.addr <= x /\ x < asked.addr)
      BY <3>1
    <3> QED BY <2>3, <3>1, <3>2
  <2>9. Progress(asked)'
    BY <1>2, <2>3, <2>5, <2>7, <2>8 DEF Progress, Done
  <2>10. asked.addr <= asked.addr /\ 0 <= 1
    <3>1. asked.addr \in 0 .. 7
      BY <2>1, Digits
    <3> QED BY <3>1
  <2>11. Writing'
    BY <1>1, <1>2, <1>12, <2>3, <2>4, <2>6, <2>9, <2>10 DEF Writing
  <2>12. PacketTypeOK'
    <3>1. mem' \in [Address -> Byte] /\ over' \in BOOLEAN /\ DOMAIN regs' = Reg
      BY <1>2, <1>12 DEF PacketInv, PacketTypeOK
    <3> QED BY <1>1, <1>2, <2>3, <2>4, <3>1, NoPacketTypes
  <2> QED BY <1>2, <2>11, <2>12 DEF PacketInv
<1>13. Process(ip_buf, <<ACK>>) \/ NotAcknowledged
  BY DEF EndPacket
<1>14. ASSUME Process(ip_buf, <<ACK>>) PROVE PacketInv'
  <2>1. CASE ip_buf[1] = m /\ Finish(Append(<<ACK>>, Contents(ip_buf[2], ip_buf[4])), FALSE) /\ UNCHANGED regs
    BY <1>3, <1>5, <2>1
  <2>2. CASE /\ ip_buf[1] \in {M, X} /\ ip_buf[4] > 0
             /\ job' = Work(ip_buf) /\ back' = Sent(back \o <<ACK>>) /\ UNCHANGED <<over, regs>>
    BY <1>3, <1>12, <2>2
  <2>3. CASE ip_buf[1] \in {M, X} /\ ip_buf[4] = 0 /\ Finish(Append(<<ACK>>, OK), FALSE) /\ UNCHANGED regs
    BY <1>3, <1>6, <2>3
  <2>4. CASE ip_buf[1] \in {P, G} /\ Finish(Append(<<ACK>>, OK), FALSE) /\ regs' = Set(ip_buf)
    BY <1>3, <1>7, <2>4
  <2>5. CASE ip_buf[1] = g /\ Finish(Append(<<ACK>>, Listing), FALSE) /\ UNCHANGED regs
    BY <1>3, <1>8, <2>5
  <2>6. CASE ip_buf[1] = D /\ Finish(Append(<<ACK>>, OK), TRUE) /\ UNCHANGED regs
    BY <1>3, <1>9, <2>6
  <2>7. CASE ip_buf[1] = k /\ Finish(<<ACK>>, TRUE) /\ UNCHANGED regs
    BY <1>3, <1>10, <2>7
  <2>8. CASE ip_buf[1] \notin {m, M, X, P, G, g, D, k} /\ Finish(Append(<<ACK>>, Nothing), FALSE) /\ UNCHANGED regs
    BY <1>3, <1>11, <2>8 DEF Letters
  <2> QED BY <1>14, <2>1, <2>2, <2>3, <2>4, <2>5, <2>6, <2>7, <2>8 DEF Process
<1> QED BY <1>2, <1>4, <1>13, <1>14

-----------------------------------------------------------------------------
(* The data of a write *)

(* Within the loop: a, the address of the command; n, its count; x, the     *)
(* address written next; l, the bytes left.                                 *)
LEMMA LoopArithmetic ==
    ASSUME NEW a \in 0 .. 7, NEW n \in 0 .. 7, NEW x \in 0 .. 7, NEW l \in 1 .. 7,
           a <= x, x + l = a + n
    PROVE  /\ n \in 1 .. 7 /\ x < a + n /\ n - l \in 0 .. n - 1 /\ x - a = n - l
           /\ \A z \in Nat : l > 1 /\ a + n - 1 \in 0 .. z => x + 1 \in 0 .. z
OBVIOUS

(* Where a write has got to, in terms of the command and of the loop.       *)
LEMMA JobFacts ==
    ASSUME PacketInv, Writing
    PROVE  /\ job # None /\ asked \in Request /\ asked.op \in {M, X}
           /\ asked.addr \in 0 .. 7 /\ asked.n \in 1 .. 7 /\ job.addr \in 0 .. 7 /\ job.left \in 1 .. 7
           /\ asked.addr <= job.addr /\ job.addr + job.left = asked.addr + asked.n
           /\ asked.n <= MaxData /\ asked.data \in Seq(Byte) /\ Len(asked.data) = asked.n
           /\ job.addr \in Remote!Range(asked)
           /\ Done(asked) \in 0 .. asked.n - 1 /\ job.addr - asked.addr = Done(asked)
           /\ job.left > 1 => job.addr + 1 \in Address
           /\ job.got \in Seq(Byte) /\ job.binary \in BOOLEAN
           /\ job.got # <<>> => Len(job.got) = 1 /\ job.got[1] \in Byte
<1>1. job \in Job /\ asked \in Request /\ asked.op \in {M, X}
  BY DEF Writing, PacketInv, PacketTypeOK
<1>2. /\ job # None /\ job.addr \in Address /\ job.left \in 1 .. MaxData /\ job.got \in Seq(Byte)
      /\ job.binary \in BOOLEAN
  BY <1>1, NoneIsOther DEF Job
<1>3. /\ asked.addr \in Address /\ asked.n \in 0 .. MaxData
      /\ asked.data \in Seq(Byte) /\ Len(asked.data) = asked.n
      /\ asked.n > 0 => asked.addr + asked.n - 1 \in Address
  BY <1>1, RequestFacts
<1>4. asked.addr <= job.addr /\ job.addr + job.left = asked.addr + asked.n
  BY DEF Writing
<1>5. /\ asked.addr \in 0 .. 7 /\ asked.n \in 0 .. 7 /\ asked.n <= MaxData
      /\ job.addr \in 0 .. 7 /\ job.left \in 1 .. 7
  <2>1. asked.addr \in 0 .. 7 /\ job.addr \in 0 .. 7 /\ asked.n \in 0 .. 7 /\ job.left \in 1 .. 7
    <3>1. asked.addr \in 0 .. 7 /\ job.addr \in 0 .. 7
      BY <1>2, <1>3, Digits
    <3>2. asked.n \in 0 .. 7
      <4>1. 0 .. MaxData \subseteq 0 .. 7
        BY Digits
      <4> QED BY <1>3, <4>1, Zenon
    <3>3. job.left \in 1 .. 7
      <4>1. MaxData \in 1 .. 7
        BY Digits
      <4> QED BY <1>2, <4>1
    <3> QED BY <3>1, <3>2, <3>3
  <2>2. \A i \in 0 .. MaxData : i <= MaxData
    OBVIOUS
  <2> QED BY <1>3, <2>1, <2>2
<1>6. /\ asked.n \in 1 .. 7 /\ job.addr < asked.addr + asked.n
      /\ asked.n - job.left \in 0 .. asked.n - 1 /\ job.addr - asked.addr = asked.n - job.left
      /\ \A z \in Nat : job.left > 1 /\ asked.addr + asked.n - 1 \in 0 .. z => job.addr + 1 \in 0 .. z
  <2> DEFINE a == asked.addr
             n == asked.n
             x == job.addr
             l == job.left
  <2>1. a \in 0 .. 7 /\ n \in 0 .. 7 /\ x \in 0 .. 7 /\ l \in 1 .. 7 /\ a <= x /\ x + l = a + n
    BY <1>4, <1>5
  <2> HIDE DEF a, n, x, l
  <2>2. /\ n \in 1 .. 7 /\ x < a + n /\ n - l \in 0 .. n - 1 /\ x - a = n - l
        /\ \A z \in Nat : l > 1 /\ a + n - 1 \in 0 .. z => x + 1 \in 0 .. z
    BY <2>1, LoopArithmetic
  <2> QED BY <2>2 DEF a, n, x, l
<1>7. job.addr \in Remote!Range(asked)
  BY <1>2, <1>4, <1>6 DEF Remote!Range
<1>9. ASSUME job.left > 1 PROVE job.addr + 1 \in Address
  <2>1. PICK l \in 0 .. Base - 1 : Address = 0 .. l
    BY PacketAssumption
  <2>2. \A i \in 1 .. 7 : i > 0
    OBVIOUS
  <2>3. asked.addr + asked.n - 1 \in 0 .. l /\ l \in Nat
    BY <1>3, <1>6, <2>1, <2>2, Digits
  <2> QED BY <1>6, <1>9, <2>1, <2>3
<1>10. ASSUME job.got # <<>> PROVE Len(job.got) = 1 /\ job.got[1] \in Byte
  <2>1. Len(job.got) \in Nat \ {0} /\ Len(job.got) <= 1
    BY <1>2, <1>10, EmptySeq DEF Writing
  <2>2. Len(job.got) = 1 /\ 1 \in 1 .. Len(job.got)
    <3>1. \A i \in Nat \ {0} : i <= 1 => i = 1 /\ 1 \in 1 .. i
      OBVIOUS
    <3> QED BY <2>1, <3>1
  <2> QED BY <1>2, <2>2, LenProperties
<1> QED BY <1>1, <1>2, <1>3, <1>4, <1>5, <1>6, <1>7, <1>9, <1>10 DEF Done

(* A byte read while a write is going on is the next of the form of the     *)
(* next byte to be written.                                                 *)
LEMMA NextOfForm ==
    ASSUME PacketInv, NEW b, Quiet(b), Writing, up
    PROVE  LET j == Done(asked)
               F == Form(asked.op, asked.data[j + 1])
           IN  /\ Len(job.got) + 1 \in 1 .. Len(F) /\ b = F[Len(job.got) + 1]
               /\ \E p \in [0 .. asked.n -> 0 .. Len(Text(asked.op, asked.data))] :
                     /\ Layout(p, Forms(asked.op, asked.data), Text(asked.op, asked.data))
                     /\ Carries(wire', up', 0, Message(asked), 5 + p[j] + (Len(job.got) + 1))
                     /\ p[j + 1] = p[j] + Len(F)
<1> DEFINE j == Done(asked)
           d == asked.data
           F == Form(asked.op, d[j + 1])
           T == Message(asked)
           t == Text(asked.op, d)
           l == Len(job.got)
<1>1. /\ asked \in Request /\ asked.op \in {M, X} /\ asked.n \in 1 .. 7 /\ d \in Seq(Byte) /\ Len(d) = asked.n
      /\ j \in 0 .. asked.n - 1
      /\ job.got \in Seq(Byte) /\ (job.got # <<>> => Len(job.got) = 1)
  BY JobFacts
<1>2. /\ job.binary = (asked.op = X) /\ (job.got # <<>> /\ job.binary => job.got[1] = ESC)
      /\ Progress(asked)
  BY DEF Writing
<1>3. PICK p \in [0 .. asked.n -> 0 .. Len(t)] :
          /\ Layout(p, Forms(asked.op, d), t)
          /\ Carries(wire, up, 0, T, 5 + p[j] + l)
  BY <1>2 DEF Progress
<1>4. j + 1 \in 1 .. Len(d) /\ d[j + 1] \in Byte /\ j \in 0 .. asked.n /\ j + 1 \in 0 .. asked.n
  <2>1. j + 1 \in 1 .. Len(d) /\ j \in 0 .. asked.n /\ j + 1 \in 0 .. asked.n
    BY <1>1
  <2> QED BY <1>1, <2>1, LenProperties
<1>5. /\ F \in Seq(Payload) /\ Len(F) \in {1, 2}
      /\ asked.op = M => Len(F) = 2
      /\ asked.op = X /\ Len(F) = 1 => F[1] # ESC
  BY <1>1, <1>4, Decoding
<1>6. t \in Seq(Payload) /\ Len(t) \in Nat /\ Len(Forms(asked.op, d)) = asked.n /\ Forms(asked.op, d)[j + 1] = F
  BY <1>1, <1>4, TextFacts, LenProperties
<1>7. p[j + 1] = p[j] + Len(F) /\ \A i \in 1 .. Len(F) : t[p[j] + i] = F[i]
  BY <1>1, <1>3, <1>6 DEF Layout
<1>8. p[j] \in 0 .. Len(t) /\ p[j + 1] \in 0 .. Len(t)
  BY <1>3, <1>4
<1>9. l \in {0, 1} /\ (l = 1 => job.got # <<>>)
  <2>1. Len(<<>>) = 0 /\ 0 # 1
    BY EmptySeq
  <2>2. CASE job.got = <<>>
    BY <2>1, <2>2
  <2>3. CASE job.got # <<>>
    BY <1>1, <2>3
  <2> QED BY <2>2, <2>3
<1>10. job.got # <<>> => job.got[1] = F[1]
  BY <1>2 DEF Progress
<1>11. l = 1 => Len(F) = 2
  BY <1>1, <1>2, <1>5, <1>9, <1>10
<1>12. /\ T \in Seq(Payload) /\ Len(T) = Len(Body(asked)) + 3
       /\ \A i \in 1 .. Len(Body(asked)) : T[i] = Body(asked)[i]
  BY <1>1, MessageFacts
<1>13. /\ Len(Body(asked)) = 5 + Len(t)
       /\ \A i \in 1 .. Len(t) : Body(asked)[5 + i] = t[i]
  BY <1>1, BodyFacts
<1> HIDE DEF j, d, F, T, t, l
<1>14. /\ l + 1 \in 1 .. Len(F) /\ p[j] + (l + 1) \in 1 .. Len(t) /\ 5 + p[j] + l \in Nat
       /\ 5 + p[j] + l + 1 = 5 + (p[j] + (l + 1)) /\ 5 + p[j] + l + 1 = 5 + p[j] + (l + 1)
       /\ 5 + (p[j] + (l + 1)) \in 1 .. 5 + Len(t)
  <2> DEFINE u == p[j]
             v == p[j + 1]
             e == Len(F)
  <2>1. u \in Nat /\ v \in Nat /\ e \in {1, 2} /\ Len(t) \in Nat /\ v <= Len(t) /\ v = u + e
    BY <1>5, <1>6, <1>7, <1>8
  <2> HIDE DEF u, v, e
  <2>2. /\ l + 1 \in 1 .. e /\ u + (l + 1) \in 1 .. Len(t) /\ 5 + u + l \in Nat
        /\ 5 + u + l + 1 = 5 + (u + (l + 1)) /\ 5 + u + l + 1 = 5 + u + (l + 1)
        /\ 5 + (u + (l + 1)) \in 1 .. 5 + Len(t)
    <3>1. CASE l = 0
      BY <2>1, <3>1
    <3>2. CASE l = 1
      <4>1. e = 2
        BY <1>11, <3>2 DEF e
      <4> QED BY <2>1, <3>2, <4>1
    <3> QED BY <1>9, <3>1, <3>2
  <2> QED BY <2>2 DEF u, v, e
<1>15. /\ b = T[5 + p[j] + l + 1]
       /\ Carries(wire', up', 0, T, 5 + p[j] + l + 1)
  BY <1>3, <1>12, <1>14, NextByte
<1>16. b = F[l + 1]
  <2>1. T[5 + (p[j] + (l + 1))] = Body(asked)[5 + (p[j] + (l + 1))]
    BY <1>12, <1>13, <1>14
  <2>2. Body(asked)[5 + (p[j] + (l + 1))] = t[p[j] + (l + 1)]
    BY <1>13, <1>14
  <2>3. t[p[j] + (l + 1)] = F[l + 1]
    BY <1>7, <1>14
  <2> QED BY <1>14, <1>15, <2>1, <2>2, <2>3
<1>17. Carries(wire', up', 0, T, 5 + p[j] + (l + 1))
  BY <1>14, <1>15
<1> QED BY <1>3, <1>7, <1>14, <1>16, <1>17 DEF j, d, F, T, t, l

(* A byte, or what takes its place, has been read.                          *)
Taken(b) == b \in Byte /\ wire' \in Seq(Payload) /\ UNCHANGED <<up, host>> /\ (up => Quiet(b))

(* Bytes without '$' are bytes.                                             *)
LEMMA PayloadIsByte == Seq(Payload) \subseteq Seq(Byte)
<1>1. Payload \subseteq Byte
  BY DEF Payload
<1> QED BY <1>1, SeqMonotonic

(* The first of two characters.                                             *)
LEMMA HalfInv ==
    ASSUME PacketInv, Writing, NEW b, Taken(b), Half(b), Datum(b)
    PROVE  PacketInv' /\ mem' = mem
<1>1. /\ job' = [job EXCEPT !.got = <<b>>] /\ active' = active /\ ip_buf' = ip_buf /\ over' = over
      /\ back' = back /\ mem' = mem /\ regs' = regs /\ up' = up /\ asked' = asked /\ meant' = meant
      /\ b \in Byte /\ wire' \in Seq(Payload) /\ wire' \in Seq(Byte)
  BY PayloadIsByte DEF Datum, Taken, host
<1>2. job.got = <<>> /\ (job.binary => b = ESC)
  BY DEF Half
<1>3. job \in Job
  BY DEF Writing
<1>4. <<b>> \in Seq(Byte) /\ Len(<<b>>) = 1 /\ <<b>>[1] = b /\ <<b>> # <<>> /\ Len(<<>>) = 0 /\ 1 <= 1
  BY <1>1, Pairs, EmptySeq
<1>5. /\ job' \in Job /\ job'.got = <<b>> /\ job'.addr = job.addr /\ job'.left = job.left
      /\ job'.binary = job.binary
  BY <1>1, <1>3, <1>4 DEF Job
<1>6. PacketTypeOK'
  BY <1>1, <1>5 DEF PacketInv, PacketTypeOK
<1>7. ASSUME up PROVE Progress(asked)'
  <2> DEFINE j == Done(asked)
             F == Form(asked.op, asked.data[j + 1])
             t == Text(asked.op, asked.data)
  <2>1. /\ Len(job.got) + 1 \in 1 .. Len(F) /\ b = F[Len(job.got) + 1]
        /\ \E p \in [0 .. asked.n -> 0 .. Len(t)] :
              /\ Layout(p, Forms(asked.op, asked.data), t)
              /\ Carries(wire', up', 0, Message(asked), 5 + p[j] + (Len(job.got) + 1))
    BY <1>7, NextOfForm DEF Taken
  <2>2. Done(asked)' = j
    BY <1>1, <1>5 DEF Done
  <2>3. Len(job.got) + 1 = Len(job'.got) /\ Len(job.got) + 1 = 1
    BY <1>2, <1>4, <1>5
  <2> HIDE DEF j, F, t
  <2>4. job'.got[1] = F[1]
    BY <1>4, <1>5, <2>1, <2>3
  <2>5. PICK p \in [0 .. asked.n -> 0 .. Len(t)] :
              /\ Layout(p, Forms(asked.op, asked.data), t)
              /\ Carries(wire', up', 0, Message(asked), 5 + p[j] + Len(job'.got))
    BY <2>1, <2>3
  <2>6. \A x \in Address : asked.addr <= x /\ x < job'.addr => mem'[x] = asked.data[x - asked.addr + 1]
    BY <1>1, <1>5, <1>7 DEF Writing, Progress
  <2>7. job'.got[1] = Form(asked.op, asked.data[j + 1])[1]
    BY <2>4 DEF F
  <2>8. /\ Layout(p, Forms(asked.op, asked.data), Text(asked.op, asked.data))
        /\ p \in [0 .. asked.n -> 0 .. Len(Text(asked.op, asked.data))]
    BY <2>5 DEF t
  <2> QED BY <1>1, <2>2, <2>5, <2>6, <2>7, <2>8 DEF Progress
<1>8. Writing'
  <2>1. back' = Sent(<<ACK>>)'
    BY <1>1 DEF Writing, Sent
  <2>2. asked' # None /\ asked'.op \in {M, X} /\ ~active' /\ ip_buf' = <<>>
    BY <1>1 DEF Writing
  <2>3. /\ job'.binary = (asked'.op = X) /\ asked'.addr <= job'.addr
        /\ job'.addr + job'.left = asked'.addr + asked'.n
    BY <1>1, <1>5 DEF Writing
  <2>4. Len(job'.got) <= 1 /\ (job'.got # <<>> /\ job'.binary => job'.got[1] = ESC)
    BY <1>2, <1>4, <1>5
  <2> QED BY <1>1, <1>5, <1>7, <2>1, <2>2, <2>3, <2>4 DEF Writing
<1> QED BY <1>1, <1>6, <1>8 DEF PacketInv

(* The last character of a form gives the byte the host meant.              *)
LEMMA ValueMeant ==
    ASSUME PacketInv, Writing, up, NEW b, Quiet(b), ~Half(b)
    PROVE  LET j == Done(asked)
           IN  /\ Value(b) = asked.data[j + 1]
               /\ \E p \in [0 .. asked.n -> 0 .. Len(Text(asked.op, asked.data))] :
                     /\ Layout(p, Forms(asked.op, asked.data), Text(asked.op, asked.data))
                     /\ Carries(wire', up', 0, Message(asked), 5 + p[j + 1] + 0)
<1> DEFINE j == Done(asked)
           d == asked.data
           F == Form(asked.op, d[j + 1])
           t == Text(asked.op, d)
           l == Len(job.got)
<1>1. /\ asked.op \in {M, X} /\ d \in Seq(Byte) /\ Len(d) = asked.n /\ asked.n \in 1 .. 7
      /\ j \in 0 .. asked.n - 1 /\ job.got \in Seq(Byte)
      /\ (job.got # <<>> => Len(job.got) = 1)
  BY JobFacts
<1>2. /\ job.binary = (asked.op = X) /\ (job.got # <<>> /\ job.binary => job.got[1] = ESC)
      /\ Progress(asked)
  BY DEF Writing
<1>3. /\ l + 1 \in 1 .. Len(F) /\ b = F[l + 1]
      /\ \E p \in [0 .. asked.n -> 0 .. Len(t)] :
            /\ Layout(p, Forms(asked.op, d), t)
            /\ Carries(wire', up', 0, Message(asked), 5 + p[j] + (l + 1))
            /\ p[j + 1] = p[j] + Len(F)
  BY NextOfForm
<1>4. j + 1 \in 1 .. Len(d) /\ d[j + 1] \in Byte /\ j \in 0 .. asked.n /\ j + 1 \in 0 .. asked.n
  <2>1. j + 1 \in 1 .. Len(d) /\ j \in 0 .. asked.n /\ j + 1 \in 0 .. asked.n
    BY <1>1
  <2> QED BY <1>1, <2>1, LenProperties
<1>5. /\ Len(F) \in {1, 2}
      /\ asked.op = M => Len(F) = 2 /\ (F[1] * Base + F[2]) % (Base * Base) = d[j + 1]
      /\ asked.op = X /\ Len(F) = 1 => F[1] = d[j + 1]
      /\ asked.op = X /\ Len(F) = 2 => F[1] = ESC /\ Flip(F[2]) = d[j + 1]
  BY <1>1, <1>4, Decoding
<1>6. job.got # <<>> => job.got[1] = F[1]
  BY <1>2 DEF Progress
<1>7. Len(<<>>) = 0 /\ M # X
  BY EmptySeq, CommandLetters
<1>8. Value(b) = d[j + 1] /\ l + 1 = Len(F)
  <2>1. CASE job.got = <<>>
    <3>1. l + 1 = 1 /\ b = F[1]
      BY <1>3, <1>7, <2>1
    <3>2. asked.op = X /\ b # ESC
      BY <1>1, <1>2, <2>1 DEF Half
    <3>3. Len(F) = 1
      BY <1>5, <3>1, <3>2
    <3> QED BY <1>5, <2>1, <3>1, <3>2, <3>3 DEF Value
  <2>2. CASE job.got # <<>>
    <3>1. l + 1 = 2
      <4>1. l = 1
        BY <1>1, <2>2
      <4> HIDE DEF l
      <4> QED BY <4>1
    <3>2. Len(F) = 2 /\ b = F[2]
      <4> DEFINE e == Len(F)
      <4>1. e \in {1, 2} /\ 2 \in 1 .. e
        BY <1>3, <1>5, <3>1
      <4> HIDE DEF e
      <4>2. e = 2
        BY <4>1
      <4> QED BY <1>3, <3>1, <4>2 DEF e
    <3>3. job.got[1] = F[1]
      BY <1>6, <2>2
    <3>4. CASE asked.op = X
      <4>1. Value(b) = Flip(b)
        BY <1>2, <2>2, <3>4 DEF Value
      <4> QED BY <1>5, <3>1, <3>2, <3>4, <4>1
    <3>5. CASE asked.op = M
      <4>1. Value(b) = (job.got[1] * Base + b) % (Base * Base)
        BY <1>2, <1>7, <2>2, <3>5 DEF Value
      <4> QED BY <1>5, <3>1, <3>2, <3>3, <3>5, <4>1
    <3> QED BY <1>1, <3>4, <3>5
  <2> QED BY <2>1, <2>2
<1>9. PICK p \in [0 .. asked.n -> 0 .. Len(t)] :
            /\ Layout(p, Forms(asked.op, d), t)
            /\ Carries(wire', up', 0, Message(asked), 5 + p[j] + (l + 1))
            /\ p[j + 1] = p[j] + Len(F)
  BY <1>3
<1> HIDE DEF j, d, F, t, l
<1>10. 5 + p[j] + (l + 1) = 5 + p[j + 1] + 0
  <2> DEFINE u == p[j]
             v == p[j + 1]
             e == Len(F)
  <2>1. u \in Int /\ e \in Int /\ v = u + e
    BY <1>4, <1>5, <1>9
  <2> HIDE DEF u, v, e
  <2>2. 5 + u + e = 5 + v + 0
    BY <2>1
  <2> QED BY <1>8, <2>2 DEF u, v, e
<1>11. Carries(wire', up', 0, Message(asked), 5 + p[j + 1] + 0)
  BY <1>9, <1>10
<1> QED BY <1>8, <1>9, <1>11 DEF j, d, t

(* The last character of a byte: it is written, and the loop goes on or the *)
(* command is answered.                                                     *)
LEMMA WriteInv ==
    ASSUME PacketInv, Writing, NEW b, Taken(b), ~Half(b), Datum(b)
    PROVE  PacketInv' /\ (Remote!Apply \/ Remote!Tear)
<1> DEFINE j == Done(asked)
           x == job.addr
<1>1. /\ job # None /\ asked \in Request /\ asked.op \in {M, X}
      /\ asked.addr \in 0 .. 7 /\ asked.n \in 1 .. 7 /\ x \in 0 .. 7 /\ job.left \in 1 .. 7
      /\ asked.addr <= x /\ x + job.left = asked.addr + asked.n
      /\ asked.data \in Seq(Byte) /\ Len(asked.data) = asked.n
      /\ x \in Remote!Range(asked)
      /\ j \in 0 .. asked.n - 1 /\ x - asked.addr = j
      /\ job.left > 1 => x + 1 \in Address
      /\ job.got \in Seq(Byte) /\ job.binary \in BOOLEAN
      /\ job.got # <<>> => Len(job.got) = 1 /\ job.got[1] \in Byte
  BY JobFacts
<1>2. /\ mem' = [mem EXCEPT ![x] = Value(b)]
      /\ active' = active /\ ip_buf' = ip_buf /\ regs' = regs /\ up' = up /\ asked' = asked
      /\ meant' = meant /\ heard' = heard /\ b \in Byte /\ wire' \in Seq(Payload) /\ wire' \in Seq(Byte)
  BY PayloadIsByte DEF Datum, Taken, host
<1>3. IF job.left = 1 THEN Finish(<<OK>>, FALSE)
      ELSE /\ job' = [job EXCEPT !.addr = @ + 1, !.left = @ - 1, !.got = <<>>]
           /\ over' = over /\ back' = back
  BY DEF Datum
<1>4. job \in Job /\ mem \in [Address -> Byte] /\ DOMAIN regs = Reg /\ over \in BOOLEAN /\ x \in Address
  BY DEF Writing, PacketInv, PacketTypeOK, Job
<1>5. Value(b) \in Byte
  <2>1. \A i, l \in 0 .. 63 : (i + 32) % 64 \in 0 .. 63 /\ (l * 8 + i) % 64 \in 0 .. 63
    OBVIOUS
  <2>2. Flip(b) \in Byte
    BY <1>2, <2>1, Digits DEF Flip
  <2>3. job.got # <<>> => (job.got[1] * Base + b) % (Base * Base) \in Byte
    <3>1. \A i, l \in Byte : (l * Base + i) % (Base * Base) \in Byte
      BY <2>1, Digits
    <3> QED BY <1>1, <1>2, <3>1
  <2> QED BY <1>2, <2>2, <2>3 DEF Value
<1>6. up => Value(b) = asked.data[j + 1] /\ asked.data[j + 1] = Remote!Written(asked, x)
  BY <1>1, ValueMeant DEF Taken, Remote!Written
<1>7. mem' \in [Address -> Byte]
  BY <1>2, <1>4, <1>5
<1>8. Remote!Apply \/ Remote!Tear
  <2>1. CASE up
    <3>1. mem' = [mem EXCEPT ![x] = Remote!Written(asked, x)]
      BY <1>2, <1>6, <2>1
    <3> QED BY <1>1, <1>2, <2>1, <3>1, NoneIsOther DEF Remote!Apply
  <2>2. CASE ~up
    BY <1>1, <1>2, <1>5, <2>2, NoneIsOther DEF Remote!Tear
  <2> QED BY <2>1, <2>2
<1>9. ASSUME up, NEW y \in Address, asked.addr <= y, y < x + 1
      PROVE  mem'[y] = asked.data[y - asked.addr + 1]
  <2>1. CASE y = x
    BY <1>1, <1>2, <1>4, <1>6, <1>9, <2>1
  <2>2. CASE y # x
    <3>1. y < x
      <4>1. y \in 0 .. 7
        BY <1>9, Digits
      <4> HIDE DEF x
      <4> QED BY <1>1, <1>9, <2>2, <4>1
    <3>2. mem'[y] = mem[y]
      BY <1>2, <1>4, <1>9, <2>2
    <3>3. mem[y] = asked.data[y - asked.addr + 1]
      BY <1>9, <3>1 DEF Writing, Progress
    <3> QED BY <3>2, <3>3
  <2> QED BY <2>1, <2>2
<1>10. ip_buf' = <<>> /\ active' = FALSE
  BY <1>2 DEF Writing, PacketInv, PacketTypeOK
<1>11. CASE job.left = 1
  <2>1. /\ job' = None /\ back' = Sent(back \o <<OK>>) /\ over' \in BOOLEAN
    BY <1>3, <1>11 DEF Finish, Writes
  <2>2. /\ ~up => back' = <<>>
        /\ up => Len(back') = 2 /\ back'[2] = OK
    BY <2>1, Replying DEF Sent, Writing
  <2>3. ASSUME up PROVE Remote!Applied(asked)'
    <3>1. \A y \in 0 .. 7 : y < asked.addr + asked.n => y < x + 1
      BY <1>1, <1>11
    <3>2. \A y \in Remote!Range(asked) : y \in Address /\ asked.addr <= y /\ y < x + 1
      BY <3>1, Digits DEF Remote!Range
    <3>3. \A y \in Remote!Range(asked) : mem'[y] = Remote!Written(asked, y)
      BY <1>9, <2>3, <3>2 DEF Remote!Written
    <3> QED BY <1>2, <3>3 DEF Remote!Applied, Remote!Range, Remote!Written
  <2>4. Remote!Expected(asked)' = OK
    BY <1>1, <1>2, CommandLetters, ExpectedOf DEF Remote!Expected
  <2>5. Answered'
    <3>1. asked.op # k
      BY <1>1, CommandLetters
    <3> QED BY <1>1, <1>2, <1>10, <2>1, <2>2, <2>3, <2>4, <3>1, NoneIsOther DEF Answered, Idle
  <2>6. PacketTypeOK'
    BY <1>2, <1>4, <1>7, <1>10, <2>1, <2>2, NoPacketTypes
  <2> QED BY <1>8, <2>5, <2>6 DEF PacketInv
<1>12. CASE job.left # 1
  <2>1. /\ job' = [job EXCEPT !.addr = @ + 1, !.left = @ - 1, !.got = <<>>]
        /\ over' = over /\ back' = back
    BY <1>3, <1>12
  <2>2. /\ job.left > 1 /\ job.left - 1 \in 1 .. MaxData
        /\ asked.addr <= x + 1 /\ (x + 1) + (job.left - 1) = asked.addr + asked.n
        /\ asked.n - (job.left - 1) = j + 1
    <3> DEFINE l == job.left
               a == asked.addr
               n == asked.n
    <3>1. l \in 1 .. 7 /\ l \in 1 .. MaxData /\ a \in 0 .. 7 /\ n \in 1 .. 7 /\ l # 1 /\ MaxData \in 1 .. 7
          /\ a <= x /\ x + l = a + n /\ x - a = j /\ x \in 0 .. 7 /\ j \in Nat
      BY <1>1, <1>4, <1>12, Digits DEF Job
    <3> HIDE DEF l, a, n, x, j
    <3>2. l > 1 /\ l - 1 \in 1 .. MaxData /\ a <= x + 1 /\ (x + 1) + (l - 1) = a + n /\ n - (l - 1) = j + 1
      BY <3>1
    <3> QED BY <3>2 DEF l, a, n
  <2>3. job' = [binary |-> job.binary, addr |-> x + 1, left |-> job.left - 1, got |-> <<>>]
    BY <1>4, <2>1 DEF Job
  <2>4. /\ job' \in Job /\ job'.addr = x + 1 /\ job'.left = job.left - 1 /\ job'.got = <<>>
        /\ job'.binary = job.binary /\ Len(job'.got) = 0
    BY <1>1, <2>2, <2>3, EmptySeq DEF Job
  <2>5. ASSUME up PROVE Progress(asked)'
    <3>1. /\ Value(b) = asked.data[j + 1]
          /\ \E p \in [0 .. asked.n -> 0 .. Len(Text(asked.op, asked.data))] :
                /\ Layout(p, Forms(asked.op, asked.data), Text(asked.op, asked.data))
                /\ Carries(wire', up', 0, Message(asked), 5 + p[j + 1] + 0)
      BY <2>5, ValueMeant DEF Taken
    <3>2. Done(asked)' = j + 1
      BY <1>2, <2>2, <2>4 DEF Done
    <3>3. \A y \in Address : asked.addr <= y /\ y < job'.addr => mem'[y] = asked.data[y - asked.addr + 1]
      BY <1>9, <2>4, <2>5
    <3> HIDE DEF j, x
    <3> QED BY <1>2, <2>4, <3>1, <3>2, <3>3 DEF Progress
  <2>6. Writing'
    <3>1. back' = Sent(<<ACK>>)'
      BY <1>2, <2>1 DEF Writing, Sent
    <3>2. /\ asked' # None /\ asked'.op \in {M, X} /\ ~active'
          /\ job'.binary = (asked'.op = X) /\ asked'.addr <= job'.addr
          /\ job'.addr + job'.left = asked'.addr + asked'.n
      BY <1>2, <1>10, <2>2, <2>4 DEF Writing
    <3>3. Len(job'.got) <= 1 /\ (job'.got # <<>> /\ job'.binary => job'.got[1] = ESC)
      BY <2>4
    <3> QED BY <1>2, <1>10, <2>4, <2>5, <3>1, <3>2, <3>3 DEF Writing
  <2>7. PacketTypeOK'
    <3>1. Len(back) <= 2 /\ Len(ip_buf') < BufSize /\ ip_buf' \in Seq(Byte)
      BY <1>2 DEF PacketInv, PacketTypeOK
    <3> QED BY <1>2, <1>4, <1>7, <2>1, <2>4, <3>1 DEF PacketInv, PacketTypeOK
  <2> QED BY <1>8, <2>6, <2>7 DEF PacketInv
<1> QED BY <1>11, <1>12

-----------------------------------------------------------------------------
(* Every step, and what follows *)

(* Every step of the program in every state of the invariant: whether a     *)
(* write is going on, a packet, or nothing.                                 *)
LEMMA ReadInv ==
    ASSUME PacketInv, Read
    PROVE  PacketInv' /\ (mem' = mem \/ Remote!Apply \/ Remote!Tear)
<1> DEFINE b == Head(wire)
<1>1. /\ Quiet(b) /\ ~over
      /\ IF job # None THEN Datum(b) ELSE EndPacket(b) \/ StartPacket(b) \/ Collect(b) \/ Ignore(b)
  BY DEF Read, Quiet
<1>2. b \in Byte /\ (wire \in Seq(Payload) => wire' \in Seq(Payload))
  BY <1>1, FirstByte DEF Quiet
<1> HIDE DEF b
<1>3. CASE Unasked \/ Answered
  BY <1>1, <1>3, IgnoreInv DEF Unasked, Answered, Idle
<1>4. CASE Waiting
  BY <1>1, <1>4, WaitInv DEF Waiting, Idle
<1>5. CASE Collecting
  <2>1. job = None /\ active
    BY <1>5 DEF Collecting
  <2>2. EndPacket(b) \/ Collect(b)
    BY <1>1, <2>1 DEF StartPacket, Ignore
  <2> QED BY <1>1, <1>5, <2>2, EndInv, CollectInv
<1>6. CASE Writing
  <2>1. job # None
    BY <1>6, JobFacts
  <2>2. Datum(b) /\ Taken(b)
    BY <1>1, <1>2, <1>6, <2>1 DEF Taken, Quiet, Writing
  <2> QED BY <1>6, <2>2, HalfInv, WriteInv
<1> QED BY <1>3, <1>4, <1>5, <1>6 DEF PacketInv

(* A read that fails: in the loop of a write it yields a byte, so that the  *)
(* write goes on; otherwise the program returns.                            *)
LEMMA ReadFailsInv ==
    ASSUME PacketInv, ReadFails
    PROVE  PacketInv' /\ (mem' = mem \/ Remote!Apply \/ Remote!Tear)
<1>1. /\ ~over /\ ~up /\ wire' = wire /\ up' = up /\ asked' = asked /\ heard' = heard /\ meant' = meant
  BY DEF ReadFails, host
<1>2. CASE job # None
  <2>1. Writing
    BY <1>2 DEF PacketInv, Unasked, Waiting, Collecting, Answered, Idle
  <2>2. PICK b \in Junk : Datum(b)
    BY <1>2 DEF ReadFails
  <2>3. Taken(b)
    BY <1>1, <2>1, <2>2, Digits DEF Taken, Writing, host
  <2> QED BY <2>1, <2>2, <2>3, HalfInv, WriteInv
<1>3. CASE job = None
  <2>1. /\ over' = TRUE /\ active' = active /\ ip_buf' = ip_buf /\ job' = job /\ back' = back
        /\ mem' = mem /\ regs' = regs
    BY <1>3 DEF ReadFails
  <2>2. PacketTypeOK'
    BY <1>1, <2>1 DEF PacketInv, PacketTypeOK
  <2>3. CASE Unasked
    BY <1>1, <2>1, <2>2, <2>3 DEF Unasked, Idle, PacketInv
  <2>4. CASE Waiting
    BY <1>1, <2>1, <2>2, <2>4 DEF Waiting, Idle, Carries, PacketInv
  <2>5. CASE Collecting
    BY <1>1, <2>1, <2>2, <2>5 DEF Collecting, Carries, PacketInv
  <2>6. CASE Writing
    BY <1>3, <2>6, JobFacts
  <2>7. CASE Answered
    <3>1. Answered'
      BY <1>1, <2>1, <2>7 DEF Answered, Idle
    <3> QED BY <2>1, <2>2, <3>1 DEF PacketInv
  <2>8. Unasked \/ Waiting \/ Collecting \/ Writing \/ Answered
    BY DEF PacketInv
  <2> QED BY <2>1, <2>3, <2>4, <2>5, <2>6, <2>7, <2>8
<1> QED BY <1>2, <1>3

(* The invariant and the promise are about nothing but the state.           *)
LEMMA PacketUnchanged ==
    ASSUME PacketInv, UNCHANGED packetVars
    PROVE  PacketInv' /\ UNCHANGED Remote!vars
<1>1. /\ asked' = asked /\ wire' = wire /\ back' = back /\ up' = up /\ active' = active
      /\ ip_buf' = ip_buf /\ job' = job /\ over' = over /\ mem' = mem /\ regs' = regs
      /\ heard' = heard /\ meant' = meant
  BY DEF packetVars, line, stub, host
<1>2. PacketTypeOK'
  BY <1>1 DEF PacketInv, PacketTypeOK
<1>3. (Unasked \/ Waiting \/ Collecting \/ Writing \/ Answered)'
  <2>1. CASE Unasked
    BY <1>1, <2>1 DEF Unasked, Idle
  <2>2. CASE Waiting
    BY <1>1, <2>2 DEF Waiting, Idle, Carries
  <2>3. CASE Collecting
    BY <1>1, <2>3 DEF Collecting, Carries
  <2>4. CASE Writing
    <3>1. up => Progress(asked)'
      BY <1>1, <2>4 DEF Writing, Progress, Carries, Done
    <3>2. Sent(<<ACK>>)' = Sent(<<ACK>>)
      BY <1>1 DEF Sent
    <3> QED BY <1>1, <2>4, <3>1, <3>2 DEF Writing
  <2>5. CASE Answered
    <3>1. Remote!Expected(asked)' = Remote!Expected(asked) /\ Remote!Applied(asked)' = Remote!Applied(asked)
      BY <1>1 DEF Remote!Expected, Remote!Applied, Remote!Range, Remote!Written
    <3> QED BY <1>1, <2>5, <3>1 DEF Answered, Idle
  <2> QED BY <2>1, <2>2, <2>3, <2>4, <2>5 DEF PacketInv
<1> QED BY <1>1, <1>2, <1>3 DEF PacketInv, Remote!vars

(* Every step keeps the invariant.                                          *)
LEMMA PacketStep ==
    ASSUME PacketInv, [PacketNext]_packetVars
    PROVE  PacketInv'
<1>1. CASE UNCHANGED packetVars
  BY <1>1, PacketUnchanged
<1>2. ASSUME NEW c \in Request, Ask(c) PROVE PacketInv'
  BY <1>2, AskInv
<1>3. CASE Hear
  BY <1>3, HearInv
<1>4. CASE Lose
  BY <1>4, LoseInv
<1>5. CASE Read
  BY <1>5, ReadInv
<1>6. CASE ReadFails
  BY <1>6, ReadFailsInv
<1>7. CASE Returned
  BY <1>7, PacketUnchanged DEF Returned
<1> QED BY <1>1, <1>2, <1>3, <1>4, <1>5, <1>6, <1>7 DEF PacketNext

(* Whatever is sent and wherever the line is lost, the stub and the host    *)
(* agree on where in a packet they are: the invariant of                    *)
(* lm32gdb_process_gdb().                                                   *)
THEOREM PacketsInStep == PacketSpec => []PacketInv
<1>1. PacketInit => PacketInv
  BY PacketInitInv
<1>2. PacketInv /\ [PacketNext]_packetVars => PacketInv'
  BY PacketStep
<1> QED BY <1>1, <1>2, PTL DEF PacketSpec

(* The state of the connection has its types: lm32gdb_process_gdb() stays   *)
(* within its buffer, and lm32gdb_write_mem() within memory, whatever the   *)
(* host sends and wherever the line is lost.                                *)
THEOREM PacketTypes == PacketSpec => []PacketTypeOK
<1>1. PacketInv => PacketTypeOK
  BY DEF PacketInv
<1> QED BY <1>1, PacketsInStep, PTL

(* A session begins as it is promised to.                                   *)
LEMMA RemoteInit == PacketInit => Remote!Init
<1> SUFFICES ASSUME PacketInit PROVE Remote!Init
  OBVIOUS
<1>1. mem \in [Address -> Byte]
  BY PacketInitInv DEF PacketInv, PacketTypeOK
<1> QED BY <1>1 DEF PacketInit, Remote!Init

(* Every step of the connection is one of the promise, or none: a byte read *)
(* of a packet, an escape or half of a byte is none.                        *)
LEMMA RemoteStep ==
    ASSUME PacketInv, [PacketNext]_packetVars
    PROVE  [Remote!Next]_(Remote!vars)
<1>1. CASE UNCHANGED packetVars
  BY <1>1, PacketUnchanged
<1>2. ASSUME NEW c \in Request, Ask(c) PROVE Remote!Ask(c)
  BY <1>2 DEF Ask, Remote!Ask
<1>3. CASE Hear
  <2>1. asked.op # k /\ back[2] = Remote!Expected(asked) /\ Remote!Applied(asked) /\ asked # None
    BY <1>3, HearFinds DEF Answered
  <2> QED BY <1>3, <2>1 DEF Hear, Remote!Answer, Remote!Next
<1>4. CASE Lose
  BY <1>4 DEF Lose, host, Remote!Close, Remote!Next
<1>5. CASE Read
  BY <1>5, ReadInv DEF Read, host, Remote!Next, Remote!vars
<1>6. CASE ReadFails
  BY <1>6, ReadFailsInv DEF ReadFails, host, Remote!Next, Remote!vars
<1>7. CASE Returned
  BY <1>7, PacketUnchanged DEF Returned
<1> QED BY <1>1, <1>2, <1>3, <1>4, <1>5, <1>6, <1>7 DEF PacketNext, Remote!Next

(* ServesAsAsked without its fairness: with packets of any length, buffers  *)
(* and data, each command takes effect once, in order, before its own       *)
(* answer, and a line lost in a write damages nothing beyond its range.     *)
THEOREM ServesOnlyAsAsked == PacketSpec => Remote!Safe
<1>1. PacketInit => Remote!Init
  BY RemoteInit
<1>2. PacketInv /\ [PacketNext]_packetVars => [Remote!Next]_(Remote!vars)
  BY RemoteStep
<1> QED BY <1>1, <1>2, PacketsInStep, PTL DEF PacketSpec, Remote!Safe
=============================================================================
