----------------------- MODULE Instructions65816Proofs -----------------------
(***************************************************************************)
(* The flags, the index registers and the page of the stack agree, every   *)
(* handler samples the interrupts once, and a return takes the frame its   *)
(* call has left, for every sequence of instructions and interrupts, any   *)
(* page size and any number of pages.                                      *)
(***************************************************************************)
EXTENDS Instructions65816, FiniteSetTheorems, FunctionTheorems, TLAPS

Wandering == {"pushN", "pullN"}

\* The cycles of every addressing mode, write, jump, ... are cycles.
LEMMA TableCycles ==
  ASSUME NEW S, {"fetch", "read", "idle"} \subseteq S, NEW index \in Seq(S)
  PROVE  /\ \A mode \in DirectModes : DirectAddress(index)[mode] \in Seq(S)
         /\ \A mode \in {"immediate", "bank", "bankIndexed", "long", "stack", "indirectStack"} :
              OtherAddress(index)[mode] \in Seq(S)
<1>1. "fetch" \in S /\ "read" \in S /\ "idle" \in S
  OBVIOUS
<1>2. <<"read", "read">> \o index \in Seq(S) /\ <<"fetch", "fetch">> \o index \in Seq(S)
  BY <1>1
<1> DEFINE byRead == <<"read", "read">> \o index
           byFetch == <<"fetch", "fetch">> \o index
<1>3. byRead \in Seq(S) /\ byFetch \in Seq(S)
  BY <1>2
<1>4. DirectAddress(index) =
        [direct |-> <<>>, directIndexed |-> <<"idle">>, indirect |-> <<"read", "read">>,
         indexedIndirect |-> <<"idle", "read", "read">>, indirectIndexed |-> byRead,
         indirectLong |-> <<"read", "read", "read">>]
  BY Zenon DEF DirectAddress
<1>5. OtherAddress(index) =
        [immediate |-> <<>>, bank |-> <<"fetch", "fetch">>, bankIndexed |-> byFetch,
         long |-> <<"fetch", "fetch", "fetch">>, stack |-> <<"fetch", "idle">>,
         indirectStack |-> <<"fetch", "idle", "read", "read", "idle">>]
  BY Zenon DEF OtherAddress
<1> HIDE DEF byRead, byFetch
<1> QED
  BY <1>1, <1>3, <1>4, <1>5 DEF DirectModes

LEMMA AddressCycles ==
  ASSUME NEW S, {"fetch", "read", "idle"} \subseteq S,
         NEW o \in ReadOps \cup WriteOps \cup ModifyOps, NEW low \in BOOLEAN, NEW crosses \in BOOLEAN
  PROVE  Address(o.mode, o.does, low, crosses) \in Seq(S)
<1> DEFINE index == IndexIdle(o.does, crosses)
<1>1. index \in Seq(S)
  BY DEF IndexIdle, Opt
<1>2. <<"fetch">> \o Opt(low, "idle") \in Seq(S)
  BY DEF Opt
<1>3. o.mode \in DirectModes \cup
        {"immediate", "bank", "bankIndexed", "long", "stack", "indirectStack"}
  BY DEF ReadOps, WriteOps, ModifyOps, Kind, AddressModes, DirectModes
<1> HIDE DEF index
<1>4. o.mode \in DirectModes => DirectAddress(index)[o.mode] \in Seq(S)
  BY <1>1, TableCycles
<1>5. o.mode \notin DirectModes => OtherAddress(index)[o.mode] \in Seq(S)
  BY <1>1, <1>3, TableCycles
<1> QED
  BY <1>2, <1>4, <1>5 DEF Address, index

LEMMA DataCycles ==
  ASSUME NEW S, Cycles \ Wandering \subseteq S,
         NEW o \in ReadOps \cup WriteOps \cup ModifyOps, NEW low \in BOOLEAN, NEW crosses \in BOOLEAN
  PROVE  Body(o, low, crosses) \in Seq(S)
<1>1. Address(o.mode, o.does, low, crosses) \in Seq(S)
  <2>1. {"fetch", "read", "idle"} \subseteq S
    BY DEF Cycles, Wandering
  <2> QED
    BY <2>1, AddressCycles
<1>2. Modify(Narrow(o.width)) \in Seq(S)
  BY DEF Modify, Cycles, Wandering
<1>3. \A k \in {"fetch", "read", "write"} : Access(k, Narrow(o.width)) \in Seq(S)
  BY DEF Access, Cycles, Wandering
<1>4. o.does \in {"read", "write", "modify"}
  BY DEF ReadOps, WriteOps, ModifyOps, Kind
<1>5. Data(o, low, crosses) \in Seq(S)
  BY <1>1, <1>2, <1>3, <1>4 DEF Data
<1> QED
  BY <1>4, <1>5 DEF Body

LEMMA OtherCycles ==
  ASSUME NEW S, Cycles \ Wandering \subseteq S,
         NEW o \in StackOps \cup OtherOps \cup {SoftwareInterrupt, HardwareInterrupt},
         NEW low \in BOOLEAN, NEW crosses \in BOOLEAN,
         Wandering \subseteq S \/ (reg.e /\ ~Repairs(o))
  PROVE  Body(o, low, crosses) \in Seq(S)
<1>1. /\ "fetch" \in S /\ "read" \in S /\ "write" \in S /\ "idle" \in S /\ "idleIRQ" \in S
      /\ "push" \in S /\ "pull" \in S /\ "pullP" \in S /\ "sample" \in S
  BY DEF Cycles, Wandering
<1>2. Repairs(o) \/ ~reg.e => "pushN" \in S /\ "pullN" \in S
  BY DEF Wandering
<1>3. CASE o.does = "jump"
  <2>1. o.mode \in {"branchNot", "branch", "branchLong", "short", "long", "indirect",
                    "indexedIndirect", "indirectLong"}
    BY <1>3 DEF StackOps, OtherOps, SoftwareInterrupt, HardwareInterrupt, Kind
  <2>2. Jump(crosses)[o.mode] \in Seq(S)
    <3>1. CASE o.mode = "branchNot"
      BY <1>1, <1>2, <1>3, <3>1 DEF Jump, Opt
    <3>2. CASE o.mode = "branch"
      BY <1>1, <1>2, <1>3, <3>2 DEF Jump, Opt
    <3>3. CASE o.mode = "branchLong"
      BY <1>1, <1>2, <1>3, <3>3 DEF Jump, Opt
    <3>4. CASE o.mode = "short"
      BY <1>1, <1>2, <1>3, <3>4 DEF Jump, Opt
    <3>5. CASE o.mode = "long"
      BY <1>1, <1>2, <1>3, <3>5 DEF Jump, Opt
    <3>6. CASE o.mode = "indirect"
      BY <1>1, <1>2, <1>3, <3>6 DEF Jump, Opt
    <3>7. CASE o.mode = "indexedIndirect"
      BY <1>1, <1>2, <1>3, <3>7 DEF Jump, Opt
    <3>8. CASE o.mode = "indirectLong"
      BY <1>1, <1>2, <1>3, <3>8 DEF Jump, Opt
    <3> QED
      BY <2>1, <3>1, <3>2, <3>3, <3>4, <3>5, <3>6, <3>7, <3>8
  <2> QED
    BY <1>3, <2>2 DEF Body
<1>4. CASE o.does = "call"
  <2>1. o.mode \in {"short", "long", "indexed"}
    BY <1>4 DEF StackOps, OtherOps, SoftwareInterrupt, HardwareInterrupt, Kind
  <2>2. Call[o.mode] \in Seq(S)
    <3>1. CASE o.mode = "short"
      BY <1>1, <1>2, <1>4, <3>1 DEF Call, Repairs
    <3>2. CASE o.mode = "long"
      BY <1>1, <1>2, <1>4, <3>2 DEF Call, Repairs
    <3>3. CASE o.mode = "indexed"
      BY <1>1, <1>2, <1>4, <3>3 DEF Call, Repairs
    <3> QED
      BY <2>1, <3>1, <3>2, <3>3
  <2> QED
    BY <1>4, <2>2 DEF Body
<1>5. CASE o.does = "return"
  <2>1. o.mode \in {"interrupt", "short", "long"}
    BY <1>5 DEF StackOps, OtherOps, SoftwareInterrupt, HardwareInterrupt, Kind
  <2>2. Return[o.mode] \in Seq(S)
    <3>1. CASE o.mode = "interrupt"
      BY <1>1, <1>2, <1>5, <3>1 DEF Return, Repairs, Opt
    <3>2. CASE o.mode = "short"
      BY <1>1, <1>2, <1>5, <3>2 DEF Return, Repairs, Opt
    <3>3. CASE o.mode = "long"
      BY <1>1, <1>2, <1>5, <3>3 DEF Return, Repairs, Opt
    <3> QED
      BY <2>1, <3>1, <3>2, <3>3
  <2> QED
    BY <1>5, <2>2 DEF Body
<1>6. CASE o.does = "interrupt"
  <2>1. Interrupt(o.mode) \in Seq(S)
    <3>1. Opt(~reg.e, "pushN") \in Seq(S)
      BY <1>2 DEF Opt
    <3>2. <<"push", "push", "push", "read", "sample", "read">> \in Seq(S)
      BY <1>1
    <3>3. <<"fetch">> \in Seq(S) /\ <<"read", "idle">> \in Seq(S)
      BY <1>1
    <3> QED
      BY <3>1, <3>2, <3>3 DEF Interrupt
  <2> QED
    BY <1>6, <2>1 DEF Body
<1>7. CASE o.does = "push"
  <2>1. o.mode \in {"register", "byte", "direct", "effective", "effectiveIndirect",
                    "effectiveRelative"}
    BY <1>7 DEF StackOps, OtherOps, SoftwareInterrupt, HardwareInterrupt, Kind
  <2>2. Push(o.width, low)[o.mode] \in Seq(S)
    <3>1. CASE o.mode = "register"
      BY <1>1, <1>2, <1>7, <3>1 DEF Push, Repairs, Opt, Access
    <3>2. CASE o.mode = "byte"
      BY <1>1, <1>2, <1>7, <3>2 DEF Push, Repairs, Opt, Access
    <3>3. CASE o.mode = "direct"
      BY <1>1, <1>2, <1>7, <3>3 DEF Push, Repairs, Opt, Access
    <3>4. CASE o.mode = "effective"
      BY <1>1, <1>2, <1>7, <3>4 DEF Push, Repairs, Opt, Access
    <3>5. CASE o.mode = "effectiveIndirect"
      BY <1>1, <1>2, <1>7, <3>5 DEF Push, Repairs, Opt, Access
    <3>6. CASE o.mode = "effectiveRelative"
      BY <1>1, <1>2, <1>7, <3>6 DEF Push, Repairs, Opt, Access
    <3> QED
      BY <2>1, <3>1, <3>2, <3>3, <3>4, <3>5, <3>6
  <2> QED
    BY <1>7, <2>2 DEF Body
<1>8. CASE o.does = "pull"
  <2>1. o.mode \in {"register", "flags", "bank", "direct"}
    BY <1>8 DEF StackOps, OtherOps, SoftwareInterrupt, HardwareInterrupt, Kind
  <2>2. Pull(o.width)[o.mode] \in Seq(S)
    <3>1. CASE o.mode = "register"
      BY <1>1, <1>2, <1>8, <3>1 DEF Pull, Repairs, Access
    <3>2. CASE o.mode = "flags"
      BY <1>1, <1>2, <1>8, <3>2 DEF Pull, Repairs, Access
    <3>3. CASE o.mode = "bank"
      BY <1>1, <1>2, <1>8, <3>3 DEF Pull, Repairs, Access
    <3>4. CASE o.mode = "direct"
      BY <1>1, <1>2, <1>8, <3>4 DEF Pull, Repairs, Access
    <3> QED
      BY <2>1, <3>1, <3>2, <3>3, <3>4
  <2> QED
    BY <1>8, <2>2 DEF Body
<1>9. CASE o.does = "other"
  <2>1. o.mode \in Implied \cup {"WDM", "XBA", "REP", "SEP", "blockMove", "STP", "WAI"}
    BY <1>9 DEF StackOps, OtherOps, SoftwareInterrupt, HardwareInterrupt, Kind, Implied
  <2>2. Other(o.mode) \in Seq(S)
    <3>1. CASE o.mode \in Implied
      BY <1>1, <3>1 DEF Other
    <3>2. CASE o.mode = "WDM"
      BY <1>1, <3>2 DEF Other, Implied
    <3>3. CASE o.mode = "XBA"
      BY <1>1, <3>3 DEF Other, Implied
    <3>4. CASE o.mode = "REP"
      BY <1>1, <3>4 DEF Other, Implied
    <3>5. CASE o.mode = "SEP"
      BY <1>1, <3>5 DEF Other, Implied
    <3>6. CASE o.mode = "blockMove"
      BY <1>1, <3>6 DEF Other, Implied
    <3>7. CASE o.mode = "STP"
      BY <1>1, <3>7 DEF Other, Implied
    <3>8. CASE o.mode = "WAI"
      BY <1>1, <3>8 DEF Other, Implied
    <3> QED
      BY <2>1, <3>1, <3>2, <3>3, <3>4, <3>5, <3>6, <3>7, <3>8
  <2> QED
    BY <1>9, <2>2 DEF Body
<1>10. o.does \in {"jump", "call", "return", "interrupt", "push", "pull", "other"}
  BY DEF StackOps, OtherOps, SoftwareInterrupt, HardwareInterrupt, Kind
<1> QED
  BY <1>3, <1>4, <1>5, <1>6, <1>7, <1>8, <1>9, <1>10

\* The last of an instruction's cycles is not the call of lastCycle.
Ended(s) == s # <<>> /\ s[Len(s)] # "sample"

\* The call of lastCycle is made once, right before the last cycle.
SampledLast(s) ==
  /\ Len(s) >= 2
  /\ \A i \in 1 .. Len(s) : s[i] = "sample" <=> i = Len(s) - 1

Quiet == Cycles \ {"sample"}

LEMMA EndedAfter ==
  ASSUME NEW s \in Seq(Cycles), NEW u \in Seq(Cycles), Ended(u)
  PROVE  Ended(s \o u)
<1>1. Len(u) \in Nat /\ Len(u) > 0 /\ Len(s) \in Nat
  BY DEF Ended
<1>2. Len(s \o u) = Len(s) + Len(u) /\ (s \o u)[Len(s) + Len(u)] = u[Len(u)]
  BY <1>1
<1> QED
  BY <1>1, <1>2 DEF Ended

LEMMA SampledAfter ==
  ASSUME NEW s \in Seq(Quiet), NEW u \in Seq(Cycles), SampledLast(u)
  PROVE  SampledLast(s \o u)
<1>1. Len(u) \in Nat /\ Len(u) >= 2 /\ Len(s) \in Nat
  BY DEF SampledLast
<1>2. /\ Len(s \o u) = Len(s) + Len(u)
      /\ \A i \in 1 .. Len(s) + Len(u) : (s \o u)[i] = IF i <= Len(s) THEN s[i] ELSE u[i - Len(s)]
  BY <1>1
<1> DEFINE w == s \o u
<1>3. \A i \in 1 .. Len(s) : s[i] # "sample"
  BY DEF Quiet
<1> HIDE DEF w
<1>4. ASSUME NEW i \in 1 .. Len(s) + Len(u)
      PROVE  w[i] = "sample" <=> i = Len(s) + Len(u) - 1
  <2>1. CASE i <= Len(s)
    BY <1>1, <1>2, <1>3, <2>1 DEF w
  <2>2. CASE i > Len(s)
    <3>1. PICK j \in 1 .. Len(u) : j = i - Len(s) /\ w[i] = u[j]
      BY <1>1, <1>2, <2>2 DEF w
    <3>2. u[j] = "sample" <=> j = Len(u) - 1
      BY DEF SampledLast
    <3> QED
      BY <1>1, <3>1, <3>2
  <2> QED
    BY <1>1, <2>1, <2>2
<1> QED
  BY <1>1, <1>2, <1>4 DEF SampledLast, w

LEMMA SampledEnds ==
  ASSUME NEW s \in Seq(Cycles), SampledLast(s)
  PROVE  Ended(s)
BY DEF SampledLast, Ended

LEMMA AccessSampled ==
  ASSUME NEW kind \in {"fetch", "read", "write", "push", "pull"}, NEW narrow
  PROVE  Access(kind, narrow) \in Seq(Cycles) /\ SampledLast(Access(kind, narrow))
<1>1. kind \in Cycles /\ "sample" \in Cycles /\ kind # "sample"
  BY DEF Cycles
<1>2. <<"sample", kind>> \in Seq(Cycles) /\ <<kind, "sample", kind>> \in Seq(Cycles)
  BY <1>1
<1>3. SampledLast(<<"sample", kind>>) /\ SampledLast(<<kind, "sample", kind>>)
  BY <1>1 DEF SampledLast
<1> QED
  BY <1>2, <1>3 DEF Access

LEMMA DataSampled ==
  ASSUME NEW o \in ReadOps \cup WriteOps \cup ModifyOps, NEW low \in BOOLEAN, NEW crosses \in BOOLEAN
  PROVE  SampledLast(Body(o, low, crosses))
<1>1. Address(o.mode, o.does, low, crosses) \in Seq(Quiet)
  BY AddressCycles DEF Quiet, Cycles
<1>2. Modify(Narrow(o.width)) \in Seq(Cycles) /\ SampledLast(Modify(Narrow(o.width)))
  <2>1. "read" \in Cycles /\ "idle" \in Cycles /\ "write" \in Cycles /\ "sample" \in Cycles
    BY DEF Cycles
  <2>2. Modify(Narrow(o.width)) \in Seq(Cycles)
    BY <2>1 DEF Modify
  <2>3. SampledLast(Modify(Narrow(o.width)))
    BY DEF Modify, SampledLast
  <2> QED
    BY <2>2, <2>3
<1>3. o.does \in {"read", "write", "modify"}
  BY DEF ReadOps, WriteOps, ModifyOps, Kind
<1>4. Body(o, low, crosses) = Data(o, low, crosses)
  BY <1>3 DEF Body
<1>5. CASE o.does = "modify"
  BY <1>1, <1>2, <1>4, <1>5, SampledAfter DEF Data
<1>6. CASE o.does # "modify"
  <2> DEFINE kind == IF o.mode = "immediate" THEN "fetch" ELSE o.does
  <2>1. kind \in {"fetch", "read", "write", "push", "pull"}
    BY <1>3, <1>6
  <2>2. Data(o, low, crosses) =
          Address(o.mode, o.does, low, crosses) \o Access(kind, Narrow(o.width))
    BY <1>6 DEF Data
  <2> HIDE DEF kind
  <2> QED
    BY <1>1, <1>4, <2>1, <2>2, AccessSampled, SampledAfter
<1> QED
  BY <1>5, <1>6

LEMMA OtherSampled ==
  ASSUME NEW o \in StackOps \cup OtherOps \cup {SoftwareInterrupt, HardwareInterrupt},
         NEW low \in BOOLEAN, NEW crosses \in BOOLEAN
  PROVE  IF o.mode \in {"WAI", "STP"} THEN Ended(Body(o, low, crosses))
         ELSE SampledLast(Body(o, low, crosses))
<1>1. CASE o.does = "jump"
  <2>1. o.mode \in {"branchNot", "branch", "branchLong", "short", "long", "indirect",
                    "indexedIndirect", "indirectLong"}
    BY <1>1 DEF StackOps, OtherOps, SoftwareInterrupt, HardwareInterrupt, Kind
  <2>2. SampledLast(Jump(crosses)[o.mode])
    <3>1. CASE o.mode = "branchNot"
      BY <3>1 DEF Jump, Opt, SampledLast
    <3>2. CASE o.mode = "branch"
      BY <3>2 DEF Jump, Opt, SampledLast
    <3>3. CASE o.mode = "branchLong"
      BY <3>3 DEF Jump, Opt, SampledLast
    <3>4. CASE o.mode = "short"
      BY <3>4 DEF Jump, Opt, SampledLast
    <3>5. CASE o.mode = "long"
      BY <3>5 DEF Jump, Opt, SampledLast
    <3>6. CASE o.mode = "indirect"
      BY <3>6 DEF Jump, Opt, SampledLast
    <3>7. CASE o.mode = "indexedIndirect"
      BY <3>7 DEF Jump, Opt, SampledLast
    <3>8. CASE o.mode = "indirectLong"
      BY <3>8 DEF Jump, Opt, SampledLast
    <3> QED
      BY <2>1, <3>1, <3>2, <3>3, <3>4, <3>5, <3>6, <3>7, <3>8
  <2>3. Body(o, low, crosses) = Jump(crosses)[o.mode]
    BY <1>1 DEF Body
  <2> QED
    BY <2>1, <2>2, <2>3
<1>2. CASE o.does = "call"
  <2>1. o.mode \in {"short", "long", "indexed"}
    BY <1>2 DEF StackOps, OtherOps, SoftwareInterrupt, HardwareInterrupt, Kind
  <2>2. SampledLast(Call[o.mode])
    <3>1. CASE o.mode = "short"
      BY <3>1 DEF Call, SampledLast
    <3>2. CASE o.mode = "long"
      BY <3>2 DEF Call, SampledLast
    <3>3. CASE o.mode = "indexed"
      BY <3>3 DEF Call, SampledLast
    <3> QED
      BY <2>1, <3>1, <3>2, <3>3
  <2>3. Body(o, low, crosses) = Call[o.mode]
    BY <1>2 DEF Body
  <2> QED
    BY <2>1, <2>2, <2>3
<1>3. CASE o.does = "return"
  <2>1. o.mode \in {"interrupt", "short", "long"}
    BY <1>3 DEF StackOps, OtherOps, SoftwareInterrupt, HardwareInterrupt, Kind
  <2>2. SampledLast(Return[o.mode])
    <3>1. CASE o.mode = "interrupt"
      BY <3>1 DEF Return, Opt, SampledLast
    <3>2. CASE o.mode = "short"
      BY <3>2 DEF Return, Opt, SampledLast
    <3>3. CASE o.mode = "long"
      BY <3>3 DEF Return, Opt, SampledLast
    <3> QED
      BY <2>1, <3>1, <3>2, <3>3
  <2>3. Body(o, low, crosses) = Return[o.mode]
    BY <1>3 DEF Body
  <2> QED
    BY <2>1, <2>2, <2>3
<1>4. CASE o.does = "push"
  <2>1. o.mode \in {"register", "byte", "direct", "effective", "effectiveIndirect",
                    "effectiveRelative"}
    BY <1>4 DEF StackOps, OtherOps, SoftwareInterrupt, HardwareInterrupt, Kind
  <2>2. SampledLast(Push(o.width, low)[o.mode])
    <3>1. CASE o.mode = "register"
      BY <3>1 DEF Push, Access, Opt, SampledLast
    <3>2. CASE o.mode = "byte"
      BY <3>2 DEF Push, Access, Opt, SampledLast
    <3>3. CASE o.mode = "direct"
      BY <3>3 DEF Push, Access, Opt, SampledLast
    <3>4. CASE o.mode = "effective"
      BY <3>4 DEF Push, Access, Opt, SampledLast
    <3>5. CASE o.mode = "effectiveIndirect"
      BY <3>5 DEF Push, Access, Opt, SampledLast
    <3>6. CASE o.mode = "effectiveRelative"
      BY <3>6 DEF Push, Access, Opt, SampledLast
    <3> QED
      BY <2>1, <3>1, <3>2, <3>3, <3>4, <3>5, <3>6
  <2>3. Body(o, low, crosses) = Push(o.width, low)[o.mode]
    BY <1>4 DEF Body
  <2> QED
    BY <2>1, <2>2, <2>3
<1>5. CASE o.does = "pull"
  <2>1. o.mode \in {"register", "flags", "bank", "direct"}
    BY <1>5 DEF StackOps, OtherOps, SoftwareInterrupt, HardwareInterrupt, Kind
  <2>2. SampledLast(Pull(o.width)[o.mode])
    <3>1. CASE o.mode = "register"
      BY <3>1 DEF Pull, Access, SampledLast
    <3>2. CASE o.mode = "flags"
      BY <3>2 DEF Pull, Access, SampledLast
    <3>3. CASE o.mode = "bank"
      BY <3>3 DEF Pull, Access, SampledLast
    <3>4. CASE o.mode = "direct"
      BY <3>4 DEF Pull, Access, SampledLast
    <3> QED
      BY <2>1, <3>1, <3>2, <3>3, <3>4
  <2>3. Body(o, low, crosses) = Pull(o.width)[o.mode]
    BY <1>5 DEF Body
  <2> QED
    BY <2>1, <2>2, <2>3
<1>6. CASE o.does = "interrupt"
  <2>1. SampledLast(Interrupt(o.mode))
    <3>1. (IF o.mode = "software" THEN <<"fetch">> ELSE <<"read", "idle">>) \in Seq(Quiet)
      <4>1. "fetch" \in Quiet /\ "read" \in Quiet /\ "idle" \in Quiet
        BY DEF Quiet, Cycles
      <4>2. <<"fetch">> \in Seq(Quiet) /\ <<"read", "idle">> \in Seq(Quiet)
        BY <4>1
      <4> QED
        BY <4>2
    <3>2. Opt(~reg.e, "pushN") \in Seq(Quiet)
      <4>1. "pushN" \in Quiet
        BY DEF Quiet, Cycles
      <4> QED
        BY <4>1 DEF Opt
    <3>3. <<"push", "push", "push", "read", "sample", "read">> \in Seq(Cycles)
      BY DEF Cycles
    <3>4. SampledLast(<<"push", "push", "push", "read", "sample", "read">>)
      BY DEF SampledLast
    <3>5. (IF o.mode = "software" THEN <<"fetch">> ELSE <<"read", "idle">>) \o Opt(~reg.e, "pushN")
            \in Seq(Quiet)
      BY <3>1, <3>2
    <3> QED
      BY <3>3, <3>4, <3>5, SampledAfter DEF Interrupt
  <2>2. Body(o, low, crosses) = Interrupt(o.mode)
    BY <1>6 DEF Body
  <2>3. o.mode \in {"software", "hardware"}
    BY <1>6 DEF StackOps, OtherOps, SoftwareInterrupt, HardwareInterrupt, Kind
  <2> QED
    BY <2>1, <2>2, <2>3
<1>7. CASE o.does = "other"
  <2>1. o.mode \in Implied \cup {"WDM", "XBA", "REP", "SEP", "blockMove", "STP", "WAI"}
    BY <1>7 DEF StackOps, OtherOps, SoftwareInterrupt, HardwareInterrupt, Kind, Implied
  <2>2. IF o.mode \in {"WAI", "STP"} THEN Ended(Other(o.mode)) ELSE SampledLast(Other(o.mode))
    <3>1. CASE o.mode \in Implied
      BY <3>1 DEF Other, Implied, SampledLast
    <3>2. CASE o.mode = "WDM"
      BY <3>2 DEF Other, Implied, SampledLast
    <3>3. CASE o.mode = "XBA"
      BY <3>3 DEF Other, Implied, SampledLast
    <3>4. CASE o.mode = "REP"
      BY <3>4 DEF Other, Implied, SampledLast
    <3>5. CASE o.mode = "SEP"
      BY <3>5 DEF Other, Implied, SampledLast
    <3>6. CASE o.mode = "blockMove"
      BY <3>6 DEF Other, Implied, SampledLast
    <3>7. CASE o.mode = "STP"
      BY <3>7 DEF Other, Implied, Ended
    <3>8. CASE o.mode = "WAI"
      BY <3>8 DEF Other, Implied, Ended
    <3> QED
      BY <2>1, <3>1, <3>2, <3>3, <3>4, <3>5, <3>6, <3>7, <3>8
  <2>3. Body(o, low, crosses) = Other(o.mode)
    BY <1>7 DEF Body
  <2> QED
    BY <2>2, <2>3
<1>8. o.does \in {"jump", "call", "return", "interrupt", "push", "pull", "other"}
  BY DEF StackOps, OtherOps, SoftwareInterrupt, HardwareInterrupt, Kind
<1> QED
  BY <1>1, <1>2, <1>3, <1>4, <1>5, <1>6, <1>7, <1>8

-----------------------------------------------------------------------------
LEMMA StackPages ==
  /\ Size \in Nat \ {0}
  /\ Page1 \subseteq Stack
  /\ \A s \in Int : s % Size \in Stack /\ InPage(s) \in Page1
  /\ \A s \in Stack : s \in Int /\ s % Size = s
<1>1. PageSize \in Nat /\ PageSize > 0 /\ Pages \in Nat /\ Pages >= 2
  BY StackAssumption
<1>2. Size \in Nat /\ Size >= PageSize * 2
  BY <1>1 DEF Size
<1>3. \A s \in Int : s % Size \in 0 .. Size - 1 /\ s % PageSize \in 0 .. PageSize - 1
  BY <1>1, <1>2
<1>4. \A s \in 0 .. Size - 1 : s % Size = s
  BY <1>1, <1>2
<1> QED
  BY <1>1, <1>2, <1>3, <1>4 DEF Stack, Page1, InPage

FlagsOK(r) ==
  /\ r.e => r.m /\ r.x
  /\ r.x => \A i \in Indexes : ~r.high[i]

\* One cycle moves the stack pointer at most, unless it pulls P, and takes it out of
\* its page only if it wanders.
LEMMA MovedInStack ==
  ASSUME reg \in Registers, NEW cycle
  PROVE  /\ Moved(cycle, reg.s) \in Stack
         /\ reg.e /\ reg.s \in Page1 /\ cycle \notin Wandering => Moved(cycle, reg.s) \in Page1
<1>1. reg.s \in Stack /\ reg.s \in Int
  BY StackPages DEF Registers
<1>2. By(cycle) \in Int /\ reg.s + By(cycle) \in Int
  BY <1>1 DEF By
<1>3. cycle \notin Wandering \cup {"push", "pull", "pullP"} => By(cycle) = 0
  BY DEF By, Wandering, Pushes, Pulls
<1>4. InPage(reg.s + By(cycle)) \in Page1 /\ (reg.s + By(cycle)) % Size \in Stack
  BY <1>2, StackPages
<1>5. By(cycle) = 0 => (reg.s + By(cycle)) % Size = reg.s
  BY <1>1, StackPages
<1> QED
  BY <1>3, <1>4, <1>5, StackPages DEF Moved

LEMMA WithPTyped ==
  ASSUME NEW r \in Registers, NEW m \in BOOLEAN, NEW x \in BOOLEAN
  PROVE  /\ WithP(r, m, x) \in Registers /\ FlagsOK(WithP(r, m, x))
         /\ WithP(r, m, x).e = r.e /\ WithP(r, m, x).s = r.s
<1> DEFINE h == [i \in Indexes |-> r.high[i] /\ ~(x \/ r.e)]
<1>1. h \in [Indexes -> BOOLEAN] /\ (x \/ r.e => \A i \in Indexes : ~h[i])
  BY Zenon
<1>2. (m \/ r.e) \in BOOLEAN /\ (x \/ r.e) \in BOOLEAN
  BY Zenon
<1>3. WithP(r, m, x) = [r EXCEPT !.m = m \/ r.e, !.x = x \/ r.e, !.high = h]
  BY Zenon DEF WithP
<1> HIDE DEF h
<1> QED
  <2>1. PICK nm, nx : nm = (m \/ r.e) /\ nx = (x \/ r.e)
    OBVIOUS
  <2>2. nm \in BOOLEAN /\ nx \in BOOLEAN
    BY <1>2, <2>1
  <2>3. WithP(r, m, x) = [r EXCEPT !.m = nm, !.x = nx, !.high = h]
    BY <1>3, <2>1
  <2>4. /\ WithP(r, m, x) \in Registers
        /\ WithP(r, m, x).e = r.e /\ WithP(r, m, x).s = r.s
        /\ WithP(r, m, x).m = nm /\ WithP(r, m, x).x = nx /\ WithP(r, m, x).high = h
    BY <1>1, <2>2, <2>3 DEF Registers
  <2>5. r.e => nm /\ nx
    BY <2>1
  <2>6. nx => \A i \in Indexes : ~h[i]
    BY <1>1, <2>1
  <2> QED
    BY <2>4, <2>5, <2>6, Zenon DEF FlagsOK

LEMMA CycleTyped ==
  ASSUME reg \in Registers, FlagsOK(reg), NEW cycle, NEW r \in AfterCycle(cycle)
  PROVE  /\ r \in Registers /\ FlagsOK(r)
         /\ r.e = reg.e /\ r.s = Moved(cycle, reg.s)
<1> DEFINE moved == [reg EXCEPT !.s = Moved(cycle, @)]
<1>1. /\ moved \in Registers /\ FlagsOK(moved)
      /\ moved.e = reg.e /\ moved.s = Moved(cycle, reg.s)
  BY MovedInStack DEF Registers, FlagsOK
<1> HIDE DEF moved
<1>2. r = moved \/ r \in PulledP(moved)
  BY DEF AfterCycle, moved
<1>3. CASE r = moved
  BY <1>1, <1>3
<1>4. CASE r \in PulledP(moved)
  <2>1. PICK m \in BOOLEAN, x \in BOOLEAN : r = WithP(moved, m, x)
    BY <1>4 DEF PulledP
  <2> QED
    BY <1>1, <2>1, WithPTyped
<1> QED
  BY <1>2, <1>3, <1>4

LEMMA LoadedTyped ==
  ASSUME NEW r \in Registers, FlagsOK(r), NEW I, NEW q \in Loaded(r, I)
  PROVE  q \in Registers /\ FlagsOK(q) /\ q.e = r.e /\ q.s = r.s
<1>1. CASE r.x
  BY <1>1 DEF Loaded
<1>2. CASE ~r.x
  <2>1. PICK h \in [Indexes -> BOOLEAN] : q = [r EXCEPT !.high = h]
    BY <1>2 DEF Loaded
  <2> QED
    BY <1>2, <2>1 DEF Registers, FlagsOK
<1> QED
  BY <1>1, <1>2

LEMMA SetSTyped ==
  ASSUME NEW r \in Registers, FlagsOK(r), NEW s \in Stack
  PROVE  /\ SetS(r, s) \in Registers /\ FlagsOK(SetS(r, s))
         /\ SetS(r, s).e => SetS(r, s).s \in Page1
<1>1. InPage(s) \in Page1 /\ InPage(s) \in Stack
  BY StackPages
<1> QED
  BY <1>1 DEF SetS, Registers, FlagsOK

LEMMA SetETyped ==
  ASSUME NEW r \in Registers, FlagsOK(r), NEW e \in BOOLEAN
  PROVE  /\ SetE(r, e) \in Registers /\ FlagsOK(SetE(r, e))
         /\ SetE(r, e).e => SetE(r, e).s \in Page1
<1>1. InPage(r.s) \in Page1 /\ InPage(r.s) \in Stack
  BY StackPages DEF Registers
<1>2. CASE e
  <2> DEFINE n == [r EXCEPT !.e = TRUE]
  <2>1. n \in Registers /\ n.e
    BY DEF Registers
  <2> HIDE DEF n
  <2>2. /\ WithP(n, TRUE, TRUE) \in Registers /\ FlagsOK(WithP(n, TRUE, TRUE))
    BY <2>1, WithPTyped
  <2>3. SetE(r, e) = [WithP(n, TRUE, TRUE) EXCEPT !.s = InPage(r.s)]
    BY <1>2 DEF SetE, n
  <2> QED
    BY <1>1, <2>2, <2>3 DEF Registers, FlagsOK
<1>3. CASE ~e
  BY <1>3 DEF SetE, Registers, FlagsOK
<1> QED
  BY <1>2, <1>3

\* What a handler leaves, from registers in which only the page may be wrong.
LEMMA EffectTyped ==
  ASSUME NEW r \in Registers, FlagsOK(r), NEW o \in Ops, NEW q \in Effect(o, r),
         r.e /\ ~Repairs(o) => r.s \in Page1
  PROVE  q \in Registers /\ FlagsOK(q) /\ (q.e => q.s \in Page1)
<1>1. r.s \in Stack
  BY DEF Registers
<1>2. CASE o.does = "other"
  <2>1. ~Repairs(o)
    BY <1>2 DEF Repairs
  <2>2. q \in OtherEffect(o, r)
    BY <1>2 DEF Effect
  <2>3. CASE o.mode = "TSX"
    <3>1. q = [r EXCEPT !.high["x"] = ~r.x /\ r.s >= PageSize]
      BY <2>2, <2>3 DEF OtherEffect
    <3> DEFINE b == ~r.x /\ r.s >= PageSize
    <3>2. b \in BOOLEAN /\ (r.x => ~b)
      BY Zenon
    <3>3. q = [r EXCEPT !.high = [r.high EXCEPT !["x"] = b]]
      BY <3>1, Zenon DEF b
    <3> HIDE DEF b
    <3> QED
      BY <2>1, <3>2, <3>3 DEF Registers, FlagsOK, Indexes
  <2>4. CASE o.mode \in {"TCS", "TXS"}
    <3>1. PICK s \in Stack : q = SetS(r, s)
      BY <2>2, <2>4 DEF OtherEffect, FromX
    <3> QED
      BY <3>1, SetSTyped
  <2>5. CASE o.mode = "XCE"
    <3>1. PICK e \in BOOLEAN : q = SetE(r, e)
      BY <2>2, <2>5 DEF OtherEffect
    <3> QED
      BY <3>1, SetETyped
  <2>6. CASE o.mode \in {"REP", "SEP"}
    <3>1. PICK m \in BOOLEAN, x \in BOOLEAN :
            q = WithP(r, r.m /\ m, r.x /\ x) \/ q = WithP(r, r.m \/ m, r.x \/ x)
      BY <2>2, <2>6 DEF OtherEffect
    <3>2. /\ (r.m /\ m) \in BOOLEAN /\ (r.x /\ x) \in BOOLEAN
          /\ (r.m \/ m) \in BOOLEAN /\ (r.x \/ x) \in BOOLEAN
      BY Zenon
    <3>3. q \in Registers /\ FlagsOK(q) /\ q.e = r.e /\ q.s = r.s
      BY <3>1, <3>2, WithPTyped
    <3> QED
      BY <2>1, <3>3
  <2>7. CASE o.mode \notin {"TSX", "TCS", "TXS", "XCE", "REP", "SEP"}
    <3>1. PICK I : q \in Loaded(r, I)
      BY <2>2, <2>7 DEF OtherEffect
    <3> QED
      BY <2>1, <3>1, LoadedTyped
  <2> QED
    BY <2>3, <2>4, <2>5, <2>6, <2>7
<1>3. CASE o.does = "read" \/ (o.does = "pull" /\ o.mode = "register")
  <2>1. ~Repairs(o)
    BY <1>3 DEF Repairs
  <2>2. q \in Loaded(r, {o.width} \cap Indexes)
    BY <1>3 DEF Effect
  <2> QED
    BY <2>1, <2>2, LoadedTyped
<1>4. CASE o.does # "other" /\ o.does # "read" /\ ~(o.does = "pull" /\ o.mode = "register")
  BY <1>1, <1>4, SetSTyped DEF Effect
<1> QED
  BY <1>2, <1>3, <1>4

-----------------------------------------------------------------------------
(***************************************************************************)
(* The inductive invariant.  During an instruction the page of the stack   *)
(* may be wrong only if the instruction repairs it when it is done, and    *)
(* one that does not has no cycle that could leave the page.               *)
(***************************************************************************)
PageOK ==
  reg.e /\ ~Repairs(op) => reg.s \in Page1 /\ todo \in Seq(Cycles \ Wandering)

\* The call of lastCycle is still to come, or one cycle is left after it.
SampleOK ==
  /\ todo = <<>> => sample = NoSample
  /\ todo # <<>> /\ op.mode \notin {"WAI", "STP"} =>
       \/ sample.calls = 0 /\ SampledLast(todo)
       \/ sample = [calls |-> 1, since |-> 0] /\ Len(todo) = 1

IInv ==
  /\ TypeOK
  /\ FlagsOK(reg)
  /\ PageOK
  /\ SampleOK
  /\ IF todo = <<>> THEN op = NoOp ELSE Ended(todo)

LEMMA NoOpFacts == NoOp \in Ops /\ ~Repairs(NoOp)
BY DEF NoOp, Ops, Dispatched, OtherOps, Kind, AnyWidth, Repairs

LEMMA BodyTyped ==
  ASSUME NEW o \in Ops, NEW low \in BOOLEAN, NEW crosses \in BOOLEAN
  PROVE  /\ Body(o, low, crosses) \in Seq(Cycles) /\ Ended(Body(o, low, crosses))
         /\ o.mode \notin {"WAI", "STP"} => SampledLast(Body(o, low, crosses))
         /\ reg.e /\ ~Repairs(o) => Body(o, low, crosses) \in Seq(Cycles \ Wandering)
<1>1. CASE o \in ReadOps \cup WriteOps \cup ModifyOps
  BY <1>1, DataCycles, DataSampled, SampledEnds
<1>2. CASE o \in StackOps \cup OtherOps \cup {SoftwareInterrupt, HardwareInterrupt}
  <2>1. Wandering \subseteq Cycles
    BY DEF Wandering, Cycles
  <2> QED
    BY <1>2, <2>1, OtherCycles, OtherSampled, SampledEnds
<1> QED
  BY <1>1, <1>2 DEF Ops, Dispatched

LEMMA InitInv == Init => IInv
<1> SUFFICES ASSUME Init PROVE IInv
  OBVIOUS
<1>1. 2 * PageSize - 1 \in Page1 /\ 0 \in Stack
  BY StackPages, StackAssumption DEF Page1, Stack
<1>2. [i \in Indexes |-> FALSE] \in [Indexes -> BOOLEAN]
  OBVIOUS
<1>3. reg \in Registers /\ FlagsOK(reg) /\ reg.s \in Page1
  BY <1>1, <1>2, StackPages DEF Init, PowerOn, Registers, FlagsOK
<1> QED
  BY <1>1, <1>3, NoOpFacts DEF Init, IInv, TypeOK, PageOK, SampleOK, NoSample

\* The start of an instruction or an interrupt entry.
LEMMA BeginInv ==
  ASSUME IInv, Between, NEW o \in Ops, Begin(o), NEW body,
         body \in Seq(Cycles), Ended(body),
         o.mode \notin {"WAI", "STP"} => SampledLast(body),
         reg.e /\ ~Repairs(o) => body \in Seq(Cycles \ Wandering),
         todo' = body, halt' \in {"no", "wai", "stp"}
  PROVE  IInv'
<1>1. op = NoOp /\ (reg.e => reg.s \in Page1)
  BY NoOpFacts DEF IInv, PageOK, Between
<1>2. reg' = reg /\ op' = o /\ sample' = sample /\ touched' = touched /\ from' = reg.s
  BY DEF Begin
<1>3. frames' \in Seq(Frames)
  BY DEF Begin, IInv, TypeOK
<1>4. TypeOK'
  BY <1>2, <1>3 DEF IInv, TypeOK, Registers
<1>5. PageOK'
  BY <1>1, <1>2 DEF PageOK
<1>6. todo' # <<>> /\ Ended(todo')
  BY DEF Ended
<1>7. SampleOK'
  BY <1>2, <1>6 DEF IInv, SampleOK, Between, NoSample
<1> QED
  BY <1>2, <1>4, <1>5, <1>6, <1>7 DEF IInv

LEMMA FetchInv == ASSUME IInv, Fetch PROVE IInv'
<1>1. PICK o \in Dispatched, low \in BOOLEAN, crosses \in BOOLEAN :
        todo' = <<"fetch">> \o Body(o, low, crosses) /\ Begin(o)
        /\ halt' = (IF o.mode = "WAI" THEN "wai" ELSE IF o.mode = "STP" THEN "stp" ELSE "no")
  BY DEF Fetch
<1> DEFINE body == <<"fetch">> \o Body(o, low, crosses)
<1>2. o \in Ops /\ Between
  BY DEF Ops, Fetch
<1>3. "fetch" \in Cycles /\ "fetch" \in Cycles \ Wandering
  BY DEF Cycles, Wandering
<1>4. /\ body \in Seq(Cycles) /\ Ended(body)
      /\ o.mode \notin {"WAI", "STP"} => SampledLast(body)
      /\ reg.e /\ ~Repairs(o) => body \in Seq(Cycles \ Wandering)
  <2>1. <<"fetch">> \in Seq(Cycles) /\ <<"fetch">> \in Seq(Quiet)
    BY <1>3 DEF Quiet
  <2>2. /\ Body(o, low, crosses) \in Seq(Cycles) /\ Ended(Body(o, low, crosses))
        /\ o.mode \notin {"WAI", "STP"} => SampledLast(Body(o, low, crosses))
        /\ reg.e /\ ~Repairs(o) => Body(o, low, crosses) \in Seq(Cycles \ Wandering)
    BY <1>2, BodyTyped
  <2>3. Ended(body)
    BY <2>1, <2>2, EndedAfter
  <2>4. o.mode \notin {"WAI", "STP"} => SampledLast(body)
    BY <2>1, <2>2, SampledAfter
  <2> QED
    BY <1>3, <2>2, <2>3, <2>4
<1>5. halt' \in {"no", "wai", "stp"} /\ todo' = body
  BY <1>1
<1> HIDE DEF body
<1> QED
  BY <1>1, <1>2, <1>4, <1>5, BeginInv

LEMMA EnterInv == ASSUME IInv, EnterInterrupt PROVE IInv'
<1> DEFINE body == Body(HardwareInterrupt, FALSE, FALSE)
<1>1. HardwareInterrupt \in Ops /\ Between /\ Begin(HardwareInterrupt)
  BY DEF Ops, EnterInterrupt
<1>2. todo' = body /\ halt' \in {"no", "wai", "stp"}
  BY DEF EnterInterrupt
<1>3. /\ body \in Seq(Cycles) /\ Ended(body)
      /\ HardwareInterrupt.mode \notin {"WAI", "STP"} => SampledLast(body)
      /\ reg.e /\ ~Repairs(HardwareInterrupt) => body \in Seq(Cycles \ Wandering)
  BY <1>1, BodyTyped
<1> HIDE DEF body
<1> QED
  BY <1>1, <1>2, <1>3, BeginInv

\* What is left of the cycles after one of them.
LEMMA TailTyped ==
  ASSUME NEW S, NEW s \in Seq(S), s # <<>>
  PROVE  Head(s) \in S /\ Tail(s) \in Seq(S)
OBVIOUS

LEMMA EndedTail ==
  ASSUME NEW s \in Seq(Cycles), Ended(s)
  PROVE  /\ Tail(s) = <<>> \/ Ended(Tail(s))
         /\ Head(s) = "sample" => Tail(s) # <<>>
         /\ Len(s) > 1 => Tail(s) # <<>>
<1>1. s # <<>> /\ Len(s) \in Nat /\ Len(s) > 0 /\ s[Len(s)] # "sample"
  BY DEF Ended
<1>2. Len(Tail(s)) = Len(s) - 1 /\ Head(s) = s[1]
  BY <1>1
<1>3. \A i \in 1 .. Len(s) - 1 : Tail(s)[i] = s[i + 1]
  BY <1>1
<1> DEFINE u == Tail(s)
<1>4. u \in Seq(Cycles) /\ Len(u) = Len(s) - 1
  BY <1>1, <1>2
<1> HIDE DEF u
<1>5. (u = <<>>) <=> (Len(s) = 1)
  BY <1>1, <1>4
<1>6. (Tail(s) = <<>>) <=> (Len(s) = 1)
  BY <1>5 DEF u
<1>7. CASE Len(s) = 1
  <2>1. Tail(s) = <<>>
    BY <1>7, <1>6
  <2>2. Head(s) # "sample"
    BY <1>1, <1>2, <1>7
  <2> QED
    BY <1>7, <2>1, <2>2
<1>8. CASE Len(s) > 1
  <2>1. Tail(s)[Len(s) - 1] = s[Len(s)]
    BY <1>1, <1>3, <1>8
  <2>2. Tail(s) # <<>>
    BY <1>1, <1>8, <1>6
  <2> QED
    BY <1>1, <1>2, <2>1, <2>2 DEF Ended
<1> QED
  BY <1>1, <1>7, <1>8

LEMMA SampledTail ==
  ASSUME NEW s \in Seq(Cycles), SampledLast(s)
  PROVE  /\ Head(s) = "sample" => Len(Tail(s)) = 1
         /\ Head(s) # "sample" => SampledLast(Tail(s))
<1>1. /\ Len(s) \in Nat /\ Len(s) >= 2
      /\ \A i \in 1 .. Len(s) : s[i] = "sample" <=> i = Len(s) - 1
  BY DEF SampledLast
<1>2. Head(s) = s[1] /\ Len(Tail(s)) = Len(s) - 1
  BY <1>1
<1>3. \A i \in 1 .. Len(s) - 1 : Tail(s)[i] = s[i + 1]
  BY <1>1
<1>4. Head(s) = "sample" <=> Len(s) = 2
  <2>1. 1 \in 1 .. Len(s)
    BY <1>1
  <2>2. s[1] = "sample" <=> 1 = Len(s) - 1
    BY <1>1, <2>1
  <2> QED
    BY <1>1, <1>2, <2>2
<1> DEFINE u == Tail(s)
<1>5. Len(u) = Len(s) - 1 /\ \A i \in 1 .. Len(s) - 1 : u[i] = "sample" <=> i = Len(s) - 2
  BY <1>1, <1>2, <1>3
<1> HIDE DEF u
<1>6. Len(s) >= 3 => SampledLast(u)
  BY <1>1, <1>5 DEF SampledLast
<1> QED
  BY <1>1, <1>2, <1>4, <1>6 DEF u

LEMMA TouchedTyped ==
  ASSUME IInv, NEW cycle
  PROVE  touched \o Touched(cycle) \in Seq(Stack)
<1>1. Touched(cycle) \in Seq(Stack)
  BY MovedInStack DEF Touched, IInv, TypeOK, Registers
<1> QED
  BY <1>1 DEF IInv, TypeOK

LEMMA LastCycleInv == ASSUME IInv, LastCycle PROVE IInv'
<1>1. /\ todo # <<>> /\ todo' = Tail(todo) /\ Head(todo) = "sample"
      /\ UNCHANGED <<reg, halt, op, from, touched, frames>>
  BY DEF LastCycle
<1>2. sample' \in [calls : Nat, since : Nat]
  BY DEF LastCycle, IInv, TypeOK
<1>3. todo' \in Seq(Cycles)
  BY <1>1 DEF IInv, TypeOK
<1>4. TypeOK'
  BY <1>1, <1>2, <1>3 DEF IInv, TypeOK, Registers
<1>5. PageOK'
  BY <1>1, TailTyped DEF IInv, PageOK
<1>6. todo' # <<>> /\ Ended(todo')
  BY <1>1, EndedTail DEF IInv, TypeOK
<1>7. SampleOK'
  <2> SUFFICES ASSUME op.mode \notin {"WAI", "STP"}
               PROVE  sample' = [calls |-> 1, since |-> 0] /\ Len(todo') = 1
    BY <1>1, <1>6 DEF SampleOK
  <2>1. todo \in Seq(Cycles) /\ Ended(todo) /\ Head(todo) = todo[1]
    BY <1>1 DEF IInv, TypeOK
  <2>2. ~(Len(todo) = 1)
    BY <1>1, <2>1 DEF Ended
  <2>3. sample.calls = 0 /\ SampledLast(todo)
    BY <1>1, <2>2 DEF IInv, SampleOK
  <2>4. Len(todo') = 1
    BY <1>1, <2>1, <2>3, SampledTail
  <2> QED
    BY <2>3, <2>4 DEF LastCycle
<1> QED
  BY <1>1, <1>4, <1>5, <1>6, <1>7 DEF IInv

\* Registers after one cycle of the instruction.
LEMMA StepTyped ==
  ASSUME IInv, todo # <<>>, NEW r \in AfterCycle(Head(todo))
  PROVE  /\ r \in Registers /\ FlagsOK(r)
         /\ r.e /\ ~Repairs(op) => r.s \in Page1
<1>1. reg \in Registers /\ FlagsOK(reg)
  BY DEF IInv, TypeOK
<1>2. /\ r \in Registers /\ FlagsOK(r)
      /\ r.e = reg.e /\ r.s = Moved(Head(todo), reg.s)
  BY <1>1, CycleTyped
<1>3. ASSUME reg.e, ~Repairs(op)
      PROVE  Moved(Head(todo), reg.s) \in Page1
  <2>1. reg.s \in Page1 /\ todo \in Seq(Cycles \ Wandering)
    BY <1>3 DEF IInv, PageOK
  <2>2. Head(todo) \notin Wandering
    BY <2>1, TailTyped
  <2> QED
    BY <1>1, <1>3, <2>1, <2>2, MovedInStack
<1> QED
  BY <1>2, <1>3

LEMMA CycleInv == ASSUME IInv, Cycle PROVE IInv'
<1>1. /\ Len(todo) > 1 /\ todo' = Tail(todo) /\ reg' \in AfterCycle(Head(todo))
      /\ UNCHANGED <<halt, op, from, frames>>
  BY DEF Cycle
<1>2. todo # <<>> /\ todo \in Seq(Cycles) /\ Ended(todo)
  BY <1>1 DEF IInv, TypeOK
<1>3. /\ reg' \in Registers /\ FlagsOK(reg')
      /\ reg'.e /\ ~Repairs(op) => reg'.s \in Page1
  BY <1>1, <1>2, StepTyped
<1>4. reg'.e = reg.e
  BY <1>1, CycleTyped DEF IInv, TypeOK
<1>5. todo' \in Seq(Cycles) /\ todo' # <<>> /\ Ended(todo')
  BY <1>1, <1>2, TailTyped, EndedTail
<1>6. sample' \in [calls : Nat, since : Nat]
  <2>1. sample \in [calls : Nat, since : Nat]
    BY DEF IInv, TypeOK
  <2>2. sample' = [sample EXCEPT !.since = @ + 1]
    BY Zenon DEF Cycle
  <2> QED
    BY <2>1, <2>2
<1>7. touched' \in Seq(Stack)
  BY TouchedTyped DEF Cycle, AllTouched
<1>8. TypeOK'
  BY <1>1, <1>3, <1>5, <1>6, <1>7 DEF IInv, TypeOK
<1>9. PageOK'
  BY <1>1, <1>2, <1>3, <1>4, TailTyped DEF IInv, PageOK
<1>10. SampleOK'
  <2> SUFFICES ASSUME op.mode \notin {"WAI", "STP"}
               PROVE  sample'.calls = 0 /\ SampledLast(todo')
    BY <1>1, <1>5 DEF SampleOK
  <2>1. sample.calls = 0 /\ SampledLast(todo)
    BY <1>1, <1>2 DEF IInv, SampleOK
  <2>2. sample'.calls = 0
    <3>1. sample \in [calls : Nat, since : Nat] /\ sample' = [sample EXCEPT !.since = @ + 1]
      BY Zenon DEF Cycle, IInv, TypeOK
    <3> QED
      BY <2>1, <3>1
  <2>3. Head(todo) # "sample"
    BY DEF Cycle
  <2> QED
    BY <1>1, <1>2, <2>1, <2>2, <2>3, SampledTail
<1> QED
  BY <1>3, <1>5, <1>8, <1>9, <1>10 DEF IInv

LEMMA FramesTyped ==
  ASSUME IInv, NEW s \in Stack, NEW cells \in Seq(Stack)
  PROVE  FramesAfter(s, cells) \in Seq(Frames)
<1>1. frames \in Seq(Frames) /\ from \in Stack /\ reg.e \in BOOLEAN
  BY DEF IInv, TypeOK, Registers
<1>2. Frame(op, s, cells) \in Frames
  <2>1. Straddles(op, from, Len(cells)) \in BOOLEAN
    BY Zenon DEF Straddles
  <2>2. FrameKind(op) \in {"short", "long", "interrupt"}
    BY DEF FrameKind
  <2> QED
    BY <1>1, <2>1, <2>2 DEF Frame, Frames
<1>3. ASSUME NEW f \in Seq(Frames)
      PROVE  Newest(f) \in Seq(Frames)
  BY <1>3 DEF Newest
<1>4. CASE op.does \in {"call", "interrupt"}
  <2>1. <<Frame(op, s, cells)>> \o frames \in Seq(Frames)
    BY <1>1, <1>2
  <2> QED
    BY <1>3, <1>4, <2>1 DEF FramesAfter
<1>5. CASE op.does \notin {"call", "interrupt"}
  <2>1. Takes(op, from) => frames # <<>>
    BY DEF Takes
  <2> QED
    BY <1>1, <1>5, <2>1 DEF FramesAfter
<1> QED
  BY <1>4, <1>5

LEMMA EndInv == ASSUME IInv, End PROVE IInv'
<1>1. todo # <<>> /\ todo' = <<>> /\ op' = NoOp /\ op \in Ops
  <2>1. todo \in Seq(Cycles) /\ op \in Ops
    BY DEF IInv, TypeOK
  <2>2. Len(todo) = 1 /\ todo' = <<>> /\ op' = NoOp
    BY Zenon DEF End
  <2> QED
    BY <2>1, <2>2
<1>2. PICK r \in AfterCycle(Head(todo)) : reg' \in Effect(op, r)
  BY DEF End
<1>3. /\ r \in Registers /\ FlagsOK(r)
      /\ r.e /\ ~Repairs(op) => r.s \in Page1
  BY <1>1, StepTyped
<1>4. reg' \in Registers /\ FlagsOK(reg') /\ (reg'.e => reg'.s \in Page1)
  BY <1>1, <1>2, <1>3, EffectTyped
<1>5. frames' \in Seq(Frames)
  <2>1. AllTouched \in Seq(Stack)
    BY TouchedTyped DEF AllTouched
  <2>2. reg'.s \in Stack
    BY <1>4 DEF Registers
  <2> QED
    BY <2>1, <2>2, FramesTyped DEF End
<1>6. 0 \in Stack
  BY StackPages DEF Stack
<1>7. TypeOK'
  BY <1>1, <1>4, <1>5, <1>6, NoOpFacts DEF End, NoSample, IInv, TypeOK
<1>8. PageOK'
  BY <1>1, <1>4 DEF PageOK
<1>9. SampleOK'
  BY <1>1 DEF End, SampleOK
<1> QED
  BY <1>1, <1>4, <1>7, <1>8, <1>9 DEF IInv

LEMMA ResetInv == ASSUME IInv, Reset PROVE IInv'
<1>1. /\ reg' = PowerOn /\ halt' = "no" /\ frames' = <<>> /\ todo = <<>>
      /\ UNCHANGED <<op, todo, sample, from, touched>>
  BY DEF Reset, Between
<1>2. 2 * PageSize - 1 \in Page1
  BY StackAssumption DEF Page1
<1>3. [i \in Indexes |-> FALSE] \in [Indexes -> BOOLEAN]
  OBVIOUS
<1>4. PowerOn \in Registers /\ FlagsOK(PowerOn) /\ PowerOn.s \in Page1
  BY <1>2, <1>3, StackPages DEF PowerOn, Registers, FlagsOK
<1>5. TypeOK'
  BY <1>1, <1>4 DEF IInv, TypeOK
<1>6. PageOK'
  BY <1>1, <1>4 DEF PageOK
<1>7. SampleOK'
  BY <1>1 DEF IInv, SampleOK, NoSample
<1> QED
  BY <1>1, <1>4, <1>5, <1>6, <1>7 DEF IInv

LEMMA NextInv == ASSUME IInv, [Next]_vars PROVE IInv'
<1>1. CASE Waiting
  BY <1>1 DEF Waiting, history, IInv, TypeOK, PageOK, SampleOK, NoSample
<1>2. CASE UNCHANGED vars
  BY <1>2 DEF vars, history, IInv, TypeOK, PageOK, SampleOK, NoSample
<1> QED
  BY <1>1, <1>2, FetchInv, EnterInv, LastCycleInv, CycleInv, EndInv, ResetInv DEF Next, Stopped

LEMMA Invariant == Spec => []IInv
<1>1. Init => IInv
  BY InitInv
<1>2. IInv /\ [Next]_vars => IInv'
  BY NextInv
<1> QED
  BY <1>1, <1>2, PTL DEF Spec

\* The registers, the cycles to come and the history have their types in every
\* reachable state, for any number and size of pages.
THEOREM TypeCorrect == Spec => []TypeOK
<1>1. IInv => TypeOK
  BY DEF IInv
<1> QED
  BY <1>1, Invariant, PTL

\* Flags, index registers and the page of the stack agree: Processor65816 keeps them
\* so by what setFlag, setE, REP, SEP, PLP, RTI and the instructions with pushN and
\* pullN do at their end.
THEOREM ModesAlwaysAgree == Spec => []ModesAgree
<1>1. IInv => ModesAgree
  BY NoOpFacts DEF IInv, ModesAgree, FlagsOK, PageOK, Between
<1> QED
  BY <1>1, Invariant, PTL

\* Every instruction and interrupt entry samples its interrupts exactly once, right
\* before its last cycle: lastCycle stands there in every handler of Processor65816,
\* for every mode, width and page crossing, but for WAI and STP.
THEOREM InterruptsSampledOnce == Spec => SampledOnce
<1>1. IInv /\ [Next]_vars =>
        [End /\ op.mode \notin {"WAI", "STP"} => sample = [calls |-> 1, since |-> 0]]_vars
  <2> SUFFICES ASSUME IInv, End, op.mode \notin {"WAI", "STP"}
               PROVE  sample = [calls |-> 1, since |-> 0]
    BY Zenon
  <2>1. Len(todo) = 1 /\ todo \in Seq(Cycles)
    BY DEF End, IInv, TypeOK
  <2>2. todo # <<>>
    <3>1. Len(<<>>) = 0
      OBVIOUS
    <3>2. todo = <<>> => Len(todo) = 0
      BY <3>1, Zenon
    <3> QED
      BY <2>1, <3>2
  <2>3. ~SampledLast(todo)
    BY <2>1 DEF SampledLast
  <2> QED
    BY <2>2, <2>3 DEF IInv, SampleOK
<1> QED
  BY <1>1, Invariant, PTL DEF Spec, SampledOnce
-----------------------------------------------------------------------------
(***************************************************************************)
(* Calls and returns.  A call pushes the cells below the stack pointer it  *)
(* began with, one after the other, a return pulls those above its own;    *)
(* how many depends on the kind of frame and the mode alone.               *)
(***************************************************************************)
StackCycles == Pushes \cup Pulls

\* The stack cycles among s, and their number.
StackAt(s) == {i \in 1 .. Len(s) : s[i] \in StackCycles}

Stacked(s) == Cardinality(StackAt(s))

\* The size of a frame.
Depth(kind, e) == IF kind = "short" THEN 2 ELSE IF kind = "interrupt" /\ ~e THEN 4 ELSE 3

\* The cell k above s, in a page or in the whole stack.
Cell(paged, s, k) == IF paged THEN InPage(s + k) ELSE (s + k) % Size

\* What the newest calls and interrupts have left.
FrameOK(f) ==
  ~f.straddles =>
    /\ f.e => f.from \in Page1
    /\ Len(f.cells) = Depth(f.kind, f.e)
    /\ \A i \in 1 .. Len(f.cells) : f.cells[i] = Cell(f.e, f.from, 1 - i)
    /\ f.left = Cell(f.e, f.from, -Depth(f.kind, f.e))
    /\ f.kind = "long" /\ f.e => f.from - 3 >= PageSize

\* A call, a return or an interrupt under way has come through the cells between its
\* beginning and the stack pointer and has the others of its frame to come.
Framed == {"call", "return", "interrupt"}

KindOf(o) == IF o.does = "return" THEN o.mode ELSE FrameKind(o)

Up == op.does = "return"

\* The cycles that o, with the others of its kind, does not have.
Against(o) ==
  (IF o.does = "return" THEN Pushes ELSE Pulls)
    \cup (IF Repairs(o) THEN {"push", "pull", "pullP"} ELSE {})

Paged == reg.e /\ ~Repairs(op)

Walked ==
  /\ Len(touched) + Stacked(todo) = Depth(KindOf(op), reg.e)
  /\ \A i \in 1 .. Len(touched) : touched[i] = Cell(Paged, from, IF Up THEN i ELSE 1 - i)
  /\ reg.s = Cell(Paged, from, IF Up THEN Len(touched) ELSE 0 - Len(touched))
  /\ reg.e => from \in Page1
  /\ todo \in Seq(Cycles \ Against(op))

StackInv ==
  /\ \A i \in 1 .. Len(frames) : FrameOK(frames[i])
  /\ todo = <<>> => touched = <<>>
  /\ todo # <<>> /\ op.does \in Framed => Walked

-----------------------------------------------------------------------------
LEMMA RemainderHas ==
  ASSUME NEW m \in Nat \ {0}, NEW x \in Int
  PROVE  \E p \in Int, t \in 0 .. m - 1 : x = m * p + t /\ x % m = t
<1>1. x \div m \in Int
  OBVIOUS
<1>2. x % m \in 0 .. m - 1
  OBVIOUS
<1>3. x = m * (x \div m) + (x % m)
  OBVIOUS
<1> QED
  BY <1>1, <1>2, <1>3

\* A remainder is known by its multiple.
LEMMA RemainderIs ==
  ASSUME NEW m \in Nat \ {0}, NEW q \in Int, NEW r \in 0 .. m - 1
  PROVE  (m * q + r) % m = r
<1>1. PICK x \in Int : x = m * q + r
  OBVIOUS
<1>2. PICK p \in Int, t \in 0 .. m - 1 : x = m * p + t /\ x % m = t
  BY RemainderHas
<1>3. m * (q - p) = t - r
  BY <1>1, <1>2
<1>4. PICK d \in Int : d = q - p
  OBVIOUS
<1>5. m * d = t - r
  BY <1>3, <1>4
<1>6. (d >= 1 => m * d >= m) /\ (d <= -1 => m * d <= -m)
  OBVIOUS
<1>7. d = 0
  BY <1>5, <1>6
<1>8. t = r
  BY <1>5, <1>7
<1> QED
  BY <1>1, <1>2, <1>8

LEMMA RemainderStep ==
  ASSUME NEW m \in Nat \ {0}, NEW a \in Int, NEW d \in Int
  PROVE  ((a % m) + d) % m = (a + d) % m
<1>1. PICK p \in Int, t \in 0 .. m - 1 : a = m * p + t /\ a % m = t
  BY RemainderHas
<1>2. PICK q \in Int, u \in 0 .. m - 1 : t + d = m * q + u /\ (t + d) % m = u
  <2>1. t + d \in Int
    OBVIOUS
  <2> QED
    BY <2>1, RemainderHas
<1>3. a + d = m * (p + q) + u
  BY <1>1, <1>2
<1>4. PICK n \in Int : n = p + q
  OBVIOUS
<1>5. (m * n + u) % m = u
  BY RemainderIs
<1> QED
  BY <1>1, <1>2, <1>3, <1>4, <1>5

\* Walking through the cells.
LEMMA CellSteps ==
  ASSUME NEW paged \in BOOLEAN, NEW s \in Int, NEW k \in Int, NEW d \in Int
  PROVE  /\ Cell(paged, s, k) \in Stack /\ Cell(paged, s, k) \in Int
         /\ paged => Cell(paged, s, k) \in Page1
         /\ Cell(paged, Cell(paged, s, k), d) = Cell(paged, s, k + d)
<1>1. /\ Size \in Nat \ {0} /\ PageSize \in Nat \ {0}
      /\ Page1 \subseteq Stack /\ Stack \subseteq Int
      /\ \A x \in Int : x % Size \in Stack /\ InPage(x) \in Page1
  BY StackPages, StackAssumption
<1>2. s + k \in Int /\ (s + k) + d = s + (k + d) /\ s + (k + d) \in Int
  OBVIOUS
<1>3. CASE paged
  <2>1. PICK x \in Int : x = s + k
    BY <1>2
  <2>2. InPage(x) \in Page1 /\ InPage(x) \in Int
    BY <1>1
  <2>3. InPage(InPage(x) + d) = InPage(x + d)
    <3>1. PICK r \in Int : r = x % PageSize
      BY <1>1
    <3>2. InPage(x) = PageSize + r
      BY <3>1 DEF InPage
    <3>3. (r + d) % PageSize = (x + d) % PageSize
      BY <1>1, <3>1, RemainderStep
    <3>4. (PageSize + r + d) % PageSize = (r + d) % PageSize
      <4>1. PICK y \in Int : y = r + d
        OBVIOUS
      <4>2. PICK p \in Int, t \in 0 .. PageSize - 1 : y = PageSize * p + t /\ y % PageSize = t
        BY <1>1, RemainderHas
      <4>3. PageSize + y = PageSize * (p + 1) + t
        BY <1>1, <4>2
      <4>4. PICK n \in Int : n = p + 1
        OBVIOUS
      <4>5. (PageSize * n + t) % PageSize = t
        BY <1>1, RemainderIs
      <4>6. PageSize + r + d = PageSize + y
        BY <1>1, <4>1
      <4> QED
        BY <4>1, <4>2, <4>3, <4>4, <4>5, <4>6
    <3> QED
      BY <3>2, <3>3, <3>4 DEF InPage
  <2> QED
    BY <1>1, <1>2, <1>3, <2>1, <2>2, <2>3 DEF Cell
<1>4. CASE ~paged
  <2>1. PICK x \in Int : x = s + k
    BY <1>2
  <2>2. ((x % Size) + d) % Size = (x + d) % Size
    BY <1>1, RemainderStep
  <2> QED
    BY <1>1, <1>2, <1>4, <2>1, <2>2 DEF Cell
<1> QED
  BY <1>3, <1>4

LEMMA CellHere ==
  ASSUME NEW paged \in BOOLEAN, NEW s \in Stack, paged => s \in Page1
  PROVE  Cell(paged, s, 0) = s
<1>1. PageSize \in Nat \ {0} /\ s \in Int /\ s % Size = s
  BY StackPages, StackAssumption
<1>2. CASE paged
  <2>1. s - PageSize \in 0 .. PageSize - 1
    BY <1>1, <1>2 DEF Page1
  <2>2. s = PageSize * 1 + (s - PageSize)
    BY <1>1
  <2>3. PICK r \in 0 .. PageSize - 1 : r = s - PageSize
    BY <2>1
  <2>4. (PageSize * 1 + r) % PageSize = r
    BY <1>1, RemainderIs
  <2>5. s % PageSize = r
    BY <2>2, <2>3, <2>4
  <2> QED
    BY <1>1, <1>2, <2>3, <2>5 DEF Cell, InPage
<1>3. CASE ~paged
  BY <1>1, <1>3 DEF Cell
<1> QED
  BY <1>2, <1>3

\* Where nothing wraps the page does not matter.
LEMMA CellInside ==
  ASSUME NEW paged \in BOOLEAN, NEW s \in Stack, NEW k \in Int, s + k \in Page1
  PROVE  Cell(paged, s, k) = s + k
<1>1. PICK x \in Stack : x = s + k
  BY StackPages
<1>2. Cell(paged, x, 0) = x
  BY <1>1, CellHere
<1>3. Cell(paged, x, 0) = Cell(paged, s, k)
  <2>1. x + 0 = s + k
    BY <1>1, StackPages
  <2> QED
    BY <2>1, Zenon DEF Cell
<1> QED
  BY <1>1, <1>2, <1>3

-----------------------------------------------------------------------------
(***************************************************************************)
(* Counting the stack cycles.                                              *)
(***************************************************************************)
LEMMA StackAtFinite ==
  ASSUME NEW S, NEW s \in Seq(S)
  PROVE  IsFiniteSet(StackAt(s)) /\ Stacked(s) \in Nat
<1>1. StackAt(s) \in SUBSET (1 .. Len(s)) /\ Len(s) \in Int
  BY DEF StackAt
<1>2. IsFiniteSet(1 .. Len(s))
  BY <1>1, FS_Interval
<1>3. IsFiniteSet(StackAt(s))
  BY <1>1, <1>2, FS_Subset
<1> QED
  BY <1>3, FS_CardinalityType DEF Stacked

LEMMA StackedTail ==
  ASSUME NEW S, NEW s \in Seq(S), s # <<>>
  PROVE  Stacked(s) = Stacked(Tail(s)) + IF Head(s) \in StackCycles THEN 1 ELSE 0
<1> DEFINE A == StackAt(s)
           B == StackAt(Tail(s))
           g == [i \in B |-> i + 1]
<1>1. /\ Len(s) \in Nat /\ Len(s) >= 1 /\ Len(Tail(s)) = Len(s) - 1
      /\ \A i \in 1 .. Len(s) - 1 : Tail(s)[i] = s[i + 1]
      /\ Tail(s) \in Seq(S) /\ Head(s) = s[1]
  OBVIOUS
<1>2. IsFiniteSet(A) /\ IsFiniteSet(B) /\ Stacked(s) = Cardinality(A)
      /\ Stacked(Tail(s)) = Cardinality(B) /\ Cardinality(B) \in Nat /\ Cardinality(A) \in Nat
  BY <1>1, StackAtFinite DEF Stacked
<1>3. /\ \A i \in A : i \in Int /\ i >= 1 /\ i <= Len(s) /\ s[i] \in StackCycles
      /\ \A i \in Int : i >= 1 /\ i <= Len(s) /\ s[i] \in StackCycles => i \in A
  BY <1>1 DEF StackAt
<1>4. /\ \A i \in B : i \in Int /\ i >= 1 /\ i <= Len(s) - 1 /\ s[i + 1] \in StackCycles
      /\ \A i \in Int : i >= 1 /\ i <= Len(s) - 1 /\ s[i + 1] \in StackCycles => i \in B
  BY <1>1 DEF StackAt
<1>5. 1 \in A <=> Head(s) \in StackCycles
  BY <1>1, <1>3
<1> HIDE DEF A, B
<1>6. g \in Bijection(B, A \ {1})
  <2>1. g \in [B -> A \ {1}]
    BY <1>1, <1>3, <1>4
  <2>2. \A i, j \in B : g[i] = g[j] => i = j
    BY <1>4
  <2>3. ASSUME NEW k \in A \ {1}
        PROVE  \E i \in B : g[i] = k
    <3>1. k \in Int /\ k >= 2 /\ k <= Len(s) /\ s[k] \in StackCycles
      BY <1>3
    <3>2. PICK i \in Int : i = k - 1 /\ i + 1 = k
      BY <3>1
    <3>3. i \in B
      BY <1>1, <1>4, <3>1, <3>2
    <3> QED
      BY <3>2, <3>3
  <2> QED
    BY <2>1, <2>2, <2>3, Fun_IsBij
<1>7. Cardinality(A \ {1}) = Cardinality(B)
  BY <1>2, <1>6, FS_Bijection DEF ExistsBijection
<1>8. Cardinality(A \ {1}) = IF 1 \in A THEN Cardinality(A) - 1 ELSE Cardinality(A)
  BY <1>2, FS_RemoveElement
<1> QED
  BY <1>2, <1>5, <1>7, <1>8

LEMMA StackedAfter ==
  ASSUME NEW S, NEW s \in Seq(S), NEW t \in Seq(S)
  PROVE  Stacked(s \o t) = Stacked(s) + Stacked(t)
<1> DEFINE A == StackAt(s)
           B == StackAt(t)
           C == {i + Len(s) : i \in B}
           g == [i \in B |-> i + Len(s)]
<1>1. /\ Len(s) \in Nat /\ Len(t) \in Nat /\ Len(s \o t) = Len(s) + Len(t)
      /\ \A i \in 1 .. Len(s) : (s \o t)[i] = s[i]
      /\ \A i \in 1 .. Len(t) : (s \o t)[i + Len(s)] = t[i]
  OBVIOUS
<1>2. IsFiniteSet(A) /\ IsFiniteSet(B) /\ Cardinality(A) \in Nat /\ Cardinality(B) \in Nat
  BY StackAtFinite DEF Stacked
<1>3. /\ \A i : i \in A <=> i \in 1 .. Len(s) /\ s[i] \in StackCycles
      /\ \A i : i \in B <=> i \in 1 .. Len(t) /\ t[i] \in StackCycles
  BY DEF StackAt
<1>4. StackAt(s \o t) = A \cup C
  <2> HIDE DEF A, B
  <2>1. ASSUME NEW i \in 1 .. Len(s) + Len(t)
        PROVE  (s \o t)[i] \in StackCycles <=> i \in A \cup C
    <3>1. CASE i <= Len(s)
      <4>1. i \in 1 .. Len(s)
        BY <1>1, <3>1
      <4>2. i \notin C
        BY <1>1, <1>3, <3>1
      <4> HIDE DEF C
      <4> QED
        BY <1>1, <1>3, <4>1, <4>2
    <3>2. CASE i > Len(s)
      <4>1. PICK j \in 1 .. Len(t) : i = j + Len(s)
        <5>1. i - Len(s) \in 1 .. Len(t) /\ i = (i - Len(s)) + Len(s)
          BY <1>1, <3>2
        <5> QED
          BY <5>1
      <4>2. i \notin A
        BY <1>1, <1>3, <3>2
      <4>3. i \in C <=> j \in B
        BY <1>1, <1>3, <4>1
      <4> QED
        BY <1>1, <1>3, <4>1, <4>2, <4>3
    <3> QED
      BY <1>1, <3>1, <3>2
  <2>2. A \cup C \subseteq 1 .. Len(s) + Len(t)
    BY <1>1, <1>3
  <2> HIDE DEF C
  <2> QED
    BY <1>1, <2>1, <2>2 DEF StackAt
<1> HIDE DEF A, B
<1>5. A \cap C = {}
  BY <1>1, <1>3
<1>6. g \in Bijection(B, C)
  <2>1. g \in [B -> C]
    OBVIOUS
  <2>2. \A i, j \in B : g[i] = g[j] => i = j
    BY <1>1, <1>3
  <2>3. \A k \in C : \E i \in B : g[i] = k
    OBVIOUS
  <2> QED
    BY <2>1, <2>2, <2>3, Fun_IsBij
<1> HIDE DEF C, g
<1>7. IsFiniteSet(C) /\ Cardinality(C) = Cardinality(B)
  BY <1>2, <1>6, FS_Bijection DEF ExistsBijection
<1>8. Cardinality(A \cup C) = Cardinality(A) + Cardinality(C) - Cardinality(A \cap C)
  BY <1>2, <1>7, FS_Union
<1>9. Cardinality(A \cap C) = 0
  BY <1>5, FS_EmptySet
<1> QED
  BY <1>2, <1>4, <1>7, <1>8, <1>9 DEF Stacked, A, B

\* Counting the elements of a small set.
LEMMA SmallPair ==
  ASSUME NEW a, NEW b, a # b
  PROVE  Cardinality({a, b}) = 2 /\ IsFiniteSet({a, b})
<1>1. IsFiniteSet({a}) /\ Cardinality({a}) = 1
  BY FS_Singleton
<1>2. IsFiniteSet({a} \cup {b}) /\ Cardinality({a} \cup {b}) = 2
  <2>1. b \notin {a}
    OBVIOUS
  <2> QED
    BY <1>1, <2>1, FS_AddElement
<1>3. {a} \cup {b} = {a, b}
  OBVIOUS
<1> QED
  BY <1>2, <1>3

LEMMA SmallTriple ==
  ASSUME NEW a, NEW b, a # b, NEW c, c \notin {a, b}
  PROVE  Cardinality({a, b, c}) = 3
<1>1. Cardinality({a, b} \cup {c}) = 3
  <2>1. IsFiniteSet({a, b}) /\ Cardinality({a, b}) = 2
    BY SmallPair, Zenon
  <2> QED
    BY <2>1, FS_AddElement
<1>2. {a, b} \cup {c} = {a, b, c}
  OBVIOUS
<1> QED
  BY <1>1, <1>2

LEMMA ModesOfFrames ==
  ASSUME NEW o \in Ops
  PROVE  /\ o.does = "call" => o.mode \in {"short", "long", "indexed"}
         /\ o.does = "return" => o.mode \in {"short", "long", "interrupt"}
<1>1. o \in ReadOps \cup WriteOps \cup ModifyOps => o.does \in {"read", "write", "modify"}
  BY DEF ReadOps, WriteOps, ModifyOps, Kind
<1>2. o \in OtherOps \cup {SoftwareInterrupt, HardwareInterrupt}
        => o.does \in {"jump", "other", "interrupt"}
  BY DEF OtherOps, Kind, SoftwareInterrupt, HardwareInterrupt
<1>3. o \in StackOps => /\ o.does = "call" => o.mode \in {"short", "long", "indexed"}
                        /\ o.does = "return" => o.mode \in {"short", "long", "interrupt"}
  BY DEF StackOps, Kind
<1> QED
  BY <1>1, <1>2, <1>3 DEF Ops, Dispatched

\* The stack cycles of calls, returns and interrupts, piece by piece.
LEMMA PiecesStacked ==
  /\ Stacked(<<>>) = 0
  /\ Stacked(<<"fetch", "fetch", "idle", "push", "sample", "push">>) = 2
  /\ Stacked(<<"fetch", "fetch", "pushN", "idle", "fetch", "pushN", "sample", "pushN">>) = 3
  /\ Stacked(<<"fetch", "pushN", "pushN", "fetch", "idle", "read", "sample", "read">>) = 2
  /\ Stacked(<<"idle", "idle", "pull", "pull", "sample", "idle">>) = 2
  /\ Stacked(<<"idle", "idle", "pullN", "pullN", "sample", "pullN">>) = 3
  /\ Stacked(<<"idle", "idle", "pullP", "pull">>) = 2
  /\ Stacked(<<"sample", "pull">>) = 1
  /\ Stacked(<<"push", "push", "push", "read", "sample", "read">>) = 3
  /\ Stacked(<<"fetch">>) = 0
  /\ Stacked(<<"read", "idle">>) = 0
  /\ Stacked(<<"pull">>) = 1
  /\ Stacked(<<"pushN">>) = 1
<1>1. Stacked(<<>>) = 0
  <2>1. StackAt(<<>>) = {}
    BY DEF StackAt
  <2> QED
    BY <2>1, FS_EmptySet, Zenon DEF Stacked
<1>2. Stacked(<<"fetch", "fetch", "idle", "push", "sample", "push">>) = 2
  <2>1. StackAt(<<"fetch", "fetch", "idle", "push", "sample", "push">>) = {4, 6}
    BY DEF StackAt, StackCycles, Pushes, Pulls
  <2>2. 4 # 6
    OBVIOUS
  <2>3. Cardinality({4, 6}) = 2
    BY <2>2, SmallPair, Zenon
  <2> QED
    BY <2>1, <2>3, Zenon DEF Stacked
<1>3. Stacked(<<"fetch", "fetch", "pushN", "idle", "fetch", "pushN", "sample", "pushN">>) = 3
  <2>1. StackAt(<<"fetch", "fetch", "pushN", "idle", "fetch", "pushN", "sample", "pushN">>) = {3, 6, 8}
    BY DEF StackAt, StackCycles, Pushes, Pulls
  <2>2. 3 # 6 /\ 8 \notin {3, 6}
    OBVIOUS
  <2>3. Cardinality({3, 6, 8}) = 3
    BY <2>2, SmallTriple, Zenon
  <2> QED
    BY <2>1, <2>3, Zenon DEF Stacked
<1>4. Stacked(<<"fetch", "pushN", "pushN", "fetch", "idle", "read", "sample", "read">>) = 2
  <2>1. StackAt(<<"fetch", "pushN", "pushN", "fetch", "idle", "read", "sample", "read">>) = {2, 3}
    BY DEF StackAt, StackCycles, Pushes, Pulls
  <2>2. 2 # 3
    OBVIOUS
  <2>3. Cardinality({2, 3}) = 2
    BY <2>2, SmallPair, Zenon
  <2> QED
    BY <2>1, <2>3, Zenon DEF Stacked
<1>5. Stacked(<<"idle", "idle", "pull", "pull", "sample", "idle">>) = 2
  <2>1. StackAt(<<"idle", "idle", "pull", "pull", "sample", "idle">>) = {3, 4}
    BY DEF StackAt, StackCycles, Pushes, Pulls
  <2>2. 3 # 4
    OBVIOUS
  <2>3. Cardinality({3, 4}) = 2
    BY <2>2, SmallPair, Zenon
  <2> QED
    BY <2>1, <2>3, Zenon DEF Stacked
<1>6. Stacked(<<"idle", "idle", "pullN", "pullN", "sample", "pullN">>) = 3
  <2>1. StackAt(<<"idle", "idle", "pullN", "pullN", "sample", "pullN">>) = {3, 4, 6}
    BY DEF StackAt, StackCycles, Pushes, Pulls
  <2>2. 3 # 4 /\ 6 \notin {3, 4}
    OBVIOUS
  <2>3. Cardinality({3, 4, 6}) = 3
    BY <2>2, SmallTriple, Zenon
  <2> QED
    BY <2>1, <2>3, Zenon DEF Stacked
<1>7. Stacked(<<"idle", "idle", "pullP", "pull">>) = 2
  <2>1. StackAt(<<"idle", "idle", "pullP", "pull">>) = {3, 4}
    BY DEF StackAt, StackCycles, Pushes, Pulls
  <2>2. 3 # 4
    OBVIOUS
  <2>3. Cardinality({3, 4}) = 2
    BY <2>2, SmallPair, Zenon
  <2> QED
    BY <2>1, <2>3, Zenon DEF Stacked
<1>8. Stacked(<<"sample", "pull">>) = 1
  <2>1. StackAt(<<"sample", "pull">>) = {2}
    BY DEF StackAt, StackCycles, Pushes, Pulls
  <2> QED
    BY <2>1, FS_Singleton, Zenon DEF Stacked
<1>9. Stacked(<<"push", "push", "push", "read", "sample", "read">>) = 3
  <2>1. StackAt(<<"push", "push", "push", "read", "sample", "read">>) = {1, 2, 3}
    BY DEF StackAt, StackCycles, Pushes, Pulls
  <2>2. 1 # 2 /\ 3 \notin {1, 2}
    OBVIOUS
  <2>3. Cardinality({1, 2, 3}) = 3
    BY <2>2, SmallTriple, Zenon
  <2> QED
    BY <2>1, <2>3, Zenon DEF Stacked
<1>10. Stacked(<<"fetch">>) = 0
  <2>1. StackAt(<<"fetch">>) = {}
    BY DEF StackAt, StackCycles, Pushes, Pulls
  <2> QED
    BY <2>1, FS_EmptySet, Zenon DEF Stacked
<1>11. Stacked(<<"read", "idle">>) = 0
  <2>1. StackAt(<<"read", "idle">>) = {}
    BY DEF StackAt, StackCycles, Pushes, Pulls
  <2> QED
    BY <2>1, FS_EmptySet, Zenon DEF Stacked
<1>12. Stacked(<<"pull">>) = 1
  <2>1. StackAt(<<"pull">>) = {1}
    BY DEF StackAt, StackCycles, Pushes, Pulls
  <2> QED
    BY <2>1, FS_Singleton, Zenon DEF Stacked
<1>13. Stacked(<<"pushN">>) = 1
  <2>1. StackAt(<<"pushN">>) = {1}
    BY DEF StackAt, StackCycles, Pushes, Pulls
  <2> QED
    BY <2>1, FS_Singleton, Zenon DEF Stacked
<1> QED
  BY Zenon, <1>1, <1>2, <1>3, <1>4, <1>5, <1>6, <1>7, <1>8, <1>9, <1>10, <1>11, <1>12, <1>13

LEMMA CallStacked ==
  ASSUME NEW o \in Ops, o.does = "call", NEW low \in BOOLEAN, NEW crosses \in BOOLEAN
  PROVE  /\ Stacked(Body(o, low, crosses)) = Depth(KindOf(o), reg.e)
         /\ Body(o, low, crosses) \in Seq(Cycles \ Against(o))
<1>1. o.mode \in {"short", "long", "indexed"}
  BY ModesOfFrames
<1>2. Body(o, low, crosses) = Call[o.mode]
  BY DEF Body
<1> DEFINE S == Cycles \ Against(o)
<1>3. "fetch" \in S /\ "idle" \in S /\ "read" \in S /\ "sample" \in S
  BY <1>1 DEF Against, Cycles, Pulls
<1>4. CASE o.mode = "short"
  <2>1. Call[o.mode] = <<"fetch", "fetch", "idle", "push", "sample", "push">>
    BY <1>4 DEF Call
  <2>2. Depth(KindOf(o), reg.e) = 2
    BY <1>4 DEF Depth, KindOf, FrameKind
  <2>3. "push" \in S
    BY <1>4 DEF Against, Cycles, Pulls, Repairs
  <2> QED
    BY <1>2, <1>3, <2>1, <2>2, <2>3, PiecesStacked
<1>5. CASE o.mode \in {"long", "indexed"}
  <2>1. CASE o.mode = "long"
    <3>1. Call[o.mode] = <<"fetch", "fetch", "pushN", "idle", "fetch", "pushN", "sample", "pushN">>
      BY <2>1 DEF Call
    <3>2. Depth(KindOf(o), reg.e) = 3
      BY <2>1 DEF Depth, KindOf, FrameKind
    <3>3. "pushN" \in S
      BY <1>5 DEF Against, Cycles, Pulls, Repairs
    <3> QED
      BY <1>2, <1>3, <3>1, <3>2, <3>3, PiecesStacked
  <2>2. CASE o.mode = "indexed"
    <3>1. Call[o.mode] = <<"fetch", "pushN", "pushN", "fetch", "idle", "read", "sample", "read">>
      BY <2>2 DEF Call
    <3>2. Depth(KindOf(o), reg.e) = 2
      BY <2>2 DEF Depth, KindOf, FrameKind
    <3>3. "pushN" \in S
      BY <1>5 DEF Against, Cycles, Pulls, Repairs
    <3> QED
      BY <1>2, <1>3, <3>1, <3>2, <3>3, PiecesStacked
  <2> QED
    BY <1>5, <2>1, <2>2
<1> QED
  BY <1>1, <1>4, <1>5

LEMMA ReturnStacked ==
  ASSUME NEW o \in Ops, o.does = "return", NEW low \in BOOLEAN, NEW crosses \in BOOLEAN
  PROVE  /\ Stacked(Body(o, low, crosses)) = Depth(KindOf(o), reg.e)
         /\ Body(o, low, crosses) \in Seq(Cycles \ Against(o))
<1>1. o.mode \in {"interrupt", "short", "long"}
  BY ModesOfFrames
<1>2. Body(o, low, crosses) = Return[o.mode]
  BY DEF Body
<1> DEFINE S == Cycles \ Against(o)
<1>3. "idle" \in S /\ "sample" \in S
  BY <1>1 DEF Against, Cycles, Pushes
<1>4. CASE o.mode = "interrupt"
  <2> DEFINE bank == Opt(~reg.e, "pull")
             pulls == <<"idle", "idle", "pullP", "pull">>
             last == <<"sample", "pull">>
  <2>1. "pullP" \in S /\ "pull" \in S
    BY <1>4 DEF Against, Cycles, Pushes, Repairs
  <2>2. bank = IF reg.e THEN <<>> ELSE <<"pull">>
    BY DEF Opt
  <2>3. bank \in Seq(S) /\ Stacked(bank) = IF reg.e THEN 0 ELSE 1
    <3>1. <<>> \in Seq(S) /\ <<"pull">> \in Seq(S)
      BY <2>1
    <3> HIDE DEF bank, S
    <3> QED
      BY <2>2, <3>1, PiecesStacked
  <2>4. pulls \in Seq(S) /\ last \in Seq(S) /\ Stacked(pulls) = 2 /\ Stacked(last) = 1
    BY <1>3, <2>1, PiecesStacked
  <2>5. Return[o.mode] = (pulls \o bank) \o last
    BY <1>4 DEF Return
  <2>6. Depth(KindOf(o), reg.e) = IF reg.e THEN 3 ELSE 4
    BY <1>4 DEF Depth, KindOf, FrameKind
  <2> HIDE DEF bank, pulls, last, S
  <2> DEFINE both == pulls \o bank
  <2>7. both \in Seq(S) /\ Stacked(both) = IF reg.e THEN 2 ELSE 3
    BY <2>3, <2>4, StackedAfter
  <2> HIDE DEF both
  <2>8. both \o last \in Seq(S) /\ Stacked(both \o last) = Stacked(both) + Stacked(last)
    BY <2>4, <2>7, StackedAfter
  <2> QED
    BY <1>2, <2>4, <2>5, <2>6, <2>7, <2>8 DEF S, both
<1>5. CASE o.mode = "short"
  <2>1. Return[o.mode] = <<"idle", "idle", "pull", "pull", "sample", "idle">>
    BY <1>5 DEF Return
  <2>2. Depth(KindOf(o), reg.e) = 2
    BY <1>5 DEF Depth, KindOf
  <2>3. "pull" \in S
    BY <1>5 DEF Against, Cycles, Pushes, Repairs
  <2> QED
    BY <1>2, <1>3, <2>1, <2>2, <2>3, PiecesStacked
<1>6. CASE o.mode = "long"
  <2>1. Return[o.mode] = <<"idle", "idle", "pullN", "pullN", "sample", "pullN">>
    BY <1>6 DEF Return
  <2>2. Depth(KindOf(o), reg.e) = 3
    BY <1>6 DEF Depth, KindOf
  <2>3. "pullN" \in S
    BY <1>6 DEF Against, Cycles, Pushes, Repairs
  <2> QED
    BY <1>2, <1>3, <2>1, <2>2, <2>3, PiecesStacked
<1> QED
  BY <1>1, <1>4, <1>5, <1>6

LEMMA InterruptStacked ==
  ASSUME NEW o \in Ops, o.does = "interrupt", NEW low \in BOOLEAN, NEW crosses \in BOOLEAN
  PROVE  /\ Stacked(Body(o, low, crosses)) = Depth(KindOf(o), reg.e)
         /\ Body(o, low, crosses) \in Seq(Cycles \ Against(o))
<1>1. Body(o, low, crosses) = Interrupt(o.mode)
  BY DEF Body
<1> DEFINE S == Cycles \ Against(o)
           start == IF o.mode = "software" THEN <<"fetch">> ELSE <<"read", "idle">>
           bank == Opt(~reg.e, "pushN")
           pushes == <<"push", "push", "push", "read", "sample", "read">>
<1>2. /\ "fetch" \in S /\ "read" \in S /\ "idle" \in S /\ "push" \in S /\ "pushN" \in S
      /\ "sample" \in S
  BY DEF Against, Cycles, Pulls, Repairs
<1>3. Depth(KindOf(o), reg.e) = IF reg.e THEN 3 ELSE 4
  BY DEF Depth, KindOf, FrameKind
<1>4. start \in Seq(S) /\ Stacked(start) = 0
  <2>1. <<"fetch">> \in Seq(S) /\ <<"read", "idle">> \in Seq(S)
    BY <1>2
  <2>2. start = <<"fetch">> \/ start = <<"read", "idle">>
    BY Zenon
  <2> HIDE DEF start, S
  <2> QED
    BY <2>1, <2>2, PiecesStacked
<1>5. bank \in Seq(S) /\ Stacked(bank) = IF reg.e THEN 0 ELSE 1
  <2>1. <<>> \in Seq(S) /\ <<"pushN">> \in Seq(S)
    BY <1>2
  <2>2. bank = IF reg.e THEN <<>> ELSE <<"pushN">>
    BY DEF Opt
  <2> HIDE DEF bank, S
  <2> QED
    BY <2>1, <2>2, PiecesStacked
<1>6. pushes \in Seq(S) /\ Stacked(pushes) = 3
  BY <1>2, PiecesStacked
<1>7. Interrupt(o.mode) = (start \o bank) \o pushes
  BY Zenon DEF Interrupt
<1> HIDE DEF start, bank, pushes, S
<1> DEFINE both == start \o bank
<1>8. both \in Seq(S) /\ Stacked(both) = IF reg.e THEN 0 ELSE 1
  BY <1>4, <1>5, StackedAfter
<1> HIDE DEF both
<1>9. both \o pushes \in Seq(S) /\ Stacked(both \o pushes) = Stacked(both) + Stacked(pushes)
  BY <1>6, <1>8, StackedAfter
<1> QED
  BY <1>1, <1>3, <1>6, <1>7, <1>8, <1>9 DEF S, both

\* Between its fetch and its end a call, a return or an interrupt moves the stack
\* pointer by the size of its frame.
LEMMA FramedBody ==
  ASSUME NEW o \in Ops, o.does \in Framed, NEW low \in BOOLEAN, NEW crosses \in BOOLEAN
  PROVE  LET body == Body(o, low, crosses)
         IN  /\ Stacked(body) = Depth(KindOf(o), reg.e) /\ body \in Seq(Cycles \ Against(o))
             /\ Stacked(<<"fetch">> \o body) = Depth(KindOf(o), reg.e)
             /\ <<"fetch">> \o body \in Seq(Cycles \ Against(o))
<1> DEFINE body == Body(o, low, crosses)
           S == Cycles \ Against(o)
<1>1. Stacked(body) = Depth(KindOf(o), reg.e) /\ body \in Seq(S)
  BY CallStacked, ReturnStacked, InterruptStacked DEF Framed
<1>2. "fetch" \in S
  BY DEF Against, Cycles, Pushes, Pulls
<1>3. Depth(KindOf(o), reg.e) \in Nat
  BY DEF Depth
<1> HIDE DEF body, S
<1>4. <<"fetch">> \in Seq(S) /\ Stacked(<<"fetch">>) = 0
  BY <1>2, PiecesStacked
<1>5. Stacked(<<"fetch">> \o body) = Stacked(<<"fetch">>) + Stacked(body)
  BY <1>1, <1>4, StackedAfter
<1>6. <<"fetch">> \o body \in Seq(S)
  BY <1>1, <1>4
<1> QED
  BY <1>1, <1>3, <1>4, <1>5, <1>6 DEF body, S

-----------------------------------------------------------------------------
LEMMA BeginStack ==
  ASSUME IInv, StackInv, Between, NEW o \in Ops, Begin(o), NEW body, body # <<>>, todo' = body,
         o.does \in Framed =>
           Stacked(body) = Depth(KindOf(o), reg.e) /\ body \in Seq(Cycles \ Against(o))
  PROVE  StackInv'
<1>1. /\ op' = o /\ reg' = reg /\ from' = reg.s /\ touched' = touched /\ touched = <<>>
      /\ frames' = frames \/ frames' = <<>>
  BY DEF Begin, StackInv, Between
<1>2. \A i \in 1 .. Len(frames') : FrameOK(frames'[i])
  <2>1. CASE frames' = frames
    BY <2>1 DEF StackInv
  <2>2. CASE frames' = <<>>
    BY <2>2
  <2> QED
    BY <1>1, <2>1, <2>2
<1>3. ASSUME o.does \in Framed
      PROVE  Walked'
  <2>1. reg.s \in Stack /\ reg.e \in BOOLEAN /\ (reg.e => reg.s \in Page1)
    BY NoOpFacts DEF IInv, TypeOK, PageOK, Registers, Between
  <2> DEFINE paged == reg.e /\ ~Repairs(o)
  <2>2. paged \in BOOLEAN /\ (paged => reg.s \in Page1)
    BY <2>1, Zenon
  <2>3. Paged' = paged
    BY <1>1 DEF Paged
  <2> HIDE DEF paged
  <2>4. Cell(paged, reg.s, 0) = reg.s
    BY <2>1, <2>2, CellHere
  <2>5. Len(touched') = 0
    <3>1. touched' = <<>>
      BY <1>1, Zenon
    <3>2. Len(<<>>) = 0
      OBVIOUS
    <3> QED
      BY <3>1, <3>2, Zenon
  <2>6. Depth(KindOf(o), reg.e) \in Nat
    BY DEF Depth
  <2>7. reg'.s = Cell(Paged, from, IF Up THEN Len(touched) ELSE 0 - Len(touched))'
    BY <1>1, <2>3, <2>4, <2>5
  <2>8. (Len(touched) + Stacked(todo) = Depth(KindOf(op), reg.e))'
    BY <1>1, <1>3, <2>5, <2>6
  <2> QED
    BY <1>1, <1>3, <2>1, <2>5, <2>7, <2>8 DEF Walked
<1>4. todo' # <<>>
  OBVIOUS
<1> QED
  BY <1>1, <1>2, <1>3, <1>4 DEF StackInv

LEMMA FetchStack == ASSUME IInv, StackInv, Fetch PROVE StackInv'
<1>1. PICK o \in Dispatched, low \in BOOLEAN, crosses \in BOOLEAN :
        todo' = <<"fetch">> \o Body(o, low, crosses) /\ Begin(o)
  BY DEF Fetch
<1> DEFINE body == <<"fetch">> \o Body(o, low, crosses)
<1>2. o \in Ops /\ Between
  BY DEF Ops, Fetch
<1>3. Body(o, low, crosses) \in Seq(Cycles)
  BY <1>2, BodyTyped
<1>4. body # <<>>
  <2>1. Len(body) = 1 + Len(Body(o, low, crosses)) /\ Len(Body(o, low, crosses)) \in Nat
    BY <1>3
  <2> QED
    BY <2>1
<1>5. o.does \in Framed =>
        Stacked(body) = Depth(KindOf(o), reg.e) /\ body \in Seq(Cycles \ Against(o))
  BY <1>2, FramedBody
<1>6. todo' = body
  BY <1>1
<1> HIDE DEF body
<1> QED
  BY <1>1, <1>2, <1>4, <1>5, <1>6, BeginStack

LEMMA EnterStack == ASSUME IInv, StackInv, EnterInterrupt PROVE StackInv'
<1> DEFINE o == HardwareInterrupt
           body == Body(o, FALSE, FALSE)
<1>1. o \in Ops /\ Between /\ Begin(o) /\ todo' = body
  BY DEF Ops, EnterInterrupt
<1>2. body # <<>>
  BY <1>1, BodyTyped DEF Ended
<1>3. o.does \in Framed =>
        Stacked(body) = Depth(KindOf(o), reg.e) /\ body \in Seq(Cycles \ Against(o))
  BY <1>1, FramedBody
<1> HIDE DEF body, o
<1> QED
  BY <1>1, <1>2, <1>3, BeginStack

\* A cycle of a call, a return or an interrupt moves S by one cell.
LEMMA MovedCell ==
  ASSUME IInv, todo # <<>>, Walked, Head(todo) \in StackCycles
  PROVE  Moved(Head(todo), reg.s) = Cell(Paged, reg.s, By(Head(todo)))
<1>1. Head(todo) \in Cycles \ Against(op)
  BY TailTyped DEF Walked
<1>2. CASE Paged
  <2>1. Head(todo) \in Cycles \ Wandering
    BY <1>2, TailTyped DEF Paged, IInv, PageOK
  <2>2. Head(todo) \in {"push", "pull", "pullP"}
    BY <2>1 DEF Wandering, StackCycles, Pushes, Pulls
  <2> QED
    BY <1>2, <2>2 DEF Moved, Cell, Paged
<1>3. CASE ~Paged
  <2>1. ~(reg.e /\ Head(todo) \in {"push", "pull", "pullP"})
    BY <1>1, <1>3 DEF Paged, Against
  <2> QED
    BY <1>3, <2>1, Zenon DEF Moved, Cell
<1> QED
  BY <1>2, <1>3

\* One cycle further.
LEMMA WalkedOn ==
  ASSUME IInv, todo # <<>>, Walked, NEW r \in AfterCycle(Head(todo))
  PROVE  /\ AllTouched \in Seq(Stack)
         /\ Len(AllTouched) + Stacked(Tail(todo)) = Depth(KindOf(op), reg.e)
         /\ \A i \in 1 .. Len(AllTouched) : AllTouched[i] = Cell(Paged, from, IF Up THEN i ELSE 1 - i)
         /\ r.s = Cell(Paged, from, IF Up THEN Len(AllTouched) ELSE 0 - Len(AllTouched))
         /\ Tail(todo) \in Seq(Cycles \ Against(op))
<1> DEFINE cycle == Head(todo)
           n == Len(touched)
           rest == Stacked(Tail(todo))
           d == Depth(KindOf(op), reg.e)
<1>1. /\ todo \in Seq(Cycles) /\ touched \in Seq(Stack) /\ reg \in Registers /\ reg.s \in Stack
      /\ from \in Stack /\ Paged \in BOOLEAN /\ n \in Nat
  <2>1. Paged \in BOOLEAN
    BY Zenon DEF Paged
  <2> QED
    BY <2>1 DEF IInv, TypeOK, Registers
<1>2. cycle \in Cycles \ Against(op) /\ Tail(todo) \in Seq(Cycles \ Against(op))
  BY TailTyped DEF Walked
<1>3. r.s = Moved(cycle, reg.s)
  BY <1>1, CycleTyped DEF IInv
<1>4. /\ n + Stacked(todo) = d
      /\ \A i \in 1 .. n : touched[i] = Cell(Paged, from, IF Up THEN i ELSE 1 - i)
      /\ reg.s = Cell(Paged, from, IF Up THEN n ELSE 0 - n)
  BY DEF Walked
<1>5. rest \in Nat /\ Stacked(todo) = rest + IF cycle \in StackCycles THEN 1 ELSE 0
  <2>1. Tail(todo) \in Seq(Cycles)
    BY <1>1, TailTyped
  <2> QED
    BY <1>1, <2>1, StackedTail, StackAtFinite
<1>6. AllTouched \in Seq(Stack)
  BY TouchedTyped DEF AllTouched
<1> HIDE DEF cycle, n, rest, d
<1>7. CASE cycle \notin StackCycles
  <2>1. Touched(cycle) = <<>> /\ By(cycle) = 0 /\ cycle \notin {"push", "pull", "pullP"}
    BY <1>7 DEF StackCycles, Pushes, Pulls, Touched, By
  <2>2. AllTouched = touched
    BY <1>1, <2>1 DEF AllTouched, cycle
  <2>3. Moved(cycle, reg.s) = (reg.s + 0) % Size
    BY <2>1 DEF Moved
  <2>4. Cell(FALSE, reg.s, 0) = reg.s
    BY <1>1, CellHere
  <2>5. r.s = reg.s
    BY <1>3, <2>3, <2>4, Zenon DEF Cell
  <2>6. n + rest = d
    BY <1>1, <1>4, <1>5, <1>7
  <2> QED
    BY <1>2, <1>4, <1>6, <2>2, <2>5, <2>6 DEF n, rest, d
<1>8. CASE cycle \in Pushes
  <2>1. ~Up /\ cycle \in StackCycles /\ By(cycle) = -1 /\ Touched(cycle) = <<reg.s>>
    BY <1>2, <1>8 DEF Up, Against, StackCycles, By, Touched
  <2>2. AllTouched = touched \o <<reg.s>>
    BY <2>1, Zenon DEF AllTouched, cycle
  <2>3. Len(AllTouched) = n + 1 /\ AllTouched[n + 1] = reg.s
        /\ \A i \in 1 .. n : AllTouched[i] = touched[i]
    BY <1>1, <2>2 DEF n
  <2>4. reg.s = Cell(Paged, from, 0 - n) /\ 0 - n = 1 - (n + 1) /\ (0 - n) + -1 = 0 - (n + 1)
    BY <1>1, <1>4, <2>1
  <2>5. r.s = Cell(Paged, reg.s, -1)
    BY <1>3, <2>1, MovedCell DEF cycle
  <2>6. r.s = Cell(Paged, from, 0 - (n + 1))
    <3>1. 0 - n \in Int /\ -1 \in Int /\ from \in Int
      BY <1>1, StackPages
    <3> QED
      BY <1>1, <2>4, <2>5, <3>1, CellSteps
  <2>7. \A i \in 1 .. n + 1 : AllTouched[i] = Cell(Paged, from, 1 - i)
    <3> TAKE i \in 1 .. n + 1
    <3>1. CASE i = n + 1
      BY <2>3, <2>4, <3>1
    <3>2. CASE i # n + 1
      <4>1. i \in 1 .. n
        BY <1>1, <3>2
      <4> QED
        BY <1>4, <2>1, <2>3, <4>1
    <3> QED
      BY <3>1, <3>2
  <2>8. n + 1 + rest = d
    BY <1>1, <1>4, <1>5, <2>1
  <2> QED
    BY <1>2, <1>6, <2>1, <2>3, <2>6, <2>7, <2>8 DEF rest, d
<1>9. CASE cycle \in Pulls
  <2>1. Up /\ cycle \in StackCycles /\ By(cycle) = 1 /\ Touched(cycle) = <<r.s>>
    BY <1>2, <1>3, <1>9 DEF Up, Against, StackCycles, By, Touched, Pushes, Pulls
  <2>2. AllTouched = touched \o <<r.s>>
    BY <2>1, Zenon DEF AllTouched, cycle
  <2>3. Len(AllTouched) = n + 1 /\ AllTouched[n + 1] = r.s
        /\ \A i \in 1 .. n : AllTouched[i] = touched[i]
    BY <1>1, <2>2 DEF n
  <2>4. reg.s = Cell(Paged, from, n)
    BY <1>1, <1>4, <2>1
  <2>5. r.s = Cell(Paged, reg.s, 1)
    BY <1>3, <2>1, MovedCell DEF cycle
  <2>6. r.s = Cell(Paged, from, n + 1)
    <3>1. n \in Int /\ from \in Int
      BY <1>1, StackPages
    <3> QED
      BY <1>1, <2>4, <2>5, <3>1, CellSteps
  <2>7. \A i \in 1 .. n + 1 : AllTouched[i] = Cell(Paged, from, i)
    <3> TAKE i \in 1 .. n + 1
    <3>1. CASE i = n + 1
      BY <2>3, <2>6, <3>1
    <3>2. CASE i # n + 1
      <4>1. i \in 1 .. n
        BY <1>1, <3>2
      <4> QED
        BY <1>4, <2>1, <2>3, <4>1
    <3> QED
      BY <3>1, <3>2
  <2>8. n + 1 + rest = d
    BY <1>1, <1>4, <1>5, <2>1
  <2> QED
    BY <1>2, <1>6, <2>1, <2>3, <2>6, <2>7, <2>8 DEF rest, d
<1> QED
  BY <1>7, <1>8, <1>9 DEF StackCycles

LEMMA LastCycleStack == ASSUME IInv, StackInv, LastCycle PROVE StackInv'
<1>1. /\ todo # <<>> /\ Head(todo) = "sample" /\ todo' = Tail(todo)
      /\ UNCHANGED <<reg, op, from, touched, frames>>
  BY DEF LastCycle
<1>2. todo \in Seq(Cycles) /\ Tail(todo) \in Seq(Cycles) /\ Tail(todo) # <<>>
  BY <1>1, TailTyped, EndedTail DEF IInv, TypeOK
<1>3. ASSUME op.does \in Framed
      PROVE  Walked'
  <2>1. Walked
    BY <1>1, <1>3 DEF StackInv
  <2>2. Head(todo) \notin StackCycles
    BY <1>1 DEF StackCycles, Pushes, Pulls
  <2>3. Stacked(todo) = Stacked(todo')
    <3>1. Stacked(todo) = Stacked(Tail(todo)) + 0 /\ Stacked(Tail(todo)) \in Nat
      BY <1>1, <1>2, <2>2, StackedTail, StackAtFinite
    <3> QED
      BY <1>1, <3>1
  <2>4. todo' \in Seq(Cycles \ Against(op))
    BY <1>1, <2>1, TailTyped DEF Walked
  <2> QED
    BY <1>1, <2>1, <2>3, <2>4 DEF Walked, Paged, Up
<1> QED
  BY <1>1, <1>2, <1>3 DEF StackInv

LEMMA CycleStack == ASSUME IInv, StackInv, Cycle PROVE StackInv'
<1>1. /\ Len(todo) > 1 /\ todo' = Tail(todo) /\ touched' = AllTouched
      /\ reg' \in AfterCycle(Head(todo)) /\ UNCHANGED <<op, from, frames>>
  BY DEF Cycle
<1>2. todo \in Seq(Cycles) /\ todo # <<>> /\ Tail(todo) # <<>> /\ reg'.e = reg.e
  BY <1>1, EndedTail, CycleTyped DEF IInv, TypeOK
<1>3. ASSUME op.does \in Framed
      PROVE  Walked'
  <2>1. Walked
    BY <1>2, <1>3 DEF StackInv
  <2> DEFINE cells == AllTouched
  <2>2. /\ Len(cells) + Stacked(Tail(todo)) = Depth(KindOf(op), reg.e)
        /\ \A i \in 1 .. Len(cells) : cells[i] = Cell(Paged, from, IF Up THEN i ELSE 1 - i)
        /\ reg'.s = Cell(Paged, from, IF Up THEN Len(cells) ELSE 0 - Len(cells))
        /\ Tail(todo) \in Seq(Cycles \ Against(op))
    BY <1>1, <1>2, <2>1, WalkedOn
  <2>3. Paged' = Paged /\ Up' = Up
    BY <1>1, <1>2 DEF Paged, Up
  <2>4. touched' = cells
    BY <1>1
  <2> HIDE DEF cells
  <2> QED
    BY <1>1, <1>2, <2>1, <2>2, <2>3, <2>4 DEF Walked
<1> QED
  BY <1>1, <1>2, <1>3 DEF StackInv

-----------------------------------------------------------------------------
(***************************************************************************)
(* The last cycle.                                                         *)
(***************************************************************************)
LEMMA OneLeft ==
  ASSUME NEW s \in Seq(Cycles), Len(s) = 1
  PROVE  s # <<>> /\ Tail(s) = <<>>
<1>1. s # <<>>
  <2>1. Len(<<>>) = 0
    OBVIOUS
  <2>2. s = <<>> => Len(s) = 0
    BY <2>1, Zenon
  <2> QED
    BY <2>2
<1> DEFINE t == Tail(s)
<1>2. t \in Seq(Cycles) /\ Len(t) = Len(s) - 1
  BY <1>1
<1> HIDE DEF t
<1>3. t = <<>>
  BY <1>2
<1> QED
  BY <1>1, <1>3 DEF t

\* What the whole instruction has touched and where it leaves S.
LEMMA WalkedOut ==
  ASSUME IInv, StackInv, End, op.does \in Framed
  PROVE  LET n == Depth(KindOf(op), reg.e)
             k == IF Up THEN n ELSE 0 - n
         IN  /\ AllTouched \in Seq(Stack) /\ Len(AllTouched) = n /\ n \in 2 .. 4
             /\ \A i \in 1 .. n : AllTouched[i] = Cell(Paged, from, IF Up THEN i ELSE 1 - i)
             /\ reg.e => from \in Page1
             /\ (reg.e /\ Repairs(op) => from + k \in Page1) => reg'.s = Cell(reg.e, from, k)
<1> DEFINE n == Depth(KindOf(op), reg.e)
           k == IF Up THEN n ELSE 0 - n
<1>1. Len(todo) = 1 /\ todo \in Seq(Cycles)
  BY DEF End, IInv, TypeOK
<1>2. todo # <<>> /\ Tail(todo) = <<>>
  BY <1>1, OneLeft
<1>3. Walked
  BY <1>2 DEF StackInv
<1>4. PICK r \in AfterCycle(Head(todo)) : reg' \in Effect(op, r)
  BY DEF End
<1>5. n \in 2 .. 4
  BY DEF Depth
<1>6. Stacked(Tail(todo)) = 0
  BY <1>2, PiecesStacked, Zenon
<1>7. /\ AllTouched \in Seq(Stack) /\ Len(AllTouched) = n
      /\ \A i \in 1 .. Len(AllTouched) : AllTouched[i] = Cell(Paged, from, IF Up THEN i ELSE 1 - i)
      /\ r.s = Cell(Paged, from, IF Up THEN Len(AllTouched) ELSE 0 - Len(AllTouched))
  BY <1>2, <1>3, <1>5, <1>6, WalkedOn
<1>8. r.s = Cell(Paged, from, k)
  BY <1>7, Zenon
<1>9. r \in Registers /\ r.e = reg.e /\ reg.e \in BOOLEAN /\ from \in Stack /\ k \in Int
  BY <1>5, CycleTyped DEF IInv, TypeOK, Registers
<1> HIDE DEF n, k
<1>10. ASSUME reg.e /\ Repairs(op) => from + k \in Page1
       PROVE  reg'.s = Cell(reg.e, from, k)
  <2>1. reg' = IF Repairs(op) THEN SetS(r, r.s) ELSE r
    BY <1>4 DEF Effect, Framed
  <2>2. CASE reg.e /\ Repairs(op)
    <3>1. from + k \in Page1 /\ Paged = FALSE
      BY <1>10, <2>2 DEF Paged
    <3>2. r.s = from + k /\ Cell(reg.e, from, k) = from + k
      BY <1>8, <1>9, <3>1, CellInside
    <3>3. InPage(r.s) = r.s
      <4>1. r.s \in Stack /\ r.s \in Page1 /\ r.s \in Int
        BY <3>1, <3>2, StackPages
      <4>2. Cell(TRUE, r.s, 0) = r.s
        BY <4>1, CellHere
      <4>3. r.s + 0 = r.s
        BY <4>1
      <4> QED
        BY <4>2, <4>3, Zenon DEF Cell
    <3>4. reg'.s = InPage(r.s)
      BY <1>9, <2>1, <2>2 DEF SetS, Registers
    <3> QED
      BY <3>2, <3>3, <3>4
  <2>3. CASE ~(reg.e /\ Repairs(op))
    <3>1. Paged = reg.e
      BY <1>9, <2>3 DEF Paged
    <3>2. reg'.s = r.s
      BY <1>9, <2>1, <2>3 DEF SetS, Registers
    <3> QED
      BY <1>8, <3>1, <3>2
  <2> QED
    BY <2>2, <2>3
<1> QED
  BY <1>3, <1>5, <1>7, <1>10 DEF n, k, Walked

\* Where nothing wraps, instructions that keep to the page and others agree.
LEMMA SameCell ==
  ASSUME NEW p \in BOOLEAN, NEW e \in BOOLEAN, NEW s \in Stack, NEW k \in Int,
         p = e \/ s + k \in Page1
  PROVE  Cell(p, s, k) = Cell(e, s, k)
BY CellInside

LEMMA FrameLeft ==
  ASSUME IInv, StackInv, End, op.does \in {"call", "interrupt"}
  PROVE  FrameOK(Frame(op, reg'.s, AllTouched))
<1> DEFINE n == Depth(KindOf(op), reg.e)
           f == Frame(op, reg'.s, AllTouched)
<1>1. op.does \in Framed /\ ~Up /\ KindOf(op) = FrameKind(op)
  BY DEF Framed, Up, KindOf
<1>2. /\ AllTouched \in Seq(Stack) /\ Len(AllTouched) = n /\ n \in 2 .. 4
      /\ \A i \in 1 .. n : AllTouched[i] = Cell(Paged, from, 1 - i)
      /\ reg.e => from \in Page1
      /\ (reg.e /\ Repairs(op) => from + (0 - n) \in Page1) => reg'.s = Cell(reg.e, from, 0 - n)
  BY <1>1, WalkedOut
<1>3. from \in Stack /\ from \in Int /\ reg.e \in BOOLEAN /\ Paged \in BOOLEAN
  <2>1. Paged \in BOOLEAN
    BY Zenon DEF Paged
  <2> QED
    BY <2>1, StackPages DEF IInv, TypeOK, Registers
<1>4. /\ f.straddles = Straddles(op, from, Len(AllTouched)) /\ f.e = reg.e /\ f.from = from
      /\ f.cells = AllTouched /\ f.left = reg'.s /\ f.kind = FrameKind(op)
  BY Zenon DEF Frame
<1>5. FrameKind(op) = "long" => Repairs(op) /\ n = 3
  BY <1>1, NoOpFacts DEF FrameKind, Repairs, Depth
<1> HIDE DEF n, f
<1> SUFFICES ASSUME ~f.straddles PROVE FrameOK(f)
  BY DEF FrameOK, f
<1>6. PageSize \in Int /\ Page1 = PageSize .. 2 * PageSize - 1
  BY StackAssumption DEF Page1
<1>7. reg.e /\ Repairs(op) => from - n >= PageSize
  <2>1. ~Straddles(op, from, n)
    BY <1>2, <1>4, Zenon
  <2> QED
    BY <1>2, <1>3, <1>6, <2>1 DEF Straddles
<1>8. ASSUME NEW i \in 0 .. n, reg.e /\ Repairs(op)
      PROVE  from - i \in Page1 /\ from + (0 - i) \in Page1
  BY <1>2, <1>3, <1>6, <1>7, <1>8
<1>9. ~(reg.e /\ Repairs(op)) => Paged = reg.e
  BY <1>3 DEF Paged
<1>10. \A i \in 1 .. n : AllTouched[i] = Cell(reg.e, from, 1 - i)
  <2> TAKE i \in 1 .. n
  <2>1. 1 - i \in Int /\ i - 1 \in 0 .. n /\ from + (1 - i) = from - (i - 1)
    BY <1>2, <1>3
  <2>2. Paged = reg.e \/ from + (1 - i) \in Page1
    BY <1>8, <1>9, <2>1
  <2>3. Cell(Paged, from, 1 - i) = Cell(reg.e, from, 1 - i)
    BY <1>3, <2>1, <2>2, SameCell
  <2> QED
    BY <1>2, <2>3
<1>11. reg'.s = Cell(reg.e, from, -n)
  <2>1. n \in 0 .. n /\ 0 - n = -n
    BY <1>2
  <2> QED
    BY <1>2, <1>8, <2>1
<1>12. f.kind = "long" /\ f.e => f.from - 3 >= PageSize
  BY <1>4, <1>5, <1>7
<1> QED
  BY <1>1, <1>2, <1>4, <1>10, <1>11, <1>12 DEF FrameOK, n

LEMMA EndStack == ASSUME IInv, StackInv, End PROVE StackInv'
<1>1. todo' = <<>> /\ touched' = <<>> /\ frames' = FramesAfter(reg'.s, AllTouched)
  BY Zenon DEF End
<1>2. /\ frames \in Seq(Frames) /\ \A i \in 1 .. Len(frames) : FrameOK(frames[i])
  BY DEF IInv, TypeOK, StackInv
<1>3. \A i \in 1 .. Len(frames') : FrameOK(frames'[i])
  <2>1. CASE op.does \in {"call", "interrupt"}
    <3> DEFINE f == Frame(op, reg'.s, AllTouched)
               all == <<f>> \o frames
               m == IF Len(all) > 2 THEN 2 ELSE Len(all)
    <3>1. FrameOK(f)
      BY <2>1, FrameLeft
    <3>2. frames' = SubSeq(all, 1, m)
      BY <1>1, <2>1 DEF FramesAfter, Newest
    <3> HIDE DEF f
    <3>3. /\ Len(all) \in Nat /\ Len(all) = Len(frames) + 1
          /\ all[1] = f /\ \A i \in 2 .. Len(all) : all[i] = frames[i - 1]
      BY <1>2
    <3>4. \A i \in 1 .. Len(all) : FrameOK(all[i])
      <4> TAKE i \in 1 .. Len(all)
      <4>1. CASE i = 1
        BY <3>1, <3>3, <4>1
      <4>2. CASE i # 1
        <5>1. i \in 2 .. Len(all) /\ i - 1 \in 1 .. Len(frames)
          BY <3>3, <4>2
        <5> QED
          BY <1>2, <3>3, <5>1
      <4> QED
        BY <4>1, <4>2
    <3>5. m \in 1 .. Len(all)
      BY <3>3, <1>2
    <3> HIDE DEF m
    <3>6. Len(frames') = m /\ \A i \in 1 .. m : frames'[i] = all[i]
      <4>1. all \in Seq(Frames \cup {f})
        BY <1>2
      <4> HIDE DEF all
      <4> QED
        BY <3>2, <3>3, <3>5, <4>1
    <3> QED
      BY <3>3, <3>4, <3>5, <3>6
  <2>2. CASE op.does \notin {"call", "interrupt"} /\ Takes(op, from)
    <3>1. frames # <<>> /\ frames' = Tail(frames)
      BY <1>1, <2>2 DEF FramesAfter, Takes
    <3>2. Len(frames') = Len(frames) - 1 /\ \A i \in 1 .. Len(frames') : frames'[i] = frames[i + 1]
      BY <1>2, <3>1
    <3> QED
      BY <1>2, <3>2
  <2>3. CASE op.does \notin {"call", "interrupt"} /\ ~Takes(op, from)
    BY <1>1, <1>2, <2>3 DEF FramesAfter
  <2> QED
    BY <2>1, <2>2, <2>3
<1> QED
  BY <1>1, <1>3 DEF StackInv

LEMMA InitStack == Init => StackInv
BY DEF Init, StackInv

LEMMA NextStack == ASSUME IInv, StackInv, [Next]_vars PROVE StackInv'
<1>1. CASE Waiting \/ Reset
  BY <1>1 DEF Waiting, Reset, Between, history, StackInv
<1>2. CASE UNCHANGED vars
  BY <1>2 DEF vars, history, StackInv, Walked, Paged, Up
<1> QED
  BY <1>1, <1>2, FetchStack, EnterStack, LastCycleStack, CycleStack, EndStack DEF Next, Stopped

LEMMA StackInvariant == Spec => []StackInv
<1>1. IInv /\ StackInv /\ [Next]_vars => StackInv'
  BY NextStack
<1> QED
  BY InitStack, <1>1, Invariant, PTL DEF Spec

\* A return that finds S where its call or interrupt has left it pulls what that one
\* has pushed and leaves S where it was: Processor65816's RTS, RTL and RTI undo JSR,
\* JSL, BRK, COP and the entry into an interrupt, byte by byte, in both modes and at
\* any border of the stack, for any number and size of pages.
THEOREM ReturnsTakeFrames == Spec => ReturnTakesFrame
<1> DEFINE Undone == AllTouched = Seqs!Reverse(Head(frames).cells) /\ reg'.s = Head(frames).from
<1>1. ASSUME IInv, StackInv, End, Takes(op, from), ~Head(frames).straddles
      PROVE  Undone
  <2> DEFINE f == Head(frames)
             n == Depth(KindOf(op), reg.e)
  <2>1. /\ op.does = "return" /\ frames # <<>> /\ f.kind = op.mode /\ f.e = reg.e
        /\ f.left = from
    BY <1>1 DEF Takes
  <2>2. f \in Frames /\ FrameOK(f)
    <3>1. frames \in Seq(Frames) /\ \A i \in 1 .. Len(frames) : FrameOK(frames[i])
      BY <1>1 DEF IInv, TypeOK, StackInv
    <3>2. f = frames[1] /\ 1 \in 1 .. Len(frames)
      BY <2>1, <3>1
    <3> QED
      BY <3>1, <3>2
  <2>3. f.from \in Stack /\ f.from \in Int /\ f.cells \in Seq(Stack) /\ f.e \in BOOLEAN
    BY <2>2, StackPages DEF Frames
  <2>4. op.does \in Framed /\ Up /\ KindOf(op) = f.kind
    BY <2>1 DEF Framed, Up, KindOf
  <2>5. /\ AllTouched \in Seq(Stack) /\ Len(AllTouched) = n /\ n \in 2 .. 4
        /\ \A i \in 1 .. n : AllTouched[i] = Cell(Paged, from, i)
        /\ (reg.e /\ Repairs(op) => from + n \in Page1) => reg'.s = Cell(reg.e, from, n)
    BY <1>1, <2>4, WalkedOut
  <2>6. /\ f.e => f.from \in Page1
        /\ Len(f.cells) = n
        /\ \A i \in 1 .. n : f.cells[i] = Cell(f.e, f.from, 1 - i)
        /\ from = Cell(f.e, f.from, -n)
        /\ f.kind = "long" /\ f.e => f.from - 3 >= PageSize
    <3>1. Depth(f.kind, f.e) = n
      BY <2>1, <2>4
    <3> HIDE DEF n, f
    <3> QED
      BY <1>1, <2>1, <2>2, <3>1 DEF FrameOK, f
  <2>7. from \in Stack /\ from \in Int /\ Paged \in BOOLEAN
    <3>1. Paged \in BOOLEAN
      BY Zenon DEF Paged
    <3> QED
      BY <1>1, <3>1, StackPages DEF IInv, TypeOK
  <2>8. Repairs(op) => f.kind = "long" /\ n = 3
    BY <2>1, <2>4 DEF Repairs, Depth
  <2>9. -n \in Int /\ \A i \in 1 .. n : i \in Int /\ -n + i \in Int /\ -n + i = 1 - (n + 1 - i)
                                     /\ n + 1 - i \in 1 .. n
    BY <2>5
  <2> HIDE DEF n, f
  <2>10. ASSUME NEW i \in 1 .. n
         PROVE  Cell(f.e, from, i) = Cell(f.e, f.from, -n + i)
    <3>1. PICK m \in Int : m = -n
      BY <2>9
    <3>2. i \in Int
      BY <2>9
    <3>3. Cell(f.e, Cell(f.e, f.from, m), i) = Cell(f.e, f.from, m + i)
      BY <2>3, <3>2, CellSteps
    <3> QED
      BY <2>6, <3>1, <3>3, Zenon
  <2>11. ASSUME reg.e, Repairs(op), NEW i \in 1 .. n
         PROVE  from + i \in Page1
    <3>1. PageSize \in Int /\ Page1 = PageSize .. 2 * PageSize - 1
      BY StackAssumption DEF Page1
    <3>2. f.from + -n \in Page1
      BY <2>1, <2>3, <2>6, <2>8, <2>11, <3>1
    <3>3. from = f.from + -n
      BY <2>3, <2>6, <2>9, <3>2, CellInside
    <3>4. f.from \in Page1
      BY <2>1, <2>6, <2>11
    <3> QED
      BY <2>3, <2>5, <2>9, <3>1, <3>2, <3>3, <3>4
  <2>12. ASSUME NEW i \in 1 .. n
         PROVE  AllTouched[i] = f.cells[n + 1 - i]
    <3>1. Paged = f.e \/ from + i \in Page1
      BY <2>1, <2>3, <2>11 DEF Paged
    <3>2. Cell(Paged, from, i) = Cell(f.e, from, i)
      BY <2>3, <2>7, <2>9, <3>1, SameCell
    <3>3. f.cells[n + 1 - i] = Cell(f.e, f.from, 1 - (n + 1 - i))
      BY <2>6, <2>9
    <3> QED
      BY <2>5, <2>9, <2>10, <3>2, <3>3
  <2>13. reg'.s = f.from
    <3>1. n \in 1 .. n /\ -n + n = 0
      BY <2>5
    <3>2. reg'.s = Cell(f.e, from, n)
      BY <2>1, <2>5, <2>11, <3>1
    <3>3. Cell(f.e, f.from, 0) = f.from
      BY <2>3, <2>6, CellHere
    <3> QED
      BY <2>10, <3>1, <3>2, <3>3
  <2>14. AllTouched = Seqs!Reverse(f.cells)
    <3>1. Seqs!Reverse(f.cells) = [i \in 1 .. n |-> f.cells[(n - i) + 1]]
      BY <2>6, Zenon DEF Seqs!Reverse
    <3>2. AllTouched = [i \in 1 .. n |-> AllTouched[i]]
      BY <2>5
    <3>3. \A i \in 1 .. n : (n - i) + 1 = n + 1 - i
      BY <2>5
    <3> QED
      BY <2>12, <3>1, <3>2, <3>3
  <2> QED
    BY <2>13, <2>14 DEF f
<1>2. IInv /\ StackInv /\ [Next]_vars =>
        [End /\ Takes(op, from) /\ ~Head(frames).straddles => Undone]_vars
  BY <1>1, Zenon
<1> QED
  BY <1>2, Invariant, StackInvariant, PTL DEF Spec, ReturnTakesFrame

=============================================================================
